SPECIFICATION FairSpec
CONSTANTS
    Transfers = {t1, t2}
    Consumers = {c1}
    Reactions = {"retry"}
    Faults = {"crash"}
    MaxFaults = 1
    NoTransfer = NoTransfer
PROPERTIES
    EventuallyAudited
