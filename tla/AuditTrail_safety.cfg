SPECIFICATION FairSpec
CONSTANTS
    Transfers = {t1, t2}
    Consumers = {c1, c2}
    Reactions = {"retry", "skip"}
    Faults = {"mongo", "crash", "rebalance", "duplicate"}
    MaxFaults = 3
    NoTransfer = NoTransfer
INVARIANTS
    TypeOK
    CountedOnce
    StatsFollowTrail
    CommittedIsAudited
PROPERTIES
    AuditedWithoutFaults
    ImplementsBook
