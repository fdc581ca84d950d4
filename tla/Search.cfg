SPECIFICATION FairSpec
CONSTANTS
    alice = alice
    bob = bob
    carol = carol
    t1 = t1
    r1 = r1
    r2 = r2
    r3 = r3
    Users = {alice, bob, carol}
    Transfers = {t1}
    Parties <- MCParties
    Day <- MCDay
    Services = {"wallet", "gateway"}
    Requests = {r1, r2, r3}
    Wanted <- MCWanted
    Faults = {"search", "redis", "slow"}
    MaxFaults = 1
    NoRequest = NoRequest
    NoEntry = NoEntry
INVARIANTS
    TypeOK
    OneFetchPerKey
    AnswersTheAsker
    IndexIsMapped
PROPERTIES
    EverySearchEnds
CHECK_DEADLOCK FALSE
