SPECIFICATION FairSpec
CONSTANTS
    alice = alice
    bob = bob
    carol = carol
    t1 = t1
    r1 = r1
    r2 = r2
    r3 = r3
    Users = {alice, bob, carol}
    Transfers = {t1}
    Parties <- MCParties
    Day <- MCDay
    Services = {"wallet", "gateway"}
    Requests = {r1, r2, r3}
    Wanted <- MCWanted
    Faults = {}
    MaxFaults = 0
    NoRequest = NoRequest
    NoEntry = NoEntry
PROPERTIES
    StatsCountTransfers
CHECK_DEADLOCK FALSE
