SPECIFICATION FairSpec
CONSTANTS
    u = u
    g = g
    n = n
    a1 = a1
    a2 = a2
    Processes = {u, g, n, a1, a2}
    Service <- MCService
    Names = {"user", "user-grpc", "audit"}
    Registers <- MCRegisters
    Needs <- MCNeeds
    FallsBack = {"notification"}
    Gateway = "gateway"
    Asked = "audit"
    Tries = 2
    Faults = {"stop", "sick", "consul"}
    MaxFaults = 1
    Nowhere = Nowhere
    Localhost = Localhost
CONSTRAINT Apart
INVARIANTS
    TypeOK
    StartedInOrder
    ListedWhileWell
PROPERTIES
    BootEnds
    AuditIsFoundAgain
