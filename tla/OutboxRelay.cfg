SPECIFICATION FairSpec
CONSTANTS
    Records = {d1, d2, d3}
    Instances = {i1}
    Cycles = {k1, k2}
    BatchSize = 2
    Times = {0}
    Faults = {"query", "crash", "search", "redeliver", "broker"}
    MaxFaults = 2
    NoRecord = NoRecord
INVARIANTS
    TypeOK
    OneCycleAtATime
    BatchIsPending
    EmittedOncePerInstance
    NeverMarkedUnsent
PROPERTIES
    EventuallyIndexed
