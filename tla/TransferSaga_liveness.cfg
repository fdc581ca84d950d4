SPECIFICATION FairSpec
CONSTANTS
    alice = alice
    bob = bob
    carol = carol
    Users = {alice, bob, carol}
    Transfers = {t1, t2}
    Amounts <- MCAmounts
    Funding <- MCFunding
    Faults = {"transferDb", "creditDb"}
    NoTransfer = NoTransfer
    NoRequest = NoRequest
INVARIANTS
    PendingHasSaga
PROPERTIES
    DeductedIsSettled
    LocksAreReleased
