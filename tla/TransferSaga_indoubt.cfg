SPECIFICATION Spec
CONSTANTS
    alice = alice
    bob = bob
    carol = carol
    Users = {alice, bob, carol}
    Transfers = {t1, t2, t3}
    Amounts <- MCAmounts
    Funding <- MCFunding
    Faults = {"transferDb", "transferAck", "creditDb", "creditAck", "refundDb", "refundAck",
              "crash"}
    NoTransfer = NoTransfer
    NoRequest = NoRequest
SYMMETRY Symmetry
INVARIANTS
    NoOverdraft
    LockedReadIsCurrent
    NoMoneyIsDestroyed
    LocksHaveHolders
