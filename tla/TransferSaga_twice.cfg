SPECIFICATION Spec
CONSTANTS
    alice = alice
    bob = bob
    carol = carol
    Users = {alice, bob, carol}
    Transfers = {t1}
    Amounts <- MCAmounts
    Funding <- MCFunding
    Faults = {"creditAck"}
    NoTransfer = NoTransfer
    NoRequest = NoRequest
PROPERTIES
    SettledIsFinal
