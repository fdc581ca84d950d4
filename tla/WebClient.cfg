SPECIFICATION Spec
CONSTANTS
    alice = alice
    bob = bob
    p1 = p1
    p2 = p2
    u1 = u1
    w1 = w1
    Users = {alice, bob}
    Settled = {alice}
    ProfileConsumers = {u1, u2}
    WalletConsumers = {w1}
    BalanceQueries = {b1}
    Patches = {p1, p2}
    Target <- MCTarget
    Fields = {"firstName", "email"}
    Named <- MCNamed
    Email <- MCEmail
    NoPatch = NoPatch
    Reactions = {"retry", "skip"}
    Faults = {"auth", "db", "redeliver", "api", "expired", "socket", "grpc"}
    MaxFaults = 1
    Pages = {"overview", "wallet"}
    Keys = {"balance"}
    Transfers = {t1}
    Nobody = Nobody
    NoData = NoData
    NoQuery = NoQuery
    NoTransfer = NoTransfer
    MaxSignIns = 2
CONSTRAINT Apart
INVARIANTS
    TypeOK
    NoAccountForgotten
    OneUserPerDocument
    CurrentWhenQuiet
PROPERTIES
    OnlyOverlappingUpdatesAreLost
