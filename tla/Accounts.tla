------------------------------ MODULE Accounts ------------------------------
(***************************************************************************)
(* What the three services that own a user's data do with it: the auth     *)
(* service registers the user and announces user.created, the user service *)
(* makes a profile of the event and patches it, the wallet service makes a *)
(* wallet of the event, or of the first query of the balance.              *)
(*                                                                         *)
(* Kafka is external: a message stays in the topic of a consumer group     *)
(* until a handler is through with it, and two instances of a service may  *)
(* have the same message in hand while the partition changes its owner.    *)
(***************************************************************************)
EXTENDS Integers, FiniteSets

CONSTANTS
    Users,             \* the users, each with an e-mail address of its own
    Settled,           \* those that have a profile and a wallet at the start
    ProfileConsumers,  \* the instances of the user service
    WalletConsumers,   \* the instances of the wallet service
    BalanceQueries,    \* the queries of a balance that may run at a time
    Patches,           \* the profile updates of a behaviour
    Target,            \* Target[p]: the user whose profile p updates
    Fields,            \* the columns of a profile that a patch may name, the e-mail one of them
    Named,             \* Named[p]: the fields that p names
    Email,             \* Email[p]: the user whose e-mail address p sets, if it names the column
    NoPatch,           \* the origin of a field nobody has patched
    Reactions,         \* what Kafka may do when a handler throws
    Faults,            \* the faults that may happen
    MaxFaults          \* how many faults a behaviour has at most

(***************************************************************************)
(* "auth": the auth service stops, or its Kafka client gives up, before    *)
(* the broker has the event.  "db": a query of a consumer throws, whether  *)
(* or not it has been carried out.  "redeliver": a message comes again.    *)
(***************************************************************************)
AccountFaultKinds == {"auth", "db", "redeliver"}

Groups == {"profile", "wallet"}
Consumers == ProfileConsumers \union WalletConsumers
Handlers == Consumers \union BalanceQueries
GroupOf(h) == IF h \in ProfileConsumers THEN "profile" ELSE "wallet"

ASSUME SettledAssumption == Settled \subseteq Users
ASSUME HandlersAssumption ==
    /\ ProfileConsumers \intersect WalletConsumers = {}
    /\ BalanceQueries \intersect Consumers = {}
ASSUME PatchesAssumption ==
    /\ Target \in [Patches -> Users]
    /\ Named \in [Patches -> SUBSET Fields] /\ "email" \in Fields
    /\ Email \in [Patches -> Users]
    /\ NoPatch \notin Patches
ASSUME AccountReactionsAssumption == Reactions \subseteq {"retry", "skip"} /\ Reactions # {}
ASSUME AccountMaxFaultsAssumption == MaxFaults \in Nat

VARIABLES
    users,      \* the users with a row in table users of the auth service
    unsent,     \* the users saved, whose event the auth service still has to send
    topic,      \* topic[g]: the users whose event group g has still to handle
    forgotten,  \* forgotten[g]: the users whose event g will not get any more
    rows,       \* rows[g]: the users with a row in user_profiles, wallets
    missing,    \* missing[h]: the users whose row h has looked for in vain
    profile,    \* profile[u]: the row of u in user_profiles, or the one that u will get
    patchStep,  \* patchStep[p]: the next query of updateProfile for p
    entity,     \* entity[p]: the row that p has read, with p merged into it
    columns,    \* columns[p]: the columns that save() is about to write
    meanwhile,  \* meanwhile[p]: those others wrote between p's two reads
    faults      \* how many faults there have been

onboarding == <<users, unsent, topic, forgotten, rows, missing>>
patching == <<profile, patchStep, entity, columns, meanwhile>>
accounts == <<onboarding, patching, faults>>

\* A column holds the patch that it is from, and the e-mail column the user whose
\* address it is.
Row == {r \in [Fields -> Patches \union {NoPatch} \union Users] : r.email \in Users}
NewRow(u) == [f \in Fields |-> IF f = "email" THEN u ELSE NoPatch]

AccountsInit ==
    /\ users = Settled
    /\ unsent = {}
    /\ topic = [g \in Groups |-> {}]
    /\ forgotten = [g \in Groups |-> {}]
    /\ rows = [g \in Groups |-> Settled]
    /\ missing = [h \in Handlers |-> {}]
    /\ profile = [u \in Users |-> NewRow(u)]
    /\ patchStep = [p \in Patches |-> "read"]
    /\ entity = [p \in Patches |-> NewRow(Target[p])]
    /\ columns = [p \in Patches |-> {}]
    /\ meanwhile = [p \in Patches |-> {}]
    /\ faults = 0

Fault(kind) ==
    /\ kind \in Faults
    /\ faults < MaxFaults
    /\ faults' = faults + 1

-----------------------------------------------------------------------------
(***************************************************************************)
(* RegisterUserHandler.                                                    *)
(***************************************************************************)

\* The row is inserted; a second one of the e-mail address is refused (409).
RegisterUser(u) ==
    /\ u \notin users
    /\ users' = users \union {u}
    /\ unsent' = unsent \union {u}
    /\ UNCHANGED <<topic, forgotten, rows, missing, patching, faults>>

\* UserRegisteredHandler: emit(), whose answer nobody waits for.
EmitUserCreated(u) ==
    /\ u \in unsent
    /\ unsent' = unsent \ {u}
    /\ topic' = [g \in Groups |-> topic[g] \union {u}]
    /\ UNCHANGED <<users, forgotten, rows, missing, patching, faults>>

\* The user is registered, and nobody will tell the other services.
EventLost(u) ==
    /\ u \in unsent
    /\ Fault("auth")
    /\ unsent' = unsent \ {u}
    /\ forgotten' = [g \in Groups |-> forgotten[g] \union {u}]
    /\ UNCHANGED <<users, topic, rows, missing, patching>>

-----------------------------------------------------------------------------
(***************************************************************************)
(* handleUserCreated of the user service, createWallet and GetBalance of   *)
(* the wallet service: each looks for the row and inserts it where there   *)
(* is none.  The index on userId is unique, in user_profiles the one on    *)
(* email too, and nothing is locked.                                       *)
(***************************************************************************)

\* An event to handle, or a question of a user that has signed in.
Asked(h, u) == IF h \in Consumers THEN u \in topic[GroupOf(h)] ELSE u \in users

\* The handler has returned: the message is done with.
Handled(h, u) ==
    topic' = IF h \in Consumers THEN [topic EXCEPT ![GroupOf(h)] = @ \ {u}] ELSE topic

\* The handler of an event throws: the message comes again, or is skipped.
Thrown(h, u) ==
    \/ "retry" \in Reactions /\ UNCHANGED <<topic, forgotten>>
    \/ /\ "skip" \in Reactions
       /\ Handled(h, u)
       /\ forgotten' = [forgotten EXCEPT ![GroupOf(h)] = @ \union {u}]

\* A query that throws is answered by an error, and that is all.
Failed(h, u) ==
    IF h \in Consumers THEN Thrown(h, u) ELSE UNCHANGED <<topic, forgotten>>

\* Mutant of LookUp: the message counts as handled before the row is there.
LookUpAcknowledges(h, u) ==
    /\ Asked(h, u)
    /\ u \notin missing[h]
    /\ Handled(h, u)
    /\ missing' = [missing EXCEPT ![h] = IF u \in rows[GroupOf(h)] THEN @ ELSE @ \union {u}]
    /\ UNCHANGED <<users, unsent, forgotten, rows, patching, faults>>

LookUp(h, u) ==
    /\ Asked(h, u)
    /\ u \notin missing[h]
    /\ IF u \in rows[GroupOf(h)]
       THEN Handled(h, u) /\ UNCHANGED missing
       ELSE missing' = [missing EXCEPT ![h] = @ \union {u}] /\ UNCHANGED topic
    /\ UNCHANGED <<users, unsent, forgotten, rows, patching, faults>>

\* A row of u in the table of g would violate one of its unique indexes: u has one,
\* or the e-mail address of u has been patched into another profile.
Violates(g, u) ==
    \/ u \in rows[g]
    \/ g = "profile" /\ \E v \in rows[g] : profile[v].email = u

Insert(h, u) ==
    /\ u \in missing[h]
    /\ ~Violates(GroupOf(h), u)
    /\ rows' = [rows EXCEPT ![GroupOf(h)] = @ \union {u}]
    /\ missing' = [missing EXCEPT ![h] = @ \ {u}]
    /\ Handled(h, u)
    /\ UNCHANGED <<users, unsent, forgotten, patching, faults>>

\* Another handler was faster, or the address is taken: unique violation.
InsertConflict(h, u) ==
    /\ u \in missing[h]
    /\ Violates(GroupOf(h), u)
    /\ missing' = [missing EXCEPT ![h] = @ \ {u}]
    /\ Failed(h, u)
    /\ UNCHANGED <<users, unsent, rows, patching, faults>>

InsertFails(h, u) ==
    /\ u \in missing[h]
    /\ Fault("db")
    /\ \/ UNCHANGED rows
       \/ ~Violates(GroupOf(h), u) /\ rows' = [rows EXCEPT ![GroupOf(h)] = @ \union {u}]
    /\ missing' = [missing EXCEPT ![h] = @ \ {u}]
    /\ Failed(h, u)
    /\ UNCHANGED <<users, unsent, patching>>

\* The offset had not been committed when the partition changed its owner.
Redeliver(g, u) ==
    /\ u \in users \ (unsent \union forgotten[g] \union Settled)
    /\ u \notin topic[g]
    /\ Fault("redeliver")
    /\ topic' = [topic EXCEPT ![g] = @ \union {u}]
    /\ UNCHANGED <<users, unsent, forgotten, rows, missing, patching>>

-----------------------------------------------------------------------------
(***************************************************************************)
(* UsersService.updateProfile.  TypeORM's save() reads the row once more,  *)
(* and writes the columns in which the entity differs from it.  The update *)
(* is any object (`dto: any` of the gateway), so that it may name columns  *)
(* that UpdateProfileDto does not have: the e-mail address is one.  That   *)
(* it names id or userId, which would make the row somebody else's, is     *)
(* left out.                                                               *)
(***************************************************************************)
Value(p, f) == IF f = "email" THEN Email[p] ELSE p

PatchRead(p) ==
    /\ patchStep[p] = "read"
    /\ Target[p] \in rows["profile"]
    /\ entity' = [entity EXCEPT ![p] =
                    [f \in Fields |-> IF f \in Named[p] THEN Value(p, f) ELSE profile[Target[p]][f]]]
    /\ patchStep' = [patchStep EXCEPT ![p] = "compare"]
    /\ UNCHANGED <<onboarding, profile, columns, meanwhile, faults>>

\* Mutant of Differing: the whole row is written.
EveryColumn(p) == Fields

Differing(p) == {f \in Fields : entity[p][f] # profile[Target[p]][f]}

PatchCompare(p) ==
    /\ patchStep[p] = "compare"
    /\ columns' = [columns EXCEPT ![p] = Differing(p)]
    /\ patchStep' = [patchStep EXCEPT ![p] = "write"]
    /\ UNCHANGED <<onboarding, profile, entity, meanwhile, faults>>

AddressFree(p) ==
    "email" \in columns[p] =>
        \A v \in rows["profile"] \ {Target[p]} : profile[v].email # entity[p].email

PatchWrite(p) ==
    /\ patchStep[p] = "write"
    /\ AddressFree(p)
    /\ profile' = [profile EXCEPT ![Target[p]] =
                     [f \in Fields |-> IF f \in columns[p] THEN entity[p][f] ELSE @[f]]]
    /\ patchStep' = [patchStep EXCEPT ![p] = "done"]
    /\ meanwhile' = [q \in Patches |->
                       IF Target[q] = Target[p] /\ patchStep[q] = "compare"
                       THEN meanwhile[q] \union columns[p] ELSE meanwhile[q]]
    /\ UNCHANGED <<onboarding, entity, columns, faults>>

\* Unique violation: save() throws, and no column is written.
PatchRefused(p) ==
    /\ patchStep[p] = "write"
    /\ ~AddressFree(p)
    /\ patchStep' = [patchStep EXCEPT ![p] = "refused"]
    /\ UNCHANGED <<onboarding, profile, entity, columns, meanwhile, faults>>

-----------------------------------------------------------------------------
Onboard(h, u) == LookUp(h, u) \/ Insert(h, u) \/ InsertConflict(h, u) \/ InsertFails(h, u)

Patch(p) == PatchRead(p) \/ PatchCompare(p) \/ PatchWrite(p) \/ PatchRefused(p)

\* Everything but the registration itself, which the web client asks for.
AccountsStep ==
    \/ \E u \in Users : EmitUserCreated(u) \/ EventLost(u)
    \/ \E h \in Handlers, u \in Users : Onboard(h, u)
    \/ \E g \in Groups, u \in Users : Redeliver(g, u)
    \/ \E p \in Patches : Patch(p)

AccountsNext == (\E u \in Users : RegisterUser(u)) \/ AccountsStep

AccountsSpec == AccountsInit /\ [][AccountsNext]_accounts

-----------------------------------------------------------------------------
(***************************************************************************)
(* Properties.                                                             *)
(***************************************************************************)
AccountsTypeOK ==
    /\ users \subseteq Users
    /\ unsent \subseteq Users
    /\ topic \in [Groups -> SUBSET Users]
    /\ forgotten \in [Groups -> SUBSET Users]
    /\ rows \in [Groups -> SUBSET Users]
    /\ missing \in [Handlers -> SUBSET Users]
    /\ profile \in [Users -> Row]
    /\ patchStep \in [Patches -> {"read", "compare", "write", "done", "refused"}]
    /\ entity \in [Patches -> Row]
    /\ columns \in [Patches -> SUBSET Fields]
    /\ meanwhile \in [Patches -> SUBSET Fields]
    /\ faults \in 0 .. MaxFaults

\* The e-mail address of u has been written into the profile of somebody else.
AddressGivenAway(u) ==
    \E p \in Patches :
        /\ "email" \in Named[p] /\ Email[p] = u
        /\ Target[p] # u /\ patchStep[p] = "done"

\* A registered user has a profile and a wallet, or the event that makes them is
\* still on its way.  It is lost in a fault, and without one in a single case: the
\* profile, never the wallet, of a user whose e-mail address a patch has written
\* into another profile.  No race of two handlers, of a handler and a query of the
\* balance, or with a patch that is refused, loses it.
NoAccountForgotten ==
    \A u \in users, g \in Groups :
        \/ u \in rows[g]
        \/ u \in unsent
        \/ u \in topic[g]
        \/ u \in forgotten[g] /\ (faults > 0 \/ (g = "profile" /\ AddressGivenAway(u)))

\* A patch changes a field that it does not name only where somebody else wrote
\* the field between the two reads of the patch: the update that is lost then is
\* the only one that can be.
OnlyOverlappingUpdatesAreLost ==
    [][\A u \in Users, f \in Fields :
          profile'[u][f] # profile[u][f] =>
             \E p \in Patches :
                /\ Target[p] = u /\ patchStep[p] = "write" /\ patchStep'[p] = "done"
                /\ f \in Named[p] \union meanwhile[p]]_profile
=============================================================================
