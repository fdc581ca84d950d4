--------------------------- MODULE WebClientProofs ---------------------------
(***************************************************************************)
(* Proofs about WebClient, for any users, instances, patches, keys,        *)
(* transfers and faults.                                                   *)
(*                                                                         *)
(* Part 1: what the accounts do in a step of the whole, and their types.   *)
(* Part 2: accounts and patches.                                           *)
(* Part 3: the types of the tab.                                           *)
(* Part 4: one user per document.                                          *)
(* Part 5: the balances that the tab takes for fresh.                      *)
(***************************************************************************)
EXTENDS WebClient, FiniteSetTheorems, TLAPS

-----------------------------------------------------------------------------
(***************************************************************************)
(* Part 1.  The tab moves the accounts by a registration or by a fault.    *)
(***************************************************************************)
AccountsRest ==
    /\ UNCHANGED <<onboarding, patching>>
    /\ \/ UNCHANGED faults
       \/ faults < MaxFaults /\ faults' = faults + 1

StepOfAccounts == (\E u \in Users : RegisterUser(u)) \/ AccountsStep \/ AccountsRest

LEMMA BrowseAccounts == Browse \/ FetchProfile => StepOfAccounts
  <1> USE DEF StepOfAccounts, AccountsRest, accounts
  <1>1. ASSUME NEW p, OpenPage(p) \/ FollowLink(p) PROVE AccountsRest
    BY <1>1 DEF OpenPage, FollowLink
  <1>2. ASSUME NEW u \in Users, SignUp(u) PROVE StepOfAccounts
    BY <1>2 DEF SignUp
  <1>3. ASSUME NEW u \in Users, SignIn(u) PROVE AccountsRest
    BY <1>3 DEF SignIn
  <1>4. ASSUME SignInRefused \/ Logout PROVE AccountsRest
    BY <1>4 DEF SignInRefused, Logout
  <1>5. ASSUME NEW f, ProfileFetched(f) \/ ProfileMissing(f) PROVE AccountsRest
    BY <1>5 DEF ProfileFetched, ProfileMissing
  <1>6. ASSUME NEW f, ProfileUnavailable(f) \/ ProfileUnauthorized(f) PROVE AccountsRest
    BY <1>6 DEF ProfileUnavailable, ProfileUnauthorized, Fault
  <1> QED
    BY <1>1, <1>2, <1>3, <1>4, <1>5, <1>6 DEF Browse, FetchProfile

LEMMA QueryAccounts ==
  ASSUME NEW k, Query(k)
  PROVE  AccountsRest
  BY DEF AccountsRest, accounts, Query, QueryRead, QueryDone, QueryFails,
         QueryUnauthorized, GoStale, Fault

LEMMA SendAccounts ==
  ASSUME NEW t, Send(t) \/ Settle(t)
  PROVE  AccountsRest
  <1> USE DEF AccountsRest, accounts
  <1>1. CASE Send(t)
    BY <1>1 DEF Send, Confirm, ConfirmElsewhere, TransferAnswered, TransferRefused,
                AnswerLost, Fault
  <1>2. CASE Settle(t)
    BY <1>2 DEF Settle, Deduct, Refuse, Credit, Refund, Notify, NotifyFails, Fault
  <1> QED
    BY <1>1, <1>2

LEMMA NextAccounts == [Next]_vars => StepOfAccounts
  <1>1. CASE Services
    BY <1>1 DEF Services, StepOfAccounts
  <1>2. CASE JoinRoom \/ Disconnect \/ Refresh \/ ChangeRecipient
    BY <1>2 DEF JoinRoom, Disconnect, Refresh, ChangeRecipient, Fault, accounts,
                AccountsRest, StepOfAccounts
  <1>3. ASSUME NEW u \in Users, FindRecipient(u) PROVE StepOfAccounts
    BY <1>3 DEF FindRecipient, accounts, AccountsRest, StepOfAccounts
  <1>4. CASE UNCHANGED vars
    BY <1>4 DEF vars, accounts, AccountsRest, StepOfAccounts
  <1> QED
    BY <1>1, <1>2, <1>3, <1>4, BrowseAccounts, QueryAccounts, SendAccounts
    DEF Next, StepOfAccounts

LEMMA HandlerGroups == \A h : GroupOf(h) \in Groups
  BY DEF GroupOf, Groups

LEMMA NewRows == \A u \in Users : NewRow(u) \in Row /\ NewRow(u).email = u
  BY PatchesAssumption DEF Row, NewRow

LEMMA AccountsTypeInit == AccountsInit => AccountsTypeOK
  BY SettledAssumption, AccountMaxFaultsAssumption, PatchesAssumption, NewRows
  DEF AccountsInit, AccountsTypeOK

LEMMA OnboardTypes ==
  ASSUME AccountsTypeOK, NEW h \in Handlers, NEW u \in Users, Onboard(h, u)
  PROVE  AccountsTypeOK'
  <1> USE HandlerGroups, AccountMaxFaultsAssumption DEF AccountsTypeOK, patching
  <1>1. ASSUME Handled(h, u) PROVE topic' \in [Groups -> SUBSET Users]
    BY <1>1 DEF Handled
  <1>2. ASSUME Failed(h, u)
        PROVE  topic' \in [Groups -> SUBSET Users] /\ forgotten' \in [Groups -> SUBSET Users]
    BY <1>1, <1>2 DEF Failed, Thrown
  <1>3. CASE LookUp(h, u)
    BY <1>1, <1>3 DEF LookUp
  <1>4. CASE Insert(h, u)
    BY <1>1, <1>4 DEF Insert
  <1>5. CASE InsertConflict(h, u)
    BY <1>2, <1>5 DEF InsertConflict
  <1>6. CASE InsertFails(h, u)
    BY <1>2, <1>6 DEF InsertFails, Fault
  <1> QED
    BY <1>3, <1>4, <1>5, <1>6 DEF Onboard

LEMMA EventTypes ==
  ASSUME AccountsTypeOK, NEW u \in Users, NEW g \in Groups,
         RegisterUser(u) \/ EmitUserCreated(u) \/ EventLost(u) \/ Redeliver(g, u)
  PROVE  AccountsTypeOK'
  <1> USE AccountMaxFaultsAssumption DEF AccountsTypeOK, patching
  <1>1. CASE RegisterUser(u)
    BY <1>1 DEF RegisterUser
  <1>2. CASE EmitUserCreated(u)
    BY <1>2 DEF EmitUserCreated
  <1>3. CASE EventLost(u)
    BY <1>3 DEF EventLost, Fault
  <1>4. CASE Redeliver(g, u)
    BY <1>4 DEF Redeliver, Fault
  <1> QED
    BY <1>1, <1>2, <1>3, <1>4

LEMMA PatchTypes ==
  ASSUME AccountsTypeOK, NEW p \in Patches, Patch(p)
  PROVE  AccountsTypeOK'
  <1> USE PatchesAssumption DEF AccountsTypeOK, onboarding
  <1>1. CASE PatchRead(p)
    <2> DEFINE row == [f \in Fields |->
                         IF f \in Named[p] THEN Value(p, f) ELSE profile[Target[p]][f]]
    <2> DEFINE old == profile[Target[p]]
    <2>0. old \in Row
      OBVIOUS
    <2>1. row \in Row
      BY <2>0 DEF Row, Value
    <2> HIDE DEF row
    <2>2. entity' = [entity EXCEPT ![p] = row]
      BY <1>1 DEF PatchRead, row
    <2> QED
      BY <1>1, <2>1, <2>2 DEF PatchRead
  <1>2. CASE PatchCompare(p)
    BY <1>2 DEF PatchCompare, Differing
  <1>3. CASE PatchWrite(p)
    <2> DEFINE row == [f \in Fields |->
                         IF f \in columns[p] THEN entity[p][f] ELSE profile[Target[p]][f]]
    <2>1. row \in Row
      BY DEF Row
    <2> HIDE DEF row
    <2>2. profile' = [profile EXCEPT ![Target[p]] = row]
      BY <1>3 DEF PatchWrite, row
    <2> QED
      BY <1>3, <2>1, <2>2 DEF PatchWrite
  <1>4. CASE PatchRefused(p)
    BY <1>4 DEF PatchRefused
  <1> QED
    BY <1>1, <1>2, <1>3, <1>4 DEF Patch

LEMMA AccountsTypeNext == AccountsTypeOK /\ [Next]_vars => AccountsTypeOK'
  <1> SUFFICES ASSUME AccountsTypeOK, StepOfAccounts PROVE AccountsTypeOK'
    BY NextAccounts
  <1>1. CASE AccountsRest
    BY <1>1, AccountMaxFaultsAssumption
    DEF AccountsRest, AccountsTypeOK, onboarding, patching
  <1>2. Groups # {}
    BY DEF Groups
  <1> QED
    BY <1>1, <1>2, OnboardTypes, EventTypes, PatchTypes DEF StepOfAccounts, AccountsStep

-----------------------------------------------------------------------------
(***************************************************************************)
(* Part 2.  NoAccountForgotten needs to know where an address in a profile *)
(* comes from: it is the user's own, or one that a patch of this profile,  *)
(* which has been saved, has set (AddressesFit).  For the patches, what p  *)
(* is about to write differs from the row only in fields that p names and  *)
(* in those that somebody wrote after p had read the row.                  *)
(***************************************************************************)
\* The address of w may be in the profile of u.
Rightly(u, w) ==
    \/ w = u
    \/ \E p \in Patches :
         /\ "email" \in Named[p] /\ Email[p] = w
         /\ Target[p] = u /\ patchStep[p] = "done"

AddressesFit ==
    /\ \A u \in Users : Rightly(u, profile[u].email)
    /\ \A p \in Patches :
         \/ "email" \in Named[p] /\ entity[p].email = Email[p]
         \/ patchStep[p] = "read"
         \/ Rightly(Target[p], entity[p].email)

\* A saved patch stays saved, whatever happens.
LEMMA SavedStaysSaved ==
  ASSUME AccountsTypeOK, StepOfAccounts, NEW p \in Patches, patchStep[p] = "done"
  PROVE  patchStep'[p] = "done"
  BY DEF AccountsTypeOK, StepOfAccounts, AccountsRest, AccountsStep, RegisterUser,
         EmitUserCreated, EventLost, Onboard, LookUp, Insert, InsertConflict, InsertFails,
         Redeliver, patching, Patch, PatchRead, PatchCompare, PatchWrite, PatchRefused

LEMMA RightlyStays ==
  ASSUME AccountsTypeOK, StepOfAccounts, NEW u, NEW w, Rightly(u, w)
  PROVE  Rightly(u, w)'
  BY SavedStaysSaved DEF Rightly

\* What is not a patch leaves the profiles and the patches alone.
LEMMA OnlyPatchesPatch ==
  ASSUME StepOfAccounts, ~(\E p \in Patches : Patch(p))
  PROVE  UNCHANGED <<profile, patchStep, entity, columns, meanwhile>>
  BY DEF StepOfAccounts, AccountsRest, AccountsStep, RegisterUser, EmitUserCreated, EventLost,
         Onboard, LookUp, Insert, InsertConflict, InsertFails, Redeliver, patching

LEMMA AddressesKept ==
  ASSUME AccountsTypeOK, AddressesFit, StepOfAccounts
  PROVE  AddressesFit'
  <1> USE PatchesAssumption DEF AccountsTypeOK
  <1>1. CASE ~(\E p \in Patches : Patch(p))
    <2>1. UNCHANGED <<profile, patchStep, entity>>
      BY <1>1, OnlyPatchesPatch
    <2> QED
      BY <2>1 DEF AddressesFit, Rightly
  <1>2. ASSUME NEW p \in Patches, PatchRead(p) PROVE AddressesFit'
    <2>1. UNCHANGED profile
      BY <1>2 DEF PatchRead
    <2>2. /\ entity'[p].email = IF "email" \in Named[p] THEN Email[p] ELSE profile[Target[p]].email
          /\ \A q \in Patches \ {p} : entity'[q] = entity[q] /\ patchStep'[q] = patchStep[q]
      BY <1>2 DEF PatchRead, Value
    <2>3. Rightly(Target[p], profile[Target[p]].email)'
      BY <2>1, RightlyStays DEF AddressesFit
    <2> QED
      BY <2>1, <2>2, <2>3, RightlyStays DEF AddressesFit
  <1>3. ASSUME NEW p \in Patches, PatchCompare(p) \/ PatchRefused(p) PROVE AddressesFit'
    <2>1. /\ UNCHANGED <<profile, entity>>
          /\ patchStep[p] # "read"
          /\ \A q \in Patches \ {p} : patchStep'[q] = patchStep[q]
      BY <1>3 DEF PatchCompare, PatchRefused
    <2> QED
      BY <2>1, RightlyStays DEF AddressesFit
  <1>4. ASSUME NEW p \in Patches, PatchWrite(p) PROVE AddressesFit'
    <2>1. PICK new : new = entity[p].email
      OBVIOUS
    <2>2. PICK old : old = profile[Target[p]].email
      OBVIOUS
    <2>3. /\ UNCHANGED entity
          /\ patchStep[p] = "write" /\ patchStep'[p] = "done"
          /\ \A q \in Patches \ {p} : patchStep'[q] = patchStep[q]
          /\ \A u \in Users \ {Target[p]} : profile'[u] = profile[u]
          /\ profile'[Target[p]].email \in {new, old}
      BY <1>4, <2>1, <2>2 DEF PatchWrite
    <2>4. Rightly(Target[p], new)'
      <3>1. CASE "email" \in Named[p] /\ new = Email[p]
        BY <2>3, <3>1 DEF Rightly
      <3>2. CASE Rightly(Target[p], new)
        BY <3>2, RightlyStays
      <3> QED
        BY <2>1, <2>3, <3>1, <3>2 DEF AddressesFit
    <2>5. Rightly(Target[p], old)'
      BY <2>2, RightlyStays DEF AddressesFit
    <2>6. \A u \in Users : Rightly(u, profile[u].email)'
      BY <2>3, <2>4, <2>5, RightlyStays DEF AddressesFit
    <2> QED
      BY <2>3, <2>6, RightlyStays DEF AddressesFit
  <1> QED
    BY <1>1, <1>2, <1>3, <1>4 DEF Patch

\* Only somebody else's profile can stand in the way of a user who has none.
LEMMA ConflictOfAddresses ==
  ASSUME AccountsTypeOK, AddressesFit, NEW g \in Groups, NEW u \in Users, Violates(g, u)
  PROVE  u \in rows[g] \/ (g = "profile" /\ AddressGivenAway(u))
  <1>1. SUFFICES ASSUME u \notin rows[g] PROVE g = "profile" /\ AddressGivenAway(u)
    OBVIOUS
  <1>2. g = "profile"
    BY <1>1 DEF Violates
  <1>3. PICK v \in rows[g] : profile[v].email = u
    BY <1>1 DEF Violates
  <1> QED
    BY <1>1, <1>2, <1>3 DEF AddressesFit, Rightly, AddressGivenAway, AccountsTypeOK

LEMMA AccountsInitial == Init => AccountsInit
  BY DEF Init

LEMMA AccountsKept ==
  ASSUME AccountsTypeOK, AddressesFit, NoAccountForgotten, StepOfAccounts
  PROVE  NoAccountForgotten'
  <1>0. \A u \in Users : AddressGivenAway(u) => AddressGivenAway(u)'
    BY SavedStaysSaved DEF AddressGivenAway
  <1> USE AccountMaxFaultsAssumption, HandlerGroups DEF AccountsTypeOK, NoAccountForgotten, patching
  <1>1. CASE AccountsRest
    BY <1>0, <1>1 DEF AccountsRest, onboarding
  <1>2. ASSUME NEW u \in Users, RegisterUser(u) \/ EmitUserCreated(u) PROVE NoAccountForgotten'
    BY <1>0, <1>2 DEF RegisterUser, EmitUserCreated
  <1>3. ASSUME NEW u \in Users, EventLost(u) PROVE NoAccountForgotten'
    BY <1>0, <1>3 DEF EventLost, Fault
  <1>4. ASSUME NEW g \in Groups, NEW u \in Users, Redeliver(g, u) PROVE NoAccountForgotten'
    BY <1>0, <1>4 DEF Redeliver, Fault
  <1>5. ASSUME NEW h \in Handlers, NEW u \in Users, LookUp(h, u) \/ Insert(h, u)
        PROVE  NoAccountForgotten'
    BY <1>0, <1>5 DEF LookUp, Insert, Handled
  <1>6. ASSUME NEW h \in Handlers, NEW u \in Users, InsertConflict(h, u)
        PROVE  NoAccountForgotten'
    BY <1>0, <1>6, ConflictOfAddresses DEF InsertConflict, Failed, Thrown, Handled
  <1>7. ASSUME NEW h \in Handlers, NEW u \in Users, InsertFails(h, u)
        PROVE  NoAccountForgotten'
    BY <1>0, <1>7 DEF InsertFails, Failed, Thrown, Handled, Fault
  <1>8. ASSUME NEW p \in Patches, Patch(p) PROVE NoAccountForgotten'
    BY <1>0, <1>8 DEF Patch, PatchRead, PatchCompare, PatchWrite, PatchRefused, onboarding
  <1> QED
    BY <1>1, <1>2, <1>3, <1>4, <1>5, <1>6, <1>7, <1>8
    DEF StepOfAccounts, AccountsStep, Onboard

\* A registered user has a profile and a wallet, or the event that makes them is on
\* its way, or a fault has taken it; or the profile, and only that, could not be
\* inserted since a patch had written the user's address into another one.
THEOREM EveryAccountFollows == Spec => []NoAccountForgotten
  <1> DEFINE Inv == AccountsTypeOK /\ AddressesFit /\ NoAccountForgotten
  <1>1. Init => Inv
    BY AccountsInitial, AccountsTypeInit, NewRows
    DEF AccountsInit, NoAccountForgotten, AddressesFit, Rightly
  <1>2. Inv /\ [Next]_vars => Inv'
    BY AccountsTypeNext, NextAccounts, AccountsKept, AddressesKept
  <1> QED
    BY <1>1, <1>2, PTL DEF Spec

Reached(p) == Named[p] \union meanwhile[p]

PatchesFit ==
    \A p \in Patches :
        /\ patchStep[p] = "compare" =>
             \A f \in Fields \ Reached(p) : entity[p][f] = profile[Target[p]][f]
        /\ patchStep[p] = "write" => columns[p] \subseteq Reached(p)

LEMMA PatchReadFits ==
  ASSUME AccountsTypeOK, PatchesFit, NEW p \in Patches, PatchRead(p)
  PROVE  PatchesFit'
  <1> SUFFICES ASSUME NEW q \in Patches
               PROVE  /\ patchStep'[q] = "compare" =>
                           \A f \in Fields \ Reached(q)' : entity'[q][f] = profile'[Target[q]][f]
                      /\ patchStep'[q] = "write" => columns'[q] \subseteq Reached(q)'
    BY DEF PatchesFit
  <1>1. UNCHANGED <<profile, columns, meanwhile>> /\ Reached(q)' = Reached(q)
    BY DEF PatchRead, Reached
  <1>2. CASE q = p
    BY <1>1, <1>2 DEF PatchRead, AccountsTypeOK, Reached
  <1>3. CASE q # p
    BY <1>1, <1>3 DEF PatchRead, AccountsTypeOK, PatchesFit
  <1> QED
    BY <1>2, <1>3

LEMMA PatchCompareFits ==
  ASSUME AccountsTypeOK, PatchesFit, NEW p \in Patches, PatchCompare(p)
  PROVE  PatchesFit'
  <1>1. UNCHANGED <<profile, entity, meanwhile>> /\ \A q \in Patches : Reached(q)' = Reached(q)
    BY DEF PatchCompare, Reached
  <1>2. Differing(p) \subseteq Reached(p)
    BY DEF PatchCompare, PatchesFit, Differing
  <1> QED
    BY <1>1, <1>2 DEF PatchCompare, AccountsTypeOK, PatchesFit

LEMMA PatchWriteFits ==
  ASSUME AccountsTypeOK, PatchesFit, NEW p \in Patches, PatchWrite(p)
  PROVE  PatchesFit'
  <1> SUFFICES ASSUME NEW q \in Patches
               PROVE  /\ patchStep'[q] = "compare" =>
                           \A f \in Fields \ Reached(q)' : entity'[q][f] = profile'[Target[q]][f]
                      /\ patchStep'[q] = "write" => columns'[q] \subseteq Reached(q)'
    BY DEF PatchesFit
  <1>1. /\ UNCHANGED <<entity, columns>>
        /\ patchStep' = [patchStep EXCEPT ![p] = "done"]
        /\ profile' = [profile EXCEPT ![Target[p]] =
                         [f \in Fields |-> IF f \in columns[p] THEN entity[p][f] ELSE @[f]]]
    BY DEF PatchWrite
  <1>2. CASE patchStep'[q] = "compare"
    <2>1. patchStep[q] = "compare"
      BY <1>1, <1>2 DEF AccountsTypeOK
    <2>2. \A f \in Fields \ Reached(q) : entity[q][f] = profile[Target[q]][f]
      BY <2>1 DEF PatchesFit
    <2>3. Reached(q)' = IF Target[q] = Target[p] THEN Reached(q) \union columns[p] ELSE Reached(q)
      BY <2>1 DEF PatchWrite, Reached
    <2>4. \A f \in Fields \ Reached(q)' : profile'[Target[q]][f] = profile[Target[q]][f]
      BY <1>1, <2>3, PatchesAssumption DEF AccountsTypeOK
    <2> QED
      BY <1>1, <1>2, <2>2, <2>3, <2>4
  <1>3. CASE patchStep'[q] = "write"
    <2>1. patchStep[q] = "write"
      BY <1>1, <1>3 DEF AccountsTypeOK
    <2> QED
      BY <1>1, <1>3, <2>1 DEF PatchWrite, PatchesFit, Reached
  <1> QED
    BY <1>2, <1>3

LEMMA PatchRefusedFits ==
  ASSUME AccountsTypeOK, PatchesFit, NEW p \in Patches, PatchRefused(p)
  PROVE  PatchesFit'
  BY DEF PatchRefused, PatchesFit, Reached, AccountsTypeOK

LEMMA PatchesNext ==
  ASSUME AccountsTypeOK, PatchesFit, StepOfAccounts
  PROVE  PatchesFit'
  <1>1. CASE ~(\E p \in Patches : Patch(p))
    <2>1. UNCHANGED <<profile, patchStep, entity, columns, meanwhile>>
      BY <1>1, OnlyPatchesPatch
    <2> QED
      BY <2>1 DEF PatchesFit, Reached
  <1> QED
    BY <1>1, PatchReadFits, PatchCompareFits, PatchWriteFits, PatchRefusedFits DEF Patch

LEMMA OnlyWritesChange ==
  ASSUME AccountsTypeOK, PatchesFit, StepOfAccounts,
         NEW u \in Users, NEW f \in Fields, profile'[u][f] # profile[u][f]
  PROVE  \E p \in Patches :
            /\ Target[p] = u /\ patchStep[p] = "write" /\ patchStep'[p] = "done"
            /\ f \in Named[p] \union meanwhile[p]
  <1>1. PICK p \in Patches : PatchWrite(p)
    BY OnlyPatchesPatch DEF Patch, PatchRead, PatchCompare, PatchRefused
  <1>2. Target[p] = u /\ f \in columns[p]
    BY <1>1, PatchesAssumption DEF PatchWrite, AccountsTypeOK, Row
  <1> QED
    BY <1>1, <1>2 DEF PatchWrite, PatchesFit, Reached, AccountsTypeOK

\* However patches of a profile overlap, a field changes only by a patch that
\* names it, or that had read the row before somebody else wrote the field.
THEOREM OnlyOverlapsLoseUpdates == Spec => OnlyOverlappingUpdatesAreLost
  <1> DEFINE Inv == AccountsTypeOK /\ PatchesFit
             Change == \A u \in Users, f \in Fields :
                          profile'[u][f] # profile[u][f] =>
                             \E p \in Patches :
                                /\ Target[p] = u /\ patchStep[p] = "write" /\ patchStep'[p] = "done"
                                /\ f \in Named[p] \union meanwhile[p]
  <1>1. Init => Inv
    BY AccountsInitial, AccountsTypeInit DEF AccountsInit, PatchesFit
  <1>2. Inv /\ [Next]_vars => Inv'
    BY AccountsTypeNext, NextAccounts, PatchesNext
  <1>3. Inv /\ [Next]_vars => [Change]_profile
    BY NextAccounts, OnlyWritesChange
  <1>4. Spec => [][Change]_profile
    BY <1>1, <1>2, <1>3, PTL DEF Spec
  <1> QED
    BY <1>4 DEF OnlyOverlappingUpdatesAreLost

-----------------------------------------------------------------------------
(***************************************************************************)
(* Part 3: the types of the tab.  An answer has an owner because a request *)
(* without a token is refused.                                             *)
(***************************************************************************)
Routes == Pages \union {"login", "register"}
Fetch == [by : {"root", "page", "gone"}, as : Users, push : BOOLEAN]
Cached == [of : Users, seen : Nat, stale : BOOLEAN]
Queried == [as : Somebody, read : BOOLEAN, val : Nat]
Sent == [from : Somebody, to : Somebody,
         state : {"none", "asked", "held", "paid", "returned", "refused"}]

SessionOK ==
    /\ page \in Routes
    /\ token \in Somebody /\ rootUser \in Somebody /\ ready \in BOOLEAN /\ mixed \in BOOLEAN
    /\ fetches \subseteq Fetch

AnswersHaveOwners == \A k \in Keys : query[k] # NoQuery /\ query[k].read => query[k].as # Nobody

DataOK ==
    /\ cache \in [Keys -> {NoData} \union Cached]
    /\ query \in [Keys -> {NoQuery} \union Queried]
    /\ missed \subseteq Keys
    /\ AnswersHaveOwners

FormOK ==
    /\ recipient \in Somebody
    /\ confirming \in waiting \union {NoTransfer} /\ waiting \subseteq Transfers

MoneyOK ==
    /\ transfer \in [Transfers -> Sent]
    /\ version \in [Users -> Nat] /\ events \subseteq Transfers

TabOK == SessionOK /\ DataOK /\ FormOK /\ MoneyOK /\ socket \in Somebody /\ signIns \in 0 .. MaxSignIns

LEMMA TabTypes == AccountsTypeOK /\ TabOK => TypeOK
  BY DEF TabOK, SessionOK, DataOK, FormOK, MoneyOK, TypeOK, Routes, Fetch, Cached, Queried, Sent

LEMMA AskIsQuery == \A u \in Somebody : /\ Ask(u) \in Queried /\ Ask(u).as = u
                                        /\ ~Ask(u).read
  BY DEF Ask, Queried

LEMMA MountFetches ==
  ASSUME NEW owner \in {"root", "page"}, NEW p, NEW u \in Somebody
  PROVE  /\ FetchOnMount(owner, p, u) \subseteq Fetch
         /\ \A f \in FetchOnMount(owner, p, u) : f.as = u
  <1> DEFINE f == [by |-> owner, as |-> u, push |-> FALSE]
  <1>1. u # Nobody => f \in Fetch
    BY DEF Fetch, Somebody
  <1>2. f.as = u
    OBVIOUS
  <1>3. FetchOnMount(owner, p, u) \in {{}, {f}} /\ (u = Nobody => FetchOnMount(owner, p, u) = {})
    BY DEF FetchOnMount
  <1> HIDE DEF f
  <1> QED
    BY <1>1, <1>2, <1>3

LEMMA LoadTypes ==
  ASSUME NEW p \in Routes, NEW u \in Somebody, Load(p, u)
  PROVE  SessionOK' /\ DataOK' /\ FormOK' /\ socket' \in Somebody
  <1> DEFINE shown == IF u = Nobody /\ p \in Pages THEN "login" ELSE p
  <1>1. shown \in Routes
    BY DEF Routes
  <1> HIDE DEF shown
  <1>2. /\ page' = shown /\ token' = u /\ mixed' = FALSE
        /\ rootUser' = Nobody /\ ready' = (FetchOnMount("page", shown, u) = {})
        /\ fetches' = FetchOnMount("root", shown, u) \union FetchOnMount("page", shown, u)
        /\ socket' = Nobody
        /\ cache' = [k \in Keys |-> NoData]
        /\ query' = [k \in Keys |-> IF k \in Active(shown) THEN Ask(u) ELSE NoQuery]
        /\ missed' = {}
        /\ recipient' = Nobody /\ confirming' = NoTransfer /\ waiting' = {}
    BY DEF Load, shown
  <1>3. SessionOK'
    BY <1>1, <1>2, MountFetches DEF SessionOK, Somebody
  <1>4. DataOK'
    BY <1>2, AskIsQuery DEF DataOK, AnswersHaveOwners
  <1> QED
    BY <1>2, <1>3, <1>4 DEF FormOK, Somebody

LEMMA RestFetches ==
  ASSUME NEW rest \in SUBSET Fetch
  PROVE  LET left == {IF f.by = "page" THEN [f EXCEPT !.by = "gone"] ELSE f : f \in rest}
         IN  left \subseteq Fetch /\ \A g \in left : \E f \in rest : g.as = f.as
  <1>1. ASSUME NEW f \in Fetch
        PROVE  [f EXCEPT !.by = "gone"] \in Fetch /\ [f EXCEPT !.by = "gone"].as = f.as
    BY DEF Fetch
  <1> QED
    BY <1>1

LEMMA MountTypes ==
  ASSUME TabOK, NEW p \in Routes, NEW u \in Somebody, NEW rest \in SUBSET Fetch,
         NEW m \in BOOLEAN, Mount(p, u, rest, m)
  PROVE  SessionOK' /\ DataOK' /\ FormOK' /\ socket' \in Somebody
  <1>1. CASE u = Nobody /\ p \in Pages
    BY <1>1, LoadTypes DEF Mount, Routes
  <1>2. CASE ~(u = Nobody /\ p \in Pages)
    <2> DEFINE left == {IF f.by = "page" THEN [f EXCEPT !.by = "gone"] ELSE f : f \in rest}
    <2>1. left \subseteq Fetch
      BY RestFetches
    <2> HIDE DEF left
    <2>2. /\ page' = p /\ token' = u /\ mixed' = m
          /\ ready' = (FetchOnMount("page", p, u) = {})
          /\ fetches' = FetchOnMount("page", p, u) \union left
          /\ query' = [k \in Keys |->
                         IF k \in Active(p) /\ query[k] = NoQuery /\ ~Usable(k)
                         THEN Ask(u) ELSE query[k]]
          /\ recipient' = Nobody /\ confirming' = NoTransfer
          /\ UNCHANGED <<rootUser, socket, cache, missed, waiting>>
      BY <1>2 DEF Mount, left
    <2>3. SessionOK'
      BY <2>1, <2>2, MountFetches DEF TabOK, SessionOK
    <2>4. DataOK'
      BY <2>2, AskIsQuery DEF TabOK, DataOK, AnswersHaveOwners
    <2> QED
      BY <2>2, <2>3, <2>4 DEF TabOK, FormOK, Somebody
  <1> QED
    BY <1>1, <1>2

LEMMA BrowseTypes ==
  ASSUME TabOK, Browse
  PROVE  TabOK'
  <1> USE DEF TabOK
  <1>1. fetches \in SUBSET Fetch /\ token \in Somebody /\ mixed \in BOOLEAN /\ Nobody \in Somebody
    BY DEF SessionOK, Somebody
  <1>2. ASSUME NEW p \in Pages \union {"login", "register"}, OpenPage(p) PROVE TabOK'
    BY <1>1, <1>2, LoadTypes DEF OpenPage, Routes, money, MoneyOK
  <1>3. ASSUME NEW p \in Pages \union {"login", "register"}, FollowLink(p) PROVE TabOK'
    BY <1>1, <1>3, MountTypes DEF FollowLink, Routes, money, MoneyOK
  <1>4. ASSUME NEW u \in Users, SignUp(u) PROVE TabOK'
    BY <1>1, <1>4, MountTypes DEF SignUp, Routes, money, MoneyOK
  <1>5. ASSUME NEW u \in Users, SignIn(u) PROVE TabOK'
    <2>1. signIns' \in 0 .. MaxSignIns
      BY <1>5, MaxSignInsAssumption DEF SignIn
    <2>2. SessionOK'
      <3> DEFINE f == [by |-> "page", as |-> u, push |-> TRUE]
      <3>1. f \in Fetch /\ u \in Somebody
        BY DEF Fetch, Somebody
      <3>2. token' = u /\ fetches' = fetches \union {f} /\ mixed' \in BOOLEAN
        BY <1>1, <1>5 DEF SignIn
      <3> HIDE DEF f
      <3> QED
        BY <1>5, <3>1, <3>2 DEF SignIn, SessionOK
    <2> QED
      BY <1>5, <2>1, <2>2
      DEF SignIn, data, form, money, DataOK, AnswersHaveOwners, FormOK, MoneyOK
  <1>6. CASE SignInRefused
    BY <1>6 DEF SignInRefused, SessionOK, Somebody, data, form, money, DataOK,
                AnswersHaveOwners, FormOK, MoneyOK
  <1>7. CASE Logout
    <2>1. Mount("login", Nobody, fetches, mixed \/ token # Nobody) /\ UNCHANGED <<signIns, money>>
      BY <1>7 DEF Logout
    <2> QED
      BY <1>1, <2>1, MountTypes DEF Routes, money, MoneyOK
  <1> QED
    BY <1>2, <1>3, <1>4, <1>5, <1>6, <1>7 DEF Browse

LEMMA SetUserTypes ==
  ASSUME TabOK, NEW f \in Fetch, NEW u \in Somebody, SetUser(f.by, u),
         fetches' \subseteq fetches, page' = page,
         token' \in Somebody, mixed' \in BOOLEAN
  PROVE  SessionOK'
  BY DEF TabOK, SessionOK, SetUser

LEMMA ProfileFailsTypes ==
  ASSUME TabOK, NEW f \in fetches, ProfileFails(f), UNCHANGED <<signIns, money>>
  PROVE  TabOK'
  <1> USE DEF TabOK
  <1>1. f \in Fetch /\ Nobody \in Somebody /\ "login" \in Routes
    BY DEF SessionOK, Somebody, Routes
  <1>2. MoneyOK' /\ signIns' \in 0 .. MaxSignIns
    BY DEF money, MoneyOK
  <1>3. CASE Load("login", Nobody)
    BY <1>1, <1>2, <1>3, LoadTypes
  <1>4. CASE /\ SetUser(f.by, Nobody) /\ fetches' = fetches \ {f}
             /\ DropToken /\ UNCHANGED <<page, socket, data, form>>
    <2>1. token' \in Somebody /\ mixed' \in BOOLEAN
      BY <1>1, <1>4 DEF DropToken, SessionOK
    <2>2. SessionOK'
      BY <1>1, <1>4, <2>1, SetUserTypes
    <2> QED
      BY <1>2, <1>4, <2>2 DEF data, form, DataOK, AnswersHaveOwners, FormOK
  <1> QED
    BY <1>3, <1>4 DEF ProfileFails

LEMMA ProfileTypes ==
  ASSUME TabOK, FetchProfile
  PROVE  TabOK'
  <1> USE DEF TabOK
  <1>1. PICK f \in fetches :
          ProfileFetched(f) \/ ProfileMissing(f) \/ ProfileUnavailable(f) \/ ProfileUnauthorized(f)
    BY DEF FetchProfile
  <1>2. /\ f \in Fetch /\ fetches \ {f} \in SUBSET Fetch /\ token \in Somebody /\ mixed \in BOOLEAN
        /\ Nobody \in Somebody /\ "login" \in Routes /\ "overview" \in Routes
    BY PagesAssumption DEF SessionOK, Somebody, Routes
  <1>3. MoneyOK' /\ signIns' \in 0 .. MaxSignIns /\ UNCHANGED <<signIns, money>>
    BY <1>1 DEF ProfileFetched, ProfileMissing, ProfileUnavailable, ProfileUnauthorized,
                money, MoneyOK
  <1>4. CASE ProfileFails(f)
    BY <1>3, <1>4, ProfileFailsTypes
  <1>5. CASE Unauthorized
    BY <1>2, <1>3, <1>5, LoadTypes DEF Unauthorized
  <1>6. CASE ProfileFetched(f)
    <2>1. CASE f.push
      BY <1>2, <1>3, <1>6, <2>1, MountTypes DEF ProfileFetched
    <2>2. CASE ~f.push /\ f.by = "page" /\ page \in Pages /\ token = Nobody
      BY <1>2, <1>3, <1>6, <2>2, LoadTypes DEF ProfileFetched
    <2>3. CASE ~f.push /\ ~(f.by = "page" /\ page \in Pages /\ token = Nobody)
      <3>1. /\ SetUser(f.by, f.as) /\ fetches' = fetches \ {f}
            /\ UNCHANGED <<page, token, mixed, socket, data, form>>
        BY <1>6, <2>3 DEF ProfileFetched
      <3>2. f.as \in Somebody
        BY <1>2 DEF Fetch, Somebody
      <3>3. SessionOK'
        BY <1>2, <3>1, <3>2, SetUserTypes
      <3> QED
        BY <1>3, <3>1, <3>3 DEF data, form, DataOK, AnswersHaveOwners, FormOK
    <2> QED
      BY <2>1, <2>2, <2>3
  <1> QED
    BY <1>1, <1>4, <1>5, <1>6 DEF ProfileMissing, ProfileUnavailable, ProfileUnauthorized

LEMMA QueryTypes ==
  ASSUME TabOK, NEW k \in Keys, Query(k)
  PROVE  TabOK'
  <1> USE DEF TabOK
  <1>1. MoneyOK' /\ signIns' \in 0 .. MaxSignIns /\ "login" \in Routes /\ Nobody \in Somebody
    BY DEF Query, QueryRead, QueryDone, QueryFails, QueryUnauthorized, GoStale, money, MoneyOK,
           Routes, Somebody
  <1>2. query[k] # NoQuery => query[k] \in Queried
    BY DEF DataOK
  <1>3. CASE QueryRead(k)
    <2>1. query[k].as \in Users
      BY <1>2, <1>3 DEF QueryRead, Queried, Somebody
    <2> DEFINE q == [query[k] EXCEPT !.read = TRUE, !.val = version[query[k].as]]
    <2>2. q \in Queried /\ q.as # Nobody
      BY <1>2, <1>3, <2>1 DEF QueryRead, Queried, MoneyOK
    <2>3. query' = [query EXCEPT ![k] = q] /\ missed' = missed \ {k}
      BY <1>3 DEF QueryRead
    <2> HIDE DEF q
    <2>4. DataOK'
      BY <1>3, <2>2, <2>3 DEF QueryRead, DataOK, AnswersHaveOwners
    <2> QED
      BY <1>1, <1>3, <2>4 DEF QueryRead, session, form, SessionOK, FormOK
  <1>4. CASE QueryDone(k)
    <2> DEFINE e == [of |-> query[k].as, seen |-> query[k].val, stale |-> FALSE]
    <2>1. query[k].as \in Users /\ query[k].val \in Nat
      BY <1>2, <1>4 DEF QueryDone, Queried, Somebody, DataOK, AnswersHaveOwners
    <2>2. e \in Cached
      BY <2>1 DEF Cached
    <2>3. /\ cache' = [cache EXCEPT ![k] = e] /\ query' = [query EXCEPT ![k] = NoQuery]
          /\ UNCHANGED missed
      BY <1>4 DEF QueryDone
    <2> HIDE DEF e
    <2>4. DataOK'
      BY <2>2, <2>3 DEF DataOK, AnswersHaveOwners
    <2> QED
      BY <1>1, <1>4, <2>4 DEF QueryDone, session, form, SessionOK, FormOK
  <1>5. CASE QueryFails(k)
    BY <1>1, <1>5 DEF QueryFails, session, form, SessionOK, FormOK, DataOK, AnswersHaveOwners
  <1>6. CASE QueryUnauthorized(k)
    <2>1. CASE page # "login"
      BY <1>1, <1>6, <2>1, LoadTypes DEF QueryUnauthorized, Unauthorized
    <2>2. CASE page = "login"
      <3>1. /\ query' = [query EXCEPT ![k] = NoQuery] /\ DropToken
            /\ UNCHANGED <<page, rootUser, ready, fetches, cache, missed, socket, form>>
        BY <1>6, <2>2 DEF QueryUnauthorized
      <3>2. SessionOK'
        BY <1>1, <3>1 DEF DropToken, SessionOK
      <3>3. DataOK' /\ FormOK'
        BY <3>1 DEF form, DataOK, AnswersHaveOwners, FormOK
      <3> QED
        BY <1>1, <3>1, <3>2, <3>3
    <2> QED
      BY <2>1, <2>2
  <1>7. CASE GoStale(k)
    <2> DEFINE e == [cache[k] EXCEPT !.stale = TRUE]
    <2>1. e \in Cached
      BY <1>7 DEF GoStale, Usable, DataOK, Cached
    <2>2. cache' = [cache EXCEPT ![k] = e] /\ UNCHANGED <<query, missed>>
      BY <1>7 DEF GoStale
    <2> HIDE DEF e
    <2>3. DataOK'
      BY <2>1, <2>2 DEF DataOK, AnswersHaveOwners
    <2> QED
      BY <1>1, <1>7, <2>3 DEF GoStale, session, form, SessionOK, FormOK
  <1> QED
    BY <1>3, <1>4, <1>5, <1>6, <1>7 DEF Query

LEMMA InvalidateTypes ==
  ASSUME TabOK, NEW K, Invalidate(K)
  PROVE  DataOK'
  <1> DEFINE again == {k \in K \intersect Active(page) : cache[k] # NoData \/ query[k] = NoQuery}
  <1>1. /\ cache' = [k \in Keys |->
                       IF k \in K /\ cache[k] # NoData THEN [cache[k] EXCEPT !.stale = TRUE] ELSE cache[k]]
        /\ query' = [k \in Keys |-> IF k \in again THEN Ask(token) ELSE query[k]]
        /\ missed' = missed \union {k \in (K \intersect Keys) \ again : TooLate(k)}
    BY DEF Invalidate
  <1> HIDE DEF again
  <1>2. \A e \in Cached : [e EXCEPT !.stale = TRUE] \in Cached
    BY DEF Cached
  <1>3. cache' \in [Keys -> {NoData} \union Cached]
    BY <1>1, <1>2 DEF TabOK, DataOK
  <1>4. token \in Somebody
    BY DEF TabOK, SessionOK
  <1> QED
    BY <1>1, <1>3, <1>4, AskIsQuery DEF TabOK, DataOK, AnswersHaveOwners

LEMMA SentTypes ==
  ASSUME TabOK, NEW t \in Transfers,
         NEW next \in {"none", "asked", "held", "paid", "returned", "refused"},
         transfer' = [transfer EXCEPT ![t].state = next]
  PROVE  /\ transfer' \in [Transfers -> Sent]
         /\ transfer'[t] = [transfer[t] EXCEPT !.state = next]
         /\ \A s \in Transfers : s # t => transfer'[s] = transfer[s]
         /\ \A s \in Transfers : /\ transfer'[s].from = transfer[s].from
                                 /\ transfer'[s].to = transfer[s].to
         /\ transfer'[t].state = next
  <1>1. \A e \in Sent : /\ [e EXCEPT !.state = next] \in Sent
                        /\ [e EXCEPT !.state = next].from = e.from
                        /\ [e EXCEPT !.state = next].to = e.to
                        /\ [e EXCEPT !.state = next].state = next
    BY DEF Sent
  <1>2. transfer \in [Transfers -> Sent] /\ transfer' = [transfer EXCEPT ![t] = [@ EXCEPT !.state = next]]
    BY DEF TabOK, MoneyOK
  <1>3. transfer[t] \in Sent /\ transfer'[t] = [transfer[t] EXCEPT !.state = next]
    BY <1>2
  <1> QED
    BY <1>1, <1>2, <1>3

LEMMA ShowingKeys == \A u : Showing(u) \subseteq Keys
  BY DEF Showing

LEMMA SendTypes ==
  ASSUME TabOK, NEW t \in Transfers, Send(t)
  PROVE  TabOK'
  <1> USE DEF TabOK
  <1>1. UNCHANGED <<session, socket, signIns>> /\ SessionOK' /\ Nobody \in Somebody
    BY DEF Send, Confirm, ConfirmElsewhere, TransferAnswered, TransferRefused, AnswerLost,
           session, SessionOK, Somebody
  <1>2. ASSUME NEW u \in Somebody, NEW v \in Somebody, Requested(t, u, v)
        PROVE  MoneyOK'
    <2> DEFINE e == [from |-> u, to |-> v, state |-> "asked"]
    <2>1. e \in Sent
      BY DEF Sent
    <2>2. transfer' = [transfer EXCEPT ![t] = e] /\ UNCHANGED <<version, events>>
      BY <1>2 DEF Requested
    <2> HIDE DEF e
    <2> QED
      BY <2>1, <2>2 DEF MoneyOK
  <1>3. CASE Confirm(t)
    <2>1. MoneyOK'
      BY <1>2, <1>3 DEF Confirm, SessionOK, FormOK
    <2>2. FormOK'
      BY <1>3 DEF Confirm, FormOK
    <2> QED
      BY <1>1, <1>3, <2>1, <2>2 DEF Confirm, data, DataOK, AnswersHaveOwners
  <1>4. ASSUME NEW u \in Users, NEW v \in Users, ConfirmElsewhere(t, u, v) PROVE TabOK'
    <2>1. MoneyOK'
      BY <1>2, <1>4 DEF ConfirmElsewhere, Somebody
    <2> QED
      BY <1>1, <1>4, <2>1 DEF ConfirmElsewhere, data, form, FormOK, DataOK, AnswersHaveOwners
  <1>5. ASSUME Answered(t), recipient' \in {recipient, Nobody} PROVE FormOK'
    BY <1>1, <1>5 DEF Answered, FormOK
  <1>6. CASE TransferAnswered(t)
    BY <1>1, <1>5, <1>6, InvalidateTypes DEF TransferAnswered, money, MoneyOK
  <1>7. CASE TransferRefused(t)
    BY <1>1, <1>5, <1>7 DEF TransferRefused, data, money, MoneyOK, DataOK, AnswersHaveOwners
  <1>8. CASE AnswerLost(t)
    BY <1>1, <1>5, <1>8, ShowingKeys DEF AnswerLost, money, MoneyOK, DataOK, AnswersHaveOwners
  <1> QED
    BY <1>3, <1>4, <1>6, <1>7, <1>8 DEF Send

LEMMA SettleTypes ==
  ASSUME TabOK, NEW t \in Transfers, Settle(t)
  PROVE  TabOK'
  <1> USE ShowingKeys DEF TabOK
  <1>1. UNCHANGED <<session, socket, form, signIns>> /\ SessionOK' /\ FormOK'
    BY DEF Settle, Deduct, Refuse, Credit, Refund, Notify, NotifyFails, session, form,
           SessionOK, FormOK
  <1>2. ASSUME NEW from, NEW next \in {"held", "paid", "returned", "refused"}, Becomes(t, from, next)
        PROVE  transfer' \in [Transfers -> Sent]
    BY <1>2, SentTypes DEF Becomes
  <1>3. ASSUME NEW u, Changed(u) PROVE version' \in [Users -> Nat]
    <2>1. \A v \in Users : version'[v] = IF v = u THEN version[v] + 1 ELSE version[v]
      BY <1>3 DEF Changed, MoneyOK
    <2>2. version' = [v \in Users |-> version'[v]]
      BY <1>3 DEF Changed, MoneyOK
    <2>3. \A v \in Users : version'[v] \in Nat
      BY <2>1 DEF MoneyOK
    <2> QED
      BY <2>2, <2>3
  <1>4. MoneyOK'
    <2>1. CASE Deduct(t) \/ Refuse(t)
      BY <1>2, <1>3, <2>1 DEF Deduct, Refuse, MoneyOK
    <2>2. CASE Credit(t) \/ Refund(t)
      BY <1>2, <1>3, <2>2 DEF Credit, Refund, MoneyOK
    <2>3. CASE Notify(t) \/ NotifyFails(t)
      BY <2>3 DEF Notify, NotifyFails, MoneyOK
    <2> QED
      BY <2>1, <2>2, <2>3 DEF Settle
  <1>5. DataOK'
    <2>1. CASE UNCHANGED <<cache, query>> /\ missed' \subseteq Keys
      BY <2>1 DEF DataOK, AnswersHaveOwners
    <2>2. CASE Deduct(t) \/ Refuse(t) \/ Credit(t) \/ Refund(t) \/ NotifyFails(t)
      BY <2>1, <2>2 DEF Deduct, Refuse, Credit, Refund, NotifyFails, data, DataOK
    <2>3. CASE Notify(t)
      BY <2>1, <2>3, InvalidateTypes DEF Notify, DataOK
    <2> QED
      BY <2>2, <2>3 DEF Settle
  <1> QED
    BY <1>1, <1>4, <1>5

LEMMA TabInit == Init => TabOK
  <1> SUFFICES ASSUME Init PROVE TabOK
    OBVIOUS
  <1>1. SessionOK /\ FormOK /\ socket \in Somebody
    BY DEF Init, SessionOK, FormOK, Routes, Somebody
  <1>2. DataOK /\ signIns \in 0 .. MaxSignIns
    BY MaxSignInsAssumption DEF Init, DataOK, AnswersHaveOwners
  <1>3. MoneyOK
    BY DEF Init, MoneyOK, Sent, Somebody
  <1> QED
    BY <1>1, <1>2, <1>3 DEF TabOK

LEMMA TabNext == AccountsTypeOK /\ TabOK /\ [Next]_vars => TabOK'
  <1> SUFFICES ASSUME AccountsTypeOK, TabOK, [Next]_vars PROVE TabOK'
    OBVIOUS
  <1> USE DEF TabOK, SessionOK, DataOK, AnswersHaveOwners, FormOK, MoneyOK
  <1>1. CASE Services \/ UNCHANGED vars
    BY <1>1 DEF Services, vars, session, data, form, money
  <1>2. CASE JoinRoom \/ Disconnect
    BY <1>2 DEF JoinRoom, Disconnect, session, data, form, money, Somebody
  <1>3. CASE Refresh
    <2>1. query' = [query EXCEPT !["balance"] = Ask(token)] /\ "balance" \in Keys
      BY <1>3 DEF Refresh
    <2>2. DataOK'
      BY <1>3, <2>1, AskIsQuery DEF Refresh
    <2> QED
      BY <1>3, <2>2 DEF Refresh, session, form, money
  <1>4. CASE ChangeRecipient
    BY <1>4 DEF ChangeRecipient, session, data, money, Somebody
  <1>5. ASSUME NEW u \in Users, FindRecipient(u) PROVE TabOK'
    BY <1>5 DEF FindRecipient, session, data, money, Somebody
  <1> QED
    BY <1>1, <1>2, <1>3, <1>4, <1>5, BrowseTypes, ProfileTypes, QueryTypes, SendTypes, SettleTypes
    DEF Next

\* Every variable of the accounts, the tab and the money keeps its type.
THEOREM ClientTypeCorrect == Spec => []TypeOK
  <1>1. Init => AccountsTypeOK /\ TabOK
    BY AccountsInitial, AccountsTypeInit, TabInit
  <1>2. AccountsTypeOK /\ TabOK /\ [Next]_vars => AccountsTypeOK' /\ TabOK'
    BY AccountsTypeNext, TabNext
  <1> QED
    BY <1>1, <1>2, TabTypes, PTL DEF Spec

-----------------------------------------------------------------------------
(***************************************************************************)
(* Part 4: until the token is taken away or replaced in place, whatever    *)
(* the document holds and asks for belongs to the user of the token.       *)
(***************************************************************************)
Belongs(x) ==
    /\ socket \in {Nobody, x} /\ rootUser \in {Nobody, x}
    /\ \A f \in fetches : f.as \in {Nobody, x}
    /\ \A k \in Keys : cache[k] # NoData => cache[k].of \in {Nobody, x}
    /\ \A k \in Keys : query[k] # NoQuery => query[k].as \in {Nobody, x}

OneOwner == ~mixed => Belongs(token)

LEMMA OwnerCount == OneOwner => OneUserPerDocument
  <1> SUFFICES ASSUME OneOwner, ~mixed PROVE Cardinality(Owners) <= 1
    BY DEF OneUserPerDocument
  <1>1. Owners \subseteq {token}
    BY DEF Owners, OneOwner, Belongs
  <1>2. CASE Owners = {}
    BY <1>2, FS_EmptySet
  <1>3. CASE Owners # {}
    <2>1. Owners = {token}
      BY <1>1, <1>3
    <2>2. Cardinality({token}) = 1
      BY FS_Singleton
    <2> QED
      BY <2>1, <2>2
  <1> QED
    BY <1>2, <1>3

LEMMA OwnersLoad ==
  ASSUME NEW p \in Routes, NEW u \in Somebody, Load(p, u)
  PROVE  OneOwner'
  <1> DEFINE shown == IF u = Nobody /\ p \in Pages THEN "login" ELSE p
  <1>1. /\ token' = u /\ rootUser' = Nobody /\ socket' = Nobody
        /\ fetches' = FetchOnMount("root", shown, u) \union FetchOnMount("page", shown, u)
        /\ cache' = [k \in Keys |-> NoData]
        /\ query' = [k \in Keys |-> IF k \in Active(shown) THEN Ask(u) ELSE NoQuery]
    BY DEF Load
  <1> HIDE DEF shown
  <1> QED
    BY <1>1, MountFetches, AskIsQuery DEF OneOwner, Belongs

LEMMA OwnersMount ==
  ASSUME TabOK, OneOwner, NEW p \in Routes, NEW u \in Somebody, NEW rest \in SUBSET fetches,
         NEW m \in BOOLEAN, Mount(p, u, rest, m),
         ~m => ~mixed /\ u = token
  PROVE  OneOwner'
  <1>1. CASE u = Nobody /\ p \in Pages
    BY <1>1, OwnersLoad DEF Mount, Routes
  <1>2. CASE ~(u = Nobody /\ p \in Pages)
    <2> DEFINE left == {IF f.by = "page" THEN [f EXCEPT !.by = "gone"] ELSE f : f \in rest}
    <2>1. \A g \in left : \E f \in rest : g.as = f.as
      BY RestFetches DEF TabOK, SessionOK
    <2> HIDE DEF left
    <2>2. /\ token' = u /\ mixed' = m
          /\ fetches' = FetchOnMount("page", p, u) \union left
          /\ query' = [k \in Keys |->
                         IF k \in Active(p) /\ query[k] = NoQuery /\ ~Usable(k)
                         THEN Ask(u) ELSE query[k]]
          /\ UNCHANGED <<rootUser, socket, cache>>
      BY <1>2 DEF Mount, left
    <2>3. SUFFICES ASSUME ~m PROVE Belongs(u)'
      BY <2>2 DEF OneOwner
    <2>4. Belongs(u)
      BY <2>3 DEF OneOwner
    <2>5. \A f \in fetches' : f.as \in {Nobody, u}
      BY <2>1, <2>2, <2>4, MountFetches DEF Belongs
    <2>6. \A k \in Keys : query'[k] # NoQuery => query'[k].as \in {Nobody, u}
      BY <2>2, <2>4, AskIsQuery DEF Belongs
    <2> QED
      BY <2>2, <2>4, <2>5, <2>6 DEF Belongs
  <1> QED
    BY <1>1, <1>2

LEMMA OwnersInvalidate ==
  ASSUME TabOK, OneOwner, NEW K, Invalidate(K), UNCHANGED <<session, socket>>
  PROVE  OneOwner'
  <1> DEFINE again == {k \in K \intersect Active(page) : cache[k] # NoData \/ query[k] = NoQuery}
  <1>1. /\ cache' = [k \in Keys |->
                       IF k \in K /\ cache[k] # NoData THEN [cache[k] EXCEPT !.stale = TRUE] ELSE cache[k]]
        /\ query' = [k \in Keys |-> IF k \in again THEN Ask(token) ELSE query[k]]
    BY DEF Invalidate
  <1> HIDE DEF again
  <1>2. \A e \in Cached : [e EXCEPT !.stale = TRUE].of = e.of
    BY DEF Cached
  <1>3. \A k \in Keys : cache'[k] # NoData => cache[k] # NoData /\ cache'[k].of = cache[k].of
    BY <1>1, <1>2 DEF TabOK, DataOK
  <1>4. token \in Somebody
    BY DEF TabOK, SessionOK
  <1> QED
    BY <1>1, <1>3, <1>4, AskIsQuery DEF session, OneOwner, Belongs

LEMMA OwnersBrowse ==
  ASSUME TabOK, OneOwner, Browse
  PROVE  OneOwner'
  <1>1. /\ token \in Somebody /\ mixed \in BOOLEAN /\ Nobody \in Somebody
        /\ fetches \in SUBSET fetches /\ "login" \in Routes
    BY DEF TabOK, SessionOK, Somebody, Routes
  <1>2. ASSUME NEW p \in Pages \union {"login", "register"}, OpenPage(p) \/ FollowLink(p)
        PROVE  OneOwner'
    BY <1>1, <1>2, OwnersLoad, OwnersMount DEF OpenPage, FollowLink, Routes
  <1>3. ASSUME NEW u \in Users, SignUp(u) PROVE OneOwner'
    BY <1>1, <1>3, OwnersMount DEF SignUp
  <1>4. ASSUME NEW u \in Users, SignIn(u) PROVE OneOwner'
    <2> DEFINE f == [by |-> "page", as |-> u, push |-> TRUE]
    <2>1. f.as = u
      OBVIOUS
    <2>2. /\ token' = u /\ fetches' = fetches \union {f}
          /\ mixed' = (mixed \/ token \notin {Nobody, u})
          /\ UNCHANGED <<rootUser, socket, cache, query>>
      BY <1>4 DEF SignIn, data
    <2> HIDE DEF f
    <2> QED
      BY <2>1, <2>2 DEF OneOwner, Belongs
  <1>5. CASE SignInRefused
    BY <1>5 DEF SignInRefused, OneOwner
  <1>6. CASE Logout
    <2>1. Mount("login", Nobody, fetches, mixed \/ token # Nobody)
      BY <1>6 DEF Logout
    <2>2. (mixed \/ token # Nobody) \in BOOLEAN
      OBVIOUS
    <2> QED
      BY <1>1, <2>1, <2>2, OwnersMount
  <1> QED
    BY <1>2, <1>3, <1>4, <1>5, <1>6 DEF Browse

LEMMA OwnersProfile ==
  ASSUME TabOK, OneOwner, FetchProfile
  PROVE  OneOwner'
  <1>1. PICK f \in fetches :
          ProfileFetched(f) \/ ProfileMissing(f) \/ ProfileUnavailable(f) \/ ProfileUnauthorized(f)
    BY DEF FetchProfile
  <1>2. /\ fetches \ {f} \in SUBSET fetches /\ token \in Somebody /\ mixed \in BOOLEAN
        /\ Nobody \in Somebody /\ "login" \in Routes /\ "overview" \in Routes
    BY PagesAssumption DEF TabOK, SessionOK, Somebody, Routes
  <1>3. CASE ProfileFails(f)
    <2>1. CASE Load("login", Nobody)
      BY <1>2, <2>1, OwnersLoad
    <2>2. CASE /\ SetUser(f.by, Nobody) /\ fetches' = fetches \ {f}
               /\ DropToken /\ UNCHANGED <<page, socket, data, form>>
      BY <2>2 DEF SetUser, DropToken, data, OneOwner, Belongs
    <2> QED
      BY <1>3, <2>1, <2>2 DEF ProfileFails
  <1>4. CASE Unauthorized
    BY <1>2, <1>4, OwnersLoad DEF Unauthorized
  <1>5. CASE ProfileFetched(f)
    <2>1. CASE f.push
      BY <1>2, <1>5, <2>1, OwnersMount DEF ProfileFetched
    <2>2. CASE ~f.push /\ f.by = "page" /\ page \in Pages /\ token = Nobody
      BY <1>2, <1>5, <2>2, OwnersLoad DEF ProfileFetched
    <2>3. CASE ~f.push /\ ~(f.by = "page" /\ page \in Pages /\ token = Nobody)
      <3>1. /\ SetUser(f.by, f.as) /\ fetches' = fetches \ {f}
            /\ UNCHANGED <<page, token, mixed, socket, data, form>>
        BY <1>5, <2>3 DEF ProfileFetched
      <3> QED
        BY <3>1 DEF SetUser, data, OneOwner, Belongs
    <2> QED
      BY <2>1, <2>2, <2>3
  <1> QED
    BY <1>1, <1>3, <1>4, <1>5 DEF ProfileMissing, ProfileUnavailable, ProfileUnauthorized

LEMMA OwnersQuery ==
  ASSUME TabOK, OneOwner, NEW k \in Keys, Query(k)
  PROVE  OneOwner'
  <1>1. query[k] # NoQuery => query[k] \in Queried
    BY DEF TabOK, DataOK
  <1>2. CASE QueryRead(k)
    <2> DEFINE q == [query[k] EXCEPT !.read = TRUE, !.val = version[query[k].as]]
    <2>1. q.as = query[k].as
      BY <1>1, <1>2 DEF QueryRead, Queried
    <2>2. /\ query' = [query EXCEPT ![k] = q] /\ query[k] # NoQuery
          /\ UNCHANGED <<session, socket, cache>>
      BY <1>2 DEF QueryRead
    <2> HIDE DEF q
    <2> QED
      BY <2>1, <2>2 DEF session, OneOwner, Belongs, TabOK, DataOK
  <1>3. CASE QueryDone(k)
    <2> DEFINE e == [of |-> query[k].as, seen |-> query[k].val, stale |-> FALSE]
    <2>1. e.of = query[k].as
      OBVIOUS
    <2>2. /\ cache' = [cache EXCEPT ![k] = e] /\ query' = [query EXCEPT ![k] = NoQuery]
          /\ query[k] # NoQuery /\ UNCHANGED <<session, socket>>
      BY <1>3 DEF QueryDone
    <2> HIDE DEF e
    <2> QED
      BY <2>1, <2>2 DEF session, OneOwner, Belongs, TabOK, DataOK
  <1>4. CASE QueryFails(k)
    BY <1>4 DEF QueryFails, session, OneOwner, Belongs, TabOK, DataOK
  <1>5. CASE QueryUnauthorized(k)
    <2>1. CASE page # "login"
      BY <1>5, <2>1, OwnersLoad DEF QueryUnauthorized, Unauthorized, Routes, Somebody
    <2>2. CASE page = "login"
      BY <1>5, <2>2 DEF QueryUnauthorized, DropToken, form, OneOwner, Belongs, TabOK, DataOK
    <2> QED
      BY <2>1, <2>2
  <1>6. CASE GoStale(k)
    <2> DEFINE e == [cache[k] EXCEPT !.stale = TRUE]
    <2>1. cache[k] # NoData /\ e.of = cache[k].of
      BY <1>6 DEF GoStale, Usable, TabOK, DataOK, Cached
    <2>2. cache' = [cache EXCEPT ![k] = e] /\ UNCHANGED <<session, socket, query>>
      BY <1>6 DEF GoStale
    <2> HIDE DEF e
    <2> QED
      BY <2>1, <2>2 DEF session, OneOwner, Belongs, TabOK, DataOK
  <1> QED
    BY <1>2, <1>3, <1>4, <1>5, <1>6 DEF Query

LEMMA OwnersNext == TabOK /\ OneOwner /\ [Next]_vars => OneOwner'
  <1> SUFFICES ASSUME TabOK, OneOwner, [Next]_vars PROVE OneOwner'
    OBVIOUS
  <1>1. CASE UNCHANGED <<session, socket, cache, query>>
    BY <1>1 DEF session, OneOwner, Belongs
  <1>2. CASE Services \/ UNCHANGED vars \/ ChangeRecipient \/ (\E u \in Users : FindRecipient(u))
    BY <1>1, <1>2 DEF Services, vars, data, ChangeRecipient, FindRecipient
  <1>3. CASE JoinRoom \/ Disconnect
    BY <1>3 DEF JoinRoom, Disconnect, session, data, OneOwner, Belongs
  <1>4. CASE Refresh
    <2>1. /\ query' = [query EXCEPT !["balance"] = Ask(token)] /\ token \in Somebody
          /\ UNCHANGED <<session, socket, cache>>
      BY <1>4 DEF Refresh, TabOK, SessionOK
    <2> QED
      BY <2>1, AskIsQuery DEF session, OneOwner, Belongs, TabOK, DataOK
  <1>5. ASSUME NEW t \in Transfers, Send(t) PROVE OneOwner'
    <2>1. CASE TransferAnswered(t)
      BY <2>1, OwnersInvalidate DEF TransferAnswered
    <2>2. CASE ~TransferAnswered(t)
      BY <1>1, <1>5, <2>2 DEF Send, Confirm, ConfirmElsewhere, TransferRefused, AnswerLost, data
    <2> QED
      BY <2>1, <2>2
  <1>6. ASSUME NEW t \in Transfers, Settle(t) PROVE OneOwner'
    <2>1. CASE Notify(t) /\ socket = transfer[t].to
      BY <2>1, OwnersInvalidate DEF Notify
    <2>2. CASE ~(Notify(t) /\ socket = transfer[t].to)
      BY <1>1, <1>6, <2>2 DEF Settle, Deduct, Refuse, Credit, Refund, Notify, NotifyFails, data
    <2> QED
      BY <2>1, <2>2
  <1> QED
    BY <1>2, <1>3, <1>4, <1>5, <1>6, OwnersBrowse, OwnersProfile, OwnersQuery DEF Next

\* A document never holds the data of two users while its token has not been taken
\* away or replaced in place, whatever answers late and whatever fails.
THEOREM DocumentsAreNotShared == Spec => []OneUserPerDocument
  <1> DEFINE Inv == AccountsTypeOK /\ TabOK /\ OneOwner
  <1>1. Init => OneOwner
    BY DEF Init, OneOwner, Belongs
  <1>2. Init => Inv
    BY <1>1, AccountsInitial, AccountsTypeInit, TabInit
  <1>3. Inv /\ [Next]_vars => Inv'
    BY AccountsTypeNext, TabNext, OwnersNext
  <1> QED
    BY <1>2, <1>3, OwnerCount, PTL DEF Spec

-----------------------------------------------------------------------------
(***************************************************************************)
(* Part 5: balances.  What is cached, or on its way in an answer, is what  *)
(* the wallet service has, or news of the difference is on its way (due),  *)
(* or the key has been missed.  The answer of a transfer that has not left *)
(* anything is no news, so due says which transfers it may be about.       *)
(***************************************************************************)
BalanceKeys == Keys \intersect {"balance", "history"}

Due(u) ==
    \/ \E t \in waiting : transfer[t].from = u /\ transfer[t].state \in {"held", "paid", "returned"}
    \/ \E t \in events : transfer[t].to = u

Fits(k, u, v) == k \in missed \/ v = version[u] \/ Due(u)

CacheFits ==
    \A k \in BalanceKeys :
        Usable(k) /\ (query[k] = NoQuery \/ ~query[k].read) => Fits(k, cache[k].of, cache[k].seen)

AnswersFit ==
    \A k \in BalanceKeys :
        query[k] # NoQuery /\ query[k].read => Fits(k, query[k].as, query[k].val)

EventsArePaid == \A t \in events : transfer[t].state = "paid"

BalancesFit == CacheFits /\ AnswersFit /\ EventsArePaid

LEMMA FitIsCurrent == BalancesFit => CurrentWhenQuiet
  BY DEF BalancesFit, CacheFits, Fits, Due, BalanceKeys, CurrentWhenQuiet

\* Steps that leave the money and the news alone.
LEMMA FitsAsBefore ==
  ASSUME UNCHANGED money, waiting' = waiting, NEW k, NEW u, NEW v, Fits(k, u, v),
         k \in missed => k \in missed'
  PROVE  Fits(k, u, v)'
  BY DEF Fits, Due, money

LEMMA BalancesUntouched ==
  ASSUME BalancesFit, UNCHANGED <<money, data, waiting>>
  PROVE  BalancesFit'
  BY DEF BalancesFit, CacheFits, AnswersFit, EventsArePaid, Fits, Due, Usable, TooLate, money, data

LEMMA BalancesLoad ==
  ASSUME BalancesFit, NEW p \in Routes, NEW u \in Somebody, Load(p, u), UNCHANGED money
  PROVE  BalancesFit'
  <1> DEFINE shown == IF u = Nobody /\ p \in Pages THEN "login" ELSE p
  <1>1. /\ cache' = [k \in Keys |-> NoData]
        /\ query' = [k \in Keys |-> IF k \in Active(shown) THEN Ask(u) ELSE NoQuery]
    BY DEF Load
  <1> HIDE DEF shown
  <1>2. CacheFits'
    BY <1>1 DEF CacheFits, BalanceKeys, Usable
  <1>3. AnswersFit'
    BY <1>1, AskIsQuery DEF AnswersFit, BalanceKeys
  <1> QED
    BY <1>2, <1>3 DEF BalancesFit, EventsArePaid, money

LEMMA BalancesMount ==
  ASSUME BalancesFit, NEW p \in Routes, NEW u \in Somebody, NEW rest, NEW m,
         Mount(p, u, rest, m), UNCHANGED money
  PROVE  BalancesFit'
  <1>1. CASE u = Nobody /\ p \in Pages
    BY <1>1, BalancesLoad DEF Mount, Routes
  <1>2. CASE ~(u = Nobody /\ p \in Pages)
    <2>1. /\ query' = [k \in Keys |->
                         IF k \in Active(p) /\ query[k] = NoQuery /\ ~Usable(k)
                         THEN Ask(u) ELSE query[k]]
          /\ UNCHANGED <<cache, missed, waiting>>
      BY <1>2 DEF Mount
    <2>2. \A k \in Keys : Usable(k)' = Usable(k)
      BY <2>1 DEF Usable
    <2>3. \A k \in BalanceKeys : \A x, v : Fits(k, x, v) => Fits(k, x, v)'
      BY <2>1, FitsAsBefore
    <2>4. CacheFits'
      BY <2>1, <2>2, <2>3 DEF BalancesFit, CacheFits, BalanceKeys
    <2>5. AnswersFit'
      BY <2>1, <2>3, AskIsQuery DEF BalancesFit, AnswersFit, BalanceKeys
    <2> QED
      BY <2>4, <2>5 DEF BalancesFit, EventsArePaid, money
  <1> QED
    BY <1>1, <1>2

\* invalidateQueries() leaves nothing that could be wrong.
LEMMA BalancesInvalidate ==
  ASSUME TabOK, NEW K, {"balance", "history"} \subseteq K, Invalidate(K)
  PROVE  CacheFits' /\ AnswersFit'
  <1> DEFINE again == {k \in K \intersect Active(page) : cache[k] # NoData \/ query[k] = NoQuery}
  <1>1. /\ cache' = [k \in Keys |->
                       IF k \in K /\ cache[k] # NoData THEN [cache[k] EXCEPT !.stale = TRUE] ELSE cache[k]]
        /\ query' = [k \in Keys |-> IF k \in again THEN Ask(token) ELSE query[k]]
        /\ missed' = missed \union {k \in (K \intersect Keys) \ again : TooLate(k)}
    BY DEF Invalidate
  <1> HIDE DEF again
  <1>2. \A e \in Cached : [e EXCEPT !.stale = TRUE].stale
    BY DEF Cached
  <1>3. \A k \in BalanceKeys : ~Usable(k)'
    BY <1>1, <1>2 DEF TabOK, DataOK, Usable, BalanceKeys
  <1>4. ASSUME NEW k \in BalanceKeys, query'[k] # NoQuery, query'[k].read
        PROVE  k \in missed'
    <2>1. token \in Somebody
      BY DEF TabOK, SessionOK
    <2>2. k \notin again
      BY <1>1, <1>4, <2>1, AskIsQuery DEF BalanceKeys
    <2> QED
      BY <1>1, <1>4, <2>2 DEF TooLate, BalanceKeys
  <1> QED
    BY <1>3, <1>4 DEF CacheFits, AnswersFit, Fits

LEMMA BalancesBrowse ==
  ASSUME TabOK, BalancesFit, Browse
  PROVE  BalancesFit'
  <1>1. token \in Somebody /\ Nobody \in Somebody /\ "login" \in Routes
    BY DEF TabOK, SessionOK, Somebody, Routes
  <1>2. ASSUME NEW p \in Pages \union {"login", "register"}, OpenPage(p) \/ FollowLink(p)
        PROVE  BalancesFit'
    BY <1>1, <1>2, BalancesLoad, BalancesMount DEF OpenPage, FollowLink, Routes
  <1>3. ASSUME NEW u \in Users, SignUp(u) PROVE BalancesFit'
    BY <1>1, <1>3, BalancesMount DEF SignUp
  <1>4. ASSUME NEW u \in Users, SignIn(u) PROVE BalancesFit'
    BY <1>4, BalancesUntouched DEF SignIn, form
  <1>5. CASE SignInRefused
    BY <1>5, BalancesUntouched DEF SignInRefused, form
  <1>6. CASE Logout
    BY <1>1, <1>6, BalancesMount DEF Logout
  <1> QED
    BY <1>2, <1>3, <1>4, <1>5, <1>6 DEF Browse

LEMMA BalancesProfile ==
  ASSUME TabOK, BalancesFit, FetchProfile
  PROVE  BalancesFit'
  <1>1. PICK f \in fetches :
          ProfileFetched(f) \/ ProfileMissing(f) \/ ProfileUnavailable(f) \/ ProfileUnauthorized(f)
    BY DEF FetchProfile
  <1>2. token \in Somebody /\ Nobody \in Somebody /\ "login" \in Routes /\ "overview" \in Routes
    BY PagesAssumption DEF TabOK, SessionOK, Somebody, Routes
  <1>3. UNCHANGED money
    BY <1>1 DEF ProfileFetched, ProfileMissing, ProfileUnavailable, ProfileUnauthorized
  <1>4. CASE ProfileFails(f) \/ Unauthorized
    BY <1>2, <1>3, <1>4, BalancesLoad, BalancesUntouched DEF ProfileFails, Unauthorized, form
  <1>5. CASE ProfileFetched(f)
    BY <1>2, <1>3, <1>5, BalancesLoad, BalancesMount, BalancesUntouched DEF ProfileFetched, form
  <1> QED
    BY <1>1, <1>4, <1>5 DEF ProfileMissing, ProfileUnavailable, ProfileUnauthorized

LEMMA BalancesQuery ==
  ASSUME TabOK, BalancesFit, NEW k \in Keys, Query(k)
  PROVE  BalancesFit'
  <1> USE DEF BalanceKeys
  <1>1. query[k] # NoQuery => query[k] \in Queried
    BY DEF TabOK, DataOK
  <1>2. /\ cache = [j \in Keys |-> cache[j]] /\ query = [j \in Keys |-> query[j]]
        /\ CacheFits /\ AnswersFit /\ EventsArePaid
    BY DEF TabOK, DataOK, BalancesFit
  <1>3. UNCHANGED money /\ EventsArePaid'
    BY <1>2 DEF Query, QueryRead, QueryDone, QueryFails, QueryUnauthorized, GoStale,
                EventsArePaid, money
  <1>4. CASE QueryRead(k)
    <2> DEFINE q == [query[k] EXCEPT !.read = TRUE, !.val = version[query[k].as]]
    <2>0. query[k].as \in Users
      BY <1>1, <1>4 DEF QueryRead, Queried, Somebody
    <2>1. q \in Queried /\ q.as = query[k].as /\ q.read /\ q.val = version[q.as]
      BY <1>1, <1>4, <2>0 DEF QueryRead, Queried, TabOK, MoneyOK
    <2>2. /\ query' = [query EXCEPT ![k] = q] /\ missed' = missed \ {k} /\ query[k] # NoQuery
          /\ UNCHANGED <<cache, waiting>>
      BY <1>4 DEF QueryRead, form
    <2> HIDE DEF q
    <2>3. \A j \in Keys : \A u, v : j # k /\ Fits(j, u, v) => Fits(j, u, v)'
      BY <1>3, <2>2, FitsAsBefore
    <2>4. query'[k] = q /\ \A j \in Keys : j # k => query'[j] = query[j]
      BY <1>2, <2>2
    <2>5. \A j \in Keys : Usable(j)' = Usable(j)
      BY <2>2 DEF Usable
    <2>6. query'[k] # NoQuery
      BY <2>1, <2>4, NoQueryAssumption DEF Queried, Somebody
    <2>7. AnswersFit'
      <3> SUFFICES ASSUME NEW j \in BalanceKeys, query'[j] # NoQuery, query'[j].read
                   PROVE  Fits(j, query[j].as, query[j].val)'
        BY DEF AnswersFit
      <3>1. CASE j = k
        BY <1>3, <2>1, <2>4, <3>1 DEF Fits, money
      <3>2. CASE j # k
        BY <1>2, <2>3, <2>4, <3>2 DEF AnswersFit
      <3> QED
        BY <3>1, <3>2
    <2>8. CacheFits'
      <3> SUFFICES ASSUME NEW j \in BalanceKeys, Usable(j)', query'[j] = NoQuery \/ ~query'[j].read
                   PROVE  Fits(j, cache[j].of, cache[j].seen)'
        BY DEF CacheFits
      <3>1. j # k
        BY <2>1, <2>4, <2>6
      <3> QED
        BY <1>2, <2>2, <2>3, <2>4, <2>5, <3>1 DEF CacheFits
    <2> QED
      BY <1>3, <2>7, <2>8 DEF BalancesFit
  <1>5. CASE QueryDone(k)
    <2> DEFINE e == [of |-> query[k].as, seen |-> query[k].val, stale |-> FALSE]
    <2>1. e.of = query[k].as /\ e.seen = query[k].val
      OBVIOUS
    <2>2. /\ cache' = [cache EXCEPT ![k] = e] /\ query' = [query EXCEPT ![k] = NoQuery]
          /\ query[k] # NoQuery /\ query[k].read /\ UNCHANGED <<missed, waiting>>
      BY <1>5 DEF QueryDone, form
    <2> HIDE DEF e
    <2>3. \A j \in Keys : \A u, v : Fits(j, u, v) => Fits(j, u, v)'
      BY <1>3, <2>2, FitsAsBefore
    <2>4. /\ cache'[k] = e /\ query'[k] = NoQuery
          /\ \A j \in Keys : j # k => query'[j] = query[j] /\ cache'[j] = cache[j]
      BY <1>2, <2>2
    <2>5. AnswersFit'
      BY <1>2, <2>3, <2>4 DEF AnswersFit
    <2>6. CacheFits'
      BY <1>2, <2>1, <2>2, <2>3, <2>4 DEF CacheFits, AnswersFit, Usable
    <2> QED
      BY <1>3, <2>5, <2>6 DEF BalancesFit
  <1>6. CASE QueryFails(k) \/ (QueryUnauthorized(k) /\ page = "login")
    <2>1. /\ query' = [query EXCEPT ![k] = NoQuery]
          /\ ~query[k].read /\ UNCHANGED <<cache, missed, waiting>>
      BY <1>6 DEF QueryFails, QueryUnauthorized, form
    <2>2. \A j \in Keys : \A u, v : Fits(j, u, v) => Fits(j, u, v)'
      BY <1>3, <2>1, FitsAsBefore
    <2>3. query'[k] = NoQuery /\ \A j \in Keys : j # k => query'[j] = query[j]
      BY <1>2, <2>1
    <2>4. AnswersFit'
      BY <1>2, <2>2, <2>3 DEF AnswersFit
    <2>5. CacheFits'
      BY <1>2, <2>1, <2>2, <2>3 DEF CacheFits, Usable
    <2> QED
      BY <1>3, <2>4, <2>5 DEF BalancesFit
  <1>7. CASE QueryUnauthorized(k) /\ page # "login"
    BY <1>3, <1>7, BalancesLoad DEF QueryUnauthorized, Unauthorized, Routes, Somebody
  <1>8. CASE GoStale(k)
    <2> DEFINE e == [cache[k] EXCEPT !.stale = TRUE]
    <2>1. e.stale
      BY <1>8 DEF GoStale, Usable, TabOK, DataOK, Cached
    <2>2. cache' = [cache EXCEPT ![k] = e] /\ UNCHANGED <<query, missed, waiting>>
      BY <1>8 DEF GoStale, form
    <2> HIDE DEF e
    <2>3. \A j \in Keys : \A u, v : Fits(j, u, v) => Fits(j, u, v)'
      BY <1>3, <2>2, FitsAsBefore
    <2>4. cache'[k] = e /\ \A j \in Keys : j # k => cache'[j] = cache[j]
      BY <1>2, <2>2
    <2>5. AnswersFit'
      BY <1>2, <2>2, <2>3 DEF AnswersFit
    <2>6. CacheFits'
      BY <1>2, <2>1, <2>2, <2>3, <2>4 DEF CacheFits, Usable
    <2> QED
      BY <1>3, <2>5, <2>6 DEF BalancesFit
  <1> QED
    BY <1>4, <1>5, <1>6, <1>7, <1>8 DEF Query

\* A step that moves money or news: what fits goes on fitting where it is shown.
LEMMA BalancesMove ==
  ASSUME BalancesFit, UNCHANGED <<cache, query>>, EventsArePaid',
         \A k \in BalanceKeys : \A u, v :
            Fits(k, u, v) /\ ((cache[k] # NoData /\ cache[k].of = u) \/ (TooLate(k) /\ query[k].as = u))
               => Fits(k, u, v)'
  PROVE  BalancesFit'
  <1>1. CacheFits'
    <2> SUFFICES ASSUME NEW k \in BalanceKeys, Usable(k)', query'[k] = NoQuery \/ ~query'[k].read
                 PROVE  Fits(k, cache[k].of, cache[k].seen)'
      BY DEF CacheFits
    <2>1. Usable(k) /\ (query[k] = NoQuery \/ ~query[k].read)
      BY DEF Usable
    <2>2. Fits(k, cache[k].of, cache[k].seen) /\ cache[k] # NoData
      BY <2>1 DEF BalancesFit, CacheFits, Usable
    <2>3. \A u, v : u = cache[k].of /\ Fits(k, u, v) => Fits(k, u, v)'
      BY <2>2
    <2> QED
      BY <2>2, <2>3
  <1>2. AnswersFit'
    BY DEF BalancesFit, AnswersFit, TooLate
  <1> QED
    BY <1>1, <1>2 DEF BalancesFit

LEMMA BalancesSend ==
  ASSUME TabOK, BalancesFit, NEW t \in Transfers, Send(t)
  PROVE  BalancesFit'
  <1>1. EventsArePaid
    BY DEF BalancesFit
  <1>2. ASSUME NEW u, NEW v, Requested(t, u, v), waiting' \in {waiting, waiting \union {t}},
               UNCHANGED data
        PROVE  BalancesFit'
    <2> DEFINE e == [from |-> u, to |-> v, state |-> "asked"]
    <2>1. /\ transfer' = [transfer EXCEPT ![t] = e] /\ transfer[t].state = "none"
          /\ UNCHANGED <<version, events>>
      BY <1>2 DEF Requested
    <2>2. e.state = "asked"
      OBVIOUS
    <2> HIDE DEF e
    <2>3. /\ transfer'[t] = e
          /\ \A s \in Transfers : s # t => transfer'[s] = transfer[s]
      BY <2>1 DEF TabOK, MoneyOK
    <2>4. t \notin events
      BY <1>1, <2>1 DEF EventsArePaid
    <2>5. waiting \subseteq Transfers /\ events \subseteq Transfers
      BY DEF TabOK, FormOK, MoneyOK
    <2>6. ASSUME NEW x, Due(x) PROVE Due(x)'
      BY <1>2, <2>1, <2>3, <2>4, <2>5, <2>6 DEF Due
    <2>7. EventsArePaid'
      BY <1>1, <2>1, <2>3, <2>4, <2>5 DEF EventsArePaid
    <2> QED
      BY <1>2, <2>1, <2>6, <2>7, BalancesMove DEF data, Fits
  <1>3. CASE Confirm(t)
    BY <1>2, <1>3 DEF Confirm
  <1>4. ASSUME NEW u \in Users, NEW v \in Users, ConfirmElsewhere(t, u, v) PROVE BalancesFit'
    BY <1>2, <1>4 DEF ConfirmElsewhere, form
  <1>5. CASE TransferAnswered(t)
    BY <1>1, <1>5, BalancesInvalidate DEF TransferAnswered, BalancesFit, EventsArePaid, money
  <1>6. CASE TransferRefused(t)
    <2>1. /\ UNCHANGED <<data, money>> /\ waiting' = waiting \ {t}
          /\ transfer[t].state = "refused"
      BY <1>6 DEF TransferRefused, Answered
    <2>2. ASSUME NEW x, Due(x) PROVE Due(x)'
      BY <2>1, <2>2 DEF Due, money
    <2> QED
      BY <1>1, <2>1, <2>2, BalancesMove DEF data, money, Fits, EventsArePaid
  <1>7. CASE AnswerLost(t)
    <2>1. /\ UNCHANGED <<cache, query, money>> /\ waiting' = waiting \ {t}
          /\ missed' = missed \union Showing(transfer[t].from)
      BY <1>7 DEF AnswerLost, Answered
    <2>2. ASSUME NEW x, Due(x), x # transfer[t].from PROVE Due(x)'
      BY <2>1, <2>2 DEF Due, money
    <2> QED
      BY <1>1, <2>1, <2>2, BalancesMove DEF BalanceKeys, money, Fits, EventsArePaid, Showing
  <1> QED
    BY <1>3, <1>4, <1>5, <1>6, <1>7 DEF Send

LEMMA BalancesSettle ==
  ASSUME TabOK, BalancesFit, NEW t \in Transfers, Settle(t)
  PROVE  BalancesFit'
  <1>1. EventsArePaid /\ waiting' = waiting
    BY DEF BalancesFit, Settle, Deduct, Refuse, Credit, Refund, Notify, NotifyFails, form
  <1>2. waiting \subseteq Transfers /\ events \subseteq Transfers
    BY DEF TabOK, FormOK, MoneyOK
  <1>3. ASSUME NEW from, NEW next \in {"held", "paid", "returned", "refused"},
               Becomes(t, from, next), from # "paid"
        PROVE  /\ transfer[t].state = from /\ transfer'[t].state = next /\ t \notin events
               /\ \A s \in Transfers : /\ transfer'[s].from = transfer[s].from
                                       /\ transfer'[s].to = transfer[s].to
                                       /\ s # t => transfer'[s] = transfer[s]
    BY <1>1, <1>3, SentTypes DEF Becomes, EventsArePaid
  <1>4. ASSUME NEW u, Changed(u) PROVE \A v \in Users : v # u => version'[v] = version[v]
    BY <1>4 DEF Changed, TabOK, MoneyOK
  <1>5. \A k \in BalanceKeys : /\ cache[k] # NoData => cache[k].of \in Users
                               /\ TooLate(k) => query[k].as \in Users
    BY DEF BalanceKeys, TabOK, DataOK, AnswersHaveOwners, Cached, Queried, Somebody, TooLate
  <1>6. CASE Deduct(t)
    <2>1. /\ Becomes(t, "asked", "held") /\ Changed(transfer[t].from) /\ UNCHANGED <<cache, query, events>>
          /\ missed' = missed \union (IF t \in waiting THEN {} ELSE Showing(transfer[t].from))
      BY <1>6 DEF Deduct
    <2>2. ASSUME NEW x, Due(x) PROVE Due(x)'
      BY <1>1, <1>2, <1>3, <2>1, <2>2 DEF Due
    <2>3. ASSUME NEW x, x = transfer[t].from, t \in waiting PROVE Due(x)'
      BY <1>1, <1>3, <2>1, <2>3 DEF Due
    <2>4. EventsArePaid'
      BY <1>1, <1>2, <1>3, <2>1 DEF EventsArePaid
    <2>5. ASSUME NEW k \in BalanceKeys, NEW u, NEW v, Fits(k, u, v),
                 (cache[k] # NoData /\ cache[k].of = u) \/ (TooLate(k) /\ query[k].as = u)
          PROVE  Fits(k, u, v)'
      <3>1. CASE u = transfer[t].from
        <4>1. CASE t \in waiting
          BY <2>3, <3>1, <4>1 DEF Fits
        <4>2. CASE t \notin waiting
          BY <2>1, <2>5, <3>1, <4>2 DEF Fits, Showing, BalanceKeys
        <4> QED
          BY <4>1, <4>2
      <3>2. CASE u # transfer[t].from
        <4>1. version'[u] = version[u]
          BY <1>4, <1>5, <2>1, <2>5, <3>2
        <4> QED
          BY <2>1, <2>2, <2>5, <4>1 DEF Fits
      <3> QED
        BY <3>1, <3>2
    <2> QED
      BY <2>1, <2>4, <2>5, BalancesMove
  <1>7. CASE Refuse(t)
    <2>1. Becomes(t, "asked", "refused") /\ UNCHANGED <<data, version, events>>
      BY <1>7 DEF Refuse
    <2>2. ASSUME NEW x, Due(x) PROVE Due(x)'
      BY <1>1, <1>2, <1>3, <2>1, <2>2 DEF Due
    <2>3. EventsArePaid'
      BY <1>1, <1>2, <1>3, <2>1 DEF EventsArePaid
    <2> QED
      BY <2>1, <2>2, <2>3, BalancesMove DEF data, Fits
  <1>8. CASE Credit(t)
    <2>1. /\ Becomes(t, "held", "paid") /\ Changed(transfer[t].to) /\ UNCHANGED data
          /\ events' = events \union {t}
      BY <1>8 DEF Credit
    <2>2. ASSUME NEW x, Due(x) PROVE Due(x)'
      BY <1>1, <1>2, <1>3, <2>1, <2>2 DEF Due
    <2>3. ASSUME NEW x, x = transfer[t].to PROVE Due(x)'
      BY <1>3, <2>1, <2>3 DEF Due
    <2>4. EventsArePaid'
      BY <1>1, <1>2, <1>3, <2>1 DEF EventsArePaid
    <2>5. ASSUME NEW k \in BalanceKeys, NEW u, NEW v, Fits(k, u, v),
                 (cache[k] # NoData /\ cache[k].of = u) \/ (TooLate(k) /\ query[k].as = u)
          PROVE  Fits(k, u, v)'
      <3>1. u = transfer[t].to \/ version'[u] = version[u]
        BY <1>4, <1>5, <2>1, <2>5
      <3> QED
        BY <2>1, <2>2, <2>3, <2>5, <3>1 DEF Fits, data
    <2> QED
      BY <2>1, <2>4, <2>5, BalancesMove DEF data
  <1>9. CASE Refund(t)
    <2>1. /\ Becomes(t, "held", "returned") /\ Changed(transfer[t].from)
          /\ UNCHANGED <<cache, query, events>>
          /\ missed' = missed \union Showing(transfer[t].from)
      BY <1>9 DEF Refund
    <2>2. ASSUME NEW x, Due(x) PROVE Due(x)'
      BY <1>1, <1>2, <1>3, <2>1, <2>2 DEF Due
    <2>3. EventsArePaid'
      BY <1>1, <1>2, <1>3, <2>1 DEF EventsArePaid
    <2>4. ASSUME NEW k \in BalanceKeys, NEW u, NEW v, Fits(k, u, v),
                 (cache[k] # NoData /\ cache[k].of = u) \/ (TooLate(k) /\ query[k].as = u)
          PROVE  Fits(k, u, v)'
      <3>1. CASE u = transfer[t].from
        BY <2>1, <2>4, <3>1 DEF Fits, Showing, BalanceKeys
      <3>2. CASE version'[u] = version[u]
        BY <2>1, <2>2, <2>4, <3>2 DEF Fits
      <3> QED
        BY <1>4, <1>5, <2>1, <2>4, <3>1, <3>2
    <2> QED
      BY <2>1, <2>3, <2>4, BalancesMove
  <1>10. CASE Notify(t) \/ NotifyFails(t)
    <2>1. events' = events \ {t} /\ UNCHANGED <<transfer, version>>
      BY <1>10 DEF Notify, NotifyFails
    <2>2. EventsArePaid'
      BY <1>1, <2>1 DEF EventsArePaid
    <2>3. CASE Invalidate({"balance", "history", "wallet-stats"})
      BY <2>2, <2>3, BalancesInvalidate DEF BalancesFit
    <2>4. CASE missed' = missed \union Showing(transfer[t].to) /\ UNCHANGED <<cache, query>>
      <3>1. ASSUME NEW x, Due(x), x # transfer[t].to PROVE Due(x)'
        BY <1>1, <2>1, <3>1 DEF Due
      <3>2. ASSUME NEW k \in BalanceKeys, NEW u, NEW v, Fits(k, u, v),
                   (cache[k] # NoData /\ cache[k].of = u) \/ (TooLate(k) /\ query[k].as = u)
            PROVE  Fits(k, u, v)'
        BY <2>1, <2>4, <3>1, <3>2 DEF Fits, Showing, BalanceKeys
      <3> QED
        BY <2>2, <2>4, <3>2, BalancesMove
    <2> QED
      BY <1>10, <2>3, <2>4 DEF Notify, NotifyFails
  <1> QED
    BY <1>6, <1>7, <1>8, <1>9, <1>10 DEF Settle

LEMMA BalancesNext == TabOK /\ BalancesFit /\ [Next]_vars => BalancesFit'
  <1> SUFFICES ASSUME TabOK, BalancesFit, [Next]_vars PROVE BalancesFit'
    OBVIOUS
  <1>1. CASE Services \/ UNCHANGED vars \/ JoinRoom \/ Disconnect \/ ChangeRecipient
             \/ (\E u \in Users : FindRecipient(u))
    BY <1>1, BalancesUntouched
    DEF Services, vars, form, JoinRoom, Disconnect, ChangeRecipient, FindRecipient
  <1>2. CASE Refresh
    <2>1. /\ query' = [query EXCEPT !["balance"] = Ask(token)] /\ query["balance"] = NoQuery
          /\ UNCHANGED <<cache, missed, waiting, money>> /\ ~Ask(token).read
      BY <1>2, AskIsQuery DEF Refresh, form, TabOK, SessionOK
    <2>2. \A k \in Keys : \A u, v : Fits(k, u, v) => Fits(k, u, v)'
      BY <2>1, FitsAsBefore
    <2>3. \A k \in Keys : query'[k] = IF k = "balance" THEN Ask(token) ELSE query[k]
      BY <2>1 DEF TabOK, DataOK
    <2>4. CacheFits'
      BY <2>1, <2>2, <2>3 DEF BalancesFit, CacheFits, BalanceKeys, Usable
    <2>5. AnswersFit'
      BY <2>1, <2>2, <2>3 DEF BalancesFit, AnswersFit, BalanceKeys
    <2> QED
      BY <2>1, <2>4, <2>5 DEF BalancesFit, EventsArePaid, money
  <1> QED
    BY <1>1, <1>2, BalancesBrowse, BalancesProfile, BalancesQuery, BalancesSend, BalancesSettle
    DEF Next

\* A balance that the tab takes for fresh is the one that the wallet service has, or
\* news of the difference is on its way: of every other difference it is known that
\* the tab has not been told.
THEOREM FreshIsCurrent == Spec => []CurrentWhenQuiet
  <1> DEFINE Inv == AccountsTypeOK /\ TabOK /\ BalancesFit
  <1>1. Init => BalancesFit
    BY DEF Init, BalancesFit, CacheFits, AnswersFit, EventsArePaid, Usable, BalanceKeys
  <1>2. Init => Inv
    BY <1>1, AccountsInitial, AccountsTypeInit, TabInit
  <1>3. Inv /\ [Next]_vars => Inv'
    BY AccountsTypeNext, TabNext, BalancesNext
  <1> QED
    BY <1>2, <1>3, FitIsCurrent, PTL DEF Spec
=============================================================================
