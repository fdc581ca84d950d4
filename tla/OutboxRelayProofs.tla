-------------------------- MODULE OutboxRelayProofs --------------------------
(***************************************************************************)
(* Proofs about OutboxRelay for any finite set of rows, any batch size,    *)
(* any number of overlapping cycles and any faults.                        *)
(*                                                                         *)
(* Part 1: one cycle at a time, whatever happens.                          *)
(* Part 2: with one instance of the wallet service, what a cycle has read  *)
(* is not stale.                                                           *)
(* Part 3: no row is marked that has not been sent, and what has been sent *)
(* is on its way, indexed, or among the losses of a fault.                 *)
(* Part 4: a row is emitted at most once by each instance, however many    *)
(* there are, and once more for each fault.                                *)
(***************************************************************************)
EXTENDS OutboxRelay, FiniteSetTheorems, TLAPS

\* What a cycle has in hand at each of its statements.
HandFollowsStatement ==
    \A w \in Workers :
        /\ pc[w] \in {"idle", "find"} => batch[w] = {}
        /\ pc[w] \in {"idle", "find", "next"} => record[w] = NoRecord
        /\ pc[w] \in {"save", "saveFailed"} => record[w] \in Records
        /\ record[w] \notin batch[w]

CInv == TypeOK /\ OneCycleAtATime /\ HandFollowsStatement

-----------------------------------------------------------------------------
(***************************************************************************)
(* Part 1.                                                                 *)
(***************************************************************************)
LEMMA CycleInit == Init => CInv
  BY MaxFaultsAssumption
  DEF Init, CInv, TypeOK, OneCycleAtATime, HandFollowsStatement, Workers

LEMMA WorkerHome == \A w \in Workers : w[1] \in Instances
  BY DEF Workers

\* A cycle that goes from one statement to another stays the only one.
LEMMA StillWorking ==
  ASSUME TypeOK, OneCycleAtATime, NEW w \in Workers, pc[w] # "idle",
         NEW next \in {"find", "next", "save", "saveFailed"}, Goto(w, next),
         UNCHANGED isProcessing
  PROVE  OneCycleAtATime'
  BY WorkerHome DEF TypeOK, OneCycleAtATime, Goto

LEMMA CycleStep ==
  ASSUME CInv, NEW w \in Workers, Cycle(w)
  PROVE  CInv'
  <1> USE DEF CInv, Goto, table, kafka, cycles
  <1>1. CASE StartCycle(w)
    <2>1. TypeOK'
      BY WorkerHome, <1>1 DEF StartCycle, TypeOK
    <2>2. OneCycleAtATime'
      BY WorkerHome, <1>1 DEF StartCycle, TypeOK, OneCycleAtATime
    <2>3. HandFollowsStatement'
      BY <1>1 DEF StartCycle, TypeOK, HandFollowsStatement
    <2> QED
      BY <2>1, <2>2, <2>3
  <1>2. CASE FindPending(w)
    <2>1. TypeOK'
      BY WorkerHome, <1>2 DEF FindPending, TypeOK, Pending
    <2>2. OneCycleAtATime'
      BY <1>2, StillWorking DEF FindPending
    <2>3. HandFollowsStatement'
      BY <1>2, NoRecordAssumption DEF FindPending, TypeOK, HandFollowsStatement, Pending
    <2> QED
      BY <2>1, <2>2, <2>3
  <1>3. CASE Emit(w)
    <2>1. TypeOK'
      BY WorkerHome, <1>3 DEF Emit, TypeOK
    <2>2. OneCycleAtATime'
      BY <1>3, StillWorking DEF Emit
    <2>3. HandFollowsStatement'
      BY <1>3 DEF Emit, TypeOK, HandFollowsStatement
    <2> QED
      BY <2>1, <2>2, <2>3
  <1>4. CASE SaveProcessed(w) \/ SaveFailed(w)
    <2>1. TypeOK'
      BY WorkerHome, <1>4 DEF SaveProcessed, SaveFailed, SaveAs, TypeOK
    <2>2. OneCycleAtATime'
      BY <1>4, StillWorking DEF SaveProcessed, SaveFailed, SaveAs
    <2>3. HandFollowsStatement'
      BY <1>4, NoRecordAssumption
      DEF SaveProcessed, SaveFailed, SaveAs, TypeOK, HandFollowsStatement
    <2> QED
      BY <2>1, <2>2, <2>3
  <1>5. CASE SaveFails(w)
    <2>1. TypeOK'
      <3>1. row' \in [Records -> {"none", "PENDING", "PROCESSED", "FAILED"}]
        BY <1>5 DEF SaveFails, TypeOK
      <3> QED
        BY <3>1, <1>5, MaxFaultsAssumption DEF SaveFails, Fault, TypeOK
    <2>2. OneCycleAtATime'
      BY <1>5, StillWorking DEF SaveFails
    <2>3. HandFollowsStatement'
      BY <1>5 DEF SaveFails, TypeOK, HandFollowsStatement
    <2> QED
      BY <2>1, <2>2, <2>3
  <1>6. CASE BatchDone(w) \/ FindFails(w) \/ SaveFailedFails(w)
    <2> USE DEF FinishCycle
    <2>1. FinishCycle(w) /\ pc[w] # "idle" /\ faults' \in 0 .. MaxFaults
      BY <1>6, MaxFaultsAssumption DEF BatchDone, FindFails, SaveFailedFails, Fault, TypeOK
    <2>2. row' \in [Records -> {"none", "PENDING", "PROCESSED", "FAILED"}]
      BY <1>6 DEF BatchDone, FindFails, SaveFailedFails, TypeOK
    <2>3. TypeOK'
      BY <2>1, <2>2, WorkerHome DEF TypeOK
    <2>4. OneCycleAtATime'
      BY <2>1, WorkerHome DEF TypeOK, OneCycleAtATime
    <2>5. HandFollowsStatement'
      BY <2>1, NoRecordAssumption DEF TypeOK, HandFollowsStatement
    <2> QED
      BY <2>3, <2>4, <2>5
  <1> QED
    BY <1>1, <1>2, <1>3, <1>4, <1>5, <1>6 DEF Cycle

LEMMA CrashStep ==
  ASSUME CInv, NEW i \in Instances, Crash(i)
  PROVE  CInv'
  <1> USE DEF CInv, Crash, table
  <1>1. TypeOK'
    BY MaxFaultsAssumption DEF Fault, TypeOK
  <1>2. OneCycleAtATime'
    <2>1. /\ isProcessing' = [isProcessing EXCEPT ![i] = FALSE]
          /\ pc' = [w \in Workers |-> IF w[1] = i THEN "idle" ELSE pc[w]]
      OBVIOUS
    <2> QED
      BY <2>1, WorkerHome DEF TypeOK, OneCycleAtATime
  <1>3. HandFollowsStatement'
    BY NoRecordAssumption DEF TypeOK, HandFollowsStatement
  <1> QED
    BY <1>1, <1>2, <1>3

LEMMA OutsideStep ==
  ASSUME CInv,
         \/ \E d \in Records : CreateRecord(d) \/ Sync(d) \/ SyncFails(d) \/ SyncAgain(d)
         \/ \E i \in Instances, d \in Records : Deliver(i, d) \/ GiveUp(i, d)
         \/ UNCHANGED vars
  PROVE  CInv'
  <1> USE DEF CInv, table, kafka, cycles, vars
  <1>1. TypeOK'
    <2>1. ASSUME NEW d \in Records, CreateRecord(d) PROVE TypeOK'
      BY <2>1 DEF TypeOK, CreateRecord
    <2>2. ASSUME NEW d \in Records, Sync(d) PROVE TypeOK'
      BY <2>2 DEF TypeOK, Sync
    <2>3. ASSUME NEW d \in Records, SyncFails(d) PROVE TypeOK'
      BY <2>3, MaxFaultsAssumption DEF TypeOK, SyncFails, Fault
    <2>4. ASSUME NEW d \in Records, SyncAgain(d) PROVE TypeOK'
      BY <2>4, MaxFaultsAssumption DEF TypeOK, SyncAgain, Fault
    <2>5. ASSUME NEW i \in Instances, NEW d \in Records, Deliver(i, d) PROVE TypeOK'
      BY <2>5 DEF TypeOK, Deliver
    <2>6. ASSUME NEW i \in Instances, NEW d \in Records, GiveUp(i, d) PROVE TypeOK'
      BY <2>6, MaxFaultsAssumption DEF TypeOK, GiveUp, Fault
    <2>7. CASE UNCHANGED vars
      BY <2>7 DEF TypeOK
    <2> QED
      BY <2>1, <2>2, <2>3, <2>4, <2>5, <2>6, <2>7
  <1>2. UNCHANGED cycles
    BY DEF CreateRecord, Sync, SyncFails, SyncAgain, Deliver, GiveUp
  <1> QED
    BY <1>1, <1>2 DEF OneCycleAtATime, HandFollowsStatement

LEMMA CycleNext == CInv /\ [Next]_vars => CInv'
  BY CycleStep, CrashStep, OutsideStep DEF Next

\* What every cycle relies on, whatever fails: the flag and the statement of each
\* cycle agree, and a cycle has a row in hand exactly while it saves one.
THEOREM CycleInvariant == Spec => []CInv
  BY CycleInit, CycleNext, PTL DEF Spec

\* Every variable keeps its type, and the number of faults its bound.
THEOREM RelayTypeCorrect == Spec => []TypeOK
  BY CycleInvariant, PTL DEF CInv

\* isProcessing keeps the cycles of an instance apart, and never outlives the
\* cycle that set it: the relay cannot lock itself out.
THEOREM CyclesNeverOverlap == Spec => []OneCycleAtATime
  BY CycleInvariant, PTL DEF CInv

-----------------------------------------------------------------------------
(***************************************************************************)
(* Part 2: one instance of the wallet service.                             *)
(***************************************************************************)

SInv == CInv /\ BatchIsPending

LEMMA SingleInit == Init => BatchIsPending
  BY DEF Init, BatchIsPending, InHand, Workers

\* Nobody else has rows in hand while w works.
LEMMA OthersAreIdle ==
  ASSUME CInv, \A i, j \in Instances : i = j, NEW w \in Workers, pc[w] # "idle",
         NEW v \in Workers, v # w
  PROVE  pc[v] = "idle" /\ batch[v] = {} /\ InHand(v) = {} /\ record[v] = NoRecord
  BY WorkerHome DEF CInv, OneCycleAtATime, HandFollowsStatement, InHand

LEMMA SingleCycleStep ==
  ASSUME SInv, \A i, j \in Instances : i = j, NEW w \in Workers, Cycle(w)
  PROVE  BatchIsPending'
  <1> USE NoRecordAssumption
  <1> USE DEF SInv, CInv, TypeOK, Goto, table, kafka, cycles
  <1>1. CASE StartCycle(w)
    BY <1>1 DEF StartCycle, BatchIsPending, InHand
  <1>2. CASE FindPending(w)
    BY <1>2 DEF FindPending, BatchIsPending, InHand, HandFollowsStatement,
                Pending, IsPending
  <1>3. CASE Emit(w)
    BY <1>3 DEF Emit, BatchIsPending, InHand
  <1>4. CASE SaveProcessed(w) \/ SaveFailed(w)
    <2>1. pc[w] \in {"save", "saveFailed"} /\ record[w] \in Records /\ record[w] \notin batch[w]
      BY <1>4 DEF SaveProcessed, SaveFailed, HandFollowsStatement
    <2>2. PICK s \in {"PROCESSED", "FAILED"} : SaveAs(w, s)
      BY <1>4 DEF SaveProcessed, SaveFailed
    <2>3. \A v \in Workers : v # w =>
              pc[v] = "idle" /\ batch[v] = {} /\ record[v] = NoRecord
      BY <2>1, OthersAreIdle
    <2> QED
      BY <2>1, <2>2, <2>3 DEF SaveAs, BatchIsPending, InHand
  <1>5. CASE SaveFails(w)
    <2>1. /\ pc[w] = "save"
          /\ \A d \in Records : d # record[w] => row'[d] = row[d]
      BY <1>5 DEF SaveFails
    <2>2. \A v \in Workers : v # w => pc[v] = "idle" /\ batch[v] = {}
      BY <2>1, OthersAreIdle
    <2> QED
      BY <1>5, <2>1, <2>2 DEF SaveFails, BatchIsPending, InHand, HandFollowsStatement
  <1>6. CASE BatchDone(w)
    BY <1>6 DEF BatchDone, FinishCycle, BatchIsPending, InHand,
                HandFollowsStatement
  <1>7. CASE FindFails(w) \/ SaveFailedFails(w)
    <2>1. FinishCycle(w) /\ pc[w] # "idle"
      BY <1>7 DEF FindFails, SaveFailedFails
    <2>2. \A v \in Workers : v # w => pc[v] = "idle" /\ batch[v] = {}
      BY <2>1, OthersAreIdle
    <2> QED
      BY <2>1, <2>2 DEF FinishCycle, BatchIsPending, InHand
  <1> QED
    BY <1>1, <1>2, <1>3, <1>4, <1>5, <1>6, <1>7 DEF Cycle

LEMMA SingleOtherStep ==
  ASSUME SInv,
         \/ \E d \in Records : CreateRecord(d) \/ Sync(d) \/ SyncFails(d) \/ SyncAgain(d)
         \/ \E i \in Instances : Crash(i) \/ \E d \in Records : Deliver(i, d) \/ GiveUp(i, d)
         \/ UNCHANGED vars
  PROVE  BatchIsPending'
  <1> USE DEF SInv, CInv, TypeOK, BatchIsPending, InHand, table, kafka, cycles
  <1>1. ASSUME NEW d \in Records, CreateRecord(d)
        PROVE  BatchIsPending'
    BY <1>1 DEF CreateRecord
  <1>2. ASSUME NEW d \in Records, Sync(d) \/ SyncFails(d) \/ SyncAgain(d)
        PROVE  BatchIsPending'
    BY <1>2 DEF Sync, SyncFails, SyncAgain, Fault
  <1>3. ASSUME NEW i \in Instances, Crash(i)
        PROVE  BatchIsPending'
    BY <1>3 DEF Crash, Fault
  <1>4. ASSUME NEW i \in Instances, NEW d \in Records, Deliver(i, d) \/ GiveUp(i, d)
        PROVE  BatchIsPending'
    BY <1>4 DEF Deliver, GiveUp, Fault
  <1>5. CASE UNCHANGED vars
    BY <1>5 DEF vars
  <1> QED
    BY <1>1, <1>2, <1>3, <1>4, <1>5

\* With one instance, nobody but the running cycle takes a row out of PENDING.
THEOREM SingleInstanceInvariant ==
  ASSUME \A i, j \in Instances : i = j
  PROVE  Spec => []SInv
  <1>1. SInv /\ [Next]_vars => SInv'
    BY CycleNext, SingleCycleStep, SingleOtherStep DEF Next, SInv
  <1> QED
    BY <1>1, CycleInit, SingleInit, PTL DEF Spec, SInv

\* The rows that the only instance holds in memory are still PENDING.
THEOREM BatchNeverStale ==
  ASSUME \A i, j \in Instances : i = j
  PROVE  Spec => []BatchIsPending
  BY SingleInstanceInvariant, PTL DEF SInv

-----------------------------------------------------------------------------
(***************************************************************************)
(* Part 3: any number of instances, any faults.                            *)
(***************************************************************************)
SentOrLost(d) == Sent(d) \/ d \in lost

SavedIsSent ==
    \A w \in Workers : pc[w] \in {"save", "saveFailed"} => SentOrLost(record[w])

LInv == CInv /\ NeverMarkedUnsent /\ SavedIsSent

LEMMA SentInit == Init => NeverMarkedUnsent /\ SavedIsSent
  BY DEF Init, NeverMarkedUnsent, SavedIsSent

\* What has been sent stays sent: a message goes from the client to the topic
\* and from the topic into the index, and a fault on the way is remembered.
LEMMA SentStaysSent ==
  ASSUME CInv, [Next]_vars, NEW d \in Records, SentOrLost(d)
  PROVE  SentOrLost(d)'
  <1> USE DEF CInv, TypeOK, Sent, SentOrLost
  <1>1. CASE UNCHANGED <<inFlight, topic, index, lost>>
    BY <1>1
  <1>2. ASSUME NEW w \in Workers, Emit(w) PROVE SentOrLost(d)'
    BY <1>2, WorkerHome DEF Emit
  <1>3. ASSUME NEW i \in Instances, NEW e \in Records, Deliver(i, e) \/ GiveUp(i, e)
        PROVE  SentOrLost(d)'
    <2>1. CASE d = e
      BY <1>3, <2>1 DEF Deliver, GiveUp
    <2>2. CASE d # e
      BY <1>3, <2>2 DEF Deliver, GiveUp
    <2> QED
      BY <2>1, <2>2
  <1>4. ASSUME NEW e \in Records, Sync(e) \/ SyncFails(e) \/ SyncAgain(e)
        PROVE  SentOrLost(d)'
    BY <1>4 DEF Sync, SyncFails, SyncAgain, kafka
  <1>5. ASSUME NEW i \in Instances, Crash(i) PROVE SentOrLost(d)'
    <2>1. CASE inFlight[i][d] > 0
      BY <1>5, <2>1 DEF Crash
    <2>2. CASE ~(inFlight[i][d] > 0)
      BY <1>5, <2>2 DEF Crash
    <2> QED
      BY <2>1, <2>2
  <1>6. \/ UNCHANGED <<inFlight, topic, index, lost>>
        \/ \E w \in Workers : Emit(w)
        \/ \E i \in Instances, e \in Records : Deliver(i, e) \/ GiveUp(i, e)
        \/ \E e \in Records : Sync(e) \/ SyncFails(e) \/ SyncAgain(e)
        \/ \E i \in Instances : Crash(i)
    BY DEF Next, Cycle, StartCycle, FindPending, SaveProcessed, SaveFails, SaveFailed,
           SaveFailedFails, SaveAs, BatchDone, FindFails, FinishCycle, CreateRecord, kafka, vars
  <1> QED
    BY <1>1, <1>2, <1>3, <1>4, <1>5, <1>6

\* Only a cycle that has the row in its hand takes it out of PENDING.
LEMMA MarkedInHand ==
  ASSUME CInv, [Next]_vars, NEW d \in Records, row'[d] \in {"PROCESSED", "FAILED"}
  PROVE  \/ row[d] \in {"PROCESSED", "FAILED"}
         \/ \E w \in Workers : pc[w] \in {"save", "saveFailed"} /\ record[w] = d
  <1> USE DEF CInv, TypeOK
  <1>1. CASE UNCHANGED row
    BY <1>1
  <1>2. ASSUME NEW e \in Records, CreateRecord(e), row[d] \notin {"PROCESSED", "FAILED"}
        PROVE  FALSE
    BY <1>2 DEF CreateRecord
  <1>3. ASSUME NEW w \in Workers,
               SaveProcessed(w) \/ SaveFails(w) \/ SaveFailed(w) \/ SaveFailedFails(w)
        PROVE  /\ pc[w] \in {"save", "saveFailed"}
               /\ \A e \in Records : e # record[w] => row'[e] = row[e]
    BY <1>3 DEF SaveProcessed, SaveFails, SaveFailed, SaveFailedFails, SaveAs
  <1>4. \/ UNCHANGED row
        \/ \E e \in Records : CreateRecord(e)
        \/ \E w \in Workers :
              SaveProcessed(w) \/ SaveFails(w) \/ SaveFailed(w) \/ SaveFailedFails(w)
    BY DEF Next, Cycle, StartCycle, FindPending, Emit, FindFails, BatchDone, Deliver, GiveUp,
           Crash, Sync, SyncFails, SyncAgain, cycles, table, vars
  <1> QED
    BY <1>1, <1>2, <1>3, <1>4

LEMMA SentNext ==
  ASSUME LInv, [Next]_vars
  PROVE  NeverMarkedUnsent' /\ SavedIsSent'
  <1> USE DEF LInv, CInv, TypeOK
  <1>1. \A d \in Records : SentOrLost(d) => SentOrLost(d)'
    BY SentStaysSent
  <1>2. NeverMarkedUnsent'
    BY <1>1, MarkedInHand DEF NeverMarkedUnsent, SavedIsSent, SentOrLost
  <1>3. ASSUME NEW w \in Workers, Emit(w)
        PROVE  SavedIsSent'
    <2>1. record'[w] \in Records /\ SentOrLost(record[w])'
      BY <1>3, WorkerHome DEF Emit, Sent, SentOrLost
    <2>2. \A v \in Workers : v # w => pc'[v] = pc[v] /\ record'[v] = record[v]
      BY <1>3 DEF Emit, Goto
    <2> QED
      BY <1>1, <2>1, <2>2 DEF SavedIsSent, HandFollowsStatement
  <1>4. CASE \A w \in Workers : pc'[w] \in {"save", "saveFailed"} =>
                 pc[w] \in {"save", "saveFailed"} /\ record'[w] = record[w]
    <2>1. SUFFICES ASSUME NEW w \in Workers, pc'[w] \in {"save", "saveFailed"}
                   PROVE  SentOrLost(record[w])'
      BY <1>2 DEF SavedIsSent
    <2>2. record[w] \in Records /\ SentOrLost(record[w]) /\ record'[w] = record[w]
      BY <1>4, <2>1 DEF SavedIsSent, HandFollowsStatement
    <2> QED
      BY <1>1, <2>2
  <1>5. \/ \E w \in Workers : Emit(w)
        \/ \A w \in Workers : pc'[w] \in {"save", "saveFailed"} =>
                pc[w] \in {"save", "saveFailed"} /\ record'[w] = record[w]
    BY DEF Next, Cycle, StartCycle, FindPending, SaveProcessed, SaveFails, SaveFailed,
           SaveFailedFails, SaveAs, FindFails, BatchDone, FinishCycle, Goto, CreateRecord,
           Deliver, GiveUp, Crash, Sync, SyncFails, SyncAgain, cycles, vars
  <1> QED
    BY <1>2, <1>3, <1>4, <1>5

\* Nothing is marked in the outbox that has not been sent, whatever fails and
\* however many instances run: a marked row is on its way or in the index, or a
\* fault after the emit has cost a copy of it.
THEOREM MarkedIsSent == Spec => []NeverMarkedUnsent
  <1>1. LInv /\ [Next]_vars => LInv'
    BY CycleNext, SentNext DEF LInv
  <1>2. Spec => []LInv
    BY <1>1, CycleInit, SentInit, PTL DEF Spec, LInv
  <1> QED
    BY <1>2, PTL DEF LInv

-----------------------------------------------------------------------------
(***************************************************************************)
(* Part 4: how often a row is emitted, for any number of instances.  While *)
(* the row is not marked, those that have emitted it still hold it, unless *)
(* a fault has made them let go.  Once it is marked nobody reads it again: *)
(* only those that have it in their batch will emit it once more.          *)
(***************************************************************************)
Holders(d) == {i \in Instances : \E w \in Workers : w[1] = i /\ record[w] = d}
Takers(d) == {i \in Instances : \E w \in Workers : w[1] = i /\ d \in batch[w]}

Unmarked(d) == row[d] \in {"none", "PENDING"}

EmitsBounded ==
    \A d \in Records :
        /\ Unmarked(d) => emits[d] <= Cardinality(Holders(d)) + faults
        /\ ~Unmarked(d) =>
              emits[d] + Cardinality(Takers(d)) <= Cardinality(Instances) + faults

LEMMA EmitsInit == Init => EmitsBounded
  <1> SUFFICES ASSUME Init, NEW d \in Records
               PROVE  Unmarked(d) /\ emits[d] <= Cardinality(Holders(d)) + faults
    BY DEF EmitsBounded
  <1>1. Unmarked(d) /\ emits[d] = 0 /\ faults = 0 /\ Holders(d) = {}
    BY NoRecordAssumption DEF Init, Unmarked, Holders
  <1> QED
    BY <1>1, FS_EmptySet

\* An instance holds a row or has still to take it, never both: there is room for
\* all of them.
LEMMA HoldersAndTakers ==
  ASSUME CInv, NEW d \in Records
  PROVE  /\ IsFiniteSet(Holders(d)) /\ IsFiniteSet(Takers(d))
         /\ Cardinality(Holders(d)) \in Nat /\ Cardinality(Takers(d)) \in Nat
         /\ Cardinality(Instances) \in Nat
         /\ Cardinality(Holders(d)) + Cardinality(Takers(d)) <= Cardinality(Instances)
         /\ Cardinality(Takers(d)) <= Cardinality(Instances)
  <1>1. Holders(d) \subseteq Instances /\ Takers(d) \subseteq Instances
    BY DEF Holders, Takers
  <1>2. Holders(d) \intersect Takers(d) = {}
    <2> SUFFICES ASSUME NEW v \in Workers, NEW w \in Workers, v[1] = w[1],
                        record[v] = d, d \in batch[w]
                 PROVE  FALSE
      BY DEF Holders, Takers
    <2>1. pc[v] # "idle" /\ pc[w] # "idle"
      BY NoRecordAssumption DEF CInv, HandFollowsStatement
    <2>2. v = w
      BY <2>1 DEF CInv, OneCycleAtATime
    <2> QED
      BY <2>2 DEF CInv, HandFollowsStatement
  <1>3. IsFiniteSet(Holders(d)) /\ IsFiniteSet(Takers(d))
    BY <1>1, InstancesAssumption, FS_Subset
  <1>4. /\ Cardinality(Holders(d)) \in Nat /\ Cardinality(Takers(d)) \in Nat
        /\ Cardinality(Instances) \in Nat
    BY <1>3, InstancesAssumption, FS_CardinalityType
  <1>5. Cardinality(Holders(d) \union Takers(d)) =
          Cardinality(Holders(d)) + Cardinality(Takers(d))
    BY <1>2, <1>3, <1>4, FS_Union, FS_EmptySet
  <1>6. Cardinality(Holders(d) \union Takers(d)) <= Cardinality(Instances)
    BY <1>1, InstancesAssumption, FS_Subset
  <1> QED
    BY <1>3, <1>4, <1>5, <1>6

LEMMA AtMostOneMore ==
  ASSUME NEW K, IsFiniteSet(K), NEW i, NEW H, H \subseteq K \union {i}
  PROVE  Cardinality(H) <= Cardinality(K) + 1
  <1>1. /\ IsFiniteSet(K \union {i})
        /\ Cardinality(K \union {i}) = IF i \in K THEN Cardinality(K) ELSE Cardinality(K) + 1
    BY FS_AddElement
  <1>2. IsFiniteSet(H) /\ Cardinality(H) <= Cardinality(K \union {i})
    BY <1>1, FS_Subset
  <1>3. Cardinality(K) \in Nat /\ Cardinality(H) \in Nat
    BY <1>2, FS_CardinalityType
  <1> QED
    BY <1>1, <1>2, <1>3

\* A step that emits no copy of d: nobody new takes a marked row, and those who
\* let go of an unmarked one do so in a fault.
KeepsBound(d) ==
    /\ emits'[d] = emits[d] /\ faults' >= faults
    /\ ~Unmarked(d) => ~Unmarked(d)'
    /\ ~Unmarked(d)' => Takers(d)' \subseteq Takers(d)
    /\ Unmarked(d)' =>
          \/ Holders(d) \subseteq Holders(d)'
          \/ /\ faults' = faults + 1
             /\ \E i \in Instances : Holders(d) \subseteq Holders(d)' \union {i}

LEMMA NoEmitKeepsBound ==
  ASSUME CInv, CInv', EmitsBounded, NEW d \in Records, KeepsBound(d)
  PROVE  /\ Unmarked(d)' => emits'[d] <= Cardinality(Holders(d)') + faults'
         /\ ~Unmarked(d)' =>
               emits'[d] + Cardinality(Takers(d)') <= Cardinality(Instances) + faults'
  <1> DEFINE H == Holders(d)
             T == Takers(d)
             K == Holders(d)'
             U == Takers(d)'
  <1> USE DEF KeepsBound
  <1>1. /\ IsFiniteSet(H) /\ IsFiniteSet(T)
        /\ Cardinality(H) \in Nat /\ Cardinality(T) \in Nat /\ Cardinality(Instances) \in Nat
        /\ Cardinality(H) + Cardinality(T) <= Cardinality(Instances)
    BY HoldersAndTakers
  <1>2. IsFiniteSet(K) /\ IsFiniteSet(U)
    <2>1. K \subseteq Instances /\ U \subseteq Instances
      BY DEF Holders, Takers
    <2> QED
      BY <2>1, InstancesAssumption, FS_Subset
  <1>3. Cardinality(K) \in Nat /\ Cardinality(U) \in Nat
    BY <1>2, FS_CardinalityType
  <1>4. emits[d] \in Nat /\ faults \in Nat /\ faults' \in Nat
    BY MaxFaultsAssumption DEF CInv, TypeOK
  <1>5. CASE Unmarked(d)'
    <2>1. emits[d] <= Cardinality(H) + faults
      BY <1>5 DEF EmitsBounded
    <2>2. CASE H \subseteq K
      <3>1. Cardinality(H) <= Cardinality(K)
        BY <1>2, <2>2, FS_Subset
      <3> QED
        BY <1>1, <1>3, <1>4, <1>5, <2>1, <3>1
    <2>3. CASE faults' = faults + 1 /\ \E i \in Instances : H \subseteq K \union {i}
      <3>1. PICK i \in Instances : H \subseteq K \union {i}
        BY <2>3
      <3>2. Cardinality(H) <= Cardinality(K) + 1
        <4> HIDE DEF H, K
        <4> QED
          BY <1>2, <3>1, AtMostOneMore
      <3> HIDE DEF H, K
      <3> QED
        BY <1>1, <1>3, <1>4, <1>5, <2>1, <2>3, <3>2 DEF K
    <2> QED
      BY <1>5, <2>2, <2>3
  <1>6. CASE ~Unmarked(d)'
    <2>1. emits[d] + Cardinality(T) <= Cardinality(Instances) + faults
      <3>1. CASE Unmarked(d)
        <4>1. emits[d] <= Cardinality(H) + faults
          BY <3>1 DEF EmitsBounded
        <4> HIDE DEF H, T
        <4> QED
          BY <1>1, <1>4, <4>1
      <3>2. CASE ~Unmarked(d)
        BY <3>2 DEF EmitsBounded
      <3> QED
        BY <3>1, <3>2
    <2>2. Cardinality(U) <= Cardinality(T)
      BY <1>1, <1>6, FS_Subset
    <2> HIDE DEF T, U
    <2> QED
      BY <1>1, <1>3, <1>4, <1>6, <2>1, <2>2 DEF U
  <1> QED
    BY <1>5, <1>6

LEMMA EmitKeepsBound ==
  ASSUME CInv, EmitsBounded, NEW w \in Workers, Emit(w)
  PROVE  EmitsBounded'
  <1> SUFFICES ASSUME NEW d \in Records
               PROVE  /\ Unmarked(d)' => emits'[d] <= Cardinality(Holders(d)') + faults'
                      /\ ~Unmarked(d)' =>
                            emits'[d] + Cardinality(Takers(d)') <= Cardinality(Instances) + faults'
    BY DEF EmitsBounded
  <1>1. PICK e \in batch[w] :
          /\ record' = [record EXCEPT ![w] = e]
          /\ batch' = [batch EXCEPT ![w] = @ \ {e}]
          /\ emits' = [emits EXCEPT ![e] = @ + 1]
    BY DEF Emit
  <1>2. /\ pc[w] = "next" /\ record[w] = NoRecord /\ w[1] \in Instances
        /\ row' = row /\ faults' = faults
    BY WorkerHome DEF Emit, CInv, HandFollowsStatement, table
  <1>3. CInv'
    BY CycleStep DEF Cycle
  <1>4. CASE d # e
    <2>1. emits'[d] = emits[d]
      BY <1>1, <1>4 DEF CInv, TypeOK
    <2>2. Holders(d) \subseteq Holders(d)'
      BY <1>1, <1>2, NoRecordAssumption DEF Holders, CInv, TypeOK
    <2>3. Takers(d)' \subseteq Takers(d)
      BY <1>1 DEF Takers, CInv, TypeOK
    <2>4. Unmarked(d)' <=> Unmarked(d)
      BY <1>2 DEF Unmarked
    <2>5. faults' >= faults
      BY <1>2, MaxFaultsAssumption DEF CInv, TypeOK
    <2> QED
      BY <1>3, <2>1, <2>2, <2>3, <2>4, <2>5, NoEmitKeepsBound DEF KeepsBound
  <1>5. CASE d = e
    <2> DEFINE i == w[1]
    <2>1. emits'[d] = emits[d] + 1
      BY <1>1, <1>5 DEF CInv, TypeOK
    <2>2. \A v \in Workers : v[1] = i /\ v # w => record[v] = NoRecord /\ batch[v] = {}
      BY <1>2 DEF CInv, OneCycleAtATime, HandFollowsStatement
    <2>3. Holders(d)' = Holders(d) \union {i} /\ i \notin Holders(d)
      BY <1>1, <1>2, <1>5, <2>2, NoRecordAssumption DEF Holders, CInv, TypeOK
    <2>4. Takers(d)' = Takers(d) \ {i} /\ i \in Takers(d)
      BY <1>1, <1>2, <1>5, <2>2 DEF Takers, CInv, TypeOK
    <2>5. /\ IsFiniteSet(Holders(d)) /\ IsFiniteSet(Takers(d))
          /\ Cardinality(Holders(d)) \in Nat /\ Cardinality(Takers(d)) \in Nat
          /\ Cardinality(Instances) \in Nat
      BY HoldersAndTakers
    <2>6. Cardinality(Holders(d) \union {i}) = Cardinality(Holders(d)) + 1
      BY <2>3, <2>5, FS_AddElement
    <2>7. Cardinality(Takers(d) \ {i}) = Cardinality(Takers(d)) - 1
      BY <2>4, <2>5, FS_RemoveElement
    <2>8. emits[d] \in Nat /\ faults \in Nat
      BY MaxFaultsAssumption DEF CInv, TypeOK
    <2>9. Unmarked(d)' <=> Unmarked(d)
      BY <1>2 DEF Unmarked
    <2>10. CASE Unmarked(d)
      <3>1. emits[d] <= Cardinality(Holders(d)) + faults
        BY <2>10 DEF EmitsBounded
      <3> QED
        BY <1>2, <2>1, <2>3, <2>5, <2>6, <2>8, <2>9, <2>10, <3>1
    <2>11. CASE ~Unmarked(d)
      <3>1. emits[d] + Cardinality(Takers(d)) <= Cardinality(Instances) + faults
        BY <2>11 DEF EmitsBounded
      <3> QED
        BY <1>2, <2>1, <2>4, <2>5, <2>7, <2>8, <2>9, <2>11, <3>1
    <2> QED
      BY <2>10, <2>11
  <1> QED
    BY <1>4, <1>5

LEMMA EmitsNext ==
  ASSUME CInv, EmitsBounded, [Next]_vars
  PROVE  EmitsBounded'
  <1>1. CASE \E w \in Workers : Emit(w)
    BY <1>1, EmitKeepsBound
  <1>2. CASE ~\E w \in Workers : Emit(w)
    <2> SUFFICES ASSUME NEW d \in Records
                 PROVE  KeepsBound(d)
      BY CycleNext, NoEmitKeepsBound DEF EmitsBounded
    <2>1. ASSUME NEW w \in Workers, StartCycle(w) \/ FindPending(w) \/ SaveFails(w)
          PROVE  KeepsBound(d)
      <3> USE MaxFaultsAssumption DEF CInv, TypeOK, Fault, Takers, Unmarked, kafka, table
      <3>1. emits' = emits /\ record' = record /\ faults' >= faults
        BY <2>1 DEF StartCycle, FindPending, SaveFails
      <3>2. ~Unmarked(d) => ~Unmarked(d)'
        BY <2>1 DEF StartCycle, FindPending, SaveFails
      <3>3. ~Unmarked(d)' => Takers(d)' \subseteq Takers(d)
        BY <2>1 DEF StartCycle, FindPending, SaveFails, Pending, IsPending
      <3> QED
        BY <3>1, <3>2, <3>3 DEF KeepsBound, Holders
    <2>2. ASSUME NEW w \in Workers, SaveProcessed(w) \/ SaveFailed(w)
          PROVE  KeepsBound(d)
      <3> USE MaxFaultsAssumption DEF CInv, TypeOK, SaveProcessed, SaveFailed, SaveAs, Unmarked
      <3>1. emits' = emits /\ batch' = batch /\ faults' >= faults
        BY <2>2 DEF kafka
      <3>2. ~Unmarked(d) => ~Unmarked(d)'
        BY <2>2 DEF HandFollowsStatement
      <3>3. Unmarked(d)' => Holders(d) \subseteq Holders(d)'
        BY <2>2 DEF HandFollowsStatement, Holders
      <3> QED
        BY <3>1, <3>2, <3>3 DEF KeepsBound, Takers
    <2>3. ASSUME NEW w \in Workers, BatchDone(w) \/ FindFails(w)
          PROVE  KeepsBound(d)
      <3> USE MaxFaultsAssumption
      <3> USE DEF CInv, TypeOK, Fault, BatchDone, FindFails, FinishCycle, kafka
      <3>1. emits' = emits /\ row' = row /\ faults' >= faults
        BY <2>3
      <3>2. Takers(d)' \subseteq Takers(d)
        BY <2>3 DEF Takers
      <3>3. Holders(d) \subseteq Holders(d)'
        BY <2>3, NoRecordAssumption DEF Holders, HandFollowsStatement
      <3> QED
        BY <3>1, <3>2, <3>3 DEF KeepsBound, Unmarked
    <2>4. ASSUME NEW w \in Workers, SaveFailedFails(w)
          PROVE  KeepsBound(d)
      <3> USE MaxFaultsAssumption DEF CInv, TypeOK, Fault, SaveFailedFails, FinishCycle, kafka
      <3>1. emits' = emits /\ faults' = faults + 1 /\ faults' >= faults
        BY <2>4
      <3>2. ~Unmarked(d) => ~Unmarked(d)'
        BY <2>4 DEF Unmarked
      <3>3. Takers(d)' \subseteq Takers(d)
        BY <2>4 DEF Takers
      <3>4. w[1] \in Instances /\ Holders(d) \subseteq Holders(d)' \union {w[1]}
        BY <2>4, WorkerHome DEF Holders
      <3> QED
        BY <3>1, <3>2, <3>3, <3>4 DEF KeepsBound
    <2>5. ASSUME NEW i \in Instances, Crash(i)
          PROVE  KeepsBound(d)
      <3> USE MaxFaultsAssumption DEF CInv, TypeOK, Fault, Crash, table
      <3>1. emits' = emits /\ row' = row /\ faults' = faults + 1 /\ faults' >= faults
        BY <2>5
      <3>2. Takers(d)' \subseteq Takers(d)
        BY <2>5 DEF Takers
      <3>3. Holders(d) \subseteq Holders(d)' \union {i}
        BY <2>5 DEF Holders
      <3> QED
        BY <3>1, <3>2, <3>3 DEF KeepsBound, Unmarked
    <2>6. CASE \/ \E e \in Records :
                     CreateRecord(e) \/ Sync(e) \/ SyncFails(e) \/ SyncAgain(e)
               \/ \E i \in Instances, e \in Records : Deliver(i, e) \/ GiveUp(i, e)
               \/ UNCHANGED vars
      <3> USE MaxFaultsAssumption DEF CInv, TypeOK, Fault
      <3>1. emits' = emits /\ record' = record /\ batch' = batch /\ faults' >= faults
        BY <2>6 DEF CreateRecord, Sync, SyncFails, SyncAgain, Deliver, GiveUp, kafka, cycles, vars
      <3>2. ~Unmarked(d) => ~Unmarked(d)'
        BY <2>6 DEF CreateRecord, Sync, SyncFails, SyncAgain, Deliver, GiveUp, table, vars,
                    Unmarked
      <3> QED
        BY <3>1, <3>2 DEF KeepsBound, Holders, Takers
    <2> QED
      BY <1>2, <2>1, <2>2, <2>3, <2>4, <2>5, <2>6 DEF Next, Cycle
  <1> QED
    BY <1>1, <1>2

\* However many instances poll the table and whatever fails, a transaction is sent
\* at most once by each instance, and at most once more for each fault.
THEOREM EmitsPerInstance == Spec => []EmittedOncePerInstance
  <1>1. CInv /\ EmitsBounded /\ [Next]_vars => (CInv /\ EmitsBounded)'
    BY CycleNext, EmitsNext
  <1>2. CInv /\ EmitsBounded => EmittedOncePerInstance
    <2> SUFFICES ASSUME CInv, EmitsBounded, NEW d \in Records
                 PROVE  emits[d] <= Cardinality(Instances) + faults
      BY DEF EmittedOncePerInstance
    <2>1. /\ Cardinality(Holders(d)) \in Nat /\ Cardinality(Takers(d)) \in Nat
          /\ Cardinality(Instances) \in Nat
          /\ Cardinality(Holders(d)) + Cardinality(Takers(d)) <= Cardinality(Instances)
      BY HoldersAndTakers
    <2>2. emits[d] \in Nat /\ faults \in Nat
      BY MaxFaultsAssumption DEF CInv, TypeOK
    <2>3. \/ emits[d] <= Cardinality(Holders(d)) + faults
          \/ emits[d] + Cardinality(Takers(d)) <= Cardinality(Instances) + faults
      BY DEF EmitsBounded
    <2> QED
      BY <2>1, <2>2, <2>3
  <1> QED
    BY <1>1, <1>2, CycleInit, EmitsInit, PTL DEF Spec
=============================================================================
