----------------------------- MODULE OutboxRelay -----------------------------
(***************************************************************************)
(* The path of a transaction into the search index: the outbox row that    *)
(* TransferMoneyHandler commits, the polling relay of the wallet service,  *)
(* the topic transactions-sync, and the consumer of the audit service that *)
(* writes to Elasticsearch.                                                *)
(*                                                                         *)
(* setInterval() starts a cycle of processOutbox() every five seconds,     *)
(* whether or not an earlier one is still waiting for the database: the    *)
(* cycles of one instance are concurrent, and only isProcessing keeps them *)
(* apart.                                                                  *)
(***************************************************************************)
EXTENDS Integers, FiniteSets

CONSTANTS
    Records,      \* the outbox rows of a behaviour
    Instances,    \* the running instances of the wallet service
    Cycles,       \* names for the overlapping cycles of one instance
    BatchSize,    \* `take`: how many rows one cycle reads (20 in the code)
    Times,        \* the values of createdAt
    Faults,       \* the faults that may happen, a subset of FaultKinds
    MaxFaults,    \* how many faults a behaviour has at most
    NoRecord      \* the record of a cycle that works on none

(***************************************************************************)
(* "query": a query of the relay throws; if it is one that updates a row,  *)
(* PostgreSQL may have done so all the same.  "broker": the Kafka client   *)
(* gives up on a message.  "crash": an instance of the wallet service      *)
(* stops and starts again.  "search": Elasticsearch rejects or does not    *)
(* answer a request.  "redeliver": the audit service stops between the     *)
(* handler and the commit of the offset.                                   *)
(***************************************************************************)
FaultKinds == {"query", "broker", "crash", "search", "redeliver"}

ASSUME RecordsAssumption == IsFiniteSet(Records)
ASSUME InstancesAssumption == IsFiniteSet(Instances)
ASSUME BatchSizeAssumption == BatchSize \in Nat \ {0}
ASSUME TimesAssumption == Times \subseteq Nat
ASSUME MaxFaultsAssumption == MaxFaults \in Nat
ASSUME RelayFaultsAssumption == Faults \subseteq FaultKinds
ASSUME NoRecordAssumption == NoRecord \notin Records

Workers == Instances \X Cycles

VARIABLES
    row,           \* row[d]: column status of the row, "none" where there is none
    createdAt,     \* createdAt[d]: when the transaction that inserts d began
    isProcessing,  \* isProcessing[i]: the flag of instance i
    batch,         \* batch[w]: the rows cycle w has still to work on
    record,        \* record[w]: the row cycle w works on
    pc,            \* pc[w]: the statement cycle w is at
    inFlight,      \* inFlight[i][d]: copies of d in the Kafka client of i
    emits,         \* emits[d]: how often the relay has emitted d
    topic,         \* topic[d]: copies of d the consumer has not handled
    index,         \* the documents of index transactions
    lost,          \* the rows of which a fault has taken a copy for good
    faults         \* how many faults there have been

vars ==
    <<row, createdAt, isProcessing, batch, record, pc, inFlight, emits, topic, index, lost, faults>>
table == <<row, createdAt>>
cycles == <<isProcessing, batch, record, pc>>
kafka == <<inFlight, emits, topic, lost>>

Init ==
    /\ row = [d \in Records |-> "none"]
    /\ createdAt = [d \in Records |-> 0]
    /\ isProcessing = [i \in Instances |-> FALSE]
    /\ batch = [w \in Workers |-> {}]
    /\ record = [w \in Workers |-> NoRecord]
    /\ pc = [w \in Workers |-> "idle"]
    /\ inFlight = [i \in Instances |-> [d \in Records |-> 0]]
    /\ emits = [d \in Records |-> 0]
    /\ topic = [d \in Records |-> 0]
    /\ index = {}
    /\ lost = {}
    /\ faults = 0

Fault(kind) ==
    /\ kind \in Faults
    /\ faults < MaxFaults
    /\ faults' = faults + 1

-----------------------------------------------------------------------------
\* TransferMoneyHandler commits a row with status PENDING.  createdAt is the time
\* at which its transaction began: rows need not appear in that order.
CreateRecord(d) ==
    /\ row[d] = "none"
    /\ row' = [row EXCEPT ![d] = "PENDING"]
    /\ \E time \in Times : createdAt' = [createdAt EXCEPT ![d] = time]
    /\ UNCHANGED <<cycles, kafka, index, faults>>

-----------------------------------------------------------------------------
(***************************************************************************)
(* OutboxRelayService.processOutbox, cycle w of instance w[1].             *)
(***************************************************************************)
Goto(w, next) == pc' = [pc EXCEPT ![w] = next]

\* Mutant of StartCycle: isProcessing is not looked at.
StartAnyCycle(w) ==
    /\ pc[w] = "idle"
    /\ isProcessing' = [isProcessing EXCEPT ![w[1]] = TRUE]
    /\ Goto(w, "find")
    /\ UNCHANGED <<table, batch, record, kafka, index, faults>>

\* The flag is set before the first await: no other cycle comes in between.
StartCycle(w) ==
    /\ pc[w] = "idle"
    /\ ~isProcessing[w[1]]
    /\ isProcessing' = [isProcessing EXCEPT ![w[1]] = TRUE]
    /\ Goto(w, "find")
    /\ UNCHANGED <<table, batch, record, kafka, index, faults>>

\* Mutant of IsPending: failed rows are read again.
IsPendingOrFailed(d) == row[d] \in {"PENDING", "FAILED"}

IsPending(d) == row[d] = "PENDING"

Pending == {d \in Records : IsPending(d)}

\* At most BatchSize rows, and none of the others is older than one of them.
IsOldest(S) ==
    /\ Cardinality(S) <= BatchSize
    /\ \A e \in Pending \ S :
          Cardinality(S) = BatchSize /\ \A d \in S : createdAt[d] <= createdAt[e]

\* The rows are read without a lock.
FindPending(w) ==
    /\ pc[w] = "find"
    /\ \E S \in SUBSET Pending :
          /\ IsOldest(S)
          /\ batch' = [batch EXCEPT ![w] = S]
    /\ Goto(w, "next")
    /\ UNCHANGED <<table, isProcessing, record, kafka, index, faults>>

\* Mutant of Emit: send() in place of emit(), which sends nothing until somebody
\* subscribes.
EmitNothing(w) ==
    /\ pc[w] = "next"
    /\ \E d \in batch[w] :
          /\ record' = [record EXCEPT ![w] = d]
          /\ batch' = [batch EXCEPT ![w] = @ \ {d}]
    /\ Goto(w, "save")
    /\ UNCHANGED <<table, isProcessing, kafka, index, faults>>

\* The loop takes the oldest row of the batch.  emit() hands the message to
\* the Kafka client and does not wait for the broker; the row is saved next.
Emit(w) ==
    /\ pc[w] = "next"
    /\ \E d \in batch[w] :
          /\ \A e \in batch[w] : createdAt[d] <= createdAt[e]
          /\ record' = [record EXCEPT ![w] = d]
          /\ batch' = [batch EXCEPT ![w] = @ \ {d}]
          /\ inFlight' = [inFlight EXCEPT ![w[1]][d] = @ + 1]
          /\ emits' = [emits EXCEPT ![d] = @ + 1]
    /\ Goto(w, "save")
    /\ UNCHANGED <<table, isProcessing, topic, index, lost, faults>>

SaveAs(w, outcome) ==
    /\ row' = [row EXCEPT ![record[w]] = outcome]
    /\ record' = [record EXCEPT ![w] = NoRecord]
    /\ Goto(w, "next")
    /\ UNCHANGED <<createdAt, isProcessing, batch, kafka, index, faults>>

\* Mutant of SaveProcessed: the status is not written.
SaveNothing(w) ==
    /\ pc[w] = "save"
    /\ record' = [record EXCEPT ![w] = NoRecord]
    /\ Goto(w, "next")
    /\ UNCHANGED <<table, isProcessing, batch, kafka, index, faults>>

SaveProcessed(w) ==
    /\ pc[w] = "save"
    /\ SaveAs(w, "PROCESSED")

\* The inner catch.  Whether the row has been written is not known.
SaveFails(w) ==
    /\ pc[w] = "save"
    /\ Fault("query")
    /\ row' \in {row, [row EXCEPT ![record[w]] = "PROCESSED"]}
    /\ Goto(w, "saveFailed")
    /\ UNCHANGED <<createdAt, isProcessing, batch, record, kafka, index>>

\* Mutant of SaveFailed: a status that the column does not have.
SaveError(w) ==
    /\ pc[w] = "saveFailed"
    /\ SaveAs(w, "ERROR")

SaveFailed(w) ==
    /\ pc[w] = "saveFailed"
    /\ SaveAs(w, "FAILED")

\* Mutant of FinishCycle: the flag is not reset when a cycle ends.
FinishKeepsFlag(w) ==
    /\ batch' = [batch EXCEPT ![w] = {}]
    /\ record' = [record EXCEPT ![w] = NoRecord]
    /\ Goto(w, "idle")
    /\ UNCHANGED <<createdAt, isProcessing, kafka, index>>

\* finally: the next cycle may start.
FinishCycle(w) ==
    /\ isProcessing' = [isProcessing EXCEPT ![w[1]] = FALSE]
    /\ batch' = [batch EXCEPT ![w] = {}]
    /\ record' = [record EXCEPT ![w] = NoRecord]
    /\ Goto(w, "idle")
    /\ UNCHANGED <<createdAt, kafka, index>>

\* The batch was empty from the start, or all of it has been worked on.
BatchDone(w) ==
    /\ pc[w] = "next"
    /\ batch[w] = {}
    /\ FinishCycle(w)
    /\ UNCHANGED <<row, faults>>

\* find() throws: the outer catch.
FindFails(w) ==
    /\ pc[w] = "find"
    /\ Fault("query")
    /\ FinishCycle(w)
    /\ UNCHANGED row

\* save() throws in the inner catch, so that the outer one ends the cycle.
SaveFailedFails(w) ==
    /\ pc[w] = "saveFailed"
    /\ Fault("query")
    /\ row' \in {row, [row EXCEPT ![record[w]] = "FAILED"]}
    /\ FinishCycle(w)

-----------------------------------------------------------------------------
(***************************************************************************)
(* The Kafka client, the broker and a crash of the wallet service.         *)
(***************************************************************************)
Deliver(i, d) ==
    /\ inFlight[i][d] > 0
    /\ inFlight' = [inFlight EXCEPT ![i][d] = @ - 1]
    /\ topic' = [topic EXCEPT ![d] = @ + 1]
    /\ UNCHANGED <<table, cycles, emits, index, lost, faults>>

\* The client is out of retries: nobody looks at the error.
GiveUp(i, d) ==
    /\ inFlight[i][d] > 0
    /\ Fault("broker")
    /\ inFlight' = [inFlight EXCEPT ![i][d] = @ - 1]
    /\ lost' = lost \union {d}
    /\ UNCHANGED <<table, cycles, emits, topic, index>>

\* Only the table survives.
Crash(i) ==
    /\ Fault("crash")
    /\ isProcessing' = [isProcessing EXCEPT ![i] = FALSE]
    /\ batch' = [w \in Workers |-> IF w[1] = i THEN {} ELSE batch[w]]
    /\ record' = [w \in Workers |-> IF w[1] = i THEN NoRecord ELSE record[w]]
    /\ pc' = [w \in Workers |-> IF w[1] = i THEN "idle" ELSE pc[w]]
    /\ inFlight' = [inFlight EXCEPT ![i] = [d \in Records |-> 0]]
    /\ lost' = lost \union {d \in Records : inFlight[i][d] > 0}
    /\ UNCHANGED <<table, emits, topic, index>>

-----------------------------------------------------------------------------
(***************************************************************************)
(* AuditServiceController.syncTransactionToSearch.                         *)
(***************************************************************************)

\* The document's id is the id of the transaction: a copy overwrites it.
Sync(d) ==
    /\ topic[d] > 0
    /\ topic' = [topic EXCEPT ![d] = @ - 1]
    /\ index' = index \union {d}
    /\ UNCHANGED <<table, cycles, inFlight, emits, lost, faults>>

\* The error is logged, the handler returns, and the offset moves on.
SyncFails(d) ==
    /\ topic[d] > 0
    /\ Fault("search")
    /\ topic' = [topic EXCEPT ![d] = @ - 1]
    /\ lost' = lost \union {d}
    /\ UNCHANGED <<table, cycles, inFlight, emits, index>>

\* The document is written, and the message will come again.
SyncAgain(d) ==
    /\ topic[d] > 0
    /\ Fault("redeliver")
    /\ index' = index \union {d}
    /\ UNCHANGED <<table, cycles, kafka>>

-----------------------------------------------------------------------------
Cycle(w) ==
    \/ StartCycle(w) \/ FindPending(w) \/ Emit(w) \/ SaveProcessed(w)
    \/ SaveFails(w) \/ SaveFailed(w) \/ SaveFailedFails(w)
    \/ FindFails(w) \/ BatchDone(w)

Next ==
    \/ \E d \in Records : CreateRecord(d)
    \/ \E w \in Workers : Cycle(w)
    \/ \E i \in Instances, d \in Records : Deliver(i, d) \/ GiveUp(i, d)
    \/ \E i \in Instances : Crash(i)
    \/ \E d \in Records : Sync(d) \/ SyncFails(d) \/ SyncAgain(d)

Spec == Init /\ [][Next]_vars

\* The interval keeps firing, a begun cycle goes on, the client retries until
\* the broker has the message, and the consumer reads the topic.
FairSpec ==
    /\ Spec
    /\ \A w \in Workers : WF_vars(Cycle(w))
    /\ \A i \in Instances, d \in Records : WF_vars(Deliver(i, d))
    /\ \A d \in Records : WF_vars(Sync(d))

-----------------------------------------------------------------------------
(***************************************************************************)
(* Properties.                                                             *)
(***************************************************************************)
TypeOK ==
    /\ createdAt \in [Records -> Times \union {0}]
    /\ row \in [Records -> {"none", "PENDING", "PROCESSED", "FAILED"}]
    /\ isProcessing \in [Instances -> BOOLEAN]
    /\ batch \in [Workers -> SUBSET Records]
    /\ record \in [Workers -> Records \union {NoRecord}]
    /\ pc \in [Workers -> {"idle", "find", "next", "save", "saveFailed"}]
    /\ inFlight \in [Instances -> [Records -> Nat]]
    /\ emits \in [Records -> Nat]
    /\ topic \in [Records -> Nat]
    /\ index \subseteq Records /\ lost \subseteq Records
    /\ faults \in 0 .. MaxFaults

\* Two cycles of one instance never work at the same time, whatever query
\* fails and wherever the instance is stopped, and the flag that keeps them
\* apart is never left behind by a cycle that has ended.
OneCycleAtATime ==
    /\ \A w \in Workers : pc[w] # "idle" => isProcessing[w[1]]
    /\ \A v, w \in Workers :
          v[1] = w[1] /\ pc[v] # "idle" /\ pc[w] # "idle" => v = w
    /\ \A i \in Instances :
          isProcessing[i] => \E w \in Workers : w[1] = i /\ pc[w] # "idle"

\* The rows that cycle w has still to emit, or has emitted and is about to mark.
InHand(w) == batch[w] \union (IF pc[w] = "save" THEN {record[w]} ELSE {})

\* A row that a cycle of the only instance is to emit and mark is still PENDING in
\* the table: what find() returned is not stale when it is used, although it was
\* read without a lock.
BatchIsPending == \A w \in Workers : \A d \in InHand(w) : row[d] = "PENDING"

\* find() locks nothing, so that instances read the same rows.  Still each of them
\* sends a transaction once, and once more only where a fault keeps it from marking
\* the row: the only instance sends it once until something fails.
EmittedOncePerInstance ==
    \A d \in Records : emits[d] <= Cardinality(Instances) + faults

Sent(d) == (\E i \in Instances : inFlight[i][d] > 0) \/ topic[d] > 0 \/ d \in index

\* A row leaves PENDING only after its message has been handed to the client:
\* it is in flight, in the topic or in the index, unless the broker, a crash or
\* Elasticsearch has cost a copy of it.
NeverMarkedUnsent ==
    \A d \in Records : row[d] \in {"PROCESSED", "FAILED"} => Sent(d) \/ d \in lost

\* Whatever queries fail and wherever the service stops, every transaction recorded
\* in the outbox can be found by a search in the end, except for those of which a
\* message has been lost after it was emitted.
EventuallyIndexed == \A d \in Records : row[d] # "none" ~> d \in index \union lost
=============================================================================
