----------------------------- MODULE AuditTrail -----------------------------
(***************************************************************************)
(* The audit service as a consumer of topic wallet.events.  For every      *)
(* successful transfer handleWalletEvent writes two logs and two counters, *)
(* one await after the other, while Kafka delivers at least once.          *)
(*                                                                         *)
(* Kafka is external and modelled by what the service can observe: a log,  *)
(* one owner of the partition, an offset that is committed some time after *)
(* the handler has returned.  What the collections may look like at all is *)
(* AuditBook.tla.                                                          *)
(***************************************************************************)
EXTENDS Integers, Sequences

CONSTANTS
    Transfers,   \* the transfers that may be announced
    Consumers,   \* the instances of the audit service
    Reactions,   \* what the Kafka client may do when the handler throws
    Faults,      \* the faults that may happen, a subset of FaultKinds
    MaxFaults,   \* how many faults a behaviour has at most
    NoTransfer   \* the transfer a resting consumer works on

(***************************************************************************)
(* "mongo": an operation throws, whether or not MongoDB has carried it out.*)
(* "crash": an instance stops and starts again.  "rebalance": another      *)
(* instance gets the partition while this one may be at work.  "duplicate":*)
(* the producer of the wallet service sends a message a second time.       *)
(***************************************************************************)
FaultKinds == {"mongo", "crash", "rebalance", "duplicate"}

ASSUME TrailFaultsAssumption == Faults \subseteq FaultKinds
ASSUME TrailMaxFaultsAssumption == MaxFaults \in Nat
ASSUME TrailNoTransferAssumption == NoTransfer \notin Transfers
ASSUME ReactionsAssumption == Reactions \subseteq {"retry", "skip"} /\ Reactions # {}

Messages == [transaction : Transfers, status : {"SUCCESS", "REFUNDED"}]
Sides == {"from", "to"}

VARIABLES
    log,           \* the messages of topic wallet.events
    committed,     \* the offset Kafka has for the service: handled messages
    owner,         \* the consumer the partition is assigned to
    position,      \* position[c]: the message c works on or has handled last
    current,       \* current[c]: the transfer c works on
    step,          \* step[c]: the statement of handleWalletEvent c is at
    senderLogs,    \* the transfers with a log that has their messageId
    receiverLogs,  \* receiverLogs[t]: how many logs of the receiver t has
    counted,       \* counted[t][s]: how often the stats of side s include t
    passedOver,    \* the transfers of messages Kafka passed over after a throw
    faults         \* how many faults there have been

vars == <<log, committed, owner, position, current, step,
          senderLogs, receiverLogs, counted, passedOver, faults>>
trail == <<senderLogs, receiverLogs, counted>>
partition == <<log, committed, owner>>

Init ==
    /\ log = << >>
    /\ committed = 0
    /\ owner \in Consumers
    /\ position = [c \in Consumers |-> 0]
    /\ current = [c \in Consumers |-> NoTransfer]
    /\ step = [c \in Consumers |-> "idle"]
    /\ senderLogs = {}
    /\ receiverLogs = [t \in Transfers |-> 0]
    /\ counted = [t \in Transfers |-> [s \in Sides |-> 0]]
    /\ passedOver = {}
    /\ faults = 0

Fault(kind) ==
    /\ kind \in Faults
    /\ faults < MaxFaults
    /\ faults' = faults + 1

-----------------------------------------------------------------------------
(***************************************************************************)
(* The wallet service's side of the topic.                                 *)
(***************************************************************************)
Announced(t) == \E i \in 1 .. Len(log) : log[i].transaction = t

Publish(m) ==
    /\ ~Announced(m.transaction)
    /\ log' = Append(log, m)
    /\ UNCHANGED <<committed, owner, position, current, step, trail, passedOver, faults>>

PublishAgain(i) ==
    /\ Fault("duplicate")
    /\ log' = Append(log, log[i])
    /\ UNCHANGED <<committed, owner, position, current, step, trail, passedOver>>

-----------------------------------------------------------------------------
(***************************************************************************)
(* handleWalletEvent, as consumer c runs it.                               *)
(***************************************************************************)
Goto(c, next) == step' = [step EXCEPT ![c] = next]

Rest(c) ==
    /\ Goto(c, "idle")
    /\ current' = [current EXCEPT ![c] = NoTransfer]

\* An event of another status is logged to the console, and that is all.
Receive(c) ==
    /\ owner = c /\ step[c] = "idle" /\ position[c] < Len(log)
    /\ position' = [position EXCEPT ![c] = @ + 1]
    /\ LET m == log[position[c] + 1]
       IN  IF m.status = "SUCCESS"
           THEN Goto(c, "senderLog") /\ current' = [current EXCEPT ![c] = m.transaction]
           ELSE UNCHANGED <<step, current>>
    /\ UNCHANGED <<partition, trail, passedOver, faults>>

\* Mutant of LogSender: the log has no messageId.
LogSenderAlways(c) ==
    /\ step[c] = "senderLog"
    /\ senderLogs' = senderLogs \union {current[c]}
    /\ Goto(c, "receiverLog")
    /\ UNCHANGED <<partition, position, current, receiverLogs, counted, passedOver, faults>>

\* messageId is the id of the transaction, and unique.
LogSender(c) ==
    /\ step[c] = "senderLog"
    /\ current[c] \notin senderLogs
    /\ senderLogs' = senderLogs \union {current[c]}
    /\ Goto(c, "receiverLog")
    /\ UNCHANGED <<partition, position, current, receiverLogs, counted, passedOver, faults>>

\* Mutant of LogReceiver: nobody awaits the insertion, and it fails.
LogReceiverUnawaited(c) ==
    /\ step[c] = "receiverLog"
    /\ Goto(c, "senderStats")
    /\ UNCHANGED <<partition, position, current, trail, passedOver, faults>>

\* A log without messageId: the sparse index does not know it.
LogReceiver(c) ==
    /\ step[c] = "receiverLog"
    /\ receiverLogs' = [receiverLogs EXCEPT ![current[c]] = @ + 1]
    /\ Goto(c, "senderStats")
    /\ UNCHANGED <<partition, position, current, senderLogs, counted, passedOver, faults>>

Count(c, side) == counted' = [counted EXCEPT ![current[c]][side] = @ + 1]

CountSender(c) ==
    /\ step[c] = "senderStats"
    /\ Count(c, "from")
    /\ Goto(c, "receiverStats")
    /\ UNCHANGED <<partition, position, current, senderLogs, receiverLogs, passedOver, faults>>

\* Mutant of CountReceiver: only the sender's statistics are updated.
CountNobody(c) ==
    /\ step[c] = "receiverStats"
    /\ Rest(c)
    /\ UNCHANGED <<partition, position, trail, passedOver, faults>>

CountReceiver(c) ==
    /\ step[c] = "receiverStats"
    /\ Count(c, "to")
    /\ Rest(c)
    /\ UNCHANGED <<partition, position, senderLogs, receiverLogs, passedOver, faults>>

\* The handler throws: the message is delivered again, or passed over.
Throw(c) ==
    /\ Rest(c)
    /\ \/ /\ "retry" \in Reactions
          /\ position' = [position EXCEPT ![c] = @ - 1]
          /\ UNCHANGED passedOver
       \/ /\ "skip" \in Reactions
          /\ passedOver' = passedOver \union {current[c]}
          /\ UNCHANGED position

\* Mutant of DuplicateKey: the log is deleted, so that the message can be handled anew.
DeleteDuplicate(c) ==
    /\ step[c] = "senderLog"
    /\ current[c] \in senderLogs
    /\ senderLogs' = senderLogs \ {current[c]}
    /\ Throw(c)
    /\ UNCHANGED <<partition, receiverLogs, counted, faults>>

\* Mutant of DuplicateKey: the error is taken for a sign that all has been done.
ReturnOnDuplicate(c) ==
    /\ step[c] = "senderLog"
    /\ current[c] \in senderLogs
    /\ Rest(c)
    /\ UNCHANGED <<partition, position, trail, passedOver, faults>>

\* save() meets the unique index: error E11000.
DuplicateKey(c) ==
    /\ step[c] = "senderLog"
    /\ current[c] \in senderLogs
    /\ Throw(c)
    /\ UNCHANGED <<partition, trail, faults>>

\* The effect of the statement that c is at, if it is carried out.
Effect(c) ==
    \/ /\ step[c] = "senderLog"
       /\ senderLogs' = senderLogs \union {current[c]}
       /\ UNCHANGED <<receiverLogs, counted>>
    \/ /\ step[c] = "receiverLog"
       /\ receiverLogs' = [receiverLogs EXCEPT ![current[c]] = @ + 1]
       /\ UNCHANGED <<senderLogs, counted>>
    \/ /\ step[c] = "senderStats"
       /\ Count(c, "from")
       /\ UNCHANGED <<senderLogs, receiverLogs>>
    \/ /\ step[c] = "receiverStats"
       /\ Count(c, "to")
       /\ UNCHANGED <<senderLogs, receiverLogs>>

MongoFails(c) ==
    /\ step[c] # "idle"
    /\ Fault("mongo")
    /\ Effect(c) \/ UNCHANGED trail
    /\ Throw(c)
    /\ UNCHANGED partition

-----------------------------------------------------------------------------
(***************************************************************************)
(* The consumer side of Kafka.                                             *)
(***************************************************************************)
\* What c has handled: all up to its position, but the message it works on.
Handled(c) == IF step[c] = "idle" THEN position[c] ELSE position[c] - 1

\* Mutant of CommitOffset: the offset of the next message is committed.
CommitNext(c) ==
    /\ owner = c
    /\ committed <= Handled(c)
    /\ committed' = Handled(c) + 1
    /\ UNCHANGED <<log, owner, position, current, step, trail, passedOver, faults>>

CommitOffset(c) ==
    /\ owner = c
    /\ committed < Handled(c)
    /\ committed' = Handled(c)
    /\ UNCHANGED <<log, owner, position, current, step, trail, passedOver, faults>>

\* What was handled and not committed will come again.
Crash(c) ==
    /\ Fault("crash")
    /\ Rest(c)
    /\ position' = [position EXCEPT ![c] = committed]
    /\ UNCHANGED <<partition, trail, passedOver>>

\* c takes over at the committed offset.  The former owner finishes its handler.
Rebalance(c) ==
    /\ owner # c /\ step[c] = "idle"
    /\ Fault("rebalance")
    /\ owner' = c
    /\ position' = [position EXCEPT ![c] = committed]
    /\ UNCHANGED <<log, committed, current, step, trail, passedOver>>

\* Everything has been announced and handled.
Quiescent ==
    /\ \A t \in Transfers : Announced(t)
    /\ committed = Len(log)
    /\ \A c \in Consumers : step[c] = "idle"
    /\ UNCHANGED vars

-----------------------------------------------------------------------------
HandleWalletEvent(c) ==
    \/ Receive(c) \/ LogSender(c) \/ DuplicateKey(c) \/ LogReceiver(c)
    \/ CountSender(c) \/ CountReceiver(c) \/ MongoFails(c)

Next ==
    \/ \E m \in Messages : Publish(m)
    \/ \E i \in 1 .. Len(log) : PublishAgain(i)
    \/ \E c \in Consumers :
          HandleWalletEvent(c) \/ CommitOffset(c) \/ Crash(c) \/ Rebalance(c)
    \/ Quiescent

Spec == Init /\ [][Next]_vars

\* A running consumer polls, finishes its handlers and commits.
FairSpec ==
    Spec /\ \A c \in Consumers : WF_vars(HandleWalletEvent(c)) /\ WF_vars(CommitOffset(c))

-----------------------------------------------------------------------------
(***************************************************************************)
(* Properties.                                                             *)
(***************************************************************************)
TypeOK ==
    /\ log \in Seq(Messages)
    /\ committed \in 0 .. Len(log)
    /\ owner \in Consumers
    /\ position \in [Consumers -> 0 .. Len(log)]
    /\ current \in [Consumers -> Transfers \union {NoTransfer}]
    /\ step \in [Consumers ->
                   {"idle", "senderLog", "receiverLog", "senderStats", "receiverStats"}]
    /\ senderLogs \subseteq Transfers
    /\ receiverLogs \in [Transfers -> Nat]
    /\ counted \in [Transfers -> [Sides -> Nat]]
    /\ passedOver \subseteq Transfers
    /\ faults \in 0 .. MaxFaults

Successful(t) == \E i \in 1 .. Len(log) : log[i] = [transaction |-> t, status |-> "SUCCESS"]

\* Whatever is delivered again, by whichever instance, a transfer has at most one
\* log of its receiver and counts at most once in the statistics of either side:
\* the unique log that is written first lets one handler through.
CountedOnce ==
    \A t \in Transfers : receiverLogs[t] <= 1 /\ \A s \in Sides : counted[t][s] <= 1

\* The statistics never say more than the logs: who counts a transfer has it in
\* the trail, the receiver's count comes after the sender's, and only transfers
\* announced as successful are in the trail at all.
StatsFollowTrail ==
    \A t \in Transfers :
        /\ counted[t]["to"] > 0 => counted[t]["from"] > 0
        /\ counted[t]["from"] > 0 => receiverLogs[t] > 0
        /\ receiverLogs[t] > 0 => t \in senderLogs
        /\ t \in senderLogs => Successful(t)

\* The page of a transfer in the book: a log with a messageId is there or not.
Page(t) ==
    <<IF t \in senderLogs THEN 1 ELSE 0,
      receiverLogs[t], counted[t]["from"], counted[t]["to"]>>

Book == INSTANCE AuditBook WITH
    successful <- {t \in Transfers : Successful(t)},
    book <- [t \in Transfers |-> Page(t)]

\* Whatever is delivered again and whatever fails, the audit service does to its
\* collections only what AuditBook allows: the four writes of handleWalletEvent, in
\* their order, each once per transfer although several handlers may be at it, and
\* nothing for a transfer that was not announced as successful.
ImplementsBook == Book!Spec

Audited(t) ==
    /\ t \in senderLogs /\ receiverLogs[t] > 0
    /\ \A s \in Sides : counted[t][s] > 0

\* Whatever fails: a transfer whose message is committed, and so never comes again, is
\* captured completely, unless its handler threw and Kafka went on to the next message.
\* Where Kafka repeats, an interrupted one is in front of the committed offset for ever.
CommittedIsAudited ==
    \A i \in 1 .. committed : log[i].status = "SUCCESS" =>
        Audited(log[i].transaction) \/ log[i].transaction \in passedOver

\* Every successful transfer is captured completely in the end.
EventuallyAudited == \A t \in Transfers : Successful(t) ~> Audited(t)

\* While nothing fails, it is.
AuditedWithoutFaults == [](faults = 0) => EventuallyAudited
=============================================================================
