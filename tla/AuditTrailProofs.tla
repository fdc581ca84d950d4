-------------------------- MODULE AuditTrailProofs --------------------------
(***************************************************************************)
(* Proofs about AuditTrail for any transfers, consumers, reactions and     *)
(* faults.  The unique index lets at most one handler per transfer past the*)
(* first log, and what that handler finds is what the earlier statements   *)
(* have written.  So the service implements AuditBook, and what is         *)
(* committed is complete, unless Kafka passed over it after a throw.       *)
(***************************************************************************)
EXTENDS AuditTrail, TLAPS

\* c has written the log with the messageId.
PastGate(c) == step[c] \in {"receiverLog", "senderStats", "receiverStats"}

\* A consumer at work holds a successful transfer of a message it has taken.
WorkersHoldTransfers ==
    \A c \in Consumers : step[c] # "idle" =>
        current[c] \in Transfers /\ Successful(current[c]) /\ position[c] >= 1

\* One handler per transfer gets past the unique log.
OneHandlerThrough ==
    /\ \A c \in Consumers : PastGate(c) => current[c] \in senderLogs
    /\ \A c, d \in Consumers :
          PastGate(c) /\ PastGate(d) /\ current[c] = current[d] => c = d

\* What a handler past the gate finds in the trail, statement by statement.
TrailFollowsStep ==
    \A c \in Consumers :
        /\ step[c] = "receiverLog" => receiverLogs[current[c]] = 0
        /\ step[c] = "senderStats" => receiverLogs[current[c]] = 1
                                      /\ counted[current[c]]["from"] = 0
        /\ step[c] = "receiverStats" => counted[current[c]]["from"] = 1
                                        /\ counted[current[c]]["to"] = 0

\* The order of the statements, as the trail shows it.
TrailInOrder ==
    \A t \in Transfers :
        /\ counted[t]["to"] <= counted[t]["from"]
        /\ counted[t]["from"] <= receiverLogs[t]
        /\ receiverLogs[t] <= 1
        /\ receiverLogs[t] > 0 => t \in senderLogs
        /\ t \in senderLogs => Successful(t)

GateInv ==
    TypeOK /\ WorkersHoldTransfers /\ OneHandlerThrough /\ TrailFollowsStep /\ TrailInOrder

(***************************************************************************)
(* Only the wallet service writes the topic, and it only appends.          *)
(***************************************************************************)
LEMMA AppendKeepsSuccess ==
    ASSUME log \in Seq(Messages), NEW m \in Messages, log' = Append(log, m)
    PROVE  /\ log' \in Seq(Messages) /\ Len(log') = Len(log) + 1
           /\ \A t : Successful(t) => Successful(t)'
<1>1. log' \in Seq(Messages) /\ Len(log') = Len(log) + 1
  OBVIOUS
<1>2. \A i \in 1 .. Len(log) : i \in 1 .. Len(log') /\ log'[i] = log[i]
  BY <1>1
<1>. QED  BY <1>1, <1>2 DEF Successful

\* A handler that throws leaves the trail to the others.
LEMMA ThrowKeepsTypes ==
    ASSUME TypeOK, WorkersHoldTransfers, NEW c \in Consumers, step[c] # "idle",
           Throw(c), UNCHANGED log
    PROVE  /\ step' = [step EXCEPT ![c] = "idle"]
           /\ current' = [current EXCEPT ![c] = NoTransfer]
           /\ position' \in [Consumers -> 0 .. Len(log)]
           /\ \A d \in Consumers : d # c => position'[d] = position[d]
           /\ passedOver \subseteq passedOver' /\ passedOver' \subseteq Transfers
  BY DEF TypeOK, WorkersHoldTransfers, Throw, Rest, Goto

\* Every count is a number, and $inc adds one to one of them.
LEMMA CountsAreNumbers ==
    ASSUME TypeOK, NEW t \in Transfers
    PROVE  receiverLogs[t] \in Nat /\ counted[t]["from"] \in Nat /\ counted[t]["to"] \in Nat
  BY DEF TypeOK, Sides

LEMMA CountAddsOne ==
    ASSUME TypeOK, NEW c \in Consumers, current[c] \in Transfers, NEW s \in Sides, Count(c, s)
    PROVE  /\ counted' \in [Transfers -> [Sides -> Nat]]
           /\ counted'[current[c]][s] = counted[current[c]][s] + 1
           /\ \A r \in Sides \ {s} : counted'[current[c]][r] = counted[current[c]][r]
           /\ \A t \in Transfers \ {current[c]} : counted'[t] = counted[t]
<1>. DEFINE u == current[c]
<1>1. counted[u] \in [Sides -> Nat]
  BY DEF TypeOK
<1>2. counted' = [counted EXCEPT ![u] = [counted[u] EXCEPT ![s] = @ + 1]]
  BY DEF Count, TypeOK
<1>. HIDE DEF u
<1>. QED  BY <1>1, <1>2 DEF TypeOK, u

\* A consumer that takes a message writes nothing yet.
LEMMA ReceiveTakesMessage ==
    ASSUME TypeOK, NEW c \in Consumers, Receive(c)
    PROVE  /\ step[c] = "idle"
           /\ step' \in [Consumers -> {"idle", "senderLog", "receiverLog",
                                      "senderStats", "receiverStats"}]
           /\ current' \in [Consumers -> Transfers \union {NoTransfer}]
           /\ position' \in [Consumers -> 0 .. Len(log)]
           /\ step'[c] \in {"idle", "senderLog"}
           /\ \A d \in Consumers \ {c} : step'[d] = step[d] /\ current'[d] = current[d]
           /\ UNCHANGED <<log, committed, owner, senderLogs, receiverLogs, counted,
                         passedOver, faults>>
<1>. DEFINE m == log[position[c] + 1]
<1>1. step[c] = "idle" /\ position[c] + 1 \in 1 .. Len(log)
  BY DEF TypeOK, Receive
<1>2. m \in Messages
  BY <1>1 DEF TypeOK
<1>3. m.transaction \in Transfers
  BY <1>2 DEF Messages
<1>4. position' \in [Consumers -> 0 .. Len(log)]
  BY <1>1 DEF TypeOK, Receive
<1>5. UNCHANGED <<log, committed, owner, senderLogs, receiverLogs, counted,
                  passedOver, faults>>
  BY DEF Receive, partition, trail
<1>6. CASE m.status = "SUCCESS"
  <2>1. step' = [step EXCEPT ![c] = "senderLog"]
        /\ current' = [current EXCEPT ![c] = m.transaction]
    BY <1>6 DEF Receive, Goto
  <2>. HIDE DEF m
  <2>. QED  BY <1>1, <1>3, <1>4, <1>5, <2>1 DEF TypeOK
<1>7. CASE m.status # "SUCCESS"
  BY <1>1, <1>4, <1>5, <1>7 DEF TypeOK, Receive
<1>. QED  BY <1>6, <1>7

LEMMA GateInit == Init => GateInv
  BY TrailMaxFaultsAssumption
  DEF Init, GateInv, TypeOK, WorkersHoldTransfers, OneHandlerThrough, PastGate,
      TrailFollowsStep, TrailInOrder, Sides, Successful

(***************************************************************************)
(* Types.                                                                  *)
(***************************************************************************)
LEMMA TypesAreKept == ASSUME TypeOK, WorkersHoldTransfers, Next PROVE TypeOK'
<1>. USE DEF TypeOK
<1>1. CASE \E m \in Messages : Publish(m)
  BY <1>1, AppendKeepsSuccess DEF Publish, trail
<1>2. CASE \E i \in 1 .. Len(log) : PublishAgain(i)
  <2>1. PICK i \in 1 .. Len(log) : PublishAgain(i)
    BY <1>2
  <2>2. log[i] \in Messages /\ log' = Append(log, log[i])
    BY <2>1 DEF PublishAgain
  <2>3. log' \in Seq(Messages) /\ Len(log') = Len(log) + 1
    BY <2>2, AppendKeepsSuccess
  <2>. QED
    BY <2>1, <2>3, TrailMaxFaultsAssumption DEF PublishAgain, trail, Fault
<1>3. ASSUME NEW c \in Consumers, Receive(c) PROVE TypeOK'
  BY <1>3, ReceiveTakesMessage
<1>4. ASSUME NEW c \in Consumers, LogSender(c) PROVE TypeOK'
  BY <1>4 DEF LogSender, Goto, partition, WorkersHoldTransfers
<1>5. ASSUME NEW c \in Consumers, DuplicateKey(c) PROVE TypeOK'
  BY <1>5, ThrowKeepsTypes DEF DuplicateKey, partition, trail
<1>6. ASSUME NEW c \in Consumers, LogReceiver(c) PROVE TypeOK'
  BY <1>6 DEF LogReceiver, Goto, partition, WorkersHoldTransfers
<1>7. ASSUME NEW c \in Consumers, CountSender(c) PROVE TypeOK'
  BY <1>7 DEF CountSender, Count, Goto, partition, Sides, WorkersHoldTransfers
<1>8. ASSUME NEW c \in Consumers, CountReceiver(c) PROVE TypeOK'
  BY <1>8 DEF CountReceiver, Count, Rest, Goto, partition, Sides, WorkersHoldTransfers
<1>9. ASSUME NEW c \in Consumers, MongoFails(c) PROVE TypeOK'
  <2>1. current[c] \in Transfers /\ step[c] # "idle"
    BY <1>9 DEF MongoFails, WorkersHoldTransfers
  <2>2. senderLogs' \subseteq Transfers
    BY <1>9, <2>1 DEF MongoFails, Effect, trail
  <2>3. receiverLogs' \in [Transfers -> Nat]
    BY <1>9, <2>1 DEF MongoFails, Effect, trail
  <2>4. UNCHANGED counted \/ Count(c, "from") \/ Count(c, "to")
    BY <1>9 DEF MongoFails, Effect, trail
  <2>5. counted' \in [Transfers -> [Sides -> Nat]]
    BY <2>1, <2>4, CountAddsOne DEF Sides
  <2>6. faults' \in 0 .. MaxFaults
    BY <1>9, TrailMaxFaultsAssumption DEF MongoFails, Fault
  <2>7. Throw(c) /\ UNCHANGED partition
    BY <1>9 DEF MongoFails
  <2>. QED  BY <2>1, <2>2, <2>3, <2>5, <2>6, <2>7, ThrowKeepsTypes DEF partition
<1>10. ASSUME NEW c \in Consumers, CommitOffset(c) PROVE TypeOK'
  BY <1>10 DEF CommitOffset, Handled, trail
<1>11. ASSUME NEW c \in Consumers, Crash(c) \/ Rebalance(c) PROVE TypeOK'
  <2>1. faults' \in 0 .. MaxFaults
    BY <1>11, TrailMaxFaultsAssumption DEF Crash, Rebalance, Fault
  <2>2. CASE Crash(c)
    BY <2>1, <2>2 DEF Crash, Rest, Goto, partition, trail
  <2>3. CASE Rebalance(c)
    BY <2>1, <2>3 DEF Rebalance, trail
  <2>. QED  BY <1>11, <2>2, <2>3
<1>12. CASE Quiescent
  BY <1>12 DEF Quiescent, vars
<1>. QED
  BY <1>1, <1>2, <1>3, <1>4, <1>5, <1>6, <1>7, <1>8, <1>9, <1>10, <1>11, <1>12
  DEF Next, HandleWalletEvent

(***************************************************************************)
(* The handlers, the gate and the trail.                                   *)
(***************************************************************************)
LEMMA WorkersAreKept ==
    ASSUME TypeOK, WorkersHoldTransfers, Next PROVE WorkersHoldTransfers'
<1>. USE DEF TypeOK, WorkersHoldTransfers
<1>1. CASE \E m \in Messages : Publish(m)
  BY <1>1, AppendKeepsSuccess DEF Publish
<1>2. CASE \E i \in 1 .. Len(log) : PublishAgain(i)
  BY <1>2, AppendKeepsSuccess DEF PublishAgain
<1>3. ASSUME NEW c \in Consumers, Receive(c) PROVE WorkersHoldTransfers'
  <2>1. position[c] + 1 \in 1 .. Len(log) /\ log' = log
    BY <1>3 DEF Receive, partition
  <2>2. log[position[c] + 1] \in Messages
    BY <2>1
  <2>3. CASE log[position[c] + 1].status = "SUCCESS"
    <3>1. log[position[c] + 1] =
             [transaction |-> log[position[c] + 1].transaction, status |-> "SUCCESS"]
      BY <2>2, <2>3 DEF Messages
    <3>2. Successful(log[position[c] + 1].transaction)
      BY <3>1, <2>1 DEF Successful
    <3>3. \A t : Successful(t) => Successful(t)'
      BY <2>1 DEF Successful
    <3>4. log[position[c] + 1].transaction \in Transfers
      BY <2>2 DEF Messages
    <3>. QED  BY <1>3, <2>3, <3>2, <3>3, <3>4 DEF Receive, Goto
  <2>4. CASE log[position[c] + 1].status # "SUCCESS"
    BY <1>3, <2>1, <2>4 DEF Receive, Successful
  <2>. QED  BY <2>3, <2>4
<1>4. ASSUME NEW c \in Consumers,
             LogSender(c) \/ LogReceiver(c) \/ CountSender(c) \/ CountReceiver(c)
      PROVE  WorkersHoldTransfers'
  BY <1>4 DEF LogSender, LogReceiver, CountSender, CountReceiver, Rest, Goto, partition,
              Successful
<1>5. ASSUME NEW c \in Consumers, DuplicateKey(c) \/ MongoFails(c)
      PROVE  WorkersHoldTransfers'
  <2>1. step[c] # "idle" /\ Throw(c) /\ UNCHANGED log
    BY <1>5 DEF DuplicateKey, MongoFails, partition
  <2>2. /\ step' = [step EXCEPT ![c] = "idle"]
        /\ current' = [current EXCEPT ![c] = NoTransfer]
        /\ \A d \in Consumers : d # c => position'[d] = position[d]
    BY <2>1, ThrowKeepsTypes
  <2>3. \A t : Successful(t) => Successful(t)'
    BY <2>1 DEF Successful
  <2>. QED  BY <2>2, <2>3
<1>6. ASSUME NEW c \in Consumers, CommitOffset(c) \/ Crash(c) \/ Rebalance(c)
      PROVE  WorkersHoldTransfers'
  BY <1>6 DEF CommitOffset, Crash, Rebalance, Rest, Goto, partition, Successful
<1>7. CASE Quiescent
  BY <1>7 DEF Quiescent, vars, Successful
<1>. QED
  BY <1>1, <1>2, <1>3, <1>4, <1>5, <1>6, <1>7 DEF Next, HandleWalletEvent

LEMMA GateIsKept ==
    ASSUME TypeOK, WorkersHoldTransfers, OneHandlerThrough, Next PROVE OneHandlerThrough'
<1>. USE DEF TypeOK, OneHandlerThrough, PastGate
<1>1. CASE \/ \E m \in Messages : Publish(m)
           \/ \E i \in 1 .. Len(log) : PublishAgain(i)
           \/ Quiescent
  BY <1>1 DEF Publish, PublishAgain, Quiescent, trail, vars
<1>2. ASSUME NEW c \in Consumers, Receive(c) PROVE OneHandlerThrough'
  <2>1. /\ step'[c] \in {"idle", "senderLog"}
        /\ \A d \in Consumers \ {c} : step'[d] = step[d] /\ current'[d] = current[d]
        /\ UNCHANGED senderLogs
    BY <1>2, ReceiveTakesMessage
  <2>2. ASSUME NEW d \in Consumers, PastGate(d)'
        PROVE  PastGate(d) /\ current'[d] = current[d]
    BY <2>1, <2>2
  <2>3. ASSUME NEW d \in Consumers, PastGate(d)' PROVE current'[d] \in senderLogs'
    BY <2>1, <2>2, <2>3
  <2>4. ASSUME NEW d \in Consumers, NEW e \in Consumers, PastGate(d)', PastGate(e)',
               current'[d] = current'[e]
        PROVE  d = e
    BY <2>2, <2>4
  <2>. QED  BY <2>3, <2>4
<1>3. ASSUME NEW c \in Consumers, LogSender(c) PROVE OneHandlerThrough'
  BY <1>3 DEF LogSender, Goto
<1>4. ASSUME NEW c \in Consumers, LogReceiver(c) \/ CountSender(c)
      PROVE  OneHandlerThrough'
  BY <1>4 DEF LogReceiver, CountSender, Goto
<1>5. ASSUME NEW c \in Consumers, CountReceiver(c) \/ DuplicateKey(c) \/ Crash(c)
      PROVE  OneHandlerThrough'
  <2>1. step' = [step EXCEPT ![c] = "idle"] /\ current' = [current EXCEPT ![c] = NoTransfer]
        /\ UNCHANGED senderLogs
    BY <1>5 DEF CountReceiver, DuplicateKey, Crash, Throw, Rest, Goto, trail
  <2>. QED  BY <2>1
<1>6. ASSUME NEW c \in Consumers, MongoFails(c) PROVE OneHandlerThrough'
  <2>1. senderLogs \subseteq senderLogs'
    BY <1>6 DEF MongoFails, Effect, trail
  <2>2. step' = [step EXCEPT ![c] = "idle"] /\ current' = [current EXCEPT ![c] = NoTransfer]
    BY <1>6 DEF MongoFails, Throw, Rest, Goto
  <2>. QED  BY <2>1, <2>2
<1>7. ASSUME NEW c \in Consumers, CommitOffset(c) \/ Rebalance(c)
      PROVE  OneHandlerThrough'
  BY <1>7 DEF CommitOffset, Rebalance, trail
<1>. QED
  BY <1>1, <1>2, <1>3, <1>4, <1>5, <1>6, <1>7 DEF Next, HandleWalletEvent

LEMMA StepIsFollowed ==
    ASSUME GateInv, Next PROVE TrailFollowsStep'
<1>. USE DEF GateInv, TypeOK, TrailFollowsStep, Sides
<1>1. CASE \/ \E m \in Messages : Publish(m)
           \/ \E i \in 1 .. Len(log) : PublishAgain(i)
           \/ Quiescent
  BY <1>1 DEF Publish, PublishAgain, Quiescent, trail, vars
<1>2. ASSUME NEW c \in Consumers, Receive(c) PROVE TrailFollowsStep'
  <2>1. /\ step'[c] \in {"idle", "senderLog"}
        /\ \A d \in Consumers \ {c} : step'[d] = step[d] /\ current'[d] = current[d]
        /\ UNCHANGED <<receiverLogs, counted>>
    BY <1>2, ReceiveTakesMessage
  <2>. QED  BY <2>1
<1>3. ASSUME NEW c \in Consumers, LogSender(c) PROVE TrailFollowsStep'
  <2>1. current[c] \in Transfers /\ receiverLogs[current[c]] = 0
    BY <1>3 DEF LogSender, WorkersHoldTransfers, TrailInOrder
  <2>. QED  BY <1>3, <2>1 DEF LogSender, Goto
<1>4. ASSUME NEW c \in Consumers, LogReceiver(c) PROVE TrailFollowsStep'
  <2>1. current[c] \in Transfers /\ counted[current[c]]["from"] = 0
    BY <1>4 DEF LogReceiver, WorkersHoldTransfers, TrailInOrder
  <2>2. \A d \in Consumers \ {c} : PastGate(d) => current[d] # current[c]
    BY <1>4 DEF LogReceiver, OneHandlerThrough, PastGate
  <2>3. \A d \in Consumers \ {c} : PastGate(d) => current[d] \in Transfers
    BY DEF WorkersHoldTransfers, PastGate
  <2>. QED  BY <1>4, <2>1, <2>2, <2>3 DEF LogReceiver, Goto, PastGate
<1>5. ASSUME NEW c \in Consumers, CountSender(c) PROVE TrailFollowsStep'
  <2>1. /\ current[c] \in Transfers
        /\ counted[current[c]]["from"] = 0 /\ counted[current[c]]["to"] = 0
    BY <1>5 DEF CountSender, WorkersHoldTransfers, TrailInOrder
  <2>2. \A d \in Consumers \ {c} : PastGate(d) => current[d] # current[c]
    BY <1>5 DEF CountSender, OneHandlerThrough, PastGate
  <2>3. \A d \in Consumers \ {c} : PastGate(d) => current[d] \in Transfers
    BY DEF WorkersHoldTransfers, PastGate
  <2>. QED  BY <1>5, <2>1, <2>2, <2>3 DEF CountSender, Count, Goto, PastGate
<1>6. ASSUME NEW c \in Consumers, CountReceiver(c) PROVE TrailFollowsStep'
  <2>1. current[c] \in Transfers
    BY <1>6 DEF CountReceiver, WorkersHoldTransfers
  <2>2. \A d \in Consumers \ {c} : PastGate(d) => current[d] # current[c]
    BY <1>6 DEF CountReceiver, OneHandlerThrough, PastGate
  <2>3. \A d \in Consumers \ {c} : PastGate(d) => current[d] \in Transfers
    BY DEF WorkersHoldTransfers, PastGate
  <2>. QED  BY <1>6, <2>1, <2>2, <2>3 DEF CountReceiver, Count, Rest, Goto, PastGate
<1>7. ASSUME NEW c \in Consumers, DuplicateKey(c) \/ Crash(c) PROVE TrailFollowsStep'
  <2>1. step' = [step EXCEPT ![c] = "idle"] /\ current' = [current EXCEPT ![c] = NoTransfer]
        /\ UNCHANGED trail
    BY <1>7 DEF DuplicateKey, Crash, Throw, Rest, Goto
  <2>. QED  BY <2>1 DEF trail
<1>8. ASSUME NEW c \in Consumers, MongoFails(c) PROVE TrailFollowsStep'
  <2>1. /\ current[c] \in Transfers
        /\ step' = [step EXCEPT ![c] = "idle"]
        /\ current' = [current EXCEPT ![c] = NoTransfer]
    BY <1>8 DEF MongoFails, Throw, Rest, Goto, WorkersHoldTransfers
  <2>2. CASE step[c] = "senderLog" \/ UNCHANGED trail
    BY <1>8, <2>1, <2>2 DEF MongoFails, Effect, trail
  <2>3. CASE PastGate(c)
    <3>1. \A d \in Consumers \ {c} : PastGate(d) => current[d] # current[c]
      BY <2>3 DEF OneHandlerThrough
    <3>2. \A d \in Consumers \ {c} : PastGate(d) => current[d] \in Transfers
      BY DEF WorkersHoldTransfers, PastGate
    <3>3. \A t \in Transfers \ {current[c]} :
             receiverLogs'[t] = receiverLogs[t] /\ counted'[t] = counted[t]
      BY <1>8, <2>1 DEF MongoFails, Effect, Count, trail
    <3>. QED  BY <2>1, <3>1, <3>2, <3>3 DEF PastGate
  <2>. QED  BY <1>8, <2>2, <2>3 DEF MongoFails, PastGate
<1>9. ASSUME NEW c \in Consumers, CommitOffset(c) \/ Rebalance(c) PROVE TrailFollowsStep'
  BY <1>9 DEF CommitOffset, Rebalance, trail
<1>. QED
  BY <1>1, <1>2, <1>3, <1>4, <1>5, <1>6, <1>7, <1>8, <1>9 DEF Next, HandleWalletEvent

\* What the statement c is at may do to the trail, whether or not it returns.
LEMMA EffectInOrder ==
    ASSUME GateInv, NEW c \in Consumers, step[c] # "idle", Effect(c), UNCHANGED log
    PROVE  TrailInOrder'
<1>. USE DEF GateInv, TypeOK, TrailInOrder, Sides
<1>1. current[c] \in Transfers /\ Successful(current[c])
  BY DEF WorkersHoldTransfers
<1>2. \A t : Successful(t) => Successful(t)'
  BY DEF Successful
<1>3. CASE step[c] = "senderLog"
  BY <1>1, <1>2, <1>3 DEF Effect
<1>4. CASE step[c] = "receiverLog"
  <2>1. current[c] \in senderLogs /\ receiverLogs[current[c]] = 0
    BY <1>4 DEF OneHandlerThrough, PastGate, TrailFollowsStep
  <2>2. receiverLogs' = [receiverLogs EXCEPT ![current[c]] = @ + 1]
        /\ UNCHANGED <<senderLogs, counted>>
    BY <1>4 DEF Effect
  <2>. QED  BY <1>1, <1>2, <2>1, <2>2, CountsAreNumbers
<1>5. CASE step[c] = "senderStats"
  <2>1. receiverLogs[current[c]] = 1 /\ counted[current[c]]["from"] = 0
    BY <1>5 DEF TrailFollowsStep
  <2>2. Count(c, "from") /\ UNCHANGED <<senderLogs, receiverLogs>>
    BY <1>5 DEF Effect
  <2>3. /\ counted'[current[c]]["from"] = 1
        /\ counted'[current[c]]["to"] = counted[current[c]]["to"]
        /\ \A t \in Transfers \ {current[c]} : counted'[t] = counted[t]
    BY <1>1, <2>1, <2>2, CountAddsOne
  <2>4. ASSUME NEW t \in Transfers
        PROVE  /\ counted'[t]["to"] <= counted'[t]["from"]
               /\ counted'[t]["from"] <= receiverLogs[t]
    <3>1. receiverLogs[t] \in Nat /\ counted[t]["from"] \in Nat /\ counted[t]["to"] \in Nat
      BY CountsAreNumbers
    <3>2. CASE t = current[c]
      BY <2>1, <2>3, <3>1, <3>2
    <3>3. CASE t # current[c]
      BY <2>3, <3>3
    <3>. QED  BY <3>2, <3>3
  <2>. QED  BY <1>2, <2>2, <2>4
<1>6. CASE step[c] = "receiverStats"
  <2>1. counted[current[c]]["from"] = 1 /\ counted[current[c]]["to"] = 0
    BY <1>6 DEF TrailFollowsStep
  <2>2. Count(c, "to") /\ UNCHANGED <<senderLogs, receiverLogs>>
    BY <1>6 DEF Effect
  <2>3. /\ counted'[current[c]]["to"] = 1
        /\ counted'[current[c]]["from"] = counted[current[c]]["from"]
        /\ \A t \in Transfers \ {current[c]} : counted'[t] = counted[t]
    BY <1>1, <2>1, <2>2, CountAddsOne
  <2>4. ASSUME NEW t \in Transfers
        PROVE  /\ counted'[t]["to"] <= counted'[t]["from"]
               /\ counted'[t]["from"] <= receiverLogs[t]
    <3>1. receiverLogs[t] \in Nat /\ counted[t]["from"] \in Nat /\ counted[t]["to"] \in Nat
      BY CountsAreNumbers
    <3>2. CASE t = current[c]
      BY <2>1, <2>3, <3>1, <3>2
    <3>3. CASE t # current[c]
      BY <2>3, <3>3
    <3>. QED  BY <3>2, <3>3
  <2>. QED  BY <1>2, <2>2, <2>4
<1>. QED  BY <1>3, <1>4, <1>5, <1>6

LEMMA OrderIsKept ==
    ASSUME GateInv, Next PROVE TrailInOrder'
<1>1. CASE (\E m \in Messages : Publish(m)) \/ (\E i \in 1 .. Len(log) : PublishAgain(i))
  <2>1. UNCHANGED trail
    BY <1>1 DEF Publish, PublishAgain
  <2>2. PICK m \in Messages : log' = Append(log, m)
    BY <1>1 DEF Publish, PublishAgain, GateInv, TypeOK
  <2>3. \A t : Successful(t) => Successful(t)'
    BY <2>2, AppendKeepsSuccess DEF GateInv, TypeOK
  <2>. QED  BY <2>1, <2>3 DEF GateInv, TrailInOrder, trail
<1>2. CASE UNCHANGED <<trail, log>>
  BY <1>2 DEF GateInv, TrailInOrder, trail, Successful
<1>3. ASSUME NEW c \in Consumers, step[c] # "idle", Effect(c), UNCHANGED log
      PROVE  TrailInOrder'
  BY <1>3, EffectInOrder
<1>4. ASSUME NEW c \in Consumers, HandleWalletEvent(c)
      PROVE  UNCHANGED <<trail, log>> \/ (step[c] # "idle" /\ Effect(c) /\ UNCHANGED log)
  BY <1>4 DEF HandleWalletEvent, Receive, LogSender, DuplicateKey, LogReceiver, CountSender,
              CountReceiver, MongoFails, Effect, partition, trail
<1>5. ASSUME NEW c \in Consumers, CommitOffset(c) \/ Crash(c) \/ Rebalance(c)
      PROVE  UNCHANGED <<trail, log>>
  BY <1>5 DEF CommitOffset, Crash, Rebalance, partition
<1>6. CASE Quiescent
  BY <1>2, <1>6 DEF Quiescent, vars, trail
<1>. QED  BY <1>1, <1>2, <1>3, <1>4, <1>5, <1>6 DEF Next

-----------------------------------------------------------------------------
\* Every step keeps the invariant.
LEMMA GateIsInductive == GateInv /\ [Next]_vars => GateInv'
<1>1. CASE GateInv /\ Next
  BY <1>1, TypesAreKept, WorkersAreKept, GateIsKept, StepIsFollowed, OrderIsKept
  DEF GateInv
<1>2. CASE GateInv /\ UNCHANGED vars
  BY <1>2
  DEF GateInv, TypeOK, WorkersHoldTransfers, OneHandlerThrough, PastGate,
      TrailFollowsStep, TrailInOrder, Successful, vars
<1>. QED  BY <1>1, <1>2

\* The inductive invariant: one handler per transfer passes the unique log, and
\* what it then reads is what the handler has written so far.
THEOREM GateInvariant == Spec => []GateInv
BY GateIsInductive, GateInit, PTL DEF Spec

\* Every variable of the audit service and its topic keeps its type.
THEOREM TrailTypeCorrect == Spec => []TypeOK
BY GateInvariant, PTL DEF GateInv

\* No redelivery, rebalance or crash makes a transfer count twice.
THEOREM CountedAtMostOnce == Spec => []CountedOnce
<1>1. ASSUME GateInv, NEW t \in Transfers
      PROVE  receiverLogs[t] <= 1 /\ counted[t]["from"] <= 1 /\ counted[t]["to"] <= 1
  <2>1. receiverLogs[t] \in Nat /\ counted[t]["from"] \in Nat /\ counted[t]["to"] \in Nat
    BY <1>1, CountsAreNumbers DEF GateInv
  <2>2. counted[t]["to"] <= counted[t]["from"] /\ counted[t]["from"] <= receiverLogs[t]
        /\ receiverLogs[t] <= 1
    BY <1>1 DEF GateInv, TrailInOrder
  <2>. QED  BY <2>1, <2>2
<1>2. GateInv => CountedOnce
  BY <1>1 DEF CountedOnce, Sides
<1>. QED  BY <1>2, GateInvariant, PTL

\* What the statistics say is in the logs, and what is in the logs was announced.
THEOREM StatsInTrail == Spec => []StatsFollowTrail
<1>1. ASSUME GateInv, NEW t \in Transfers
      PROVE  /\ counted[t]["to"] > 0 => counted[t]["from"] > 0
             /\ counted[t]["from"] > 0 => receiverLogs[t] > 0
  <2>1. receiverLogs[t] \in Nat /\ counted[t]["from"] \in Nat /\ counted[t]["to"] \in Nat
    BY <1>1, CountsAreNumbers DEF GateInv
  <2>2. counted[t]["to"] <= counted[t]["from"] /\ counted[t]["from"] <= receiverLogs[t]
    BY <1>1 DEF GateInv, TrailInOrder
  <2>. QED  BY <2>1, <2>2
<1>2. ASSUME GateInv, NEW t \in Transfers
      PROVE  /\ receiverLogs[t] > 0 => t \in senderLogs
             /\ t \in senderLogs => Successful(t)
  BY <1>2 DEF GateInv, TrailInOrder
<1>3. GateInv => StatsFollowTrail
  BY <1>1, <1>2 DEF StatsFollowTrail
<1>. QED  BY <1>3, GateInvariant, PTL

-----------------------------------------------------------------------------
(***************************************************************************)
(* The collections as the book of AuditBook: a statement of the handler is *)
(* an entry, a message of the topic at most an announcement.               *)
(***************************************************************************)
book == [t \in Transfers |-> Page(t)]
successful == {t \in Transfers : Successful(t)}

\* Four values as a function, which is what AuditBook has.
LEMMA FourEntries ==
    ASSUME NEW a, NEW b, NEW c, NEW d
    PROVE  /\ <<a, b, c, d>> = [e \in 1 .. 4 |-> <<a, b, c, d>>[e]]
           /\ \A e \in 1 .. 4 : <<a, b, c, d>>[e] =
                 IF e = 1 THEN a ELSE IF e = 2 THEN b ELSE IF e = 3 THEN c ELSE d
  OBVIOUS

\* What the entries of a page are, before and after a step.
LEMMA PageEntries ==
    ASSUME NEW t \in Transfers
    PROVE  /\ Page(t) = [e \in 1 .. 4 |-> Page(t)[e]]
           /\ Page(t)[1] = IF t \in senderLogs THEN 1 ELSE 0
           /\ Page(t)[2] = receiverLogs[t]
           /\ Page(t)[3] = counted[t]["from"]
           /\ Page(t)[4] = counted[t]["to"]
<1>. DEFINE a == IF t \in senderLogs THEN 1 ELSE 0
            b == receiverLogs[t]
            c == counted[t]["from"]
            d == counted[t]["to"]
<1>1. Page(t) = <<a, b, c, d>>
  BY DEF Page
<1>2. Page(t) = [e \in 1 .. 4 |-> Page(t)[e]]
  <2>. HIDE DEF a, b, c, d
  <2>. QED  BY <1>1, FourEntries
<1>3. \A e \in 1 .. 4 : Page(t)[e] =
         IF e = 1 THEN a ELSE IF e = 2 THEN b ELSE IF e = 3 THEN c ELSE d
  <2>. HIDE DEF a, b, c, d
  <2>. QED  BY <1>1, FourEntries
<1>. QED  BY <1>2, <1>3

LEMMA PageEntriesAfter ==
    ASSUME NEW t \in Transfers
    PROVE  /\ Page(t)' = [e \in 1 .. 4 |-> Page(t)'[e]]
           /\ Page(t)'[1] = IF t \in senderLogs' THEN 1 ELSE 0
           /\ Page(t)'[2] = receiverLogs'[t]
           /\ Page(t)'[3] = counted'[t]["from"]
           /\ Page(t)'[4] = counted'[t]["to"]
<1>. DEFINE a == IF t \in senderLogs' THEN 1 ELSE 0
            b == receiverLogs'[t]
            c == counted'[t]["from"]
            d == counted'[t]["to"]
<1>1. Page(t)' = <<a, b, c, d>>
  BY DEF Page
<1>2. Page(t)' = [e \in 1 .. 4 |-> Page(t)'[e]]
  <2>. HIDE DEF a, b, c, d
  <2>. QED  BY <1>1, FourEntries
<1>3. \A e \in 1 .. 4 : Page(t)'[e] =
         IF e = 1 THEN a ELSE IF e = 2 THEN b ELSE IF e = 3 THEN c ELSE d
  <2>. HIDE DEF a, b, c, d
  <2>. QED  BY <1>1, FourEntries
<1>. QED  BY <1>2, <1>3

LEMMA BookInit == Init => Book!Init
<1>1. ASSUME Init, NEW t \in Transfers PROVE Page(t) = [e \in 1 .. 4 |-> 0]
  <2>1. /\ t \notin senderLogs /\ receiverLogs[t] = 0
        /\ counted[t]["from"] = 0 /\ counted[t]["to"] = 0
    BY <1>1 DEF Init, Sides
  <2>2. \A e \in 1 .. 4 : Page(t)[e] = 0
    BY <2>1, PageEntries
  <2>3. Page(t) = [e \in 1 .. 4 |-> Page(t)[e]]
    BY PageEntries
  <2>. QED  BY <2>2, <2>3
<1>2. ASSUME Init, NEW t PROVE ~Successful(t)
  <2>1. Len(log) = 0
    BY <1>2 DEF Init
  <2>. QED  BY <2>1 DEF Successful
<1>. QED  BY <1>1, <1>2 DEF Init, Book!Init, Book!Entries

\* The statement that c is at writes the next entry of the page.
LEMMA PageBeforeEntry ==
    ASSUME GateInv, NEW c \in Consumers, NEW n \in 1 .. 4,
           \/ n = 1 /\ step[c] = "senderLog" /\ current[c] \notin senderLogs
           \/ n = 2 /\ step[c] = "receiverLog"
           \/ n = 3 /\ step[c] = "senderStats"
           \/ n = 4 /\ step[c] = "receiverStats"
    PROVE  Page(current[c]) = [f \in 1 .. 4 |-> IF f < n THEN 1 ELSE 0]
<1>. DEFINE t == current[c]
<1>1. t \in Transfers
  BY DEF GateInv, WorkersHoldTransfers, TypeOK
<1>2. receiverLogs[t] \in Nat /\ counted[t]["from"] \in Nat /\ counted[t]["to"] \in Nat
  BY <1>1, CountsAreNumbers DEF GateInv
<1>3. /\ counted[t]["to"] <= counted[t]["from"] /\ counted[t]["from"] <= receiverLogs[t]
      /\ receiverLogs[t] <= 1 /\ (receiverLogs[t] > 0 => t \in senderLogs)
  BY <1>1 DEF GateInv, TrailInOrder
<1>4. /\ step[c] = "receiverLog" => receiverLogs[t] = 0 /\ t \in senderLogs
      /\ step[c] = "senderStats" => receiverLogs[t] = 1 /\ counted[t]["from"] = 0
      /\ step[c] = "receiverStats" => counted[t]["from"] = 1 /\ counted[t]["to"] = 0
  BY DEF GateInv, TrailFollowsStep, OneHandlerThrough, PastGate
<1>5. \A f \in 1 .. 4 : Page(t)[f] = IF f < n THEN 1 ELSE 0
  BY <1>1, <1>2, <1>3, <1>4, PageEntries
<1>6. Page(t) = [f \in 1 .. 4 |-> Page(t)[f]]
  BY <1>1, PageEntries
<1>. QED  BY <1>5, <1>6

\* The effect of a statement is an entry of the book.
LEMMA EffectIsEntry ==
    ASSUME GateInv, NEW c \in Consumers, step[c] # "idle", Effect(c), UNCHANGED log,
           ~(step[c] = "senderLog" /\ current[c] \in senderLogs)
    PROVE  Book!Next
<1>1. PICK t \in Transfers : t = current[c] /\ Successful(t)
  BY DEF GateInv, WorkersHoldTransfers
<1>2. successful' = successful
  BY DEF successful, Successful
<1>3. step[c] \in {"senderLog", "receiverLog", "senderStats", "receiverStats"}
  BY DEF GateInv, TypeOK
<1>4. PICK n \in 1 .. 4 :
        \/ n = 1 /\ step[c] = "senderLog" /\ current[c] \notin senderLogs
        \/ n = 2 /\ step[c] = "receiverLog"
        \/ n = 3 /\ step[c] = "senderStats"
        \/ n = 4 /\ step[c] = "receiverStats"
  BY <1>3
<1>5. Page(t) = [f \in 1 .. 4 |-> IF f < n THEN 1 ELSE 0]
  BY <1>1, <1>4, PageBeforeEntry
<1>6. /\ \A u \in Transfers \ {t} : /\ u \in senderLogs' <=> u \in senderLogs
                                    /\ receiverLogs'[u] = receiverLogs[u]
                                    /\ counted'[u] = counted[u]
      /\ n = 1 => t \in senderLogs' /\ UNCHANGED <<receiverLogs, counted>>
      /\ n = 2 => receiverLogs'[t] = 1 /\ UNCHANGED <<senderLogs, counted>>
      /\ n = 3 => /\ counted'[t]["from"] = 1 /\ counted'[t]["to"] = counted[t]["to"]
                  /\ UNCHANGED <<senderLogs, receiverLogs>>
      /\ n = 4 => /\ counted'[t]["to"] = 1 /\ counted'[t]["from"] = counted[t]["from"]
                  /\ UNCHANGED <<senderLogs, receiverLogs>>
  <2>1. CASE n = 1
    BY <2>1, <1>1, <1>4 DEF Effect
  <2>2. CASE n = 2
    <3>1. receiverLogs[t] = 0
      BY <2>2, <1>1, <1>4 DEF GateInv, TrailFollowsStep
    <3>2. receiverLogs' = [receiverLogs EXCEPT ![t] = @ + 1]
          /\ UNCHANGED <<senderLogs, counted>>
      BY <2>2, <1>1, <1>4 DEF Effect
    <3>. QED  BY <2>2, <3>1, <3>2 DEF GateInv, TypeOK
  <2>3. CASE n = 3
    <3>1. counted[t]["from"] = 0
      BY <2>3, <1>1, <1>4 DEF GateInv, TrailFollowsStep
    <3>2. Count(c, "from") /\ UNCHANGED <<senderLogs, receiverLogs>>
      BY <2>3, <1>4 DEF Effect
    <3>3. /\ counted'[t]["from"] = 1 /\ counted'[t]["to"] = counted[t]["to"]
          /\ \A u \in Transfers \ {t} : counted'[u] = counted[u]
      BY <3>1, <3>2, <1>1, CountAddsOne DEF GateInv, Sides
    <3>. QED  BY <2>3, <3>2, <3>3
  <2>4. CASE n = 4
    <3>1. counted[t]["to"] = 0
      BY <2>4, <1>1, <1>4 DEF GateInv, TrailFollowsStep
    <3>2. Count(c, "to") /\ UNCHANGED <<senderLogs, receiverLogs>>
      BY <2>4, <1>4 DEF Effect
    <3>3. /\ counted'[t]["to"] = 1 /\ counted'[t]["from"] = counted[t]["from"]
          /\ \A u \in Transfers \ {t} : counted'[u] = counted[u]
      BY <3>1, <3>2, <1>1, CountAddsOne DEF GateInv, Sides
    <3>. QED  BY <2>4, <3>2, <3>3
  <2>. QED  BY <2>1, <2>2, <2>3, <2>4
<1>7. \A f \in 1 .. 4 : Page(t)'[f] = IF f = n THEN 1 ELSE Page(t)[f]
  BY <1>6, PageEntries, PageEntriesAfter
<1>8. Page(t)' = [Page(t) EXCEPT ![n] = 1]
  <2>1. Page(t)' = [f \in 1 .. 4 |-> Page(t)'[f]] /\ Page(t) = [f \in 1 .. 4 |-> Page(t)[f]]
    BY PageEntries, PageEntriesAfter
  <2>. QED  BY <1>7, <2>1
<1>9. ASSUME NEW u \in Transfers \ {t} PROVE Page(u)' = Page(u)
  BY <1>6, <1>9 DEF Page
<1>10. book' = [book EXCEPT ![t][n] = 1]
  <2>1. book = [u \in Transfers |-> Page(u)] /\ book' = [u \in Transfers |-> Page(u)']
    BY DEF book
  <2>2. \A u \in Transfers : Page(u)' = IF u = t THEN [Page(t) EXCEPT ![n] = 1] ELSE Page(u)
    BY <1>8, <1>9
  <2>3. [book EXCEPT ![t][n] = 1] = [book EXCEPT ![t] = [Page(t) EXCEPT ![n] = 1]]
    BY <2>1
  <2>. QED  BY <2>1, <2>2, <2>3
<1>11. book[t] = Page(t)
  BY DEF book
<1>12. Book!Enter(t, n)
  BY <1>1, <1>2, <1>5, <1>10, <1>11 DEF Book!Enter, Book!Entries, book, successful
<1>. QED  BY <1>1, <1>12 DEF Book!Next, Book!Entries

\* A message of the topic announces a transfer, or nothing that is news.
LEMMA MessageAnnounces ==
    ASSUME GateInv, NEW m \in Messages, log' = Append(log, m), UNCHANGED trail
    PROVE  [Book!Next]_(Book!vars)
<1>. DEFINE t == m.transaction
<1>1. t \in Transfers /\ m = [transaction |-> t, status |-> m.status]
  BY DEF Messages
<1>2. \A u : Successful(u) => Successful(u)'
  BY AppendKeepsSuccess DEF GateInv, TypeOK
<1>3. \A u : Successful(u)' => Successful(u) \/ (u = t /\ m.status = "SUCCESS")
  <2>1. log \in Seq(Messages)
    BY DEF GateInv, TypeOK
  <2>2. /\ Len(log') = Len(log) + 1 /\ log'[Len(log) + 1] = m
        /\ \A i \in 1 .. Len(log) : log'[i] = log[i]
    BY <2>1
  <2>3. ASSUME NEW u, NEW i \in 1 .. Len(log'),
               log'[i] = [transaction |-> u, status |-> "SUCCESS"]
        PROVE  Successful(u) \/ (u = t /\ m.status = "SUCCESS")
    <3>1. CASE i = Len(log) + 1
      BY <2>2, <2>3, <3>1
    <3>2. CASE i # Len(log) + 1
      BY <2>1, <2>2, <2>3, <3>2 DEF Successful
    <3>. QED  BY <3>1, <3>2
  <2>. QED  BY <2>3 DEF Successful
<1>4. book' = book
  BY DEF book, Page, trail
<1>5. CASE m.status = "SUCCESS"
  <2>1. Successful(t)'
    <3>1. log' \in Seq(Messages) /\ Len(log') = Len(log) + 1
      BY AppendKeepsSuccess DEF GateInv, TypeOK
    <3>2. log'[Len(log) + 1] = m /\ Len(log) + 1 \in 1 .. Len(log')
      BY <3>1 DEF GateInv, TypeOK
    <3>. QED  BY <1>1, <1>5, <3>2 DEF Successful
  <2>2. successful' = successful \union {t}
    BY <1>1, <1>2, <1>3, <2>1 DEF successful
  <2>3. Book!Announce(t)
    BY <1>4, <2>2 DEF Book!Announce, book, successful
  <2>. QED  BY <1>1, <2>3 DEF Book!Next
<1>6. CASE m.status # "SUCCESS"
  <2>1. successful' = successful
    BY <1>2, <1>3, <1>6 DEF successful
  <2>. QED  BY <1>4, <2>1 DEF Book!vars, book, successful
<1>. QED  BY <1>5, <1>6

\* A step of the service is an entry, an announcement, or nothing to the book.
LEMMA BookStep == ASSUME GateInv, [Next]_vars PROVE [Book!Next]_(Book!vars)
<1>1. CASE (\E m \in Messages : Publish(m)) \/ (\E i \in 1 .. Len(log) : PublishAgain(i))
  <2>1. UNCHANGED trail
    BY <1>1 DEF Publish, PublishAgain
  <2>2. PICK m \in Messages : log' = Append(log, m)
    BY <1>1 DEF Publish, PublishAgain, GateInv, TypeOK
  <2>. QED  BY <1>1, <2>1, <2>2, MessageAnnounces
<1>2. CASE UNCHANGED <<trail, log>>
  <2>1. UNCHANGED <<book, successful>>
    BY <1>2 DEF book, successful, Page, Successful, trail
  <2>. QED  BY <2>1 DEF Book!vars, book, successful
<1>3. ASSUME NEW c \in Consumers, HandleWalletEvent(c)
      PROVE  [Book!Next]_(Book!vars)
  <2>1. \/ UNCHANGED <<trail, log>>
        \/ /\ step[c] # "idle" /\ Effect(c) /\ UNCHANGED log
           /\ ~(step[c] = "senderLog" /\ current[c] \in senderLogs)
    <3>1. CASE MongoFails(c) /\ step[c] = "senderLog" /\ current[c] \in senderLogs
      <4>1. senderLogs \union {current[c]} = senderLogs
        BY <3>1
      <4>. QED  BY <3>1, <4>1 DEF MongoFails, Effect, partition, trail
    <3>2. CASE MongoFails(c) /\ ~(step[c] = "senderLog" /\ current[c] \in senderLogs)
      BY <3>2 DEF MongoFails, partition, trail
    <3>3. CASE ~MongoFails(c)
      BY <1>3, <3>3 DEF HandleWalletEvent, Receive, LogSender, DuplicateKey, LogReceiver,
                        CountSender, CountReceiver, Effect, partition, trail
    <3>. QED  BY <3>1, <3>2, <3>3
  <2>2. CASE /\ step[c] # "idle" /\ Effect(c) /\ UNCHANGED log
             /\ ~(step[c] = "senderLog" /\ current[c] \in senderLogs)
    <3>1. Book!Next
      BY <1>3, <2>2, EffectIsEntry
    <3>. QED  BY <3>1
  <2>. QED  BY <1>2, <2>1, <2>2
<1>4. ASSUME NEW c \in Consumers, CommitOffset(c) \/ Crash(c) \/ Rebalance(c)
      PROVE  UNCHANGED <<trail, log>>
  BY <1>4 DEF CommitOffset, Crash, Rebalance, partition
<1>5. CASE Quiescent \/ UNCHANGED vars
  BY <1>2, <1>5 DEF Quiescent, vars, trail
<1>. QED  BY <1>1, <1>2, <1>3, <1>4, <1>5 DEF Next

\* The audit service implements AuditBook: under redelivery, rebalances, crashes and
\* failing writes it makes the entries of a page in their order and each of them once.
THEOREM TrailIsBook == Spec => ImplementsBook
<1>1. GateInv /\ [Next]_vars => [Book!Next]_(Book!vars)
  BY BookStep
<1>. QED  BY <1>1, BookInit, GateInvariant, PTL DEF Spec, ImplementsBook, Book!Spec

-----------------------------------------------------------------------------
(***************************************************************************)
(* What it means that an offset is committed: nobody goes past a message   *)
(* that he has not captured completely, unless Kafka tells him to after a  *)
(* throw.                                                                  *)
(***************************************************************************)
Settled(t) == Audited(t) \/ t \in passedOver

Captured(n) ==
    \A i \in 1 .. n : log[i].status = "SUCCESS" => Settled(log[i].transaction)

\* A consumer at work holds the transfer of the message at its position.
WorkersReadTheLog ==
    \A c \in Consumers : step[c] # "idle" =>
        position[c] >= 1 /\ current[c] = log[position[c]].transaction

HandledIsCaptured == Captured(committed) /\ \A c \in Consumers : Captured(Handled(c))

CommitInv == GateInv /\ WorkersReadTheLog /\ HandledIsCaptured

\* The collections change by the effect of a statement only.
LEMMA TrailStep ==
    ASSUME Next
    PROVE  \/ UNCHANGED trail
           \/ \E c \in Consumers : step[c] # "idle" /\ Effect(c) /\ UNCHANGED log
<1>1. CASE \/ \E m \in Messages : Publish(m)
           \/ \E i \in 1 .. Len(log) : PublishAgain(i)
           \/ Quiescent
  BY <1>1 DEF Publish, PublishAgain, Quiescent, vars, trail
<1>2. ASSUME NEW c \in Consumers, HandleWalletEvent(c)
      PROVE  UNCHANGED trail \/ (step[c] # "idle" /\ Effect(c) /\ UNCHANGED log)
  BY <1>2 DEF HandleWalletEvent, Receive, LogSender, DuplicateKey, LogReceiver, CountSender,
              CountReceiver, MongoFails, Effect, partition, trail
<1>3. ASSUME NEW c \in Consumers, CommitOffset(c) \/ Crash(c) \/ Rebalance(c)
      PROVE  UNCHANGED trail
  BY <1>3 DEF CommitOffset, Crash, Rebalance
<1>. QED  BY <1>1, <1>2, <1>3 DEF Next

\* Only the wallet service writes the topic.
LEMMA LogStep ==
    ASSUME Next, TypeOK
    PROVE  UNCHANGED log \/ \E m \in Messages : log' = Append(log, m)
<1>1. CASE (\E m \in Messages : Publish(m)) \/ (\E i \in 1 .. Len(log) : PublishAgain(i))
  BY <1>1 DEF Publish, PublishAgain, TypeOK
<1>2. ASSUME NEW c \in Consumers, HandleWalletEvent(c) PROVE UNCHANGED log
  BY <1>2 DEF HandleWalletEvent, Receive, LogSender, DuplicateKey, LogReceiver, CountSender,
              CountReceiver, MongoFails, partition
<1>3. ASSUME NEW c \in Consumers, CommitOffset(c) \/ Crash(c) \/ Rebalance(c)
      PROVE  UNCHANGED log
  BY <1>3 DEF CommitOffset, Crash, Rebalance, partition
<1>4. CASE Quiescent
  BY <1>4 DEF Quiescent, vars
<1>. QED  BY <1>1, <1>2, <1>3, <1>4 DEF Next

\* What has been captured remains so: nothing is taken out of the collections.
LEMMA AuditedStays ==
    ASSUME GateInv, Next, NEW t \in Transfers, Audited(t)
    PROVE  Audited(t)'
<1>1. CASE UNCHANGED trail
  BY <1>1 DEF Audited, trail
<1>2. ASSUME NEW c \in Consumers, step[c] # "idle", Effect(c) PROVE Audited(t)'
  <2>1. current[c] \in Transfers
    BY <1>2 DEF GateInv, WorkersHoldTransfers
  <2>2. receiverLogs[t] \in Nat /\ \A s \in Sides : counted[t][s] \in Nat
    BY CountsAreNumbers DEF GateInv, Sides
  <2>3. senderLogs \subseteq senderLogs'
    BY <1>2 DEF Effect
  <2>4. receiverLogs'[t] > 0
    <3>1. \/ UNCHANGED receiverLogs
          \/ receiverLogs' = [receiverLogs EXCEPT ![current[c]] = @ + 1]
      BY <1>2 DEF Effect
    <3>2. receiverLogs \in [Transfers -> Nat] /\ receiverLogs[t] > 0
      BY DEF Audited, GateInv, TypeOK
    <3>. QED  BY <2>1, <2>2, <3>1, <3>2
  <2>5. ASSUME NEW s \in Sides PROVE counted'[t][s] > 0
    <3>1. UNCHANGED counted \/ Count(c, "from") \/ Count(c, "to")
      BY <1>2 DEF Effect
    <3>2. ASSUME NEW r \in Sides, Count(c, r) PROVE counted'[t][s] > 0
      <4>1. /\ counted'[current[c]][r] = counted[current[c]][r] + 1
            /\ \A q \in Sides \ {r} : counted'[current[c]][q] = counted[current[c]][q]
            /\ \A u \in Transfers \ {current[c]} : counted'[u] = counted[u]
        BY <2>1, <3>2, CountAddsOne DEF GateInv
      <4>. QED  BY <4>1, <2>2 DEF Audited
    <3>. QED  BY <3>1, <3>2 DEF Audited, Sides
  <2>. QED  BY <2>3, <2>4, <2>5 DEF Audited
<1>. QED  BY <1>1, <1>2, TrailStep

\* A message stays where it is in the topic.
LEMMA LogGrows ==
    ASSUME GateInv, Next
    PROVE  /\ Len(log) \in Nat /\ Len(log') >= Len(log)
           /\ \A i \in 1 .. Len(log) : log'[i] = log[i] /\ log[i] \in Messages
<1>1. log \in Seq(Messages)
  BY DEF GateInv, TypeOK
<1>2. CASE UNCHANGED log
  BY <1>1, <1>2
<1>3. ASSUME NEW m \in Messages, log' = Append(log, m)
      PROVE  Len(log') >= Len(log) /\ \A i \in 1 .. Len(log) : log'[i] = log[i]
  BY <1>1, <1>3
<1>4. UNCHANGED log \/ \E m \in Messages : log' = Append(log, m)
  BY LogStep DEF GateInv
<1>. QED  BY <1>1, <1>2, <1>3, <1>4

LEMMA PassedOverStays == ASSUME GateInv, Next PROVE passedOver \subseteq passedOver'
<1>1. ASSUME NEW c \in Consumers, Throw(c) PROVE passedOver \subseteq passedOver'
  BY <1>1 DEF Throw
<1>2. ASSUME NEW c \in Consumers, HandleWalletEvent(c)
      PROVE  passedOver \subseteq passedOver'
  BY <1>1, <1>2 DEF HandleWalletEvent, Receive, LogSender, DuplicateKey, LogReceiver,
                    CountSender, CountReceiver, MongoFails
<1>. QED
  BY <1>2 DEF Next, Publish, PublishAgain, CommitOffset, Crash, Rebalance, Quiescent, vars

LEMMA CapturedStays ==
    ASSUME GateInv, Next, NEW n \in 0 .. Len(log), Captured(n)
    PROVE  Captured(n)'
<1>1. ASSUME NEW i \in 1 .. n, (log[i].status = "SUCCESS")'
      PROVE  Settled(log[i].transaction)'
  <2>1. log'[i] = log[i] /\ log[i] \in Messages
    BY LogGrows
  <2>2. log[i].transaction \in Transfers /\ Settled(log[i].transaction)
    BY <1>1, <2>1 DEF Captured, Messages
  <2>3. PICK t \in Transfers : t = log[i].transaction /\ Settled(t)
    BY <2>2
  <2>4. Settled(t)'
    BY <2>3, AuditedStays, PassedOverStays DEF Settled
  <2>. QED  BY <2>1, <2>3, <2>4 DEF Settled, Audited
<1>. QED  BY <1>1 DEF Captured

LEMMA CommitInit == Init => CommitInv
<1>1. ASSUME Init PROVE HandledIsCaptured
  <2>1. committed = 0 /\ \A c \in Consumers : Handled(c) = 0
    BY <1>1 DEF Init, Handled
  <2>2. Captured(0)
    BY DEF Captured
  <2>. QED  BY <2>1, <2>2 DEF HandledIsCaptured
<1>2. Init => WorkersReadTheLog
  BY DEF Init, WorkersReadTheLog
<1>. QED  BY <1>1, <1>2, GateInit DEF CommitInv

\* In a step one consumer moves at most: it takes a message, goes on, or comes to rest.
Still(c) ==
    step'[c] = step[c] /\ current'[c] = current[c] /\ position'[c] = position[c]

LEMMA ConsumerStep ==
    ASSUME GateInv, Next, NEW d \in Consumers
    PROVE  \/ Still(d)
           \/ Receive(d)
           \/ /\ step[d] # "idle" /\ step'[d] # "idle"
              /\ current'[d] = current[d] /\ position'[d] = position[d]
           \/ CountReceiver(d)
           \/ step[d] # "idle" /\ Throw(d)
           \/ step'[d] = "idle" /\ position'[d] = committed
<1>. USE DEF GateInv, TypeOK, Still
<1>1. CASE \/ \E m \in Messages : Publish(m)
           \/ \E i \in 1 .. Len(log) : PublishAgain(i)
           \/ Quiescent
  BY <1>1 DEF Publish, PublishAgain, Quiescent, vars
<1>2. ASSUME NEW c \in Consumers, c # d,
             HandleWalletEvent(c) \/ CommitOffset(c) \/ Crash(c) \/ Rebalance(c)
      PROVE  Still(d)
  <2>1. CASE Receive(c)
    BY <1>2, <2>1, ReceiveTakesMessage DEF Receive
  <2>2. CASE LogSender(c) \/ LogReceiver(c) \/ CountSender(c) \/ CountReceiver(c)
    BY <1>2, <2>2 DEF LogSender, LogReceiver, CountSender, CountReceiver, Goto, Rest
  <2>3. CASE DuplicateKey(c) \/ MongoFails(c)
    BY <1>2, <2>3 DEF DuplicateKey, MongoFails, Throw, Goto, Rest
  <2>4. CASE CommitOffset(c) \/ Crash(c) \/ Rebalance(c)
    BY <1>2, <2>4 DEF CommitOffset, Crash, Rebalance, Goto, Rest
  <2>. QED  BY <1>2, <2>1, <2>2, <2>3, <2>4 DEF HandleWalletEvent
<1>3. CASE LogSender(d) \/ LogReceiver(d) \/ CountSender(d)
  BY <1>3 DEF LogSender, LogReceiver, CountSender, Goto
<1>4. CASE DuplicateKey(d) \/ MongoFails(d)
  BY <1>4 DEF DuplicateKey, MongoFails
<1>5. CASE CommitOffset(d)
  BY <1>5 DEF CommitOffset
<1>6. CASE Crash(d) \/ Rebalance(d)
  BY <1>6 DEF Crash, Rebalance, Goto, Rest
<1>. QED
  BY <1>1, <1>2, <1>3, <1>4, <1>5, <1>6 DEF Next, HandleWalletEvent

LEMMA ReadersAreKept ==
    ASSUME GateInv, WorkersReadTheLog, Next PROVE WorkersReadTheLog'
<1>1. \A i \in 1 .. Len(log) : log'[i] = log[i]
  BY LogGrows
<1>2. ASSUME NEW d \in Consumers, step'[d] # "idle"
      PROVE  position'[d] >= 1 /\ current'[d] = log'[position'[d]].transaction
  <2>1. CASE current'[d] = current[d] /\ position'[d] = position[d] /\ step[d] # "idle"
    <3>1. position[d] \in 0 .. Len(log) /\ Len(log) \in Nat
      BY LogGrows DEF GateInv, TypeOK
    <3>2. position[d] >= 1 /\ current[d] = log[position[d]].transaction
      BY <2>1 DEF WorkersReadTheLog
    <3>3. log'[position[d]] = log[position[d]]
      BY <1>1, <3>1, <3>2
    <3>. QED  BY <2>1, <3>2, <3>3
  <2>2. CASE Receive(d)
    <3>1. /\ position'[d] = position[d] + 1 /\ position[d] \in Nat
          /\ step[d] = "idle" /\ UNCHANGED log
      BY <2>2 DEF Receive, partition, GateInv, TypeOK
    <3>2. CASE log[position[d] + 1].status = "SUCCESS"
      <4>1. current' = [current EXCEPT ![d] = log[position[d] + 1].transaction]
        BY <2>2, <3>2 DEF Receive
      <4>. QED  BY <3>1, <4>1 DEF GateInv, TypeOK
    <3>3. CASE log[position[d] + 1].status # "SUCCESS"
      BY <1>2, <2>2, <3>1, <3>3 DEF Receive
    <3>. QED  BY <3>2, <3>3
  <2>3. ~CountReceiver(d) /\ ~Throw(d)
    BY <1>2 DEF CountReceiver, Throw, Rest, Goto, GateInv, TypeOK
  <2>. QED  BY <1>2, <2>1, <2>2, <2>3, ConsumerStep DEF Still
<1>. QED  BY <1>2 DEF WorkersReadTheLog

\* How far a consumer has come: it goes past a message that is no success, that it has
\* completed, or that Kafka passes over.
LEMMA HandledMoves ==
    ASSUME GateInv, Next, NEW d \in Consumers
    PROVE  \/ Handled(d)' = Handled(d)
           \/ Handled(d)' = committed
           \/ /\ Handled(d)' = Handled(d) + 1 /\ Handled(d) + 1 <= Len(log)
              /\ log[Handled(d) + 1].status # "SUCCESS"
           \/ /\ Handled(d)' = Handled(d) + 1 /\ Handled(d) + 1 = position[d]
              /\ CountReceiver(d) \/ (current[d] \in passedOver' /\ step[d] # "idle")
<1>. USE DEF Handled
<1>1. position[d] \in 0 .. Len(log) /\ Len(log) \in Nat
  BY LogGrows DEF GateInv, TypeOK
<1>2. CASE Still(d)
  BY <1>2 DEF Still
<1>3. CASE Receive(d)
  <2>1. position'[d] = position[d] + 1 /\ position[d] < Len(log) /\ step[d] = "idle"
    BY <1>3 DEF Receive, GateInv, TypeOK
  <2>2. CASE log[position[d] + 1].status = "SUCCESS"
    <3>1. step'[d] = "senderLog"
      BY <1>3, <2>2 DEF Receive, Goto, GateInv, TypeOK
    <3>. QED  BY <1>1, <2>1, <3>1
  <2>3. CASE log[position[d] + 1].status # "SUCCESS"
    <3>1. step'[d] = "idle"
      BY <1>3, <2>1, <2>3 DEF Receive
    <3>. QED  BY <1>1, <2>1, <2>3, <3>1
  <2>. QED  BY <2>2, <2>3
<1>4. CASE /\ step[d] # "idle" /\ step'[d] # "idle"
           /\ current'[d] = current[d] /\ position'[d] = position[d]
  BY <1>4
<1>5. CASE CountReceiver(d)
  <2>1. step[d] # "idle" /\ step'[d] = "idle" /\ position'[d] = position[d]
    BY <1>5 DEF CountReceiver, Rest, Goto, GateInv, TypeOK
  <2>. QED  BY <1>1, <1>5, <2>1
<1>6. CASE step[d] # "idle" /\ Throw(d)
  <2>1. /\ step'[d] = "idle"
        /\ \/ position'[d] = position[d] - 1
           \/ position'[d] = position[d] /\ current[d] \in passedOver'
    BY <1>6 DEF Throw, Rest, Goto, GateInv, TypeOK
  <2>. QED  BY <1>1, <1>6, <2>1
<1>7. CASE step'[d] = "idle" /\ position'[d] = committed
  BY <1>7
<1>. QED  BY <1>2, <1>3, <1>4, <1>5, <1>6, <1>7, ConsumerStep

\* The last statement completes the trail of the transfer.
LEMMA LastEntryCompletes ==
    ASSUME GateInv, NEW c \in Consumers, CountReceiver(c), NEW t \in Transfers,
           t = current[c]
    PROVE  Audited(t)'
<1>1. /\ t \in senderLogs /\ counted[t]["from"] = 1 /\ counted[t]["to"] = 0
      /\ receiverLogs[t] \in Nat /\ counted[t]["from"] <= receiverLogs[t]
  BY CountsAreNumbers
  DEF CountReceiver, GateInv, OneHandlerThrough, PastGate, TrailFollowsStep, TrailInOrder
<1>2. Count(c, "to") /\ UNCHANGED <<senderLogs, receiverLogs>>
  BY DEF CountReceiver
<1>3. counted'[t]["to"] = 1 /\ counted'[t]["from"] = 1
  BY <1>1, <1>2, CountAddsOne DEF GateInv, Sides
<1>. QED  BY <1>1, <1>2, <1>3 DEF Audited, Sides

\* A consumer goes past a message that is settled, or no success.
LEMMA HandledIsKept ==
    ASSUME CommitInv, Next PROVE HandledIsCaptured'
<1>1. Len(log) \in Nat /\ \A i \in 1 .. Len(log) : log'[i] = log[i] /\ log[i] \in Messages
  BY LogGrows DEF CommitInv
<1>2. committed \in 0 .. Len(log) /\ \A d \in Consumers : Handled(d) \in 0 .. Len(log)
  BY <1>1 DEF CommitInv, GateInv, TypeOK, Handled, WorkersHoldTransfers
<1>3. \A n \in 0 .. Len(log) : Captured(n) => Captured(n)'
  BY CapturedStays DEF CommitInv
<1>4. ASSUME NEW n \in Nat, Captured(n)', n + 1 <= Len(log),
             \/ log[n + 1].status # "SUCCESS"
             \/ Settled(log[n + 1].transaction)'
      PROVE  Captured(n + 1)'
  <2>1. log'[n + 1] = log[n + 1]
    BY <1>1, <1>4
  <2>2. \/ (log[n + 1].status # "SUCCESS")'
        \/ Settled(log[n + 1].transaction)'
    BY <1>4, <2>1
  <2>. QED  BY <1>4, <2>2 DEF Captured
<1>5. ASSUME NEW d \in Consumers PROVE Captured(Handled(d))'
  <2>1. PICK n \in 0 .. Len(log) : n = Handled(d)
    BY <1>2
  <2>2. Captured(n)'
    BY <1>3, <2>1 DEF CommitInv, HandledIsCaptured, Captured
  <2>3. CASE Handled(d)' = Handled(d)
    BY <2>1, <2>2, <2>3 DEF Captured
  <2>4. CASE Handled(d)' = committed
    <3>1. PICK m \in 0 .. Len(log) : m = committed
      BY <1>2
    <3>2. Captured(m)'
      BY <1>3, <3>1 DEF CommitInv, HandledIsCaptured, Captured
    <3>. QED  BY <2>4, <3>1, <3>2 DEF Captured
  <2>5. CASE /\ Handled(d)' = Handled(d) + 1 /\ Handled(d) + 1 <= Len(log)
             /\ log[Handled(d) + 1].status # "SUCCESS"
    <3>1. Captured(n + 1)'
      BY <1>4, <2>1, <2>2, <2>5
    <3>. QED  BY <2>1, <2>5, <3>1 DEF Captured
  <2>6. CASE /\ Handled(d)' = Handled(d) + 1 /\ Handled(d) + 1 = position[d]
             /\ CountReceiver(d) \/ (current[d] \in passedOver' /\ step[d] # "idle")
    <3>1. current[d] = log[n + 1].transaction /\ n + 1 <= Len(log)
      BY <1>1, <2>1, <2>6 DEF CommitInv, WorkersReadTheLog, CountReceiver, GateInv, TypeOK
    <3>2. PICK t \in Transfers : t = current[d]
      BY <2>6 DEF CommitInv, GateInv, WorkersHoldTransfers, CountReceiver
    <3>3. Settled(t)'
      BY <2>6, <3>2, LastEntryCompletes DEF CommitInv, Settled
    <3>4. log'[n + 1] = log[n + 1]
      BY <1>1, <3>1
    <3>5. Settled(log[n + 1].transaction)'
      BY <3>1, <3>2, <3>3, <3>4 DEF Settled, Audited
    <3>6. Captured(n + 1)'
      BY <1>4, <2>2, <3>1, <3>5
    <3>. QED  BY <2>1, <2>6, <3>6 DEF Captured
  <2>. QED  BY <2>3, <2>4, <2>5, <2>6, HandledMoves DEF CommitInv
<1>6. committed' = committed \/ \E d \in Consumers : committed' = Handled(d)
  <2>1. CASE \/ \E m \in Messages : Publish(m)
             \/ \E i \in 1 .. Len(log) : PublishAgain(i)
             \/ Quiescent
    BY <2>1 DEF Publish, PublishAgain, Quiescent, vars
  <2>2. ASSUME NEW c \in Consumers, HandleWalletEvent(c) \/ Crash(c) \/ Rebalance(c)
        PROVE  committed' = committed
    BY <2>2 DEF HandleWalletEvent, Receive, LogSender, DuplicateKey, LogReceiver, CountSender,
                CountReceiver, MongoFails, Crash, Rebalance, partition
  <2>3. ASSUME NEW c \in Consumers, CommitOffset(c) PROVE committed' = Handled(c)
    BY <2>3 DEF CommitOffset
  <2>. QED  BY <2>1, <2>2, <2>3 DEF Next
<1>7. Captured(committed)'
  <2>1. PICK m \in 0 .. Len(log) : m = committed' /\ Captured(m)
    BY <1>2, <1>6 DEF CommitInv, HandledIsCaptured
  <2>2. Captured(m)'
    BY <1>3, <2>1
  <2>. QED  BY <2>1, <2>2 DEF Captured
<1>. QED  BY <1>5, <1>7 DEF HandledIsCaptured

\* The inductive invariant behind the commit: a consumer settles what it handles, and
\* commits what it has handled.
THEOREM CommitInvariant == Spec => []CommitInv
<1>1. CommitInv /\ [Next]_vars => CommitInv'
  <2>1. GateInv /\ [Next]_vars => GateInv'
    BY GateIsInductive
  <2>2. CASE CommitInv /\ Next
    BY <2>1, <2>2, ReadersAreKept, HandledIsKept DEF CommitInv
  <2>3. CASE CommitInv /\ UNCHANGED vars
    BY <2>1, <2>3
    DEF CommitInv, WorkersReadTheLog, HandledIsCaptured, Captured, Settled, Handled, Audited,
        vars
  <2>. QED  BY <2>2, <2>3
<1>. QED  BY <1>1, CommitInit, PTL DEF Spec

\* A committed transfer has its whole trail or was passed over by Kafka, for any number
\* of consumers and whatever fails.
THEOREM CommittedHasItsTrail == Spec => []CommittedIsAudited
<1>1. CommitInv => CommittedIsAudited
  BY DEF CommitInv, HandledIsCaptured, Captured, Settled, CommittedIsAudited
<1>. QED  BY <1>1, CommitInvariant, PTL
=============================================================================
