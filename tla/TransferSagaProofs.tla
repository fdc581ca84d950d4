------------------------- MODULE TransferSagaProofs -------------------------
(***************************************************************************)
(* Proofs about TransferSaga for any sets of users, transfers and amounts, *)
(* any funding and any faults.                                             *)
(*                                                                         *)
(* Part 1: IInv, the invariant behind NoOverdraft and LockedReadIsCurrent. *)
(* Part 2: RInv, what the transaction record says, with every fault.       *)
(* Part 3: without a lost answer to the credit's COMMIT, the saga is an    *)
(* escrow: it implements EscrowLedger.                                     *)
(* Part 4: no row lock is left behind, and no held money without a saga.   *)
(***************************************************************************)
EXTENDS TransferSaga, TLAPS

-----------------------------------------------------------------------------
(***************************************************************************)
(* Part 1.                                                                 *)
(***************************************************************************)
IInv == TypeOK /\ NoOverdraft /\ LockedReadIsCurrent /\ SagasAreWellFormed

LEMMA InitInv == Init => IInv
  BY FundingAssumption
  DEF Init, IInv, TypeOK, NoOverdraft, LockedReadIsCurrent, SagasAreWellFormed,
      Stages, Live, Resting

\* The numbers that a saga at work computes with are integers.
LEMMA NumbersOfSaga ==
  ASSUME IInv, NEW t \in Transfers, stage[t] \in Live
  PROVE  /\ req[t].from \in Users
         /\ req[t].to \in Users
         /\ req[t].from # req[t].to
         /\ req[t].amount \in Int
         /\ req[t].amount > 0
         /\ seen[t] \in Int
  BY AmountsAssumption
  DEF IInv, TypeOK, SagasAreWellFormed, Requests, Valid

LEMMA RequestPreserves ==
  ASSUME IInv, NEW t \in Transfers, NEW r \in Requests,
         Request(t, r) \/ RefuseRequest(t, r)
  PROVE  IInv'
  BY DEF IInv, TypeOK, NoOverdraft, LockedReadIsCurrent, SagasAreWellFormed,
         Request, RefuseRequest, Leave, Goto, money, WalletOf, Stages, Live, Resting

LEMMA LeavePreserves ==
  ASSUME IInv, NEW t \in Transfers, stage[t] \in Live,
         NEW next \in {"refused", "awaitingCredit", "checked", "compensating", "lost"},
         Leave(t, next),
         next \in Live => stage[t] # "accepted"
  PROVE  IInv'
  BY DEF IInv, TypeOK, NoOverdraft, LockedReadIsCurrent, SagasAreWellFormed,
         Leave, Goto, money, WalletOf, Stages, Live, Resting

LEMMA RollbackPreserves ==
  ASSUME IInv, NEW t \in Transfers, stage[t] \in Live,
         NEW next \in {"refused", "compensating", "lost"},
         Rollback(t, next),
         next \in Live => stage[t] # "accepted"
  PROVE  IInv'
  BY DEF IInv, TypeOK, NoOverdraft, LockedReadIsCurrent, SagasAreWellFormed,
         Rollback, EndTransaction, Goto, money, WalletOf, Stages, Live, Resting

LEMMA PublishPreserves ==
  ASSUME IInv, NEW t \in Transfers, stage[t] \in Live,
         NEW outcome \in {"SUCCESS", "REFUNDED"},
         Publish(t, outcome)
  PROVE  IInv'
  BY DEF IInv, TypeOK, NoOverdraft, LockedReadIsCurrent, SagasAreWellFormed,
         Publish, Goto, money, WalletOf, Stages, Live, Resting

\* A handler that gets the lock has the current balance; those that hold other
\* locks keep theirs.
LEMMA ReadPreserves ==
  ASSUME IInv, NEW t \in Transfers, stage[t] \in Live,
         NEW next \in {"deducting", "crediting", "refunding"}, NEW u \in Users,
         u = IF next = "crediting" THEN req[t].to ELSE req[t].from,
         ReadForUpdate(t, u, next),
         next # "deducting" => stage[t] # "accepted"
  PROVE  IInv'
  <1> USE DEF IInv, ReadForUpdate, Goto, money
  <1>1. TypeOK' /\ NoOverdraft'
    BY DEF TypeOK, NoOverdraft, Stages
  <1>2. LockedReadIsCurrent'
    <2> SUFFICES ASSUME NEW s \in Transfers,
                        stage'[s] \in {"deducting", "crediting", "refunding"}
                 PROVE  lock'[WalletOf(s)'] = s /\ seen'[s] = balance'[WalletOf(s)']
      BY DEF LockedReadIsCurrent
    <2>1. CASE s = t
      BY <2>1 DEF TypeOK, WalletOf
    <2>2. CASE s # t
      BY <2>2, NoTransferAssumption DEF TypeOK, LockedReadIsCurrent, WalletOf
    <2> QED
      BY <2>1, <2>2
  <1>3. SagasAreWellFormed'
    <2> SUFFICES ASSUME NEW s \in Transfers
                 PROVE  /\ stage'[s] \in Live => req[s] \in Requests /\ Valid(req[s])
                        /\ stage'[s] \in Live \ {"accepted"} => req[s].from \in wallets
                        /\ stage'[s] = "crediting" => req[s].to \in wallets
      BY DEF SagasAreWellFormed
    <2>1. CASE s = t
      BY <2>1 DEF TypeOK, SagasAreWellFormed, Stages, Live, Resting
    <2>2. CASE s # t
      BY <2>2 DEF TypeOK, SagasAreWellFormed, Stages, Live, Resting
    <2> QED
      BY <2>1, <2>2
  <1> QED
    BY <1>1, <1>2, <1>3

\* A COMMIT writes a balance computed from the current one and gives back the
\* lock that kept it current.
LEMMA WritePreserves ==
  ASSUME IInv, NEW t \in Transfers, NEW next \in {"deducted", "credited", "refunded"},
         stage[t] \in {"deducting", "crediting", "refunding"},
         NEW b \in Nat, balance' = [balance EXCEPT ![WalletOf(t)] = b],
         status' \in [Transfers -> {"none", "PENDING", "SUCCESS", "FAILED"}],
         outbox' \subseteq Transfers,
         EndTransaction(t), Goto(t, next), UNCHANGED <<wallets, req, walletEvents>>
  PROVE  IInv'
  <1> USE DEF IInv, EndTransaction, Goto
  <1>1. TypeOK'
    <2>1. balance' \in [Users -> Int]
      BY b \in Int DEF TypeOK
    <2>2. stage' \in [Transfers -> Stages]
      BY next \in Stages DEF TypeOK, Stages
    <2>3. lock' \in [Users -> Transfers \union {NoTransfer}]
      BY DEF TypeOK
    <2>4. seen' \in [Transfers -> Int]
      BY DEF TypeOK
    <2>5. wallets' = wallets /\ req' = req /\ walletEvents' = walletEvents
      OBVIOUS
    <2> QED
      BY <2>1, <2>2, <2>3, <2>4, <2>5 DEF TypeOK
  <1>2. NoOverdraft'
    BY DEF TypeOK, NoOverdraft
  <1>3. LockedReadIsCurrent'
    <2> SUFFICES ASSUME NEW s \in Transfers,
                        stage'[s] \in {"deducting", "crediting", "refunding"}
                 PROVE  lock'[WalletOf(s)'] = s /\ seen'[s] = balance'[WalletOf(s)']
      BY DEF LockedReadIsCurrent
    <2>1. s # t /\ stage'[s] = stage[s] /\ WalletOf(s)' = WalletOf(s)
      BY DEF TypeOK, WalletOf
    <2>2. lock[WalletOf(s)] = s /\ seen[s] = balance[WalletOf(s)]
      BY <2>1 DEF LockedReadIsCurrent
    <2>3. WalletOf(s) \in Users /\ WalletOf(s) # WalletOf(t)
      BY <2>1, <2>2, NumbersOfSaga DEF LockedReadIsCurrent, WalletOf, Live, Stages, Resting
    <2> QED
      BY <2>1, <2>2, <2>3, NoTransferAssumption DEF TypeOK
  <1>4. SagasAreWellFormed'
    BY DEF TypeOK, SagasAreWellFormed, Stages, Live, Resting
  <1> QED
    BY <1>1, <1>2, <1>3, <1>4

LEMMA TransferMoneyPreserves ==
  ASSUME IInv, NEW t \in Transfers, TransferMoney(t)
  PROVE  IInv'
  <1> USE DEF Live, Resting, Stages
  <1>1. CASE TransferNoWallet(t) \/ TransferPublish(t) \/ TransferAckLost(t)
    BY <1>1, LeavePreserves DEF TransferNoWallet, TransferPublish, TransferAckLost
  <1>2. CASE TransferInsufficient(t) \/ TransferDbFails(t)
    BY <1>2, RollbackPreserves DEF TransferInsufficient, TransferDbFails
  <1>3. CASE TransferRead(t)
    BY <1>3, ReadPreserves, NumbersOfSaga DEF TransferRead
  <1>4. CASE TransferCommit(t)
    <2>1. seen[t] - req[t].amount \in Nat
      BY <1>4, NumbersOfSaga DEF TransferCommit, Affordable
    <2> QED
      BY <1>4, <2>1, WritePreserves DEF TransferCommit, WalletOf, IInv, TypeOK
  <1> QED
    BY <1>1, <1>2, <1>3, <1>4 DEF TransferMoney
  
LEMMA CreditRecipientPreserves ==
  ASSUME IInv, NEW t \in Transfers, CreditRecipient(t)
  PROVE  IInv'
  <1> USE DEF Live, Resting, Stages
  <1>1. CASE RecipientActive(t) \/ RecipientRejected(t) \/ CreditNoWallet(t) \/ CreditAckLost(t)
    BY <1>1, LeavePreserves
    DEF RecipientActive, RecipientRejected, CreditNoWallet, CreditAckLost
  <1>2. CASE CreditDbFails(t)
    BY <1>2, RollbackPreserves DEF CreditDbFails
  <1>3. CASE CreditRead(t)
    BY <1>3, ReadPreserves, NumbersOfSaga DEF CreditRead
  <1>4. CASE CreditCommit(t)
    <2>1. seen[t] >= 0 /\ seen[t] + req[t].amount \in Nat
      BY <1>4, NumbersOfSaga
      DEF CreditCommit, IInv, NoOverdraft, LockedReadIsCurrent, WalletOf
    <2> QED
      BY <1>4, <2>1, WritePreserves DEF CreditCommit, WalletOf, IInv, TypeOK
  <1>5. CASE CreditPublish(t)
    BY <1>5, PublishPreserves DEF CreditPublish
  <1> QED
    BY <1>1, <1>2, <1>3, <1>4, <1>5 DEF CreditRecipient

LEMMA RefundSenderPreserves ==
  ASSUME IInv, NEW t \in Transfers, RefundSender(t)
  PROVE  IInv'
  <1> USE DEF Live, Resting, Stages
  <1>1. CASE RefundAckLost(t)
    BY <1>1, LeavePreserves DEF RefundAckLost
  <1>2. CASE RefundDbFails(t)
    BY <1>2, RollbackPreserves DEF RefundDbFails
  <1>3. CASE RefundRead(t)
    <2>1. req[t].from \in wallets
      BY <1>3 DEF RefundRead, IInv, SagasAreWellFormed
    <2> QED
      BY <1>3, <2>1, ReadPreserves, NumbersOfSaga DEF RefundRead
  <1>4. CASE RefundCommit(t)
    <2>1. lock[req[t].from] = t
      BY <1>4 DEF RefundCommit, IInv, LockedReadIsCurrent, WalletOf
    <2>2. seen[t] >= 0 /\ seen[t] + req[t].amount \in Nat
      BY <1>4, NumbersOfSaga
      DEF RefundCommit, IInv, NoOverdraft, LockedReadIsCurrent, WalletOf
    <2> QED
      BY <1>4, <2>1, <2>2, WritePreserves DEF RefundCommit, WalletOf, IInv, TypeOK
  <1>5. CASE RefundPublish(t)
    BY <1>5, PublishPreserves DEF RefundPublish
  <1> QED
    BY <1>1, <1>2, <1>3, <1>4, <1>5 DEF RefundSender

LEMMA EnvironmentPreserves ==
  ASSUME IInv, (\E u \in Users : CreateWallet(u)) \/ Crash \/ UNCHANGED vars
  PROVE  IInv'
  BY DEF IInv, TypeOK, NoOverdraft, LockedReadIsCurrent, SagasAreWellFormed,
         CreateWallet, Crash, vars, money, WalletOf, Stages, Live, Resting

LEMMA NextInv == IInv /\ [Next]_vars => IInv'
  BY RequestPreserves, TransferMoneyPreserves, CreditRecipientPreserves,
     RefundSenderPreserves, EnvironmentPreserves
  DEF Next, Saga, Quiescent

\* The row lock, the balance read under it and the terms of the transfer agree in
\* every reachable state, whatever fails.
THEOREM InductiveInvariant == Spec => []IInv
  BY InitInv, NextInv, PTL DEF Spec

\* Every variable keeps its type: amounts and balances stay integers.
THEOREM TypeCorrect == Spec => []TypeOK
  BY InductiveInvariant, PTL DEF IInv

\* No wallet is overdrawn by overlapping transfers, whatever fails.
THEOREM NeverOverdrawn == Spec => []NoOverdraft
  BY InductiveInvariant, PTL DEF IInv

\* The pessimistic lock of the three handlers rules out lost updates: a balance
\* that is written was computed from the one it replaces, whatever fails.
THEOREM NoLostUpdate == Spec => []LockedReadIsCurrent
  BY InductiveInvariant, PTL DEF IInv

-----------------------------------------------------------------------------
(***************************************************************************)
(* Part 2.                                                                 *)
(***************************************************************************)
RInv == IInv /\ StatusFollowsStage /\ OutboxFollowsStatus

LEMMA InitRecord == Init => StatusFollowsStage /\ OutboxFollowsStatus
  BY DEF Init, StatusFollowsStage, OutboxFollowsStatus

LEMMA TransferMoneyRecord ==
  ASSUME RInv, NEW t \in Transfers, TransferMoney(t)
  PROVE  StatusFollowsStage' /\ OutboxFollowsStatus'
  <1> USE DEF RInv, IInv, TypeOK, StatusFollowsStage, OutboxFollowsStatus, Goto, money
  <1>1. CASE TransferNoWallet(t) \/ TransferPublish(t) \/ TransferAckLost(t)
    BY <1>1 DEF TransferNoWallet, TransferPublish, TransferAckLost, Leave
  <1>2. CASE TransferInsufficient(t) \/ TransferDbFails(t)
    BY <1>2 DEF TransferInsufficient, TransferDbFails, Rollback
  <1>3. CASE TransferRead(t)
    BY <1>3 DEF TransferRead, ReadForUpdate
  <1>4. CASE TransferCommit(t)
    BY <1>4 DEF TransferCommit
  <1> QED
    BY <1>1, <1>2, <1>3, <1>4 DEF TransferMoney

LEMMA CreditRecipientRecord ==
  ASSUME RInv, NEW t \in Transfers, CreditRecipient(t)
  PROVE  StatusFollowsStage' /\ OutboxFollowsStatus'
  <1> USE DEF RInv, IInv, TypeOK, StatusFollowsStage, OutboxFollowsStatus, Goto, money
  <1>1. CASE RecipientActive(t) \/ RecipientRejected(t) \/ CreditNoWallet(t) \/ CreditAckLost(t)
    BY <1>1 DEF RecipientActive, RecipientRejected, CreditNoWallet, CreditAckLost, Leave
  <1>2. CASE CreditDbFails(t)
    BY <1>2 DEF CreditDbFails, Rollback
  <1>3. CASE CreditRead(t)
    BY <1>3 DEF CreditRead, ReadForUpdate
  <1>4. CASE CreditCommit(t)
    BY <1>4 DEF CreditCommit
  <1>5. CASE CreditPublish(t)
    BY <1>5 DEF CreditPublish, Publish
  <1> QED
    BY <1>1, <1>2, <1>3, <1>4, <1>5 DEF CreditRecipient

\* A refund after a credit whose answer was lost: the record exists already.
LEMMA RefundSenderRecord ==
  ASSUME RInv, NEW t \in Transfers, RefundSender(t)
  PROVE  StatusFollowsStage' /\ OutboxFollowsStatus'
  <1> USE DEF RInv, IInv, TypeOK, StatusFollowsStage, OutboxFollowsStatus, Goto, money
  <1>1. CASE RefundAckLost(t)
    BY <1>1 DEF RefundAckLost, Leave
  <1>2. CASE RefundDbFails(t)
    BY <1>2 DEF RefundDbFails, Rollback
  <1>3. CASE RefundRead(t)
    BY <1>3 DEF RefundRead, ReadForUpdate, Leave
  <1>4. CASE RefundCommit(t)
    BY <1>4 DEF RefundCommit
  <1>5. CASE RefundPublish(t)
    BY <1>5 DEF RefundPublish, Publish
  <1> QED
    BY <1>1, <1>2, <1>3, <1>4, <1>5 DEF RefundSender

LEMMA OtherRecord ==
  ASSUME RInv,
         \/ \E t \in Transfers, r \in Requests : Request(t, r) \/ RefuseRequest(t, r)
         \/ \E u \in Users : CreateWallet(u)
         \/ Crash
         \/ UNCHANGED vars
  PROVE  StatusFollowsStage' /\ OutboxFollowsStatus'
  BY DEF RInv, IInv, TypeOK, StatusFollowsStage, OutboxFollowsStatus, Goto, money,
         Request, RefuseRequest, Leave, CreateWallet, Crash, vars

LEMMA NextRecord == RInv /\ [Next]_vars => RInv'
  BY NextInv, TransferMoneyRecord, CreditRecipientRecord, RefundSenderRecord, OtherRecord
  DEF Next, Saga, Quiescent, RInv

\* The transaction record and the outbox follow the handlers of the saga.
THEOREM RecordInvariant == Spec => []RInv
  BY InitInv, InitRecord, NextRecord, PTL DEF Spec, RInv

\* A client that got an error has not been debited, unless the answer to a
\* COMMIT can be lost.
THEOREM RefusedUntouched ==
  ASSUME "transferAck" \notin Faults
  PROVE  Spec => []RefusedIsUntouched
  <1>1. RInv => RefusedIsUntouched
    BY DEF RInv, StatusFollowsStage, OutboxFollowsStatus, RefusedIsUntouched
  <1> QED
    BY <1>1, RecordInvariant, PTL

\* The only steps that change the status of t.
LEMMA StatusSteps ==
  ASSUME RInv, [Next]_vars, "creditAck" \notin Faults,
         NEW t \in Transfers, status'[t] # status[t]
  PROVE  \/ status[t] = "none" /\ status'[t] = "PENDING"
         \/ status[t] = "PENDING" /\ status'[t] \in {"SUCCESS", "FAILED"}
  <1> USE DEF RInv, IInv, TypeOK, StatusFollowsStage, money
  <1>1. CASE \E s \in Transfers : TransferMoney(s)
    BY <1>1
    DEF TransferMoney, TransferNoWallet, TransferRead, TransferInsufficient, TransferCommit,
        TransferPublish, TransferAckLost, TransferDbFails, Leave, ReadForUpdate, Rollback
  <1>2. CASE \E s \in Transfers : CreditRecipient(s)
    BY <1>2
    DEF CreditRecipient, RecipientActive, RecipientRejected, CreditNoWallet, CreditRead,
        CreditCommit, CreditPublish, CreditAckLost, CreditDbFails, Leave, ReadForUpdate,
        Rollback, Publish
  <1>3. CASE \E s \in Transfers : RefundSender(s)
    BY <1>3
    DEF RefundSender, RefundRead, RefundCommit, RefundPublish, RefundAckLost, RefundDbFails,
        Leave, ReadForUpdate, Rollback, Publish
  <1> QED
    BY <1>1, <1>2, <1>3
    DEF Next, Saga, Request, RefuseRequest, Leave, CreateWallet, Crash, Quiescent, vars

\* What is paid stays paid, what is refunded stays refunded.
THEOREM SettledStays ==
  ASSUME "creditAck" \notin Faults
  PROVE  Spec => SettledIsFinal
  <1>1. RInv /\ [Next]_vars =>
          [\A t \in Transfers :
             status[t] \in {"SUCCESS", "FAILED"} => status'[t] = status[t]]_vars
    BY StatusSteps
  <1> QED
    BY <1>1, RecordInvariant, PTL DEF Spec, SettledIsFinal

LEMMA EventsNext ==
  ASSUME RInv, [Next]_vars, "creditAck" \notin Faults, EventsTellTheTruth
  PROVE  EventsTellTheTruth'
  <1> USE DEF RInv, IInv, TypeOK
  <1>1. ASSUME NEW e \in walletEvents
        PROVE  status'[e.transaction] =
                 IF e.status = "SUCCESS" THEN "SUCCESS" ELSE "FAILED"
    BY <1>1, StatusSteps DEF EventsTellTheTruth
  <1>2. CASE \E t \in Transfers : CreditPublish(t)
    BY <1>1, <1>2 DEF EventsTellTheTruth, CreditPublish, Publish, StatusFollowsStage, money
  <1>3. CASE \E t \in Transfers : RefundPublish(t)
    BY <1>1, <1>3 DEF EventsTellTheTruth, RefundPublish, Publish, StatusFollowsStage, money
  <1>4. CASE UNCHANGED walletEvents
    BY <1>1, <1>4 DEF EventsTellTheTruth
  <1>5. \/ UNCHANGED walletEvents
        \/ \E t \in Transfers : CreditPublish(t) \/ RefundPublish(t)
    BY DEF Next, Saga, TransferMoney, CreditRecipient, RefundSender, TransferNoWallet,
           TransferRead, TransferInsufficient, TransferCommit, TransferPublish,
           TransferAckLost, TransferDbFails, RecipientActive, RecipientRejected,
           CreditNoWallet, CreditRead, CreditCommit, CreditAckLost, CreditDbFails,
           RefundRead, RefundCommit, RefundAckLost, RefundDbFails, Request, RefuseRequest,
           Leave, ReadForUpdate, Rollback, CreateWallet, Crash, Quiescent, vars
  <1> QED
    BY <1>2, <1>3, <1>4, <1>5

\* The events tell the other services what the database says.
THEOREM EventsTrue ==
  ASSUME "creditAck" \notin Faults
  PROVE  Spec => []EventsTellTheTruth
  <1>1. Init => EventsTellTheTruth
    BY DEF Init, EventsTellTheTruth
  <1>2. EventsTellTheTruth /\ RInv /\ [Next]_vars => EventsTellTheTruth'
    BY EventsNext
  <1> QED
    BY <1>1, <1>2, RecordInvariant, PTL DEF Spec

-----------------------------------------------------------------------------
(***************************************************************************)
(* Part 3.  COMMIT of the deduction is Hold, COMMIT of the credit is Pay,  *)
(* COMMIT of the refund is Return; every other step of the saga is a       *)
(* stutter of the ledger.                                                  *)
(***************************************************************************)
LEMMA LedgerInit == Init => Ledger!Init
  BY DEF Init, Ledger!Init, PhaseOfStatus

\* The ledger sees neither stages nor locks, and not the terms of a transfer
\* that has no record yet.
LEMMA LedgerStutters ==
  ASSUME RInv, UNCHANGED money,
         \A t \in Transfers : status[t] # "none" => req'[t] = req[t]
  PROVE  UNCHANGED Ledger!vars
  BY DEF money, Ledger!vars, RInv, IInv, TypeOK

\* A new status of one transfer is a new phase of its escrow, and of no other.
LEMMA PhaseUpdate ==
  ASSUME TypeOK, NEW t \in Transfers,
         NEW s \in {"PENDING", "SUCCESS", "FAILED"}, status' = [status EXCEPT ![t] = s]
  PROVE  [x \in Transfers |-> PhaseOfStatus[status'[x]]] =
           [[x \in Transfers |-> PhaseOfStatus[status[x]]] EXCEPT ![t] = PhaseOfStatus[s]]
  BY DEF TypeOK

\* The terms of a transfer are those of its request from the first status on.
LEMMA DealUpdate ==
  ASSUME TypeOK, NEW t \in Transfers, UNCHANGED req,
         NEW s \in {"PENDING", "SUCCESS", "FAILED"}, status' = [status EXCEPT ![t] = s]
  PROVE  [x \in Transfers |-> IF status'[x] = "none" THEN NoRequest ELSE req'[x]] =
           [[x \in Transfers |-> IF status[x] = "none" THEN NoRequest ELSE req[x]]
              EXCEPT ![t] = req[t]]
  BY DEF TypeOK

LEMMA CommitIsHold ==
  ASSUME RInv, NEW t \in Transfers, TransferCommit(t)
  PROVE  Ledger!Next
  <1>1. status[t] = "none" /\ req[t] \in Requests /\ Valid(req[t]) /\ req[t].from \in wallets
    BY DEF TransferCommit, RInv, IInv, SagasAreWellFormed, StatusFollowsStage,
           Live, Resting, Stages
  <1>2. seen[t] = balance[req[t].from] /\ seen[t] >= req[t].amount
    BY DEF TransferCommit, RInv, IInv, LockedReadIsCurrent, WalletOf, Affordable
  <1>3. PhaseOfStatus[status[t]] = "none" /\ PhaseOfStatus["PENDING"] = "held"
    BY <1>1 DEF PhaseOfStatus
  <1>4. balance' = [balance EXCEPT ![req[t].from] = @ - req[t].amount]
    BY <1>2 DEF TransferCommit
  <1>5. PICK d \in Requests : d = req[t]
    BY <1>1
  <1>6. Ledger!Hold(t, d)
    BY <1>1, <1>2, <1>3, <1>4, <1>5, PhaseUpdate, DealUpdate
    DEF TransferCommit, Ledger!Hold, Valid, RInv, IInv
  <1> QED
    BY <1>6 DEF Ledger!Next

LEMMA CommitIsPay ==
  ASSUME RInv, NEW t \in Transfers, CreditCommit(t)
  PROVE  Ledger!Next
  <1>1. status[t] = "PENDING" /\ req[t].to \in wallets
    BY DEF CreditCommit, RInv, IInv, SagasAreWellFormed, StatusFollowsStage
  <1>2. seen[t] = balance[req[t].to]
    BY DEF CreditCommit, RInv, IInv, LockedReadIsCurrent, WalletOf
  <1>3. PhaseOfStatus[status[t]] = "held" /\ PhaseOfStatus["SUCCESS"] = "paid"
    BY <1>1 DEF PhaseOfStatus
  <1>4. balance' = [balance EXCEPT ![req[t].to] = @ + req[t].amount]
    BY <1>2 DEF CreditCommit
  <1>5. UNCHANGED [x \in Transfers |-> IF status[x] = "none" THEN NoRequest ELSE req[x]]
    BY <1>1 DEF CreditCommit, RInv, IInv, TypeOK
  <1>6. Ledger!Pay(t)
    BY <1>1, <1>3, <1>4, <1>5, PhaseUpdate DEF CreditCommit, Ledger!Pay, RInv, IInv
  <1> QED
    BY <1>6 DEF Ledger!Next

LEMMA CommitIsReturn ==
  ASSUME RInv, "creditAck" \notin Faults, NEW t \in Transfers, RefundCommit(t)
  PROVE  Ledger!Next
  <1>1. status[t] = "PENDING" /\ req[t].from \in wallets
    BY DEF RefundCommit, RInv, IInv, SagasAreWellFormed, StatusFollowsStage,
           Live, Resting, Stages
  <1>2. lock[req[t].from] = t /\ seen[t] = balance[req[t].from]
    BY DEF RefundCommit, RInv, IInv, LockedReadIsCurrent, WalletOf
  <1>3. PhaseOfStatus[status[t]] = "held" /\ PhaseOfStatus["FAILED"] = "returned"
    BY <1>1 DEF PhaseOfStatus
  <1>4. balance' = [balance EXCEPT ![req[t].from] = @ + req[t].amount]
    BY <1>2 DEF RefundCommit
  <1>5. UNCHANGED [x \in Transfers |-> IF status[x] = "none" THEN NoRequest ELSE req[x]]
    BY <1>1 DEF RefundCommit, RInv, IInv, TypeOK
  <1>6. Ledger!Return(t)
    BY <1>1, <1>3, <1>4, <1>5, PhaseUpdate DEF RefundCommit, Ledger!Return, RInv, IInv
  <1> QED
    BY <1>6 DEF Ledger!Next

\* The steps that change a wallet or a record, or the terms of a transfer.
LEMMA MoneySteps ==
  ASSUME [Next]_vars
  PROVE  \/ \E t \in Transfers : TransferCommit(t) \/ CreditCommit(t) \/ RefundCommit(t)
         \/ \E t \in Transfers, r \in Requests : Request(t, r)
         \/ \E u \in Users : CreateWallet(u)
         \/ UNCHANGED money /\ UNCHANGED req
  BY DEF Next, Saga, TransferMoney, CreditRecipient, RefundSender, TransferNoWallet,
         TransferRead, TransferInsufficient, TransferPublish, TransferAckLost,
         TransferDbFails, RecipientActive, RecipientRejected, CreditNoWallet, CreditRead,
         CreditPublish, CreditAckLost, CreditDbFails, RefundRead, RefundPublish,
         RefundAckLost, RefundDbFails, RefuseRequest, Leave, ReadForUpdate, Rollback,
         Publish, Crash, Quiescent, vars, money

LEMMA LedgerStep ==
  ASSUME RInv, [Next]_vars, "creditAck" \notin Faults
  PROVE  [Ledger!Next]_(Ledger!vars)
  <1> USE DEF RInv, IInv, TypeOK
  <1>1. CASE \E t \in Transfers : TransferCommit(t) \/ CreditCommit(t) \/ RefundCommit(t)
    BY <1>1, CommitIsHold, CommitIsPay, CommitIsReturn
  <1>2. CASE \E t \in Transfers, r \in Requests : Request(t, r)
    BY <1>2, LedgerStutters DEF Request, StatusFollowsStage
  <1>3. CASE \E u \in Users : CreateWallet(u)
    BY <1>3 DEF CreateWallet, Ledger!OpenWallet, Ledger!Next
  <1>4. CASE UNCHANGED money /\ UNCHANGED req
    BY <1>4, LedgerStutters
  <1> QED
    BY <1>1, <1>2, <1>3, <1>4, MoneySteps

\* The saga implements the escrow of EscrowLedger: every cent a transfer takes
\* is held, and then paid or returned at most once.
THEOREM SagaIsEscrow ==
  ASSUME "creditAck" \notin Faults
  PROVE  Spec => ImplementsLedger
  <1>1. RInv /\ [Next]_vars => [Ledger!Next]_(Ledger!vars)
    BY LedgerStep
  <1> QED
    BY <1>1, LedgerInit, RecordInvariant, PTL DEF Spec, ImplementsLedger, Ledger!Spec

-----------------------------------------------------------------------------
(***************************************************************************)
(* Part 4.  What a behaviour may never strand: a row lock without handler, *)
(* money without a saga.                                                   *)
(***************************************************************************)

AtWork == {"deducting", "crediting", "refunding"}

\* A handler without a lock goes on to where it needs none.
LEMMA NoLockNeeded ==
  ASSUME TypeOK, LocksHaveHolders, NEW t \in Transfers, NEW next,
         stage[t] \notin AtWork, Goto(t, next), UNCHANGED <<lock, req>>
  PROVE  LocksHaveHolders'
  BY DEF TypeOK, LocksHaveHolders, Goto, WalletOf, AtWork

\* A handler that takes a lock has none, and the row is nobody's.
LEMMA LockTaken ==
  ASSUME TypeOK, LocksHaveHolders, NEW t \in Transfers, NEW u \in Users, NEW next \in AtWork,
         stage[t] \notin AtWork, ReadForUpdate(t, u, next),
         u = IF next = "crediting" THEN req[t].to ELSE req[t].from
  PROVE  LocksHaveHolders'
  BY DEF TypeOK, LocksHaveHolders, ReadForUpdate, Goto, WalletOf, AtWork

\* The end of a transaction gives back whatever it holds.
LEMMA LockReleased ==
  ASSUME TypeOK, LocksHaveHolders, NEW t \in Transfers, NEW next,
         EndTransaction(t), Goto(t, next), UNCHANGED req
  PROVE  LocksHaveHolders'
  BY NoTransferAssumption
  DEF TypeOK, LocksHaveHolders, EndTransaction, Goto, WalletOf

LEMMA TransferMoneyLocks ==
  ASSUME IInv, LocksHaveHolders, NEW t \in Transfers, TransferMoney(t)
  PROVE  LocksHaveHolders'
  <1> USE DEF IInv, AtWork
  <1>1. CASE TransferNoWallet(t) \/ TransferPublish(t) \/ TransferAckLost(t)
    BY <1>1, NoLockNeeded DEF TransferNoWallet, TransferPublish, TransferAckLost, Leave
  <1>2. CASE TransferInsufficient(t) \/ TransferDbFails(t)
    BY <1>2, LockReleased DEF TransferInsufficient, TransferDbFails, Rollback
  <1>3. CASE TransferRead(t)
    <2>1. req[t].from \in Users
      BY <1>3 DEF TransferRead, ReadForUpdate, TypeOK
    <2> QED
      BY <1>3, <2>1, LockTaken DEF TransferRead
  <1>4. CASE TransferCommit(t)
    BY <1>4, LockReleased DEF TransferCommit
  <1> QED
    BY <1>1, <1>2, <1>3, <1>4 DEF TransferMoney

LEMMA CreditRecipientLocks ==
  ASSUME IInv, LocksHaveHolders, NEW t \in Transfers, CreditRecipient(t)
  PROVE  LocksHaveHolders'
  <1> USE DEF IInv, AtWork
  <1>1. CASE RecipientActive(t) \/ RecipientRejected(t) \/ CreditNoWallet(t) \/ CreditAckLost(t)
    BY <1>1, NoLockNeeded
    DEF RecipientActive, RecipientRejected, CreditNoWallet, CreditAckLost, Leave
  <1>2. CASE CreditDbFails(t)
    BY <1>2, LockReleased DEF CreditDbFails, Rollback
  <1>3. CASE CreditRead(t)
    <2>1. req[t].to \in Users
      BY <1>3 DEF CreditRead, ReadForUpdate, TypeOK
    <2> QED
      BY <1>3, <2>1, LockTaken DEF CreditRead
  <1>4. CASE CreditCommit(t)
    BY <1>4, LockReleased DEF CreditCommit
  <1>5. CASE CreditPublish(t)
    BY <1>5, NoLockNeeded DEF CreditPublish, Publish
  <1> QED
    BY <1>1, <1>2, <1>3, <1>4, <1>5 DEF CreditRecipient

\* The sender has a wallet when the refund begins, so that it always locks a row.
LEMMA RefundSenderLocks ==
  ASSUME IInv, LocksHaveHolders, NEW t \in Transfers, RefundSender(t)
  PROVE  LocksHaveHolders'
  <1> USE DEF IInv, AtWork
  <1>1. CASE RefundAckLost(t)
    BY <1>1, NoLockNeeded DEF RefundAckLost, Leave
  <1>2. CASE RefundDbFails(t)
    BY <1>2, LockReleased DEF RefundDbFails, Rollback
  <1>3. CASE RefundRead(t)
    <2>1. req[t].from \in wallets /\ req[t].from \in Users
      BY <1>3 DEF RefundRead, SagasAreWellFormed, Live, Stages, Resting, TypeOK
    <2> QED
      BY <1>3, <2>1, LockTaken DEF RefundRead
  <1>4. CASE RefundCommit(t)
    BY <1>4, LockReleased DEF RefundCommit
  <1>5. CASE RefundPublish(t)
    BY <1>5, NoLockNeeded DEF RefundPublish, Publish
  <1> QED
    BY <1>1, <1>2, <1>3, <1>4, <1>5 DEF RefundSender

LEMMA OtherLocks ==
  ASSUME IInv, LocksHaveHolders,
         \/ \E t \in Transfers, r \in Requests : Request(t, r) \/ RefuseRequest(t, r)
         \/ \E u \in Users : CreateWallet(u)
         \/ Crash
         \/ UNCHANGED vars
  PROVE  LocksHaveHolders'
  BY DEF IInv, TypeOK, LocksHaveHolders, WalletOf, Goto, Request, RefuseRequest, Leave,
         CreateWallet, Crash, vars

\* Whatever fails, a locked row is locked by a handler that is at work on it.
THEOREM LocksAreHeld == Spec => []LocksHaveHolders
  <1>1. Init => LocksHaveHolders
    BY DEF Init, LocksHaveHolders
  <1>2. LocksHaveHolders /\ IInv /\ [Next]_vars => LocksHaveHolders'
    BY TransferMoneyLocks, CreditRecipientLocks, RefundSenderLocks, OtherLocks
    DEF Next, Saga, Quiescent
  <1> QED
    BY <1>1, <1>2, InductiveInvariant, PTL DEF Spec

LEMMA SagaKeepsPending ==
  ASSUME RInv, PendingHasSaga, NEW t \in Transfers, Saga(t),
         {"transferAck", "refundDb"} \cap Faults = {}
  PROVE  PendingHasSaga'
  <1> USE DEF RInv, IInv, TypeOK, PendingHasSaga, StatusFollowsStage, Goto, money,
              Stages, Live, Resting
  <1>1. CASE TransferMoney(t)
    BY <1>1
    DEF TransferMoney, TransferNoWallet, TransferRead, TransferInsufficient, TransferCommit,
        TransferPublish, TransferAckLost, TransferDbFails, Leave, ReadForUpdate, Rollback
  <1>2. CASE CreditRecipient(t)
    BY <1>2
    DEF CreditRecipient, RecipientActive, RecipientRejected, CreditNoWallet, CreditRead,
        CreditCommit, CreditPublish, CreditAckLost, CreditDbFails, Leave, ReadForUpdate,
        Rollback, Publish
  <1>3. CASE RefundSender(t)
    BY <1>3
    DEF RefundSender, RefundRead, RefundCommit, RefundPublish, RefundAckLost, RefundDbFails,
        Leave, ReadForUpdate, Rollback, Publish
  <1> QED
    BY <1>1, <1>2, <1>3 DEF Saga

\* While the service runs, refunds succeed and the answer to the deduction is not lost,
\* a PENDING transfer has a saga that will go on with it.
THEOREM PendingGoesOn ==
  ASSUME {"transferAck", "refundDb", "crash"} \cap Faults = {}
  PROVE  Spec => []PendingHasSaga
  <1>1. Init => PendingHasSaga
    BY DEF Init, PendingHasSaga
  <1>2. ASSUME RInv, PendingHasSaga, [Next]_vars PROVE PendingHasSaga'
    <2>1. CASE \E t \in Transfers, r \in Requests : Request(t, r) \/ RefuseRequest(t, r)
      BY <1>2, <2>1
      DEF RInv, IInv, TypeOK, PendingHasSaga, StatusFollowsStage, Request, RefuseRequest,
          Leave, Goto, money
    <2>2. CASE \E t \in Transfers : Saga(t)
      BY <1>2, <2>2, SagaKeepsPending
    <2>3. CASE (\E u \in Users : CreateWallet(u)) \/ UNCHANGED vars
      BY <1>2, <2>3 DEF PendingHasSaga, CreateWallet, vars
    <2>4. ~Crash
      BY DEF Crash
    <2> QED
      BY <1>2, <2>1, <2>2, <2>3, <2>4 DEF Next, Quiescent
  <1> QED
    BY <1>1, <1>2, RecordInvariant, PTL DEF Spec
=============================================================================
