---------------------------- MODULE TransferSaga ----------------------------
(***************************************************************************)
(* The money transfer of the wallet service: three command handlers, each  *)
(* one PostgreSQL transaction on one locked wallet row, chained in memory  *)
(* by the sagas of wallet.sagas.ts.                                        *)
(*                                                                         *)
(*   TransferMoneyHandler --MoneyDeductedEvent--> CreditRecipientHandler   *)
(*   CreditRecipientHandler --CreditFailedEvent--> RefundSenderHandler     *)
(*                                                                         *)
(* Durable state (PostgreSQL): wallets, balance, status, outbox.           *)
(* State of open database transactions: lock, seen.                        *)
(* State in the memory of the service, lost in a crash: stage.             *)
(* Handed to the Kafka client: walletEvents.                               *)
(***************************************************************************)
EXTENDS Integers, FiniteSetsExt

CONSTANTS
    Users,       \* the users of the platform
    Transfers,   \* one identifier for each transfer request of a behaviour
    Amounts,     \* the amounts, in cents, that requests ask for
    Funding,     \* Funding[u]: the balance a wallet existing at the start has
    Faults,      \* the faults that may happen, a subset of FaultKinds
    NoTransfer,  \* the owner of a row lock nobody holds
    NoRequest    \* the terms of a transfer nobody has requested

(***************************************************************************)
(* "transferDb", "creditDb", "refundDb": a query of the handler throws     *)
(* before COMMIT.  "transferAck", "creditAck", "refundAck": PostgreSQL     *)
(* commits and the connection fails before the handler hears of it, so     *)
(* that commitTransaction() throws.  "crash": the service stops.           *)
(***************************************************************************)
FaultKinds ==
    {"transferDb", "creditDb", "refundDb",
     "transferAck", "creditAck", "refundAck", "crash"}

Requests == [from : Users, to : Users, amount : Amounts]

ASSUME AmountsAssumption == Amounts \subseteq Int
ASSUME FundingAssumption ==
    /\ DOMAIN Funding \subseteq Users
    /\ IsFiniteSet(DOMAIN Funding)
    /\ \A u \in DOMAIN Funding : Funding[u] \in Nat
ASSUME FaultsAssumption == Faults \subseteq FaultKinds
ASSUME NoTransferAssumption == NoTransfer \notin Transfers
ASSUME NoRequestAssumption == NoRequest \notin Requests

VARIABLES
    wallets,      \* the users that have a row in table wallets
    balance,      \* balance[u]: column balance of that row, in cents
    status,       \* status[t]: column status of t's row in table transactions
    outbox,       \* the transfers that have a row in table outbox
    lock,         \* lock[u]: the transfer whose handler locks the row of u
    seen,         \* seen[t]: the balance the open transaction of t has read
    stage,        \* stage[t]: how far the handlers have come with t
    req,          \* req[t]: what the client asked for
    walletEvents  \* the events emitted to topic wallet.events

vars == <<wallets, balance, status, outbox, lock, seen, stage, req, walletEvents>>
money == <<wallets, balance, status, outbox>>

Stages ==
    {"idle",          \* nobody has sent the request
     "refused",       \* the client got an error
     "accepted",      \* validated, the deduction has not begun
     "deducting",     \* TransferMoney holds the lock on the sender's row
     "deducted",      \* TransferMoney has committed, not yet published
     "awaitingCredit",\* MoneyDeductedEvent is in the saga's delay(500)
     "checked",       \* CreditRecipient got a good answer from UserService
     "crediting",     \* CreditRecipient holds the lock on the receiver's row
     "credited",      \* CreditRecipient has committed, not yet published
     "compensating",  \* CreditFailedEvent published, RefundSender begins
     "refunding",     \* RefundSender holds the lock on the sender's row
     "refunded",      \* RefundSender has committed, not yet published
     "done",          \* the last event of the saga has been published
     "lost"}          \* nothing in memory will go on with this transfer

Resting == {"idle", "refused", "done", "lost"}
Live == Stages \ Resting

WalletOf(t) == IF stage[t] = "crediting" THEN req[t].to ELSE req[t].from

-----------------------------------------------------------------------------
Init ==
    /\ wallets = DOMAIN Funding
    /\ balance = [u \in Users |-> IF u \in DOMAIN Funding THEN Funding[u] ELSE 0]
    /\ status = [t \in Transfers |-> "none"]
    /\ outbox = {}
    /\ lock = [u \in Users |-> NoTransfer]
    /\ seen = [t \in Transfers |-> 0]
    /\ stage = [t \in Transfers |-> "idle"]
    /\ req = [t \in Transfers |-> NoRequest]
    /\ walletEvents = {}

-----------------------------------------------------------------------------
(***************************************************************************)
(* Steps that several handlers share.                                      *)
(***************************************************************************)

\* The next statement of t's handler; nothing is written to the database.
Goto(t, next) == stage' = [stage EXCEPT ![t] = next]

\* Mutant of ReadForUpdate: no lock mode is given, the read waits for nobody.
ReadWithoutLock(t, u, next) ==
    /\ u \in wallets
    /\ lock' = [lock EXCEPT ![u] = t]
    /\ seen' = [seen EXCEPT ![t] = balance[u]]
    /\ Goto(t, next)
    /\ UNCHANGED <<money, req, walletEvents>>

\* findOne(Wallet, ..., lock: pessimistic_write) that finds a row: waits for
\* the row lock, takes it and reads the balance.
ReadForUpdate(t, u, next) ==
    /\ u \in wallets
    /\ lock[u] = NoTransfer
    /\ lock' = [lock EXCEPT ![u] = t]
    /\ seen' = [seen EXCEPT ![t] = balance[u]]
    /\ Goto(t, next)
    /\ UNCHANGED <<money, req, walletEvents>>

\* COMMIT, ROLLBACK or a dead connection: the database drops the lock of t.
EndTransaction(t) ==
    /\ lock' = [u \in Users |-> IF lock[u] = t THEN NoTransfer ELSE lock[u]]
    /\ seen' = [seen EXCEPT ![t] = 0]

\* The transaction of t ends and has no effect.
Rollback(t, next) ==
    /\ EndTransaction(t)
    /\ Goto(t, next)
    /\ UNCHANGED <<money, req, walletEvents>>

\* The handler leaves without having opened a transaction.
Leave(t, next) ==
    /\ Goto(t, next)
    /\ UNCHANGED <<money, lock, seen, req, walletEvents>>

\* emit() to topic wallet.events, whose answer nobody waits for.
Publish(t, outcome) ==
    /\ walletEvents' = walletEvents \union {[transaction |-> t, status |-> outcome]}
    /\ Goto(t, "done")
    /\ UNCHANGED <<money, lock, seen, req>>

-----------------------------------------------------------------------------
(***************************************************************************)
(* TransferMoneyHandler.execute                                            *)
(***************************************************************************)

\* Mutant of Valid: a transfer to oneself is not refused.
ValidToSelf(r) == r.amount > 0

\* The checks that need no database.
Valid(r) == r.amount > 0 /\ r.from # r.to

Request(t, r) ==
    /\ stage[t] = "idle"
    /\ Valid(r)
    /\ req' = [req EXCEPT ![t] = r]
    /\ Goto(t, "accepted")
    /\ UNCHANGED <<money, lock, seen, walletEvents>>

RefuseRequest(t, r) ==
    /\ stage[t] = "idle"
    /\ ~Valid(r)
    /\ Leave(t, "refused")

TransferNoWallet(t) ==
    /\ stage[t] = "accepted"
    /\ req[t].from \notin wallets
    /\ Leave(t, "refused")

TransferRead(t) ==
    /\ stage[t] = "accepted"
    /\ ReadForUpdate(t, req[t].from, "deducting")

\* Mutant of Affordable: the funds are not checked under the lock.
AlwaysAffordable(t) == TRUE

Affordable(t) == seen[t] >= req[t].amount

\* Mutant of TransferInsufficient: the handler returns without a rollback.
InsufficientKeepsLock(t) ==
    /\ stage[t] = "deducting"
    /\ ~Affordable(t)
    /\ Leave(t, "refused")

TransferInsufficient(t) ==
    /\ stage[t] = "deducting"
    /\ ~Affordable(t)
    /\ Rollback(t, "refused")

\* The three rows of the transaction: wallet, transaction record, outbox record.
TransferCommit(t) ==
    /\ stage[t] = "deducting"
    /\ Affordable(t)
    /\ balance' = [balance EXCEPT ![req[t].from] = seen[t] - req[t].amount]
    /\ status' = [status EXCEPT ![t] = "PENDING"]
    /\ outbox' = outbox \union {t}
    /\ EndTransaction(t)
    /\ Goto(t, "deducted")
    /\ UNCHANGED <<wallets, req, walletEvents>>

\* MoneyDeductedEvent goes to the saga, the client gets its answer.
TransferPublish(t) ==
    /\ stage[t] = "deducted"
    /\ Leave(t, "awaitingCredit")

\* The client gets an error, and no event is published, for a transaction
\* that has been committed.
TransferAckLost(t) ==
    /\ "transferAck" \in Faults
    /\ stage[t] = "deducted"
    /\ Leave(t, "refused")

\* Mutant of TransferDbFails: an exception after COMMIT is reported as a
\* failed transfer too.
TransferFailsAfterCommit(t) ==
    /\ "transferDb" \in Faults
    /\ stage[t] \in {"accepted", "deducting", "deducted"}
    /\ Rollback(t, "refused")

TransferDbFails(t) ==
    /\ "transferDb" \in Faults
    /\ stage[t] \in {"accepted", "deducting"}
    /\ Rollback(t, "refused")

-----------------------------------------------------------------------------
(***************************************************************************)
(* CreditRecipientHandler.execute.  Every exception ends in the outer      *)
(* catch, which publishes CreditFailedEvent; the saga maps it at once to   *)
(* a RefundSenderCommand.                                                  *)
(***************************************************************************)

RecipientActive(t) ==
    /\ stage[t] = "awaitingCredit"
    /\ Leave(t, "checked")

\* No such user, an inactive one, or the call of UserService fails.
RecipientRejected(t) ==
    /\ stage[t] = "awaitingCredit"
    /\ Leave(t, "compensating")

\* Mutant of CreditNoWallet: the exception misses the catch that compensates.
CreditNoWalletUncaught(t) ==
    /\ stage[t] = "checked"
    /\ req[t].to \notin wallets
    /\ Leave(t, "lost")

CreditNoWallet(t) ==
    /\ stage[t] = "checked"
    /\ req[t].to \notin wallets
    /\ Leave(t, "compensating")

CreditRead(t) ==
    /\ stage[t] = "checked"
    /\ ReadForUpdate(t, req[t].to, "crediting")

\* Mutant of CreditCommit: the transaction record is not updated.
CreditCommitNoStatus(t) ==
    /\ stage[t] = "crediting"
    /\ balance' = [balance EXCEPT ![req[t].to] = seen[t] + req[t].amount]
    /\ EndTransaction(t)
    /\ Goto(t, "credited")
    /\ UNCHANGED <<wallets, status, outbox, req, walletEvents>>

\* The status is overwritten whatever it was.
CreditCommit(t) ==
    /\ stage[t] = "crediting"
    /\ balance' = [balance EXCEPT ![req[t].to] = seen[t] + req[t].amount]
    /\ status' = [status EXCEPT ![t] = "SUCCESS"]
    /\ EndTransaction(t)
    /\ Goto(t, "credited")
    /\ UNCHANGED <<wallets, outbox, req, walletEvents>>

\* Mutant of CreditPublish: the event may go out before COMMIT.
CreditPublishEarly(t) ==
    /\ stage[t] \in {"crediting", "credited"}
    /\ Publish(t, "SUCCESS")

CreditPublish(t) ==
    /\ stage[t] = "credited"
    /\ Publish(t, "SUCCESS")

\* A commit whose answer is lost looks like one that failed.
CreditAckLost(t) ==
    /\ "creditAck" \in Faults
    /\ stage[t] = "credited"
    /\ Leave(t, "compensating")

\* Mutant of CreditDbFails: an exception after COMMIT (publishing the event)
\* compensates too.
CreditFailsAfterCommit(t) ==
    /\ "creditDb" \in Faults
    /\ stage[t] \in {"checked", "crediting", "credited"}
    /\ Rollback(t, "compensating")

CreditDbFails(t) ==
    /\ "creditDb" \in Faults
    /\ stage[t] \in {"checked", "crediting"}
    /\ Rollback(t, "compensating")

-----------------------------------------------------------------------------
(***************************************************************************)
(* RefundSenderHandler.execute.  An exception is logged and nothing        *)
(* tries the refund again.                                                 *)
(***************************************************************************)

\* findOne() locks nothing when there is no row.
RefundRead(t) ==
    /\ stage[t] = "compensating"
    /\ IF req[t].from \in wallets
       THEN ReadForUpdate(t, req[t].from, "refunding")
       ELSE Leave(t, "refunding")

\* Mutant of RefundCommit: the new balance is computed and not saved.
RefundCommitNoMoney(t) ==
    /\ stage[t] = "refunding"
    /\ status' = [status EXCEPT ![t] = "FAILED"]
    /\ EndTransaction(t)
    /\ Goto(t, "refunded")
    /\ UNCHANGED <<wallets, balance, outbox, req, walletEvents>>

\* Without a sender's row nothing is paid back, and the status is FAILED too.
RefundCommit(t) ==
    /\ stage[t] = "refunding"
    /\ balance' = IF lock[req[t].from] = t
                  THEN [balance EXCEPT ![req[t].from] = seen[t] + req[t].amount]
                  ELSE balance
    /\ status' = [status EXCEPT ![t] = "FAILED"]
    /\ EndTransaction(t)
    /\ Goto(t, "refunded")
    /\ UNCHANGED <<wallets, outbox, req, walletEvents>>

\* Mutant of RefundPublish: the event carries the status of the record.
RefundPublishFailed(t) ==
    /\ stage[t] = "refunded"
    /\ Publish(t, "FAILED")

RefundPublish(t) ==
    /\ stage[t] = "refunded"
    /\ Publish(t, "REFUNDED")

RefundAckLost(t) ==
    /\ "refundAck" \in Faults
    /\ stage[t] = "refunded"
    /\ Leave(t, "lost")

RefundDbFails(t) ==
    /\ "refundDb" \in Faults
    /\ stage[t] \in {"compensating", "refunding"}
    /\ Rollback(t, "lost")

-----------------------------------------------------------------------------
(***************************************************************************)
(* The environment.                                                        *)
(***************************************************************************)

\* WalletService.createWallet (event user.created) or GetBalanceHandler: the
\* row is inserted with balance 0, and only where there is none.
CreateWallet(u) ==
    /\ u \notin wallets
    /\ wallets' = wallets \union {u}
    /\ UNCHANGED <<balance, status, outbox, lock, seen, stage, req, walletEvents>>

\* The service stops and starts again: open transactions are rolled back, and
\* every step that only its memory knew of is forgotten.
Crash ==
    /\ "crash" \in Faults
    /\ \E t \in Transfers : stage[t] \in Live
    /\ stage' = [t \in Transfers |-> IF stage[t] \in Live THEN "lost" ELSE stage[t]]
    /\ lock' = [u \in Users |-> NoTransfer]
    /\ seen' = [t \in Transfers |-> 0]
    /\ UNCHANGED <<money, req, walletEvents>>

\* All requests have been served: the only state in which nothing need happen.
Quiescent ==
    /\ \A t \in Transfers : stage[t] \in Resting \ {"idle"}
    /\ UNCHANGED vars

-----------------------------------------------------------------------------
TransferMoney(t) ==
    \/ TransferNoWallet(t) \/ TransferRead(t) \/ TransferInsufficient(t)
    \/ TransferCommit(t) \/ TransferPublish(t)
    \/ TransferAckLost(t) \/ TransferDbFails(t)

CreditRecipient(t) ==
    \/ RecipientActive(t) \/ RecipientRejected(t) \/ CreditNoWallet(t)
    \/ CreditRead(t) \/ CreditCommit(t) \/ CreditPublish(t)
    \/ CreditAckLost(t) \/ CreditDbFails(t)

RefundSender(t) ==
    \/ RefundRead(t) \/ RefundCommit(t) \/ RefundPublish(t)
    \/ RefundAckLost(t) \/ RefundDbFails(t)

Saga(t) == TransferMoney(t) \/ CreditRecipient(t) \/ RefundSender(t)

Next ==
    \/ \E t \in Transfers, r \in Requests : Request(t, r) \/ RefuseRequest(t, r)
    \/ \E t \in Transfers : Saga(t)
    \/ \E u \in Users : CreateWallet(u)
    \/ Crash
    \/ Quiescent

Spec == Init /\ [][Next]_vars

\* A running service takes every handler it has begun to its end: the event
\* loop resumes each of them, every query and call is answered or fails, and
\* PostgreSQL grants a row lock to its waiters in turn.
FairSpec == Spec /\ \A t \in Transfers : WF_vars(Saga(t))

-----------------------------------------------------------------------------
(***************************************************************************)
(* Properties.                                                             *)
(***************************************************************************)

TypeOK ==
    /\ wallets \subseteq Users
    /\ balance \in [Users -> Int]
    /\ status \in [Transfers -> {"none", "PENDING", "SUCCESS", "FAILED"}]
    /\ outbox \subseteq Transfers
    /\ lock \in [Users -> Transfers \union {NoTransfer}]
    /\ seen \in [Transfers -> Int]
    /\ stage \in [Transfers -> Stages]
    /\ req \in [Transfers -> Requests \union {NoRequest}]
    /\ walletEvents \subseteq
         [transaction : Transfers, status : {"SUCCESS", "REFUNDED"}]

\* No wallet is ever overdrawn, however many transfers of one sender overlap:
\* what TransferMoney checks at line 43 is still so when it commits.
NoOverdraft == \A u \in Users : balance[u] >= 0

\* While a handler computes a new balance from the one it has read, nobody else
\* changes the row: every balance written is based on the current one, and a
\* row has at most one transaction that will write it.
LockedReadIsCurrent ==
    \A t \in Transfers :
        stage[t] \in {"deducting", "crediting", "refunding"} =>
            /\ lock[WalletOf(t)] = t
            /\ seen[t] = balance[WalletOf(t)]

\* A transaction that reached SUCCESS or FAILED keeps that status: a payment is
\* not refunded afterwards, a refund not paid out.
SettledIsFinal ==
    [][\A t \in Transfers :
         status[t] \in {"SUCCESS", "FAILED"} => status'[t] = status[t]]_vars

\* What wallet.events tells the audit and notification services is what the
\* database says: SUCCESS of a paid transfer, REFUNDED of a failed one.
EventsTellTheTruth ==
    \A e \in walletEvents :
        status[e.transaction] = IF e.status = "SUCCESS" THEN "SUCCESS" ELSE "FAILED"

\* A client that got an error has not been debited, and nothing of the transfer
\* is left in the transactions or the outbox table.
RefusedIsUntouched ==
    \A t \in Transfers :
        stage[t] = "refused" => status[t] = "none" /\ t \notin outbox

\* A row is locked by a handler that is at work on it: no way out of a handler, by
\* COMMIT, exception or early return, leaves a lock behind with nobody to release it.
LocksHaveHolders ==
    \A u \in Users : lock[u] # NoTransfer =>
        /\ stage[lock[u]] \in {"deducting", "crediting", "refunding"}
        /\ u = WalletOf(lock[u])

\* Money that has left its wallet without having arrived has a saga in the memory of
\* the service that will go on with it.  (So while the service runs and refunds
\* succeed: a crash, or an exception of the refund, leaves it to nobody.)
PendingHasSaga ==
    \A t \in Transfers : status[t] = "PENDING" => stage[t] \in Live

\* The money in the wallets, and what has left them without having arrived: the
\* amounts of the transfers whose transaction is PENDING.
MoneyIn(f, S) == MapThenSumSet(LAMBDA i : f[i], S)
Held == {t \in Transfers : status[t] = "PENDING"}
InitialMoney == MoneyIn(Funding, DOMAIN Funding)
Money ==
    MoneyIn(balance, wallets) + MoneyIn([t \in Held |-> req[t].amount], Held)

\* Money is neither made nor destroyed: what is missing in the wallets is the
\* amounts of the transfers whose transaction is PENDING, to the cent.
MoneyIsConserved == Money = InitialMoney

\* Whatever becomes of the answer to a COMMIT, no money disappears.
NoMoneyIsDestroyed == Money >= InitialMoney

-----------------------------------------------------------------------------
(***************************************************************************)
(* The inductive invariant of the proofs: the parts that NoOverdraft and   *)
(* LockedReadIsCurrent do not say themselves.                              *)
(***************************************************************************)

\* A saga works on valid terms.  Its sender has a wallet from the locked read
\* on, its recipient while the credit is being written.
SagasAreWellFormed ==
    \A t \in Transfers :
        /\ stage[t] \in Live => req[t] \in Requests /\ Valid(req[t])
        /\ stage[t] \in Live \ {"accepted"} => req[t].from \in wallets
        /\ stage[t] = "crediting" => req[t].to \in wallets

\* What the transaction record says while the saga is at a stage.  The two
\* faults that lose the answer to a COMMIT give two of the stages a second case.
StatusFollowsStage ==
    \A t \in Transfers :
        /\ stage[t] \in {"idle", "accepted", "deducting"} => status[t] = "none"
        /\ stage[t] \in {"deducted", "awaitingCredit", "checked", "crediting"} =>
              status[t] = "PENDING"
        /\ stage[t] \in {"compensating", "refunding"} =>
              \/ status[t] = "PENDING"
              \/ "creditAck" \in Faults /\ status[t] = "SUCCESS"
        /\ stage[t] = "credited" => status[t] = "SUCCESS"
        /\ stage[t] = "refunded" => status[t] = "FAILED"
        /\ stage[t] = "refused" =>
              \/ status[t] = "none"
              \/ "transferAck" \in Faults /\ status[t] = "PENDING"

\* The outbox row is written with the transaction record, never without it.
OutboxFollowsStatus == outbox = {t \in Transfers : status[t] # "none"}

\* Money is in finitely many places, so that it adds up: in the rows there are,
\* none of which is made with money in it, and in transfers on known terms.
MoneyHasPlaces ==
    /\ IsFiniteSet(wallets) /\ IsFiniteSet(Held)
    /\ \A u \in Users \ wallets : balance[u] = 0
    /\ \A t \in Held : req[t] \in Requests

-----------------------------------------------------------------------------
\* The saga is an escrow: its transfers hold, pay and return money as
\* EscrowLedger allows.
PhaseOfStatus ==
    [none |-> "none", PENDING |-> "held", SUCCESS |-> "paid", FAILED |-> "returned"]

Ledger == INSTANCE EscrowLedger WITH
    Deals <- Requests,
    NoDeal <- NoRequest,
    open <- wallets,
    funds <- balance,
    phase <- [t \in Transfers |-> PhaseOfStatus[status[t]]],
    deal <- [t \in Transfers |-> IF status[t] = "none" THEN NoRequest ELSE req[t]]

ImplementsLedger == Ledger!Spec

\* Money that has left the sender's wallet is paid or returned in the end.
DeductedIsSettled ==
    \A t \in Transfers :
        status[t] = "PENDING" ~> status[t] \in {"SUCCESS", "FAILED"}

\* A row lock is given back, so that a wallet does not become unusable.
LocksAreReleased ==
    \A u \in Users : lock[u] # NoTransfer ~> lock[u] = NoTransfer
=============================================================================
