---------------------------- MODULE EscrowLedger ----------------------------
(***************************************************************************)
(* What a money transfer promises to the owners of wallets, said without   *)
(* database transactions, sagas, messages or failures: an amount leaves    *)
(* the sender's wallet and is HELD by the transfer; afterwards it is       *)
(* either PAID to the recipient or RETURNED to the sender, at most once    *)
(* and never both.  TransferSaga.tla implements it.                        *)
(***************************************************************************)
EXTENDS Integers

CONSTANTS
    Users,      \* the owners of wallets
    Transfers,  \* the identifiers of transfers
    Deals,      \* who may pay whom and how much: [from, to, amount]
    Funding,    \* the money of each wallet that exists at the start
    NoDeal      \* the terms of a transfer nobody has made

VARIABLES
    open,       \* the users that have a wallet
    funds,      \* funds[u]: the money in the wallet of u
    phase,      \* phase[t]: "none", "held", "paid" or "returned"
    deal        \* deal[t]: who pays whom, and how much

vars == <<open, funds, phase, deal>>

Init ==
    /\ open = DOMAIN Funding
    /\ funds = [u \in Users |-> IF u \in DOMAIN Funding THEN Funding[u] ELSE 0]
    /\ phase = [t \in Transfers |-> "none"]
    /\ deal = [t \in Transfers |-> NoDeal]

OpenWallet(u) ==
    /\ u \notin open
    /\ open' = open \union {u}
    /\ UNCHANGED <<funds, phase, deal>>

\* The sender can afford the amount, which leaves the wallet and is held.
Hold(t, d) ==
    /\ phase[t] = "none"
    /\ d.amount > 0
    /\ d.from # d.to
    /\ d.from \in open
    /\ funds[d.from] >= d.amount
    /\ funds' = [funds EXCEPT ![d.from] = @ - d.amount]
    /\ phase' = [phase EXCEPT ![t] = "held"]
    /\ deal' = [deal EXCEPT ![t] = d]
    /\ UNCHANGED open

Pay(t) ==
    /\ phase[t] = "held"
    /\ deal[t].to \in open
    /\ funds' = [funds EXCEPT ![deal[t].to] = @ + deal[t].amount]
    /\ phase' = [phase EXCEPT ![t] = "paid"]
    /\ UNCHANGED <<open, deal>>

Return(t) ==
    /\ phase[t] = "held"
    /\ deal[t].from \in open
    /\ funds' = [funds EXCEPT ![deal[t].from] = @ + deal[t].amount]
    /\ phase' = [phase EXCEPT ![t] = "returned"]
    /\ UNCHANGED <<open, deal>>

Next ==
    \/ \E u \in Users : OpenWallet(u)
    \/ \E t \in Transfers :
        \/ \E d \in Deals : Hold(t, d)
        \/ Pay(t)
        \/ Return(t)

Spec == Init /\ [][Next]_vars
=============================================================================
