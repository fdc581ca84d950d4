----------------------------- MODULE AuditBook -----------------------------
(***************************************************************************)
(* What the audit service promises of the transfers it is told of, said    *)
(* without consumers, deliveries or failures: a successful transfer has a  *)
(* page of four ENTRIES, which are made in their order, each once, and     *)
(* never changed or taken back.  It does not promise that a page is ever   *)
(* completed.  AuditTrail.tla implements it.                               *)
(***************************************************************************)
EXTENDS Integers

CONSTANT Transfers

\* The sender's log, the receiver's log, the sender's and the receiver's statistics.
Entries == 1 .. 4

VARIABLES
    successful,  \* the transfers announced as successful
    book         \* book[t][e]: how often entry e of transfer t has been made

vars == <<successful, book>>

Init ==
    /\ successful = {}
    /\ book = [t \in Transfers |-> [e \in Entries |-> 0]]

Announce(t) ==
    /\ successful' = successful \union {t}
    /\ UNCHANGED book

\* The next entry of a page: all before it have been made, and none after it.
Enter(t, e) ==
    /\ t \in successful
    /\ book[t] = [f \in Entries |-> IF f < e THEN 1 ELSE 0]
    /\ book' = [book EXCEPT ![t][e] = 1]
    /\ UNCHANGED successful

Next == \E t \in Transfers : Announce(t) \/ \E e \in Entries : Enter(t, e)

Spec == Init /\ [][Next]_vars
=============================================================================
