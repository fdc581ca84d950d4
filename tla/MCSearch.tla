------------------------------ MODULE MCSearch ------------------------------
(***************************************************************************)
(* A small instance of Search: a transfer from alice to bob, two searches  *)
(* of bob that share a key although they ask for different days, and one   *)
(* of carol, who is to find nothing.                                       *)
(***************************************************************************)
EXTENDS Search, TLC

CONSTANTS alice, bob, carol, t1, r1, r2, r3

MCParties == t1 :> [sender |-> alice, receiver |-> bob]
MCDay == t1 :> 1
MCWanted ==
    (r1 :> [user |-> bob, status |-> "", since |-> 1])
      @@ (r2 :> [user |-> bob, status |-> "", since |-> 2])
      @@ (r3 :> [user |-> carol, status |-> "", since |-> 1])
=============================================================================
