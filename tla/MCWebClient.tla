---------------------------- MODULE MCWebClient -----------------------------
(***************************************************************************)
(* A small instance of WebClient: a user who has an account, and one who   *)
(* registers.  Both patches are made to the profile of the first, and one  *)
(* writes the e-mail address of the second into it.                        *)
(***************************************************************************)
EXTENDS WebClient, TLC

CONSTANTS alice, bob, p1, p2, u1, w1

MCTarget == (p1 :> alice) @@ (p2 :> alice)
MCNamed == (p1 :> {"firstName"}) @@ (p2 :> {"firstName", "email"})
MCEmail == (p1 :> alice) @@ (p2 :> bob)

Idle == page \in {"login", "register"} /\ signIns = 0 /\ token = Nobody
NoMoneyMoves == \A t \in Transfers : transfer[t].state = "none"
Quiet == unsent = {} /\ \A g \in Groups, h \in Handlers : {topic[g], forgotten[g], missing[h]} = {{}}

\* The product of all that the services and the tab can do at a time is out of
\* reach.  These are the parts of it in which they meet: profiles are patched
\* while the tab is idle, only one of them while somebody registers, the races of
\* onboarding are over when somebody signs in, all of onboarding when money moves
\* or the second one does, and a fault comes on top of all but two sign-ins and a
\* transfer.  That transfer is alice's: by then the two users are alike.
Apart ==
    /\ (\E p \in Patches : patchStep[p] # "read") => Idle /\ NoMoneyMoves
    /\ users = Settled \/ patchStep[p1] = "read"
    /\ signIns > 0 => \A h \in Handlers \ {u1, w1} : missing[h] = {}
    /\ ~NoMoneyMoves \/ signIns = MaxSignIns => Quiet
    /\ ~NoMoneyMoves /\ signIns = MaxSignIns =>
          faults = 0 /\ \A t \in Transfers : transfer[t].from # bob
=============================================================================
