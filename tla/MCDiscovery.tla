---------------------------- MODULE MCDiscovery ----------------------------
(***************************************************************************)
(* A small instance of Discovery: the user service, the gateway that needs *)
(* it, the notification service that can do without, and two processes of  *)
(* the audit service.                                                      *)
(***************************************************************************)
EXTENDS Discovery, TLC

CONSTANTS u, g, n, a1, a2

MCService ==
    (u :> "user") @@ (g :> "gateway") @@ (n :> "notification")
      @@ (a1 :> "audit") @@ (a2 :> "audit")

MCRegisters ==
    [s \in Services |->
       CASE s = "user" -> <<"user", "user-grpc">>
         [] s = "audit" -> <<"audit">>
         [] OTHER -> <<>>]

MCNeeds ==
    [s \in Services |->
       CASE s = "gateway" -> {"user"}
         [] s = "notification" -> {"user-grpc"}
         [] OTHER -> {}]

\* The notification service only ever meets the user service: it runs while the
\* others do not.
Apart == phase[n] # "down" => \A p \in {g, a1, a2} : phase[p] = "down"
=============================================================================
