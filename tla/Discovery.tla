------------------------------ MODULE Discovery ------------------------------
(***************************************************************************)
(* How the services find each other: a process resolves what it calls from *)
(* Consul while it starts, opens its ports, registers itself under an id   *)
(* that all processes of its service share, and is polled from then on.    *)
(* The gateway asks for the audit service again with every request of the  *)
(* audit pages.                                                            *)
(***************************************************************************)
EXTENDS Naturals, Sequences, FiniteSets

CONSTANTS
    Processes,    \* the processes, which are also the addresses they listen at
    Service,      \* Service[p]: the service that p runs
    Names,        \* the names in Consul
    Registers,    \* Registers[s]: the names of service s, in the order of onModuleInit()
    Needs,        \* Needs[s]: the names that the module of s resolves
    FallsBack,    \* the services whose module goes on without an answer
    Gateway,      \* the service that has the audit pages
    Asked,        \* the name it resolves for them
    Tries,        \* `retries`: how often discoverService() asks (30 in the code)
    Faults,       \* the faults that may happen
    MaxFaults,    \* how many faults a behaviour has at most
    Nowhere,      \* the address of what is not resolved
    Localhost     \* 'localhost:50051'

Services == {Service[p] : p \in Processes}
NamesOf(p) == {Registers[Service[p]][i] : i \in 1 .. Len(Registers[Service[p]])}
NeededBy(p) == Needs[Service[p]]

(***************************************************************************)
(* "stop": a process ends, on purpose or not.  "sick": a process fails its *)
(* health check although it runs: the ping of the database, or the limit   *)
(* of the heap.  "consul": a request to Consul fails.                      *)
(***************************************************************************)
FaultKinds == {"stop", "sick", "consul"}

ASSUME NamesAssumption ==
    /\ Registers \in [Services -> Seq(Names)]
    /\ Needs \in [Services -> SUBSET Names]
    /\ Asked \in Names \ UNION {NeededBy(p) : p \in Processes}
ASSUME TriesAssumption == Tries \in Nat \ {0}
ASSUME DiscoveryFaultsAssumption == Faults \subseteq FaultKinds /\ MaxFaults \in Nat
ASSUME AddressesAssumption == Nowhere # Localhost /\ {Nowhere, Localhost} \cap Processes = {}

VARIABLES
    phase,     \* phase[p]: how far the start of p is
    known,     \* known[p][n]: the address that p has for n
    tries,     \* tries[p][n]: how often p has asked for n in vain
    todo,      \* todo[p]: the names that p has still to register
    sick,      \* the processes that run and fail their health checks
    catalog,   \* catalog[n]: the only entry of n in Consul, a sequence of at most one
    due,       \* due[n]: the last process to register n or to pass a poll of it, while it is well
    request,   \* request[p]: the request of an audit page at the gateway p
    faults     \* how many faults there have been

vars == <<phase, known, tries, todo, sick, catalog, due, request, faults>>

Init ==
    /\ phase = [p \in Processes |-> "down"]
    /\ known = [p \in Processes |-> [n \in Names |-> Nowhere]]
    /\ tries = [p \in Processes |-> [n \in Names |-> 0]]
    /\ todo = [p \in Processes |-> <<>>]
    /\ sick = {}
    /\ catalog = [n \in Names |-> <<>>]
    /\ due = [n \in Names |-> Nowhere]
    /\ request = [p \in Processes |-> "idle"]
    /\ faults = 0

Fault(kind) ==
    /\ kind \in Faults
    /\ faults < MaxFaults
    /\ faults' = faults + 1

\* p is not well any more: its entries may go.
Ails(p) == due' = [n \in Names |-> IF due[n] = p THEN Nowhere ELSE due[n]]

\* A process that is gone has lost all it knew.
Forget(p, next) ==
    /\ phase' = [phase EXCEPT ![p] = next]
    /\ known' = [known EXCEPT ![p] = [n \in Names |-> Nowhere]]
    /\ tries' = [tries EXCEPT ![p] = [n \in Names |-> 0]]
    /\ todo' = [todo EXCEPT ![p] = IF next = "resolving" THEN Registers[Service[p]] ELSE <<>>]
    /\ sick' = sick \ {p}
    /\ Ails(p)
    /\ request' = [request EXCEPT ![p] = "idle"]

-----------------------------------------------------------------------------
(***************************************************************************)
(* DiscoveryService.discoverService(n) in process p.                       *)
(***************************************************************************)
Entry(n) == catalog[n][1]

Listed(n) == catalog[n] # <<>>

\* Mutant of Passing: `passing: true` is not asked for.
PassingOrNot(n) == Listed(n)

Passing(n) == Listed(n) /\ Entry(n).check = "passing"

Looks(p, n) ==
    \/ phase[p] = "resolving" /\ n \in NeededBy(p) /\ known[p][n] = Nowhere
    \/ request[p] = "resolving" /\ n = Asked

AsksOn(p, next) == request' = [request EXCEPT ![p] = IF phase[p] = "ready" THEN next ELSE @]

Discovered(p, n) ==
    /\ Looks(p, n) /\ Passing(n)
    /\ known' = [known EXCEPT ![p][n] = Entry(n).process]
    /\ tries' = [tries EXCEPT ![p][n] = 0]
    /\ AsksOn(p, "calling")
    /\ UNCHANGED <<phase, todo, sick, catalog, due, faults>>

\* Nothing that passes, or an error.
InVain(p, n) ==
    /\ Looks(p, n)
    /\ IF Passing(n) THEN Fault("consul") ELSE UNCHANGED faults

\* Mutant of Retry: the loop has no end.
RetryForEver(p, n) ==
    /\ InVain(p, n)
    /\ UNCHANGED <<phase, known, tries, todo, sick, catalog, due, request>>

\* Mutant of Retry: `<=` in the loop.
RetryOnceMore(p, n) ==
    /\ InVain(p, n)
    /\ tries[p][n] + 1 <= Tries
    /\ tries' = [tries EXCEPT ![p][n] = @ + 1]
    /\ UNCHANGED <<phase, known, todo, sick, catalog, due, request>>

\* After five seconds.
Retry(p, n) ==
    /\ InVain(p, n)
    /\ tries[p][n] + 1 < Tries
    /\ tries' = [tries EXCEPT ![p][n] = @ + 1]
    /\ UNCHANGED <<phase, known, todo, sick, catalog, due, request>>

OutOfTries(p, n) == InVain(p, n) /\ tries[p][n] + 1 = Tries

-----------------------------------------------------------------------------
(***************************************************************************)
(* The start of a process: the factories of its module, the ports of its   *)
(* microservices, onModuleInit(), and at last HTTP with the health check.  *)
(***************************************************************************)
Start(p) ==
    /\ phase[p] = "down"
    /\ Forget(p, "resolving")
    /\ UNCHANGED <<catalog, faults>>

\* Mutant of Abort: every module has a fallback.
AbortOrNot(p, n) ==
    /\ phase[p] = "resolving"
    /\ OutOfTries(p, n)
    /\ known' = [known EXCEPT ![p][n] = Localhost]
    /\ tries' = [tries EXCEPT ![p][n] = 0]
    /\ UNCHANGED <<phase, todo, sick, catalog, due, request>>

\* The factory throws, and with it the start.
Abort(p, n) ==
    /\ phase[p] = "resolving" /\ Service[p] \notin FallsBack
    /\ OutOfTries(p, n)
    /\ Forget(p, "down")
    /\ UNCHANGED catalog

FallBack(p, n) ==
    /\ phase[p] = "resolving" /\ Service[p] \in FallsBack
    /\ OutOfTries(p, n)
    /\ known' = [known EXCEPT ![p][n] = Localhost]
    /\ tries' = [tries EXCEPT ![p][n] = 0]
    /\ UNCHANGED <<phase, todo, sick, catalog, due, request>>

\* The factories have ended: the module is there, and its ports are opened.
Listen(p) ==
    /\ phase[p] = "resolving"
    /\ \A n \in NeededBy(p) : known[p][n] # Nowhere
    /\ phase' = [phase EXCEPT ![p] = "listening"]
    /\ UNCHANGED <<known, tries, todo, sick, catalog, due, request, faults>>

\* The id is made of the name alone: an entry of another process is replaced.
\* Consul takes a new entry to fail until the first poll, but not for a minute yet.
Register(p) ==
    /\ phase[p] = "listening" /\ todo[p] # <<>>
    /\ catalog' = [catalog EXCEPT ![Head(todo[p])] = <<[process |-> p, check |-> "new"]>>]
    /\ due' = [due EXCEPT ![Head(todo[p])] = p]
    /\ todo' = [todo EXCEPT ![p] = Tail(@)]
    /\ UNCHANGED <<phase, known, tries, sick, request, faults>>

\* The error is logged: the process is never listed.
RegisterFails(p) ==
    /\ phase[p] = "listening" /\ todo[p] # <<>>
    /\ Fault("consul")
    /\ todo' = [todo EXCEPT ![p] = Tail(@)]
    /\ UNCHANGED <<phase, known, tries, sick, catalog, due, request>>

ListenHttp(p) ==
    /\ phase[p] = "listening" /\ todo[p] = <<>>
    /\ phase' = [phase EXCEPT ![p] = "ready"]
    /\ UNCHANGED <<known, tries, todo, sick, catalog, due, request, faults>>

\* Mutant of Stop: enableShutdownHooks(), so that onModuleDestroy() deregisters
\* the ids of the process.
StopAndDeregister(p) ==
    /\ phase[p] # "down"
    /\ Fault("stop")
    /\ Forget(p, "down")
    /\ catalog' = [n \in Names |-> IF n \in NamesOf(p) THEN <<>> ELSE catalog[n]]

\* Nobody calls onModuleDestroy().
Stop(p) ==
    /\ phase[p] # "down"
    /\ Fault("stop")
    /\ Forget(p, "down")
    /\ UNCHANGED catalog

Sicken(p) ==
    /\ phase[p] = "ready" /\ p \notin sick
    /\ Fault("sick")
    /\ sick' = sick \union {p}
    /\ Ails(p)
    /\ UNCHANGED <<phase, known, tries, todo, catalog, request>>

Recover(p) ==
    /\ p \in sick
    /\ sick' = sick \ {p}
    /\ UNCHANGED <<phase, known, tries, todo, catalog, due, request, faults>>

-----------------------------------------------------------------------------
(***************************************************************************)
(* Consul: the poll of the health check, every ten seconds, and the end of *)
(* an entry that has failed for a minute.  Consul goes by its polls: a     *)
(* process that has recovered may be removed before the next one.  Time is *)
(* left out: any failing poll may be the last of a minute, but for those   *)
(* of a process that has just registered and is about to open HTTP.        *)
(***************************************************************************)
Healthy(p) == phase[p] = "ready" /\ p \notin sick

PollResult(p, check) ==
    IF Healthy(p) THEN "passing"
    ELSE IF check = "new" /\ phase[p] = "listening" THEN "new" ELSE "critical"

Poll(n) ==
    /\ Listed(n)
    /\ catalog' = [catalog EXCEPT ![n][1].check = PollResult(Entry(n).process, @)]
    /\ due' = IF Healthy(Entry(n).process) THEN [due EXCEPT ![n] = Entry(n).process] ELSE due
    /\ UNCHANGED <<phase, known, tries, todo, sick, request, faults>>

DeregisterCritical(n) ==
    /\ Listed(n) /\ Entry(n).check = "critical"
    /\ catalog' = [catalog EXCEPT ![n] = <<>>]
    /\ UNCHANGED <<phase, known, tries, todo, sick, due, request, faults>>

-----------------------------------------------------------------------------
(***************************************************************************)
(* AuditController.getLogs and getStats of the gateway.                    *)
(***************************************************************************)

\* Mutant of GetLogs: the address is kept from one request to the next.
GetLogsFromKnown(p) ==
    /\ Service[p] = Gateway /\ phase[p] = "ready" /\ request[p] # "resolving"
    /\ request' = [request EXCEPT ![p] = IF known[p][Asked] = Nowhere THEN "resolving" ELSE "calling"]
    /\ UNCHANGED <<phase, known, tries, todo, sick, catalog, due, faults>>

GetLogs(p) ==
    /\ Service[p] = Gateway /\ phase[p] = "ready" /\ request[p] \notin {"resolving", "calling"}
    /\ request' = [request EXCEPT ![p] = "resolving"]
    /\ UNCHANGED <<phase, known, tries, todo, sick, catalog, due, faults>>

\* 503: 'Audit service unavailable'.
Unresolved(p) ==
    /\ request[p] = "resolving"
    /\ OutOfTries(p, Asked)
    /\ request' = [request EXCEPT ![p] = "failed"]
    /\ tries' = [tries EXCEPT ![p][Asked] = 0]
    /\ UNCHANGED <<phase, known, todo, sick, catalog, due>>

Call(p) ==
    /\ request[p] = "calling"
    /\ request' = [request EXCEPT ![p] =
                     IF phase[known[p][Asked]] = "ready" THEN "idle" ELSE "failed"]
    /\ UNCHANGED <<phase, known, tries, todo, sick, catalog, due, faults>>

-----------------------------------------------------------------------------
Resolve(p, n) == Discovered(p, n) \/ Retry(p, n) \/ Abort(p, n) \/ FallBack(p, n)

Boot(p) ==
    \/ \E n \in NeededBy(p) : Resolve(p, n)
    \/ Listen(p) \/ Register(p) \/ RegisterFails(p) \/ ListenHttp(p)

Audit(p) == Discovered(p, Asked) \/ Retry(p, Asked) \/ Unresolved(p) \/ Call(p)

Next ==
    \/ \E p \in Processes :
         \/ Start(p) \/ Boot(p) \/ Stop(p) \/ Sicken(p) \/ Recover(p)
         \/ GetLogs(p) \/ Audit(p)
    \/ \E n \in Names : Poll(n) \/ DeregisterCritical(n)

Spec == Init /\ [][Next]_vars

\* A start goes on, and so does a request: neither waits for anybody else.
FairSpec == Spec /\ \A p \in Processes : WF_vars(Boot(p) \/ Audit(p))

-----------------------------------------------------------------------------
(***************************************************************************)
(* Properties.                                                             *)
(***************************************************************************)
TypeOK ==
    /\ phase \in [Processes -> {"down", "resolving", "listening", "ready"}]
    /\ known \in [Processes -> [Names -> Processes \union {Nowhere, Localhost}]]
    /\ tries \in [Processes -> [Names -> 0 .. Tries - 1]]
    /\ \A p \in Processes :
         todo[p] \in {SubSeq(Registers[Service[p]], i, Len(Registers[Service[p]])) :
                        i \in 1 .. Len(Registers[Service[p]]) + 1}
    /\ sick \subseteq {p \in Processes : phase[p] = "ready"}
    /\ \A n \in Names :
         catalog[n] \in {<<>>} \union
             {<<[process |-> p, check |-> c]>> :
                p \in {p \in Processes : n \in NamesOf(p)}, c \in {"new", "passing", "critical"}}
    /\ due \in [Names -> Processes \union {Nowhere}]
    /\ request \in [Processes -> {"idle", "resolving", "calling", "failed"}]
    /\ faults \in 0 .. MaxFaults

\* A process opens its ports only when it knows, for every name that it needs, a
\* process that runs it: it has not started on a guess, and until something fails
\* what it knows has been through the same, so that the services come up in the
\* order of their dependencies.
StartedInOrder ==
    \A p \in Processes : \A n \in NeededBy(p) :
        phase[p] \in {"listening", "ready"} /\ Service[p] \notin FallsBack =>
            /\ known[p][n] \in Processes
            /\ faults = 0 => phase[known[p][n]] = "ready"

\* Although the processes of a service share their ids, no end of one of them, and
\* no answer of Consul to it, takes the entry of another away: the last process that
\* has registered a name, or passed a poll of it, is listed as long as it has been
\* well since, until a later process of its service registers.
ListedWhileWell ==
    \A n \in Names : due[n] # Nowhere => Listed(n) /\ Entry(n).process = due[n]

\* A start comes to its end, whatever is missing and however the start of the
\* others ends: it never waits for ever.
BootEnds == \A p \in Processes : phase[p] = "resolving" ~> phase[p] \in {"ready", "down"}

AuditUp == Passing(Asked) /\ Healthy(Entry(Asked).process)

\* When the audit service is up for good, here or at another address, there comes
\* a time from which no request fails: the gateway keeps nothing that is stale.
AuditIsFoundAgain ==
    <>[]AuditUp =>
        <>[][\A p \in Processes : request[p] = "failed" \/ request'[p] # "failed"]_vars
=============================================================================
