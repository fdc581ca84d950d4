--------------------------- MODULE DiscoveryProofs ---------------------------
(***************************************************************************)
(* Proofs about Discovery, for any processes, services, names and faults:  *)
(* types, the order in which the services start, and the entries that      *)
(* processes of the same service share.                                    *)
(***************************************************************************)
EXTENDS Discovery, SequenceTheorems, TLAPS

-----------------------------------------------------------------------------
(***************************************************************************)
(* Part 1: types.  What is left to register is a suffix of the names of a  *)
(* service, and an entry changes its check and nothing else.               *)
(***************************************************************************)
Rest(s) == {SubSeq(Registers[s], i, Len(Registers[s])) : i \in 1 .. Len(Registers[s]) + 1}

Entries(n) ==
    {<<[process |-> p, check |-> c]>> :
        p \in {p \in Processes : n \in NamesOf(p)}, c \in {"new", "passing", "critical"}}

LEMMA RestTail ==
  ASSUME NEW s \in Services, NEW q \in Rest(s), q # <<>>
  PROVE  /\ Head(q) \in {Registers[s][i] : i \in 1 .. Len(Registers[s])}
         /\ Head(q) \in Names
         /\ Tail(q) \in Rest(s)
  <1> DEFINE r == Registers[s]
  <1>1. r \in Seq(Names)
    BY NamesAssumption
  <1>2. Len(r) \in Nat
    BY <1>1
  <1>3. PICK i \in 1 .. Len(r) + 1 : q = SubSeq(r, i, Len(r))
    BY DEF Rest
  <1>4. i \in 1 .. Len(r)
    <2>1. ASSUME i = Len(r) + 1 PROVE FALSE
      BY <1>2, <1>3, <2>1, SubSeqEmpty
    <2> QED
      BY <1>2, <2>1
  <1>5. Head(q) = r[i] /\ Tail(q) = SubSeq(r, i + 1, Len(r))
    BY <1>1, <1>2, <1>3, <1>4, HeadTailOfSubSeq
  <1>6. r[i] \in Names
    BY <1>1, <1>4
  <1>7. i + 1 \in 1 .. Len(r) + 1
    BY <1>2, <1>4
  <1> QED
    BY <1>4, <1>5, <1>6, <1>7 DEF Rest

LEMMA RestAll ==
  ASSUME NEW s \in Services
  PROVE  Registers[s] \in Rest(s) /\ <<>> \in Rest(s)
  <1> DEFINE r == Registers[s]
  <1>1. r \in Seq(Names) /\ Len(r) \in Nat
    BY NamesAssumption
  <1>2. r = SubSeq(r, 1, Len(r))
    BY <1>1, SubSeqFull
  <1>3. <<>> = SubSeq(r, Len(r) + 1, Len(r))
    <2>1. Len(r) + 1 \in Int /\ Len(r) \in Int /\ Len(r) < Len(r) + 1
      BY <1>1
    <2> HIDE DEF r
    <2> QED
      BY <2>1, SubSeqEmpty
  <1>4. 1 \in 1 .. Len(r) + 1 /\ Len(r) + 1 \in 1 .. Len(r) + 1
    BY <1>1
  <1> QED
    BY <1>2, <1>3, <1>4, Zenon DEF Rest

\* TypeOK with Rest and Entries in the place of what they abbreviate.
Typed ==
    /\ phase \in [Processes -> {"down", "resolving", "listening", "ready"}]
    /\ known \in [Processes -> [Names -> Processes \union {Nowhere, Localhost}]]
    /\ tries \in [Processes -> [Names -> 0 .. Tries - 1]]
    /\ \A p \in Processes : todo[p] \in Rest(Service[p])
    /\ todo = [p \in Processes |-> todo[p]]
    /\ sick \subseteq {p \in Processes : phase[p] = "ready"}
    /\ \A n \in Names : catalog[n] \in Entries(n) \union {<<>>}
    /\ catalog = [n \in Names |-> catalog[n]]
    /\ due \in [Names -> Processes \union {Nowhere}]
    /\ request \in [Processes -> {"idle", "resolving", "calling", "failed"}]
    /\ faults \in 0 .. MaxFaults

LEMMA TypedIsTypeOK == Typed => TypeOK
  BY DEF Typed, TypeOK, Rest, Entries

LEMMA ServiceOfProcess == \A p \in Processes : Service[p] \in Services /\ NeededBy(p) \subseteq Names
  BY NamesAssumption DEF Services, NeededBy

LEMMA TypeInit == Init => Typed
  BY ServiceOfProcess, RestAll, TriesAssumption, DiscoveryFaultsAssumption
  DEF Init, Typed

LEMMA ListedIsEntry ==
  ASSUME Typed, NEW n \in Names, Listed(n)
  PROVE  /\ catalog[n] \in Entries(n)
         /\ Entry(n).process \in Processes
  <1>1. catalog[n] \in Entries(n)
    BY DEF Typed, Listed
  <1>2. PICK p \in Processes, c \in {"new", "passing", "critical"} :
          catalog[n] = <<[process |-> p, check |-> c]>>
    BY <1>1 DEF Entries
  <1> QED
    BY <1>1, <1>2 DEF Entry

LEMMA Polled ==
  ASSUME Typed, NEW n \in Names, Poll(n)
  PROVE  /\ \A m \in Names : m # n => catalog'[m] = catalog[m]
         /\ catalog' = [m \in Names |-> catalog'[m]]
         /\ catalog'[n] \in Entries(n)
         /\ catalog'[n] # <<>>
         /\ catalog'[n][1].process = catalog[n][1].process
         /\ catalog'[n][1].check = PollResult(catalog[n][1].process, catalog[n][1].check)
  <1>1. Listed(n) /\ catalog = [m \in Names |-> catalog[m]]
    BY DEF Poll, Typed
  <1>2. PICK p \in Processes, d \in {"new", "passing", "critical"} :
          n \in NamesOf(p) /\ catalog[n] = <<[process |-> p, check |-> d]>>
    BY <1>1, ListedIsEntry DEF Entries
  <1>3. Entry(n).process = p
    BY <1>2 DEF Entry
  <1>4. PICK c \in {"new", "passing", "critical"} :
          /\ catalog' = [catalog EXCEPT ![n][1].check = c]
          /\ c = PollResult(p, d)
    <2>1. PollResult(p, d) \in {"new", "passing", "critical"}
      BY DEF PollResult
    <2>2. catalog[n][1].check = d
      BY <1>2
    <2>3. catalog' = [catalog EXCEPT ![n][1].check = PollResult(p, @)]
      BY <1>3 DEF Poll
    <2>4. catalog' = [catalog EXCEPT ![n][1].check = PollResult(p, d)]
      BY <2>2, <2>3
    <2> QED
      BY <2>1, <2>4
  <1>5. catalog'[n] = <<[process |-> p, check |-> c]>>
    BY <1>1, <1>2, <1>4
  <1>6. /\ \A m \in Names : m # n => catalog'[m] = catalog[m]
        /\ catalog' = [m \in Names |-> catalog'[m]]
    BY <1>1, <1>4
  <1>7. catalog'[n] \in Entries(n)
    BY <1>2, <1>5 DEF Entries
  <1>8. /\ catalog'[n] # <<>>
        /\ catalog'[n][1].process = p /\ catalog[n][1].process = p /\ catalog[n][1].check = d
        /\ catalog'[n][1].check = c
    BY <1>2, <1>5
  <1> QED
    BY <1>4, <1>6, <1>7, <1>8

LEMMA TypeForget ==
  ASSUME Typed, NEW p \in Processes, NEW next \in {"down", "resolving"}, Forget(p, next),
         UNCHANGED catalog, faults' \in 0 .. MaxFaults
  PROVE  Typed'
  <1> USE ServiceOfProcess, RestAll, TriesAssumption DEF Typed, Forget, Ails
  <1>1. /\ phase' \in [Processes -> {"down", "resolving", "listening", "ready"}]
        /\ known' \in [Processes -> [Names -> Processes \union {Nowhere, Localhost}]]
        /\ tries' \in [Processes -> [Names -> 0 .. Tries - 1]]
    OBVIOUS
  <1>2. /\ \A q \in Processes : todo'[q] \in Rest(Service[q])
        /\ todo' = [q \in Processes |-> todo'[q]]
    OBVIOUS
  <1>3. sick' \subseteq {q \in Processes : phase'[q] = "ready"}
    OBVIOUS
  <1>4. request' \in [Processes -> {"idle", "resolving", "calling", "failed"}]
    OBVIOUS
  <1> QED
    BY <1>1, <1>2, <1>3, <1>4

LEMMA TypeResolve ==
  ASSUME Typed, NEW p \in Processes, NEW n \in Names, Resolve(p, n)
  PROVE  Typed'
  <1> USE DiscoveryFaultsAssumption, TriesAssumption DEF Typed
  <1>1. ASSUME InVain(p, n) PROVE faults' \in 0 .. MaxFaults
    BY <1>1 DEF InVain, Fault
  <1>2. CASE Discovered(p, n)
    <2>1. Entry(n).process \in Processes
      BY <1>2, ListedIsEntry DEF Discovered, Passing
    <2> QED
      BY <1>2, <2>1 DEF Discovered, AsksOn
  <1>3. CASE Retry(p, n)
    BY <1>1, <1>3 DEF Retry
  <1>4. CASE Abort(p, n)
    BY <1>1, <1>4, TypeForget DEF Abort, OutOfTries
  <1>5. CASE FallBack(p, n)
    BY <1>1, <1>5 DEF FallBack, OutOfTries
  <1> QED
    BY <1>2, <1>3, <1>4, <1>5 DEF Resolve

LEMMA TypeListing ==
  ASSUME Typed, NEW p \in Processes,
         Listen(p) \/ Register(p) \/ RegisterFails(p) \/ ListenHttp(p)
  PROVE  Typed'
  <1> USE DiscoveryFaultsAssumption, TriesAssumption DEF Typed
  <1>1. CASE Listen(p)
    BY <1>1 DEF Listen
  <1>2. ASSUME todo[p] # <<>>
        PROVE  /\ Head(todo[p]) \in NamesOf(p)
               /\ Head(todo[p]) \in Names
               /\ Tail(todo[p]) \in Rest(Service[p])
    BY <1>2, ServiceOfProcess, RestTail DEF NamesOf
  <1>3. CASE Register(p)
    <2> DEFINE e == <<[process |-> p, check |-> "new"]>>
    <2>1. e \in Entries(Head(todo[p]))
      BY <1>2, <1>3 DEF Register, Entries
    <2>2. /\ catalog' = [catalog EXCEPT ![Head(todo[p])] = e]
          /\ todo' = [todo EXCEPT ![p] = Tail(@)]
          /\ due' = [due EXCEPT ![Head(todo[p])] = p]
          /\ UNCHANGED <<phase, known, tries, sick, request, faults>>
      BY <1>3 DEF Register
    <2>3. \A q \in Processes : todo'[q] \in Rest(Service[q])
      BY <1>2, <1>3, <2>2 DEF Register
    <2>4. \A n \in Names : catalog'[n] \in Entries(n) \union {<<>>}
      BY <1>2, <2>1, <2>2
    <2>5. /\ todo' = [q \in Processes |-> todo'[q]]
          /\ catalog' = [n \in Names |-> catalog'[n]]
      BY <2>2
    <2>6. due' \in [Names -> Processes \union {Nowhere}]
      BY <2>2
    <2> QED
      BY <2>2, <2>3, <2>4, <2>5, <2>6, Zenon
  <1>4. CASE RegisterFails(p)
    <2>1. faults' \in 0 .. MaxFaults
      BY <1>4 DEF RegisterFails, Fault
    <2>2. /\ todo' = [todo EXCEPT ![p] = Tail(@)]
          /\ UNCHANGED <<phase, known, tries, sick, catalog, due, request>>
      BY <1>4 DEF RegisterFails
    <2>3. /\ \A q \in Processes : todo'[q] \in Rest(Service[q])
          /\ todo' = [q \in Processes |-> todo'[q]]
      BY <1>2, <1>4, <2>2 DEF RegisterFails
    <2> QED
      BY <2>1, <2>2, <2>3, Zenon
  <1>5. CASE ListenHttp(p)
    BY <1>5 DEF ListenHttp
  <1> QED
    BY <1>1, <1>3, <1>4, <1>5

LEMMA TypeProcess ==
  ASSUME Typed, NEW p \in Processes,
         Start(p) \/ Stop(p) \/ Sicken(p) \/ Recover(p) \/ GetLogs(p) \/ Unresolved(p) \/ Call(p)
  PROVE  Typed'
  <1> USE DiscoveryFaultsAssumption, TriesAssumption DEF Typed
  <1>1. CASE Start(p)
    BY <1>1, TypeForget DEF Start
  <1>2. CASE Stop(p)
    BY <1>2, TypeForget DEF Stop, Fault
  <1>3. CASE Sicken(p) \/ Recover(p)
    BY <1>3 DEF Sicken, Recover, Fault, Ails
  <1>4. CASE GetLogs(p) \/ Call(p)
    <2>1. UNCHANGED <<phase, known, tries, todo, sick, catalog, due, faults>>
      BY <1>4 DEF GetLogs, Call
    <2>2. request' \in [Processes -> {"idle", "resolving", "calling", "failed"}]
      BY <1>4 DEF GetLogs, Call
    <2> QED
      BY <2>1, <2>2, Zenon
  <1>5. CASE Unresolved(p)
    BY <1>5, NamesAssumption DEF Unresolved, OutOfTries, InVain, Fault
  <1> QED
    BY <1>1, <1>2, <1>3, <1>4, <1>5

LEMMA TypeConsul ==
  ASSUME Typed, NEW n \in Names, Poll(n) \/ DeregisterCritical(n)
  PROVE  Typed'
  <1> USE DEF Typed
  <1>1. CASE Poll(n)
    <2>1. UNCHANGED <<phase, known, tries, todo, sick, request, faults>>
      BY <1>1 DEF Poll
    <2>2. /\ \A m \in Names : catalog'[m] \in Entries(m) \union {<<>>}
          /\ catalog' = [m \in Names |-> catalog'[m]]
      BY <1>1, Polled
    <2>3. due' \in [Names -> Processes \union {Nowhere}]
      BY <1>1, ListedIsEntry DEF Poll
    <2> QED
      BY <2>1, <2>2, <2>3, Zenon
  <1>2. CASE DeregisterCritical(n)
    BY <1>2 DEF DeregisterCritical
  <1> QED
    BY <1>1, <1>2

LEMMA TypeNext == Typed /\ [Next]_vars => Typed'
  <1> SUFFICES ASSUME Typed, [Next]_vars PROVE Typed'
    OBVIOUS
  <1>1. CASE UNCHANGED vars
    BY <1>1 DEF vars, Typed
  <1>2. ASSUME NEW p \in Processes, Boot(p) PROVE Typed'
    BY <1>2, ServiceOfProcess, TypeResolve, TypeListing DEF Boot
  <1>3. ASSUME NEW p \in Processes, Audit(p) PROVE Typed'
    BY <1>3, NamesAssumption, TypeResolve, TypeProcess DEF Audit, Resolve
  <1> QED
    BY <1>1, <1>2, <1>3, TypeProcess, TypeConsul DEF Next

\* Every variable of the processes and of Consul keeps its type.
THEOREM DiscoveryTypeCorrect == Spec => []TypeOK
  <1>1. Spec => []Typed
    BY TypeInit, TypeNext, PTL DEF Spec
  <1> QED
    BY <1>1, TypedIsTypeOK, PTL

-----------------------------------------------------------------------------
(***************************************************************************)
(* Part 2: the order of the starts.  A process without a fallback knows    *)
(* processes only; and until something fails an entry that passes, and     *)
(* what has been made of one, is of a process that is up.                  *)
(***************************************************************************)
NoGuess ==
    \A p \in Processes : \A n \in NeededBy(p) :
        /\ Service[p] \notin FallsBack => known[p][n] # Localhost
        /\ phase[p] \in {"listening", "ready"} => known[p][n] # Nowhere

UpWithoutFaults ==
    faults = 0 =>
        /\ \A n \in Names : Passing(n) => phase[Entry(n).process] = "ready"
        /\ \A p \in Processes, n \in Names :
              known[p][n] \in Processes => phase[known[p][n]] = "ready"

OInv == Typed /\ NoGuess /\ UpWithoutFaults

LEMMA OrderInit == Init => NoGuess /\ UpWithoutFaults
  BY ServiceOfProcess, AddressesAssumption
  DEF Init, NoGuess, UpWithoutFaults, Passing, Listed

LEMMA OrderImplies == OInv => StartedInOrder
  BY ServiceOfProcess DEF OInv, Typed, NoGuess, UpWithoutFaults, StartedInOrder

LEMMA OrderResolve ==
  ASSUME OInv, NEW p \in Processes, NEW n \in Names, Resolve(p, n)
  PROVE  NoGuess' /\ UpWithoutFaults'
  <1> USE ServiceOfProcess, AddressesAssumption, DiscoveryFaultsAssumption
      DEF OInv, Typed, NeededBy
  <1>1. CASE Discovered(p, n)
    <2>1. Entry(n).process \in Processes
      BY <1>1, ListedIsEntry DEF Discovered, Passing
    <2>2. /\ known' = [known EXCEPT ![p][n] = Entry(n).process]
          /\ UNCHANGED <<phase, catalog, faults>> /\ Passing(n)
      BY <1>1 DEF Discovered
    <2>3. NoGuess'
      BY <2>1, <2>2 DEF NoGuess
    <2>4. UpWithoutFaults'
      BY <2>1, <2>2 DEF UpWithoutFaults, Passing, Listed, Entry
    <2> QED
      BY <2>3, <2>4
  <1>2. CASE Retry(p, n)
    <2>1. UNCHANGED <<phase, known, catalog>> /\ (faults' = 0 => faults = 0)
      BY <1>2 DEF Retry, InVain, Fault
    <2> QED
      BY <2>1 DEF NoGuess, UpWithoutFaults, Passing, Listed, Entry
  <1>3. CASE Abort(p, n)
    <2>1. /\ phase[p] = "resolving" /\ UNCHANGED catalog /\ (faults' = 0 => faults = 0)
          /\ phase' = [phase EXCEPT ![p] = "down"]
          /\ known' = [known EXCEPT ![p] = [m \in Names |-> Nowhere]]
      BY <1>3 DEF Abort, OutOfTries, InVain, Fault, Forget
    <2>2. NoGuess'
      BY <2>1 DEF NoGuess
    <2>3. UpWithoutFaults'
      BY <2>1, ListedIsEntry DEF UpWithoutFaults, Passing, Listed, Entry
    <2> QED
      BY <2>2, <2>3
  <1>4. CASE FallBack(p, n)
    <2>1. /\ phase[p] = "resolving" /\ Service[p] \in FallsBack
          /\ UNCHANGED <<phase, catalog>> /\ (faults' = 0 => faults = 0)
          /\ known' = [known EXCEPT ![p][n] = Localhost]
      BY <1>4 DEF FallBack, OutOfTries, InVain, Fault
    <2>2. NoGuess'
      BY <2>1 DEF NoGuess
    <2>3. UpWithoutFaults'
      BY <2>1 DEF UpWithoutFaults, Passing, Listed, Entry
    <2> QED
      BY <2>2, <2>3
  <1> QED
    BY <1>1, <1>2, <1>3, <1>4 DEF Resolve

LEMMA OrderProcess ==
  ASSUME OInv, NEW p \in Processes,
         \/ Start(p) \/ Listen(p) \/ Register(p) \/ RegisterFails(p) \/ ListenHttp(p)
         \/ Stop(p) \/ Sicken(p) \/ Recover(p)
         \/ GetLogs(p) \/ Unresolved(p) \/ Call(p)
  PROVE  NoGuess' /\ UpWithoutFaults'
  <1> USE ServiceOfProcess, AddressesAssumption, DiscoveryFaultsAssumption
      DEF OInv, Typed, NeededBy
  <1>1. CASE Start(p)
    <2>1. /\ phase[p] = "down" /\ UNCHANGED <<catalog, faults>>
          /\ phase' = [phase EXCEPT ![p] = "resolving"]
          /\ known' = [known EXCEPT ![p] = [m \in Names |-> Nowhere]]
      BY <1>1 DEF Start, Forget
    <2>2. NoGuess'
      BY <2>1 DEF NoGuess
    <2>3. UpWithoutFaults'
      BY <2>1, ListedIsEntry DEF UpWithoutFaults, Passing, Listed, Entry
    <2> QED
      BY <2>2, <2>3
  <1>2. CASE Listen(p) \/ ListenHttp(p)
    <2>1. PICK next \in {"listening", "ready"} :
            /\ phase' = [phase EXCEPT ![p] = next]
            /\ phase[p] # "ready"
            /\ UNCHANGED <<known, catalog, faults>>
            /\ \A n \in NeededBy(p) : known[p][n] # Nowhere
      BY <1>2 DEF Listen, ListenHttp, NoGuess
    <2>2. NoGuess'
      BY <2>1 DEF NoGuess
    <2>3. UpWithoutFaults'
      BY <2>1, ListedIsEntry DEF UpWithoutFaults, Passing, Listed, Entry
    <2> QED
      BY <2>2, <2>3
  <1>3. CASE Register(p)
    <2> DEFINE e == <<[process |-> p, check |-> "new"]>>
    <2>1. /\ catalog' = [catalog EXCEPT ![Head(todo[p])] = e]
          /\ UNCHANGED <<phase, known, faults>>
      BY <1>3 DEF Register
    <2>2. NoGuess'
      BY <2>1 DEF NoGuess
    <2>3. \A n \in Names : Passing(n)' => Passing(n) /\ catalog'[n] = catalog[n]
      BY <2>1 DEF Passing, Listed, Entry
    <2>4. UpWithoutFaults'
      BY <2>1, <2>3 DEF UpWithoutFaults, Entry
    <2> QED
      BY <2>2, <2>4
  <1>4. CASE Stop(p)
    <2>1. faults' # 0
      BY <1>4 DEF Stop, Fault
    <2>2. /\ phase' = [phase EXCEPT ![p] = "down"]
          /\ known' = [known EXCEPT ![p] = [m \in Names |-> Nowhere]]
      BY <1>4 DEF Stop, Forget
    <2>3. NoGuess'
      BY <2>2 DEF NoGuess
    <2> QED
      BY <2>1, <2>3 DEF UpWithoutFaults
  <1>5. CASE RegisterFails(p) \/ Sicken(p) \/ Recover(p) \/ GetLogs(p) \/ Unresolved(p) \/ Call(p)
    <2>1. UNCHANGED <<phase, known, catalog>> /\ (faults' = 0 => faults = 0)
      BY <1>5
      DEF RegisterFails, Sicken, Recover, GetLogs, Unresolved, Call, OutOfTries, InVain, Fault
    <2> QED
      BY <2>1 DEF NoGuess, UpWithoutFaults, Passing, Listed, Entry
  <1> QED
    BY <1>1, <1>2, <1>3, <1>4, <1>5

LEMMA OrderConsul ==
  ASSUME OInv, NEW n \in Names, Poll(n) \/ DeregisterCritical(n)
  PROVE  NoGuess' /\ UpWithoutFaults'
  <1> USE DEF OInv, Typed
  <1>1. UNCHANGED <<phase, known, faults>>
    BY DEF Poll, DeregisterCritical
  <1>2. NoGuess'
    BY <1>1 DEF NoGuess
  <1>3. ASSUME NEW m \in Names, Passing(m)', faults = 0
        PROVE  phase[Entry(m).process]' = "ready"
    <2>1. CASE Poll(n) /\ m = n
      BY <1>1, <1>3, <2>1, Polled DEF Passing, Entry, PollResult, Healthy
    <2>2. CASE catalog'[m] = catalog[m]
      BY <1>1, <1>3, <2>2 DEF UpWithoutFaults, Passing, Listed, Entry
    <2>3. CASE DeregisterCritical(n) /\ m = n
      BY <1>3, <2>3 DEF DeregisterCritical, Passing, Listed
    <2> QED
      BY <2>1, <2>2, <2>3 DEF Poll, DeregisterCritical
  <1> QED
    BY <1>1, <1>2, <1>3 DEF UpWithoutFaults

LEMMA OrderNext == OInv /\ [Next]_vars => NoGuess' /\ UpWithoutFaults'
  <1> SUFFICES ASSUME OInv, [Next]_vars PROVE NoGuess' /\ UpWithoutFaults'
    OBVIOUS
  <1>1. CASE UNCHANGED vars
    BY <1>1 DEF vars, OInv, NoGuess, UpWithoutFaults, Passing, Listed, Entry
  <1>2. ASSUME NEW p \in Processes, Boot(p) PROVE NoGuess' /\ UpWithoutFaults'
    BY <1>2, ServiceOfProcess, OrderResolve, OrderProcess DEF Boot
  <1>3. ASSUME NEW p \in Processes, Audit(p) PROVE NoGuess' /\ UpWithoutFaults'
    BY <1>3, NamesAssumption, OrderResolve, OrderProcess DEF Audit, Resolve
  <1> QED
    BY <1>1, <1>2, <1>3, OrderProcess, OrderConsul DEF Next

\* The services start in the order of their dependencies: what opens its ports
\* has found a process for every name, and one that is up unless something failed.
THEOREM StartsInOrder == Spec => []StartedInOrder
  <1>1. Init => OInv
    BY TypeInit, OrderInit DEF OInv
  <1>2. OInv /\ [Next]_vars => OInv'
    BY TypeNext, OrderNext DEF OInv
  <1> QED
    BY <1>1, <1>2, OrderImplies, PTL DEF Spec

-----------------------------------------------------------------------------
(***************************************************************************)
(* Part 3: the shared ids.  While a name is due to a process, the entry is *)
(* of this process, and no poll of it has failed: it runs, it is not sick, *)
(* and when its HTTP port is not open yet the entry is new.                *)
(***************************************************************************)
DueIsListed ==
    \A n \in Names : due[n] # Nowhere =>
        /\ Listed(n) /\ Entry(n).process = due[n] /\ Entry(n).check # "critical"
        /\ due[n] \notin sick
        /\ \/ phase[due[n]] = "ready"
           \/ phase[due[n]] = "listening" /\ Entry(n).check = "new"

LEMMA DueInit == Init => DueIsListed
  BY DEF Init, DueIsListed

\* A step that touches neither the catalog nor the health of anybody.
LEMMA DueUntouched ==
  ASSUME DueIsListed, UNCHANGED <<phase, sick, catalog, due>>
  PROVE  DueIsListed'
  BY DEF DueIsListed, Listed, Entry

LEMMA DueForget ==
  ASSUME Typed, DueIsListed, NEW p \in Processes, NEW next, Forget(p, next), UNCHANGED catalog
  PROVE  DueIsListed'
  <1> SUFFICES ASSUME NEW n \in Names, due'[n] # Nowhere
               PROVE  /\ Listed(n)' /\ Entry(n)'.process = due'[n] /\ Entry(n)'.check # "critical"
                      /\ due'[n] \notin sick'
                      /\ \/ phase'[due'[n]] = "ready"
                         \/ phase'[due'[n]] = "listening" /\ Entry(n)'.check = "new"
    BY DEF DueIsListed
  <1>1. due'[n] = due[n] /\ due[n] # p /\ due[n] \in Processes
    BY DEF Forget, Ails, Typed
  <1>2. phase'[due[n]] = phase[due[n]] /\ due[n] \notin sick'
    BY <1>1 DEF Forget, DueIsListed, Typed
  <1> QED
    BY <1>1, <1>2 DEF DueIsListed, Listed, Entry

LEMMA DueStarting ==
  ASSUME Typed, DueIsListed, NEW p \in Processes, Listen(p) \/ ListenHttp(p)
  PROVE  DueIsListed'
  <1>1. PICK next \in {"listening", "ready"} :
          /\ phase' = [phase EXCEPT ![p] = next]
          /\ next = "listening" => phase[p] = "resolving"
          /\ UNCHANGED <<sick, catalog, due>>
    BY DEF Listen, ListenHttp
  <1> QED
    BY <1>1, AddressesAssumption DEF DueIsListed, Listed, Entry, Typed

LEMMA DueRegister ==
  ASSUME Typed, DueIsListed, NEW p \in Processes, Register(p)
  PROVE  DueIsListed'
  <1> DEFINE m == Head(todo[p])
             e == <<[process |-> p, check |-> "new"]>>
  <1>1. /\ phase[p] = "listening" /\ p \notin sick
        /\ catalog' = [catalog EXCEPT ![m] = e] /\ due' = [due EXCEPT ![m] = p]
        /\ UNCHANGED <<phase, sick>>
    BY DEF Register, Typed
  <1>2. e # <<>> /\ e[1].process = p /\ e[1].check = "new"
    OBVIOUS
  <1>3. catalog = [n \in Names |-> catalog[n]] /\ due \in [Names -> Processes \union {Nowhere}]
    BY DEF Typed
  <1> HIDE DEF e, m
  <1>4. \A n \in Names : \/ catalog'[n] = e /\ due'[n] = p
                         \/ catalog'[n] = catalog[n] /\ due'[n] = due[n]
    BY <1>1, <1>3
  <1> QED
    BY <1>1, <1>2, <1>4 DEF DueIsListed, Listed, Entry

LEMMA DueSicken ==
  ASSUME Typed, DueIsListed, NEW p \in Processes, Sicken(p) \/ Recover(p)
  PROVE  DueIsListed'
  <1>1. UNCHANGED <<phase, catalog>>
    BY DEF Sicken, Recover
  <1>2. \A n \in Names : due'[n] # Nowhere =>
          due'[n] = due[n] /\ (due[n] \notin sick => due[n] \notin sick')
    BY DEF Sicken, Recover, Ails, Typed
  <1> QED
    BY <1>1, <1>2 DEF DueIsListed, Listed, Entry

LEMMA DueConsul ==
  ASSUME Typed, DueIsListed, NEW m \in Names, Poll(m) \/ DeregisterCritical(m)
  PROVE  DueIsListed'
  <1>1. CASE DeregisterCritical(m)
    <2>1. /\ UNCHANGED <<phase, sick, due>> /\ due[m] = Nowhere
          /\ \A n \in Names \ {m} : catalog'[n] = catalog[n]
      BY <1>1 DEF DeregisterCritical, DueIsListed, Typed
    <2> QED
      BY <2>1 DEF DueIsListed, Listed, Entry
  <1>2. CASE Poll(m)
    <2>0. PICK c : c = catalog[m][1].check
      OBVIOUS
    <2>1. PICK p \in Processes : p = catalog[m][1].process
      BY <1>2, ListedIsEntry DEF Poll, Entry
    <2>2. /\ \A n \in Names \ {m} : catalog'[n] = catalog[n]
          /\ catalog'[m] # <<>> /\ catalog'[m][1].process = p
          /\ catalog'[m][1].check = PollResult(p, c)
      BY <1>2, <2>0, <2>1, Polled
    <2>3. /\ UNCHANGED <<phase, sick>>
          /\ \A n \in Names \ {m} : due'[n] = due[n]
          /\ due'[m] = IF Healthy(p) THEN p ELSE due[m]
      BY <1>2, <2>1 DEF Poll, Entry, Typed
    <2>4. ASSUME due'[m] # Nowhere
          PROVE  /\ due'[m] = p /\ p \notin sick /\ PollResult(p, c) # "critical"
                 /\ \/ phase[p] = "ready"
                    \/ phase[p] = "listening" /\ PollResult(p, c) = "new"
      <3>1. CASE Healthy(p)
        BY <2>3, <3>1 DEF Healthy, PollResult
      <3>2. CASE ~Healthy(p)
        <4>1. /\ due'[m] = p /\ p \notin sick
              /\ phase[p] = "ready" \/ (phase[p] = "listening" /\ c = "new")
          BY <2>0, <2>1, <2>3, <2>4, <3>2 DEF DueIsListed, Entry
        <4> QED
          BY <3>2, <4>1 DEF Healthy, PollResult
      <3> QED
        BY <3>1, <3>2
    <2> QED
      BY <2>2, <2>3, <2>4 DEF DueIsListed, Listed, Entry
  <1> QED
    BY <1>1, <1>2

LEMMA DueNext == Typed /\ DueIsListed /\ [Next]_vars => DueIsListed'
  <1> SUFFICES ASSUME Typed, DueIsListed, [Next]_vars PROVE DueIsListed'
    OBVIOUS
  <1>1. CASE UNCHANGED vars
    BY <1>1, DueUntouched DEF vars
  <1>2. ASSUME NEW p \in Processes, NEW n, Resolve(p, n) PROVE DueIsListed'
    BY <1>2, DueUntouched, DueForget DEF Resolve, Discovered, Retry, Abort, FallBack
  <1>3. ASSUME NEW p \in Processes, Boot(p) PROVE DueIsListed'
    BY <1>2, <1>3, DueStarting, DueRegister, DueUntouched DEF Boot, RegisterFails
  <1>4. ASSUME NEW p \in Processes, Audit(p) PROVE DueIsListed'
    BY <1>4, DueUntouched DEF Audit, Discovered, Retry, Unresolved, Call
  <1>5. ASSUME NEW p \in Processes,
               Start(p) \/ Stop(p) \/ Sicken(p) \/ Recover(p) \/ GetLogs(p)
        PROVE  DueIsListed'
    BY <1>5, DueForget, DueSicken, DueUntouched DEF Start, Stop, GetLogs
  <1> QED
    BY <1>1, <1>3, <1>4, <1>5, DueConsul DEF Next

\* However the processes of a service come and go, and whatever fails: the last of
\* them to register a name, or to pass a poll of it, is listed as long as it is well.
THEOREM WellIsListed == Spec => []ListedWhileWell
  <1>1. DueIsListed => ListedWhileWell
    BY DEF DueIsListed, ListedWhileWell
  <1> QED
    BY <1>1, TypeInit, TypeNext, DueInit, DueNext, PTL DEF Spec
=============================================================================
