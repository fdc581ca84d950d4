------------------------------- MODULE Search -------------------------------
(***************************************************************************)
(* Searches of the transactions: the index of Elasticsearch that several   *)
(* services make sure of when they start, the documents of the outbox in   *)
(* it, the statistics made of them, and the cache in Redis through which   *)
(* the gateway answers a search, with the lock that is to keep concurrent  *)
(* misses of one key from all asking Elasticsearch.                        *)
(*                                                                         *)
(* OutboxRelay has the way of a document into the index, here one step.    *)
(***************************************************************************)
EXTENDS Integers, FiniteSets

CONSTANTS
    Users,       \* the users
    Transfers,   \* the transfers of a behaviour
    Parties,     \* Parties[t]: sender and receiver
    Day,         \* Day[t]: when the transfer is made
    Services,    \* those that import SearchModule
    Requests,    \* the HTTP requests of a search
    Wanted,      \* Wanted[r]: user, status ("" for any) and first day of the search
    Faults,      \* the faults that may happen
    MaxFaults,   \* how many faults a behaviour has at most
    NoRequest,   \* the holder of a free lock
    NoEntry      \* a key that Redis does not have

(***************************************************************************)
(* "search": Elasticsearch does not answer.  "redis": Redis does not.      *)
(* "slow": a request takes longer than the five seconds of its lock.       *)
(***************************************************************************)
FaultKinds == {"search", "redis", "slow"}

ASSUME ServicesAssumption == {"wallet", "gateway"} \subseteq Services
ASSUME PartiesAssumption == Parties \in [Transfers -> [sender : Users, receiver : Users]]
ASSUME DayAssumption == Day \in [Transfers -> Nat]
ASSUME WantedAssumption ==
    Wanted \in [Requests -> [user : Users, status : {"", "PENDING", "SUCCESS", "FAILED"}, since : Nat]]
ASSUME SearchFaultsAssumption == Faults \subseteq FaultKinds /\ MaxFaults \in Nat
ASSUME NoRequestAssumption == NoRequest \notin Requests

\* startDate and endDate are no part of the key.
CacheKey(search) == [user |-> search.user, status |-> search.status]

\* Mutant of KeyOf: nor is the user.
KeyWithoutUser(r) == [CacheKey(Wanted[r]) EXCEPT !.user = CHOOSE u \in Users : TRUE]

KeyOf(r) == CacheKey(Wanted[r])
CacheKeys == {KeyOf(r) : r \in Requests}

VARIABLES
    status,    \* status[t]: column status of the transaction
    boot,      \* boot[s]: how far service s is with ensureIndex()
    mapping,   \* the mapping of the index, "none" where there is no index
    document,  \* document[t]: field status of the document, "none" where there is none
    entry,     \* entry[k]: the value of k in Redis
    lock,      \* lock[k]: the request whose SET NX made `${k}:lock`
    pc,        \* pc[r]: the statement of getOrSet() r is at
    answer,    \* answer[r]: the transfers that r has got
    overrun,   \* the keys whose lock has expired in the hands of its holder
    faults     \* how many faults there have been

elastic == <<boot, mapping, document>>
redis == <<entry, lock>>
requests == <<pc, answer>>
vars == <<status, elastic, redis, requests, overrun, faults>>

Init ==
    /\ status = [t \in Transfers |-> "none"]
    /\ boot = [s \in Services |-> "starting"]
    /\ mapping = "none"
    /\ document = [t \in Transfers |-> "none"]
    /\ entry = [k \in CacheKeys |-> NoEntry]
    /\ lock = [k \in CacheKeys |-> NoRequest]
    /\ pc = [r \in Requests |-> "idle"]
    /\ answer = [r \in Requests |-> {}]
    /\ overrun = {}
    /\ faults = 0

Fault(kind) ==
    /\ kind \in Faults
    /\ faults < MaxFaults
    /\ faults' = faults + 1

-----------------------------------------------------------------------------
(***************************************************************************)
(* SearchService.ensureIndex, which onModuleInit() waits for.              *)
(***************************************************************************)
Ensured(s, stage) == boot' = [boot EXCEPT ![s] = stage]

IndexExists(s) ==
    /\ boot[s] = "starting"
    /\ Ensured(s, IF mapping = "none" THEN "absent" ELSE "ready")
    /\ UNCHANGED <<status, mapping, document, redis, requests, overrun, faults>>

\* create() throws where another service was faster: the error is only logged.
CreateIndex(s) ==
    /\ boot[s] = "absent"
    /\ mapping' = IF mapping = "none" THEN "explicit" ELSE mapping
    /\ Ensured(s, "ready")
    /\ UNCHANGED <<status, document, redis, requests, overrun, faults>>

EnsureFails(s) ==
    /\ boot[s] \in {"starting", "absent"}
    /\ Fault("search")
    /\ Ensured(s, "ready")
    /\ UNCHANGED <<status, mapping, document, redis, requests, overrun>>

-----------------------------------------------------------------------------
(***************************************************************************)
(* The transactions and their documents.                                   *)
(***************************************************************************)
Transfer(t) ==
    /\ status[t] = "none"
    /\ status' = [status EXCEPT ![t] = "PENDING"]
    /\ UNCHANGED <<elastic, redis, requests, overrun, faults>>

Settle(t) ==
    /\ status[t] = "PENDING"
    /\ \E s \in {"SUCCESS", "FAILED"} : status' = [status EXCEPT ![t] = s]
    /\ UNCHANGED <<elastic, redis, requests, overrun, faults>>

\* Mutant of RelayRuns: the hook of SearchService is not waited for.
RelayRunsAtOnce == TRUE

\* The wallet service starts the interval of the relay after ensureIndex().
RelayRuns == boot["wallet"] = "ready"

\* Mutant of PayloadStatus: the type of the outbox record.
PayloadType == "TRANSACTION_CREATED"

\* The payload of the only outbox record: the transaction as it was committed.
PayloadStatus == "PENDING"

\* An index that is not there yet is made by the first document, with a mapping
\* of Elasticsearch's choice.
IndexTransaction(t) ==
    /\ status[t] # "none" /\ RelayRuns
    /\ document[t] = "none"
    /\ document' = [document EXCEPT ![t] = PayloadStatus]
    /\ mapping' = IF mapping = "none" THEN "dynamic" ELSE mapping
    /\ UNCHANGED <<status, boot, redis, requests, overrun, faults>>

\* keyword fields are compared as they are; in a dynamic mapping ids and status
\* are analysed text, and no term filter matches them.
Matching(u, s) ==
    {t \in Transfers :
       /\ mapping = "explicit" /\ document[t] # "none"
       /\ s \in {"", document[t]}
       /\ u \in {Parties[t].sender, Parties[t].receiver}}

Found(search) == {t \in Matching(search.user, search.status) : Day[t] >= search.since}

\* What the statistics of u count.
FinancialStats(u) == Matching(u, "SUCCESS")

-----------------------------------------------------------------------------
(***************************************************************************)
(* SearchController.searchTransactions: CacheService.getOrSet.             *)
(***************************************************************************)
Goto(r, next) == pc' = [pc EXCEPT ![r] = next]

\* The gateway listens when its hooks are through.
Ask(r) ==
    /\ pc[r] = "idle" /\ boot["gateway"] = "ready"
    /\ Goto(r, "get")
    /\ UNCHANGED <<status, elastic, redis, answer, overrun, faults>>

GetEntry(r) ==
    /\ pc[r] = "get"
    /\ IF entry[KeyOf(r)] = NoEntry
       THEN Goto(r, "lock") /\ UNCHANGED answer
       ELSE Goto(r, "done") /\ answer' = [answer EXCEPT ![r] = entry[KeyOf(r)].hits]
    /\ UNCHANGED <<status, elastic, redis, overrun, faults>>

\* Mutant of AcquireLock: SET without NX.
AcquireAnyLock(r) ==
    /\ pc[r] = "lock"
    /\ lock' = [lock EXCEPT ![KeyOf(r)] = r]
    /\ Goto(r, "fetch")
    /\ UNCHANGED <<status, elastic, entry, answer, overrun, faults>>

AcquireLock(r) ==
    /\ pc[r] = "lock"
    /\ IF lock[KeyOf(r)] = NoRequest
       THEN lock' = [lock EXCEPT ![KeyOf(r)] = r] /\ Goto(r, "fetch")
       ELSE Goto(r, "wait") /\ UNCHANGED lock
    /\ UNCHANGED <<status, elastic, entry, answer, overrun, faults>>

\* After 200 ms, from the start.
TryAgain(r) ==
    /\ pc[r] = "wait"
    /\ Goto(r, "get")
    /\ UNCHANGED <<status, elastic, redis, answer, overrun, faults>>

Fetch(r) ==
    /\ pc[r] = "fetch" /\ mapping # "none"
    /\ answer' = [answer EXCEPT ![r] = Found(Wanted[r])]
    /\ Goto(r, "store")
    /\ UNCHANGED <<status, elastic, redis, overrun, faults>>

\* There is no finally: the lock stays until it expires.
FetchFails(r) ==
    /\ pc[r] = "fetch"
    /\ IF mapping = "none" THEN UNCHANGED faults ELSE Fault("search")
    /\ Goto(r, "failed")
    /\ UNCHANGED <<status, elastic, redis, answer, overrun>>

Store(r) ==
    /\ pc[r] = "store"
    /\ entry' = [entry EXCEPT ![KeyOf(r)] = [hits |-> answer[r]]]
    /\ Goto(r, "unlock")
    /\ UNCHANGED <<status, elastic, lock, answer, overrun, faults>>

\* DEL does not look whose lock it is.
ReleaseLock(r) ==
    /\ pc[r] = "unlock"
    /\ lock' = [lock EXCEPT ![KeyOf(r)] = NoRequest]
    /\ Goto(r, "done")
    /\ UNCHANGED <<status, elastic, entry, answer, overrun, faults>>

RedisFails(r) ==
    /\ pc[r] \in {"get", "lock", "store", "unlock"}
    /\ Fault("redis")
    /\ Goto(r, "failed")
    /\ UNCHANGED <<status, elastic, redis, answer, overrun>>

Busy(r) == pc[r] \in {"fetch", "store", "unlock"}

\* Mutant of LockExpires: the lock has no EX.
LockStays(k) == FALSE /\ UNCHANGED vars

\* EX 5: the holder has failed, or it is slow.
LockExpires(k) ==
    /\ lock[k] # NoRequest
    /\ IF Busy(lock[k])
       THEN Fault("slow") /\ overrun' = overrun \union {k}
       ELSE UNCHANGED <<faults, overrun>>
    /\ lock' = [lock EXCEPT ![k] = NoRequest]
    /\ UNCHANGED <<status, elastic, entry, requests>>

\* EX 300.
EntryExpires(k) ==
    /\ entry[k] # NoEntry
    /\ entry' = [entry EXCEPT ![k] = NoEntry]
    /\ UNCHANGED <<status, elastic, lock, requests, overrun, faults>>

-----------------------------------------------------------------------------
EnsureIndex(s) == IndexExists(s) \/ CreateIndex(s) \/ EnsureFails(s)

GetOrSet(r) ==
    \/ GetEntry(r) \/ AcquireLock(r) \/ TryAgain(r)
    \/ Fetch(r) \/ FetchFails(r) \/ Store(r) \/ ReleaseLock(r) \/ RedisFails(r)

Next ==
    \/ \E s \in Services : EnsureIndex(s)
    \/ \E t \in Transfers : Transfer(t) \/ Settle(t) \/ IndexTransaction(t)
    \/ \E r \in Requests : Ask(r) \/ GetOrSet(r)
    \/ \E k \in CacheKeys : LockExpires(k) \/ EntryExpires(k)

Spec == Init /\ [][Next]_vars

\* The services run, the relay sends what is in the outbox, and Redis lets the
\* locks expire.
FairSpec ==
    /\ Spec
    /\ \A s \in Services : WF_vars(EnsureIndex(s))
    /\ \A t \in Transfers : WF_vars(IndexTransaction(t))
    /\ \A r \in Requests : WF_vars(GetOrSet(r))
    /\ \A k \in CacheKeys : WF_vars(LockExpires(k))

-----------------------------------------------------------------------------
(***************************************************************************)
(* Properties.                                                             *)
(***************************************************************************)
Statuses == {"none", "PENDING", "SUCCESS", "FAILED"}

TypeOK ==
    /\ status \in [Transfers -> Statuses] /\ document \in [Transfers -> Statuses]
    /\ boot \in [Services -> {"starting", "absent", "ready"}]
    /\ mapping \in {"none", "explicit", "dynamic"}
    /\ entry \in [CacheKeys -> {NoEntry} \union [hits : SUBSET Transfers]]
    /\ lock \in [CacheKeys -> Requests \union {NoRequest}]
    /\ pc \in [Requests -> {"idle", "get", "lock", "wait", "fetch", "store",
                            "unlock", "done", "failed"}]
    /\ answer \in [Requests -> SUBSET Transfers]
    /\ overrun \subseteq CacheKeys /\ faults \in 0 .. MaxFaults

\* Of the requests of one key one at a time asks Elasticsearch and writes the
\* entry, and the lock is its own, as long as none takes longer than the lock: the
\* DEL that does not look whose lock it is never takes away that of another.
OneFetchPerKey ==
    \A r \in Requests : Busy(r) /\ KeyOf(r) \notin overrun => lock[KeyOf(r)] = r

\* Whoever's miss has filled the entry, a request gets only transfers of its own
\* user, and of the status it has asked for.
AnswersTheAsker ==
    \A r \in Requests : \A t \in answer[r] :
       /\ Wanted[r].user \in {Parties[t].sender, Parties[t].receiver}
       /\ Wanted[r].status \in {"", document[t]}

\* The index has the mapping of the code, whichever service makes it and however
\* the starts of the services interleave, unless Elasticsearch has failed.
IndexIsMapped == mapping = "dynamic" => faults > 0

\* Every search is answered, or ends with an error: a request whose fetch throws
\* leaves its lock behind, but not for ever.
EverySearchEnds == \A r \in Requests : pc[r] = "get" ~> pc[r] \in {"done", "failed"}

\* The statistics of the sender count every transfer that succeeds.
StatsCountTransfers ==
    \A t \in Transfers :
       status[t] = "SUCCESS" ~> t \in FinancialStats(Parties[t].sender)
=============================================================================
