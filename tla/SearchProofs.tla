---------------------------- MODULE SearchProofs ----------------------------
(***************************************************************************)
(* Proofs about Search, for any services, transfers, requests and faults:  *)
(* types, the lock of the cache, whose transfers a request gets, and the   *)
(* mapping of the index.                                                   *)
(***************************************************************************)
EXTENDS Search, TLAPS

-----------------------------------------------------------------------------
(***************************************************************************)
(* Part 1: types.                                                          *)
(***************************************************************************)
LEMMA KeysAreKeys == \A r \in Requests : KeyOf(r) \in CacheKeys
  BY DEF CacheKeys

LEMMA FoundAreTransfers == \A r \in Requests : Found(Wanted[r]) \subseteq Transfers
  BY DEF Found, Matching

LEMMA TypeInit == Init => TypeOK
  BY SearchFaultsAssumption DEF Init, TypeOK, Statuses

LEMMA TypeElastic ==
  ASSUME TypeOK, NEW s \in Services, EnsureIndex(s)
  PROVE  TypeOK'
  <1> USE SearchFaultsAssumption DEF TypeOK, redis, requests
  <1>1. CASE IndexExists(s)
    BY <1>1 DEF IndexExists, Ensured
  <1>2. CASE CreateIndex(s)
    BY <1>2 DEF CreateIndex, Ensured
  <1>3. CASE EnsureFails(s)
    BY <1>3 DEF EnsureFails, Ensured, Fault
  <1> QED
    BY <1>1, <1>2, <1>3 DEF EnsureIndex

LEMMA TypeTransfer ==
  ASSUME TypeOK, NEW t \in Transfers, Transfer(t) \/ Settle(t) \/ IndexTransaction(t)
  PROVE  TypeOK'
  <1> USE DEF TypeOK, redis, requests, elastic, Statuses
  <1>1. CASE Transfer(t)
    BY <1>1 DEF Transfer
  <1>2. CASE Settle(t)
    BY <1>2 DEF Settle
  <1>3. CASE IndexTransaction(t)
    BY <1>3 DEF IndexTransaction, PayloadStatus
  <1> QED
    BY <1>1, <1>2, <1>3

LEMMA TypeRequest ==
  ASSUME TypeOK, NEW r \in Requests, Ask(r) \/ GetOrSet(r)
  PROVE  TypeOK'
  <1> USE KeysAreKeys DEF TypeOK, redis, requests, elastic, Goto
  <1>1. CASE Ask(r)
    BY <1>1 DEF Ask
  <1>2. CASE GetEntry(r)
    <2>1. CASE entry[KeyOf(r)] = NoEntry
      BY <1>2, <2>1 DEF GetEntry
    <2>2. CASE entry[KeyOf(r)] # NoEntry
      <3>1. entry[KeyOf(r)].hits \subseteq Transfers
        BY <2>2
      <3> QED
        BY <1>2, <2>2, <3>1 DEF GetEntry
    <2> QED
      BY <2>1, <2>2
  <1>3. CASE AcquireLock(r)
    BY <1>3 DEF AcquireLock
  <1>4. CASE TryAgain(r)
    BY <1>4 DEF TryAgain
  <1>5. CASE Fetch(r)
    BY <1>5, FoundAreTransfers DEF Fetch
  <1>6. CASE FetchFails(r)
    BY <1>6, SearchFaultsAssumption DEF FetchFails, Fault
  <1>7. CASE Store(r)
    BY <1>7 DEF Store
  <1>8. CASE ReleaseLock(r)
    BY <1>8 DEF ReleaseLock
  <1>9. CASE RedisFails(r)
    BY <1>9, SearchFaultsAssumption DEF RedisFails, Fault
  <1> QED
    BY <1>1, <1>2, <1>3, <1>4, <1>5, <1>6, <1>7, <1>8, <1>9 DEF GetOrSet

LEMMA TypeExpiry ==
  ASSUME TypeOK, NEW k \in CacheKeys, LockExpires(k) \/ EntryExpires(k)
  PROVE  TypeOK'
  <1> USE SearchFaultsAssumption DEF TypeOK, redis, requests, elastic
  <1>1. CASE LockExpires(k)
    BY <1>1 DEF LockExpires, Fault
  <1>2. CASE EntryExpires(k)
    BY <1>2 DEF EntryExpires
  <1> QED
    BY <1>1, <1>2

LEMMA TypeNext == TypeOK /\ [Next]_vars => TypeOK'
  <1> SUFFICES ASSUME TypeOK, [Next]_vars PROVE TypeOK'
    OBVIOUS
  <1>1. CASE UNCHANGED vars
    BY <1>1 DEF vars, elastic, redis, requests, TypeOK
  <1> QED
    BY <1>1, TypeElastic, TypeTransfer, TypeRequest, TypeExpiry DEF Next

\* Every variable of the search keeps its type.
THEOREM SearchTypeCorrect == Spec => []TypeOK
  BY TypeInit, TypeNext, PTL DEF Spec

-----------------------------------------------------------------------------
(***************************************************************************)
(* Part 2: the lock.  A request between SET NX and DEL owns the lock of    *)
(* its key, unless it has expired in its hands: so a DEL that deletes the  *)
(* lock of another is that of a request whose own has expired.             *)
(***************************************************************************)
LEMMA LockInit == Init => OneFetchPerKey
  BY DEF Init, OneFetchPerKey, Busy

LEMMA LockRequest ==
  ASSUME TypeOK, OneFetchPerKey, NEW r \in Requests, Ask(r) \/ GetOrSet(r)
  PROVE  OneFetchPerKey'
  <1> USE KeysAreKeys DEF TypeOK, OneFetchPerKey, Busy, Goto, redis
  <1>1. CASE Ask(r) \/ GetEntry(r) \/ TryAgain(r) \/ Fetch(r) \/ FetchFails(r) \/ Store(r)
    <2>1. UNCHANGED <<lock, overrun>>
      BY <1>1 DEF Ask, GetEntry, TryAgain, Fetch, FetchFails, Store
    <2>2. \A q \in Requests : Busy(q)' => Busy(q)
      BY <1>1 DEF Ask, GetEntry, TryAgain, Fetch, FetchFails, Store
    <2>3. \A q \in Requests : KeyOf(q)' = KeyOf(q)
      BY DEF KeyOf, CacheKey
    <2> QED
      BY <2>1, <2>2, <2>3
  <1>2. CASE AcquireLock(r)
    <2>1. CASE lock[KeyOf(r)] = NoRequest
      <3> SUFFICES ASSUME NEW q \in Requests, Busy(q)', KeyOf(q) \notin overrun'
                   PROVE  lock'[KeyOf(q)] = q
        BY DEF KeyOf, CacheKey
      <3>1. /\ lock' = [lock EXCEPT ![KeyOf(r)] = r]
            /\ pc' = [pc EXCEPT ![r] = "fetch"]
            /\ overrun' = overrun
        BY <1>2, <2>1 DEF AcquireLock
      <3>2. CASE q = r
        BY <3>1, <3>2
      <3>3. CASE q # r
        <4>1. lock[KeyOf(q)] = q
          BY <3>1, <3>3
        <4>2. KeyOf(q) # KeyOf(r)
          BY <4>1, <2>1, NoRequestAssumption
        <4> QED
          BY <3>1, <4>1, <4>2
      <3> QED
        BY <3>2, <3>3
    <2>2. CASE lock[KeyOf(r)] # NoRequest
      BY <1>2, <2>2 DEF AcquireLock, KeyOf, CacheKey
    <2> QED
      BY <2>1, <2>2
  <1>3. CASE ReleaseLock(r)
    <2> SUFFICES ASSUME NEW q \in Requests, Busy(q)', KeyOf(q) \notin overrun'
                 PROVE  lock'[KeyOf(q)] = q
      BY DEF KeyOf, CacheKey
    <2>1. q # r /\ Busy(q)
      BY <1>3 DEF ReleaseLock
    <2> QED
      BY <1>3, <2>1 DEF ReleaseLock
  <1>4. CASE RedisFails(r)
    BY <1>4 DEF RedisFails, KeyOf, CacheKey
  <1> QED
    BY <1>1, <1>2, <1>3, <1>4 DEF GetOrSet

LEMMA LockExpiry ==
  ASSUME TypeOK, OneFetchPerKey, NEW k \in CacheKeys, LockExpires(k) \/ EntryExpires(k)
  PROVE  OneFetchPerKey'
  <1> USE KeysAreKeys DEF TypeOK, OneFetchPerKey, Busy, redis, requests
  <1>1. CASE LockExpires(k) /\ Busy(lock[k])
    BY <1>1 DEF LockExpires, KeyOf, CacheKey
  <1>2. CASE LockExpires(k) /\ ~Busy(lock[k])
    BY <1>2 DEF LockExpires, KeyOf, CacheKey
  <1>3. CASE EntryExpires(k)
    BY <1>3 DEF EntryExpires, KeyOf, CacheKey
  <1> QED
    BY <1>1, <1>2, <1>3

LEMMA LockNext == TypeOK /\ OneFetchPerKey /\ [Next]_vars => OneFetchPerKey'
  <1> SUFFICES ASSUME TypeOK, OneFetchPerKey, [Next]_vars PROVE OneFetchPerKey'
    OBVIOUS
  <1>1. CASE UNCHANGED <<pc, lock, overrun>>
    BY <1>1 DEF OneFetchPerKey, Busy, KeyOf, CacheKey
  <1>2. ASSUME NEW s \in Services, EnsureIndex(s) PROVE OneFetchPerKey'
    BY <1>1, <1>2 DEF EnsureIndex, IndexExists, CreateIndex, EnsureFails, redis, requests
  <1>3. ASSUME NEW t \in Transfers, Transfer(t) \/ Settle(t) \/ IndexTransaction(t)
        PROVE  OneFetchPerKey'
    BY <1>1, <1>3 DEF Transfer, Settle, IndexTransaction, redis, requests
  <1> QED
    BY <1>1, <1>2, <1>3, LockRequest, LockExpiry DEF Next, vars, redis, requests

\* As long as no fetch takes longer than its lock, one request of a key at a time
\* asks Elasticsearch and writes the entry.
THEOREM OneFetchAtATime == Spec => []OneFetchPerKey
  BY LockInit, LockNext, SearchTypeCorrect, PTL DEF Spec

-----------------------------------------------------------------------------
(***************************************************************************)
(* Part 3: the answers.  An entry fits its key, whoever has filled it: the *)
(* key has the user and the status, and a document does not change.        *)
(***************************************************************************)
Fits(k, t) ==
    /\ k.user \in {Parties[t].sender, Parties[t].receiver}
    /\ k.status \in {"", document[t]}

EntriesFit ==
    \A k \in CacheKeys : entry[k] # NoEntry => \A t \in entry[k].hits : Fits(k, t)

AnswersFit == \A r \in Requests : \A t \in answer[r] : Fits(KeyOf(r), t)

AInv == TypeOK /\ EntriesFit /\ AnswersFit

LEMMA AnswersInit == Init => EntriesFit /\ AnswersFit
  BY DEF Init, EntriesFit, AnswersFit

LEMMA FoundFit == \A r \in Requests : \A t \in Found(Wanted[r]) : Fits(KeyOf(r), t)
  BY DEF Found, Matching, Fits, KeyOf, CacheKey

LEMMA FitsStays ==
  ASSUME NEW k \in CacheKeys, NEW t \in Transfers, Fits(k, t), UNCHANGED document
  PROVE  Fits(k, t)'
  BY DEF Fits

\* A document is written once, over "none", which is no status to search for.
LEMMA WrittenOnce ==
  ASSUME TypeOK, NEW u \in Transfers, IndexTransaction(u),
         NEW k \in CacheKeys, NEW t \in Transfers, Fits(k, t)
  PROVE  Fits(k, t)'
  <1>1. k.status # "none"
    <2>1. PICK r \in Requests : k = CacheKey(Wanted[r])
      BY DEF CacheKeys, KeyOf
    <2>2. Wanted[r].status \in {"", "PENDING", "SUCCESS", "FAILED"}
      BY WantedAssumption
    <2> QED
      BY <2>1, <2>2 DEF CacheKey
  <1>2. document' = [document EXCEPT ![u] = PayloadStatus] /\ document[u] = "none"
    BY DEF IndexTransaction
  <1>3. CASE t = u
    BY <1>1, <1>2, <1>3 DEF Fits
  <1>4. CASE t # u
    BY <1>2, <1>4 DEF Fits, TypeOK
  <1> QED
    BY <1>3, <1>4

LEMMA AnswersRequest ==
  ASSUME AInv, NEW r \in Requests, Ask(r) \/ GetOrSet(r)
  PROVE  EntriesFit' /\ AnswersFit'
  <1> USE KeysAreKeys DEF AInv, TypeOK, redis
  <1>0. UNCHANGED document /\ \A q \in Requests : KeyOf(q)' = KeyOf(q)
    BY DEF Ask, GetOrSet, GetEntry, AcquireLock, TryAgain, Fetch, FetchFails, Store,
           ReleaseLock, RedisFails, elastic, KeyOf, CacheKey
  <1>1. \A k \in CacheKeys, t \in Transfers : Fits(k, t)' = Fits(k, t)
    BY <1>0 DEF Fits
  <1>2. CASE UNCHANGED <<entry, answer>>
    BY <1>0, <1>1, <1>2 DEF EntriesFit, AnswersFit
  <1>3. CASE GetEntry(r) /\ entry[KeyOf(r)] # NoEntry
    <2>1. entry' = entry /\ answer' = [answer EXCEPT ![r] = entry[KeyOf(r)].hits]
      BY <1>3 DEF GetEntry
    <2>2. \A t \in entry[KeyOf(r)].hits : t \in Transfers /\ Fits(KeyOf(r), t)
      BY <1>3 DEF EntriesFit
    <2>3. EntriesFit'
      BY <1>1, <2>1 DEF EntriesFit
    <2>4. AnswersFit'
      BY <1>0, <1>1, <2>1, <2>2 DEF AnswersFit
    <2> QED
      BY <2>3, <2>4
  <1>4. CASE Fetch(r)
    <2>1. entry' = entry /\ answer' = [answer EXCEPT ![r] = Found(Wanted[r])]
      BY <1>4 DEF Fetch
    <2>2. EntriesFit'
      BY <1>1, <2>1 DEF EntriesFit
    <2>3. AnswersFit'
      BY <1>0, <1>1, <2>1, FoundFit, FoundAreTransfers DEF AnswersFit
    <2> QED
      BY <2>2, <2>3
  <1>5. CASE Store(r)
    <2>1. answer' = answer /\ entry' = [entry EXCEPT ![KeyOf(r)] = [hits |-> answer[r]]]
      BY <1>5 DEF Store
    <2>2. EntriesFit'
      BY <1>1, <2>1 DEF EntriesFit, AnswersFit
    <2>3. AnswersFit'
      BY <1>0, <1>1, <2>1 DEF AnswersFit
    <2> QED
      BY <2>2, <2>3
  <1> QED
    BY <1>2, <1>3, <1>4, <1>5
    DEF Ask, GetOrSet, GetEntry, AcquireLock, TryAgain, FetchFails, ReleaseLock, RedisFails

LEMMA AnswersOther ==
  ASSUME AInv, UNCHANGED answer,
         \A k \in CacheKeys : entry'[k] \in {entry[k], NoEntry},
         \A k \in CacheKeys, t \in Transfers : Fits(k, t) => Fits(k, t)'
  PROVE  EntriesFit' /\ AnswersFit'
  <1> USE KeysAreKeys DEF AInv, TypeOK
  <1>1. EntriesFit'
    BY DEF EntriesFit
  <1>2. \A q \in Requests : KeyOf(q)' = KeyOf(q)
    BY DEF KeyOf, CacheKey
  <1>3. AnswersFit'
    BY <1>2 DEF AnswersFit
  <1> QED
    BY <1>1, <1>3

LEMMA AnswersNext == AInv /\ [Next]_vars => EntriesFit' /\ AnswersFit'
  <1> SUFFICES ASSUME AInv, [Next]_vars PROVE EntriesFit' /\ AnswersFit'
    OBVIOUS
  <1> USE DEF vars, elastic, redis, requests
  <1>1. CASE UNCHANGED <<entry, answer, document>>
    BY <1>1, AnswersOther DEF Fits
  <1>2. ASSUME NEW s \in Services, EnsureIndex(s) PROVE EntriesFit' /\ AnswersFit'
    BY <1>1, <1>2 DEF EnsureIndex, IndexExists, CreateIndex, EnsureFails
  <1>3. ASSUME NEW t \in Transfers, Transfer(t) \/ Settle(t) PROVE EntriesFit' /\ AnswersFit'
    BY <1>1, <1>3 DEF Transfer, Settle
  <1>4. ASSUME NEW t \in Transfers, IndexTransaction(t) PROVE EntriesFit' /\ AnswersFit'
    <2>1. UNCHANGED <<entry, answer>>
      BY <1>4 DEF IndexTransaction
    <2>2. \A k \in CacheKeys, u \in Transfers : Fits(k, u) => Fits(k, u)'
      BY <1>4, WrittenOnce DEF AInv
    <2> QED
      BY <2>1, <2>2, AnswersOther
  <1>5. ASSUME NEW k \in CacheKeys, LockExpires(k) PROVE EntriesFit' /\ AnswersFit'
    BY <1>1, <1>5 DEF LockExpires
  <1>6. ASSUME NEW k \in CacheKeys, EntryExpires(k) PROVE EntriesFit' /\ AnswersFit'
    <2>1. UNCHANGED <<answer, document>>
      BY <1>6 DEF EntryExpires
    <2>2. \A j \in CacheKeys : entry'[j] \in {entry[j], NoEntry}
      BY <1>6 DEF EntryExpires, AInv, TypeOK
    <2> QED
      BY <2>1, <2>2, AnswersOther, FitsStays
  <1> QED
    BY <1>1, <1>2, <1>3, <1>4, <1>5, <1>6, AnswersRequest DEF Next

\* A request gets only transfers of its own user and of the status it has asked
\* for, whoever has filled the entry.
THEOREM OwnAnswers == Spec => []AnswersTheAsker
  <1>1. Init => AInv
    BY TypeInit, AnswersInit DEF AInv
  <1>2. AInv /\ [Next]_vars => AInv'
    BY TypeNext, AnswersNext DEF AInv
  <1>3. AInv => AnswersTheAsker
    BY DEF AInv, AnswersFit, AnswersTheAsker, Fits, KeyOf, CacheKey
  <1> QED
    BY <1>1, <1>2, <1>3, PTL DEF Spec

-----------------------------------------------------------------------------
(***************************************************************************)
(* Part 4: the mapping.  The wallet service writes no document before it   *)
(* has made sure of the index, unless that has failed.                     *)
(***************************************************************************)
WalletHasIndex == boot["wallet"] = "ready" => mapping # "none" \/ faults > 0

MInv == TypeOK /\ IndexIsMapped /\ WalletHasIndex

LEMMA MappingInit == Init => IndexIsMapped /\ WalletHasIndex
  BY ServicesAssumption DEF Init, IndexIsMapped, WalletHasIndex

LEMMA MappingNext == MInv /\ [Next]_vars => IndexIsMapped' /\ WalletHasIndex'
  <1> SUFFICES ASSUME MInv, [Next]_vars PROVE IndexIsMapped' /\ WalletHasIndex'
    OBVIOUS
  <1>0. CASE UNCHANGED <<boot, mapping>> /\ faults' \in {faults, faults + 1}
    <2>1. faults > 0 => faults' > 0
      BY <1>0, SearchFaultsAssumption DEF MInv, TypeOK
    <2> QED
      BY <1>0, <2>1 DEF MInv, IndexIsMapped, WalletHasIndex
  <1> USE ServicesAssumption
          DEF MInv, TypeOK, IndexIsMapped, WalletHasIndex, vars, elastic, redis, requests, Fault
  <1>1. ASSUME NEW s \in Services, EnsureIndex(s) PROVE IndexIsMapped' /\ WalletHasIndex'
    <2>1. CASE IndexExists(s)
      BY <2>1 DEF IndexExists, Ensured
    <2>2. CASE CreateIndex(s)
      BY <2>2 DEF CreateIndex, Ensured
    <2>3. CASE EnsureFails(s)
      BY <2>3, SearchFaultsAssumption DEF EnsureFails
    <2> QED
      BY <1>1, <2>1, <2>2, <2>3 DEF EnsureIndex
  <1>2. ASSUME NEW t \in Transfers, Transfer(t) \/ Settle(t)
        PROVE  IndexIsMapped' /\ WalletHasIndex'
    BY <1>2 DEF Transfer, Settle
  <1>3. ASSUME NEW t \in Transfers, IndexTransaction(t)
        PROVE  IndexIsMapped' /\ WalletHasIndex'
    BY <1>3 DEF IndexTransaction, RelayRuns
  <1>4. ASSUME NEW r \in Requests, Ask(r) \/ GetOrSet(r)
        PROVE  IndexIsMapped' /\ WalletHasIndex'
    <2>1. UNCHANGED <<boot, mapping>>
      BY <1>4 DEF Ask, GetOrSet, GetEntry, AcquireLock, TryAgain, Fetch, FetchFails, Store,
                  ReleaseLock, RedisFails
    <2>2. faults' \in {faults, faults + 1}
      BY <1>4 DEF Ask, GetOrSet, GetEntry, AcquireLock, TryAgain, Fetch, FetchFails, Store,
                  ReleaseLock, RedisFails
    <2> QED
      BY <1>0, <2>1, <2>2, SearchFaultsAssumption
  <1>5. ASSUME NEW k \in CacheKeys, LockExpires(k) \/ EntryExpires(k)
        PROVE  IndexIsMapped' /\ WalletHasIndex'
    <2>1. UNCHANGED <<boot, mapping>> /\ faults' \in {faults, faults + 1}
      BY <1>5 DEF LockExpires, EntryExpires
    <2> QED
      BY <1>0, <2>1, SearchFaultsAssumption
  <1>6. CASE UNCHANGED vars
    BY <1>6
  <1> QED
    BY <1>1, <1>2, <1>3, <1>4, <1>5, <1>6 DEF Next

\* The index has the mapping of the code, whichever service makes it, unless
\* something has failed.
THEOREM MappedByTheCode == Spec => []IndexIsMapped
  <1>1. Init => MInv
    BY TypeInit, MappingInit DEF MInv
  <1>2. MInv /\ [Next]_vars => MInv'
    BY TypeNext, MappingNext DEF MInv
  <1> QED
    BY <1>1, <1>2, PTL DEF Spec, MInv
=============================================================================
