# A TLA+ model of the wallet platform

The repository is a payment platform of six NestJS services behind a gateway: users
register, get a profile and a wallet, and send each other money. This directory holds
TLA+ modules translated from the source under `src/`, TLC configurations that check
them on small instances, and proofs, checked by TLAPS, of the properties that matter
most for every instance.

Run a check with `tlc -config TransferSaga_safety.cfg MCTransferSaga.tla`, a proof with
`tlapm TransferSagaProofs.tla`. `PROJECT.json` lists the runs, the mutants of the model
that show each property can fail, the source lines behind every definition, the hazards
and the findings.

## 1. The system

`W` stands for `src/apps/wallet-service/src/wallet`.

| component | state | operations | talks to |
|---|---|---|---|
| **Transfer saga** `W/commands/handlers`, `W/sagas` | tables `wallets`, `transactions`, `outbox`; row locks; the RxJS pipeline in memory | `TransferMoney`, `CreditRecipient`, `RefundSender` | events of the CQRS bus between the three; gRPC `UserService.FindOne`; Kafka `wallet.events` |
| **Outbox relay** `W/outbox-relay.service.ts` | column `outbox.status`; `isProcessing` | `processOutbox` every 5 s | reads the rows of the saga, emits Kafka `transactions-sync` |
| **Search sync** `src/apps/audit-service`, `src/libs/search` | Elasticsearch index `fintech-transactions` | `syncTransactionToSearch`, `indexTransaction` | consumes `transactions-sync` |
| **Wallet creation, balance** `W/wallet.service.ts`, `W/queries/handlers` | table `wallets` | `createWallet`, `GetBalance` (creates too), `GetWalletStats`, `GetTransactionHistory` | consumes `user.created` |
| **Audit trail** `src/apps/audit-service` | Mongo `audit_logs`, `user_stats` | `handleWalletEvent`, `handleUserEvent` | consumes `wallet.events`, `user.events` |
| **Notifications** `src/apps/notification-service` | socket rooms | `handleWalletEvent`, `sendNotification` | consumes `wallet.events`, gRPC `UserService` |
| **Registration, login** `src/apps/auth-service` | table `users` | `RegisterUser`, `validateUser`, `login` | emits Kafka `user.created` |
| **Profiles** `src/apps/user-service` | table `user_profiles` | `handleUserCreated`, `updateProfile`, `GetUserProfile`, `findByEmail`, `FindOne` | consumes `user.created` |
| **Cache** `src/libs/common/src/cache` | Redis keys and their `:lock` keys | `getOrSet`, `invalidate`, `invalidateByPattern` | used by the gateway's search |
| **Discovery** `src/libs/common/src/discovery` | Consul registrations | `register`, `deregister`, `discoverService` | every service; the gateway at start-up |
| **Gateway** `src/apps/api-gateway` | none (addresses resolved at start-up) | proxies, history enrichment, cached search | TCP to the services |
| **Web client** `src/frontend` | token in localStorage, two `useAuth()`, the react-query cache, the socket, the transfer form | navigation, login, queries, transfer | the gateway, the notification service |

### How a transfer runs

`TransferMoneyHandler` checks the request, opens a PostgreSQL transaction, locks the
sender's row, deducts, inserts a `PENDING` transaction and an outbox row, commits, and
publishes `MoneyDeductedEvent` on the in-process event bus. The saga waits 500 ms and
issues `CreditRecipientCommand`: ask the user service for the recipient, lock the
recipient's row, credit, set `SUCCESS`, commit, publish. Any exception on the way
publishes `CreditFailedEvent`, which the saga turns into `RefundSenderCommand`: lock the
sender's row, pay back, set `FAILED`, commit, publish. No two of these steps share a
transaction, and only the database survives a crash.

### What is hard here

* Three handlers of many transfers interleave at every `await`; a balance is computed in
  the service from an earlier read.
* A saga that lives in memory meets crashes, failing queries, and COMMITs whose answer
  is lost.
* One catch block compensates whatever went wrong, before or after the COMMIT.
* A handler of four writes, one of them guarded by a unique index, under redelivery.
* A relay with overlapping timer ticks, a fire-and-forget client, an at-least-once
  consumer that swallows its errors, and perhaps a second instance.
* Check-then-insert races of two consumers, or of a consumer and a balance query, on
  events that are emitted without waiting and skipped when a handler throws.
* A profile update of read, merge, second read and write.
* A lock in Redis that expires under its holder and that anybody's `DEL` releases.
* Services that start in any order, share their Consul ids, and resolve addresses once.
* A browser tab with two copies of the user, a cache that outlives the login, requests
  that outlive the page, and notifications that may not come.

`PROJECT.json` lists these at their lines under "hazards", with the properties that
watch each, or the reason why none does.

### What makes each component correct

* Saga: no overdraft; no lost update; money conserved to the cent; every deduction paid
  or refunded, once; a settled status is final; events agree with the database; an error
  answer means nothing happened; locks are given back, and none is ever without a handler.
* Relay and search: cycles do not overlap; the batch is not stale; one emit per row and
  instance unless something failed; nothing is marked before it is sent; every row is
  indexed.
* Audit: at most one log per side and transaction, statistics that do not exceed the
  logs, under redelivery; four entries per transfer in their order; nothing committed
  that is not complete, unless it was skipped; a complete trail in the end.
* Registration: a registered user has a profile and a wallet, or the event that makes
  them is still on its way, unless a fault has taken it or, for the profile alone, a
  patch had given the user's e-mail address to another profile.
* Profiles: an update undoes nothing but what was written between its two reads.
* Search and cache: one fetch per key at a time; an answer belongs to who asked; the
  index has the mapping of the code; every search ends.
* Discovery: services open their ports in the order of their dependencies; a process
  that is well stays listed although others share its id; every start ends; a service
  that moves is found again by those who ask again.
* Web client and notifications: a document holds one user's data; what is shown as fresh
  is current when all answers and notifications have arrived.

## 2. The modules

### TransferSaga

One variable per durable table column the properties need, plus the locks, the memory of
the service and the topic:

| variable | code |
|---|---|
| `wallets`, `balance` | table `wallets`; balances in whole cents |
| `status` | `transactions.status`; `"none"` where there is no row |
| `outbox` | the transfers that have an outbox row |
| `lock`, `seen` | the `pessimistic_write` row lock and the balance read under it |
| `stage` | where the handlers are with a transfer: their local state and the saga pipeline |
| `req` | `fromUserId`, `toUserId`, `amount` of the command |
| `walletEvents` | messages emitted to `wallet.events` |

An action is the code between two points where another handler can run: an `await` of a
lock, a COMMIT, a call. The queries between the locked read and the COMMIT are one
action (`TransferCommit`, `CreditCommit`, `RefundCommit`), because PostgreSQL shows their
effects to nobody before the COMMIT; that one of them throws is `TransferDbFails`,
`CreditDbFails`, `RefundDbFails`. A COMMIT whose answer is lost is the commit action
followed by `...AckLost`, which leads where the code's catch block leads.
`Crash` forgets `stage`, rolls open transactions back and keeps the tables. `Leave` is a
handler's step that touches no data, `Rollback` the catch block. The constant `Faults`
says which faults a run admits. A user without a wallet can have one at any time
(`CreateWallet`: the event `user.created`, or a balance query). `RecipientActive` and
`RecipientRejected` are the answers of the user service, which may be either.

`EscrowLedger` is what the saga promises: a transfer holds money once, if the sender can
afford it, and then it is paid or returned, at most one of the two, once. `TransferSaga`
implements it with `status` as the phase of a transfer (`PENDING` is held).
`Money` adds up what is in the wallets and what `PENDING` transfers hold.
`MCTransferSaga` gives the instance.

### OutboxRelay

`row` is `outbox.status`, `createdAt` the sort key of `find()` (set before the COMMIT, so
not in the order of the commits, and not unique), `isProcessing` the flag of
each instance, `batch`, `record` and `pc` the local state of a cycle of `processOutbox`,
`inFlight` the send queue of the instance's Kafka client, `topic` what the consumer has
still to handle, `index` the documents in Elasticsearch. A worker is a pair of an
instance and a cycle, because `setInterval` starts a cycle whether or not an earlier one
is still waiting. `lost` remembers of which rows a fault has taken a copy after the emit.
Every query is an action of its own; setting the flag and testing it is
one, because nothing is awaited in between. `Deliver`, `GiveUp`, `SyncAgain` and `Crash`
are the environment: the Kafka client, the broker's at-least-once delivery, the process.
A query that throws may have written its row all the same. `faults` counts the faults
against `MaxFaults`. The module is its own model: its configuration gives model values.

### AuditTrail

`log`, `committed` and `owner` are what the audit service can observe of the topic
`wallet.events`: the messages of one partition, the committed offset, the consumer the
partition is assigned to. `position`, `current` and `step` are the place of each consumer
in the log and in `handleWalletEvent`; each of its four awaited writes is an action.
`senderLogs`, `receiverLogs` and `counted` are the MongoDB collections, with one entry
per transfer: `messageId` is the id of the transaction, and `$inc` adds one to a
transfer's share of the statistics. `DuplicateKey` is the unique index at work;
`MongoFails` a write that throws, carried out or not; `Throw` what Kafka then does:
`retry` or `skip`; `passedOver` remembers what it skipped. `Rebalance` gives the partition
to another consumer while the former owner may still be in its handler.

`AuditBook` is what the service promises without any of this: a transfer announced as
successful has a page of four entries, made in their order, each once, never taken back,
and perhaps never completed. `AuditTrail` implements it, with the collections as the page
of a transfer (`Page`).

### Accounts

What the auth, user and wallet services do with a user: `users` is the table of the auth
service; `unsent` the events `user.created` that it has still to emit (after the insert,
without waiting); `topic`, `forgotten` the two consumer groups' messages still to come and
those that will not; `rows` the tables `user_profiles` and `wallets`; `missing` the
handlers between their look-up and their insert. `LookUp`, `Insert`, `InsertConflict` and
`InsertFails` are the three copies of the same check-then-insert: `handleUserCreated`,
`createWallet` and `GetBalance`, whose exception goes to a caller instead of Kafka.
`profile`, `entity`, `columns` are the row, what an update has read and merged, and what
TypeORM's `save()` finds different in a second read and writes. Both `userId` and `email`
are unique in `user_profiles`, and a patch may name the second, because the gateway
checks nothing of it (`proxy.controller.ts:34`, `users.service.ts:74`): `Violates` is what
an insert fails for, `PatchRefused` a patch that names an address which is taken. A patch
that names `id` or `userId` is left out.

### WebClient

One browser tab on top of `Accounts`, which it extends: every action of it either is a
step of `Accounts` or leaves its tables alone. `token` is `localStorage`; `rootUser` and
`ready` belong to the two instances of `useAuth()`, which share nothing but the token:
the one of the root layout (with the socket) and the one of the page. `fetches` are the
calls of `fetchProfile()`; a call may outlive its page (`"gone"`). `Load` is a new
document, `Mount` the router. `cache`, `query` are react-query's entries and requests;
a balance is represented by its number of changes (`version`). `Invalidate` is
`invalidateQueries()`, with its one case in which nothing is asked again: the first
request of a key is not cancelled. `recipient`, `confirming`, `waiting` are the wizard of
the wallet page. `transfer` has the steps of `TransferSaga` that a client can tell apart,
`Notify` the notification service. `missed` remembers the keys whose data changed
without anybody telling the tab, `mixed` that the token was replaced in place.

### Search

`boot`, `mapping`, `document` are Elasticsearch's side: the services that run
`ensureIndex()` when they start, and the documents; the way of a document, which is
`OutboxRelay`, is one step here. `entry` and `lock` are Redis, `pc` the statement of
`getOrSet()` that a request is at: each await is an action. `CacheKey` is the key of
the gateway, without the dates. `LockExpires` gives a lock up whose holder has failed,
or, as a fault, is slower than five seconds; `overrun` remembers the latter.

### Discovery

`phase` is how far a process is with its start (`resolving` in the factories of its
module, `listening` while it registers, `ready` with its HTTP port), `known` the
addresses it has, `tries` the turns of the retry loop, `todo` what it has still to
register. `catalog` is Consul: one entry per id, because all processes of a service use
the same, with the result of the last poll. `Poll` is the health check,
`DeregisterCritical` the removal after a minute, which goes by the last poll: it may meet
a process that has just recovered. `due` remembers, for the property alone, which process
was the last to register a name or to pass a poll of it, while it is well.
`Stop` leaves the entry: nothing calls `onModuleDestroy()`, as no service enables the
shutdown hooks. `GetLogs`, `Unresolved`, `Call` are the audit pages of the gateway, which
resolve with each request.

## 3. What is checked

| run | instance | states | shows |
|---|---|---|---|
| `transfer_safety` | 3 users, 3 transfers, failing queries, refund in doubt, crash | 101,694 | money conserved, refused means untouched, events true, final statuses, refinement of `EscrowLedger` |
| `transfer_in_doubt` | 3 users, 3 transfers, all faults: failing queries, any COMMIT's answer lost, crash | 244,292 | no overdraft, no lost update, no lock without a handler; money is never destroyed |
| `transfer_liveness` | 2 transfers, failing queries of the forward path | 5,520 | held money has a saga in memory; every deduction is settled, every lock given back |
| `outbox` | 3 rows, batch of 2, 2 overlapping cycles, all faults, at most 2 | 138,718 | one cycle at a time, no stale batch, one emit per row and one more per fault, nothing marked unsent, every row indexed unless its message was lost |
| `audit_safety` | 2 transfers, 2 consumers, both reactions, all faults, at most 3 | 137,028 | a transfer counts at most once; the statistics never exceed the logs; what is committed is complete or was passed over; refinement of `AuditBook`; complete without faults |
| `client` | 2 users (one registers), 2 user services, 1 wallet service, 1 balance query, 2 patches, 1 transfer, 2 sign-ins, any one fault | 391,302 | no account forgotten but for a fault or a patched address, one user per document, fresh data current, only overlapping updates lost |
| `search` | 2 services, 1 transfer, 3 searches of which 2 share a key, any one fault | 56,095 | one fetch per key, answers of the asker's transfers, mapped index, every search ends |
| `discovery` | 5 processes of 4 services, any one fault | 46,745 | start in order, who is well stays listed, every start ends, audit service found again |
| `transfer_crash` | 1 transfer, crash | violation | finding 1 |
| `transfer_twice` | 1 transfer, credit in doubt | violation | finding 2 |
| `audit_crash` | 2 transfers, 1 consumer that retries, one crash | violation | finding 3 |
| `search_status` | 1 transfer, no fault | violation | finding 4 |

**Bounds.** Three transfers are the least with which a sender's two deductions meet a
credit to the same wallet; alice (3) and bob (2) can each afford the amount 2 once, and a
second time only after having been paid, so that both outcomes of the check happen under
contention; carol has no wallet until `CreateWallet`. The amounts -1 and 0 reach the
refusals. Three rows with batches of two make a cycle leave a row for the next one; two
cycle names are enough for an overlap; two faults let one hit the handling of another;
`Times` has one element, so that all rows tie and every order of them is explored. Two
transfers let a message that fails stand in front of another, two consumers let a handler
of the former owner overlap with one of the new; the third fault of `audit_safety` lets a
message fail, come to another consumer and fail there. `outbox` has one instance, for
which alone `BatchIsPending` is true; what holds of several, `EmittedOncePerInstance` and
`NeverMarkedUnsent`, is proved for any number (section 4).

The tab has two pages (`Pages`) and follows one key (`Keys`): the wallet page polls and
sends, the overview shows, and the other pages differ in the keys only. Two sign-ins
(`MaxSignIns`) let a second user meet what the first has left. The product of all that
services and tab can do is out of reach, and the constraint `Apart` of `MCWebClient`
keeps the parts in which they meet: updates of a profile while the tab is idle, one of
which names the e-mail column while the user of that address registers; the races
of onboarding over before anybody signs in (the late event and the balance query that
makes a wallet remain); money moves when no onboarding is under way; and a fault, two
sign-ins and a transfer, of which any two come together. Three searches are two that
contend for a key although they ask for different days, and one of another user; all
three ask for any status (a fourth, for one status, multiplies the states by eleven), so
that the run exercises the user in `AnswersTheAsker`, and the theorem `OwnAnswers` alone
the status. In
`discovery` the user service is needed by the gateway with no fallback and by the
notification service with one; two processes of the audit service share an id; `Tries`
is 2 where the code has 30: one attempt that is repeated and one that is the last. The
notification service runs only while the gateway and the audit service do not (`Apart`
of `MCDiscovery`): it never meets them. One fault (`MaxFaults`) is enough there for each
of the windows between two steps of a start.

**Fairness.** `WF(Saga(t))`: the event loop resumes every continuation, and each query
and call is answered or fails. This holds for a running service, not across a crash, and
no fairness is put on requests, wallets or faults. Weak fairness on the handlers' steps
is enough although they wait for locks: a handler that waits goes on when the row is
free, and a lock is held for a finite number of transfers only. For the relay,
`WF(Cycle(w))`: the timer keeps firing and a cycle goes on; `WF(Deliver)`: kafkajs
retries; `WF(Sync)`: the consumer reads on. For the audit service,
`WF(HandleWalletEvent(c))` and `WF(CommitOffset(c))`: a running consumer polls, finishes
its handler and commits. For the search, `WF(GetOrSet(r))`, `WF(EnsureIndex(s))`,
`WF(IndexTransaction(t))`: what has begun goes on, and `WF(LockExpires(k))`: Redis keeps
`EX`. For discovery, `WF(Boot(p) \/ Audit(p))` for each process, since one event loop
drives its start and its requests; none on stops, polls or removals.
`transfer_liveness` leaves `refundDb` out,
because the code never retries a refund, and takes no crash, because the code never
resumes a saga: with either, `DeductedIsSettled` fails (finding 1). `Accounts` and
`WebClient` are checked for safety only.

**Deadlock** is checked in every run but the two of `Search`, where nothing need happen
when all requests are answered: `Quiescent` is the only state of the saga in which
nothing need happen, the relay's timer never stops, and the `Quiescent` of the audit
service is the topic handled to its end.

### Findings

1. *A crash strands the money* (`transfer_crash`). `README.md:82`: "Success/Failure is
   propagated back to finalize or roll back the transaction." The saga exists only in
   memory (`W/sagas/wallet.sagas.ts:18`); after a crash the transaction stays `PENDING`.
2. *A transfer both paid and refunded* (`transfer_twice`). If the answer to the COMMIT of
   `credit-recipient.handler.ts:67` is lost, the catch compensates a committed credit.
   `NoMoneyIsDestroyed` shows that the loss is the platform's, never a user's.
3. *The trail of a transfer stays incomplete* (`audit_crash`). `README.md:127`: "Every
   sensitive action is captured in the Audit microservice for compliance." The same
   index that keeps a transfer from counting twice (`CountedOnce`) rejects the message
   that would complete an interrupted one: `audit-service.controller.ts:35` throws
   before the other three writes. `CommittedIsAudited` is the other side: with a client
   that repeats the message for ever, the gap is never passed over, and the transfers
   behind it wait; with one that skips, `passedOver` is the list of the gaps.
4. *The totals of the month are always zero* (`search_status`).
   `docs/project_polish_plan.md:40` asks for "Total Spent (This Month), Total Received
   (This Month) using Elasticsearch aggregations". `transfer-money.handler.ts:71` puts
   the status `PENDING` into the only payload that is ever indexed, and
   `search.service.ts:228` counts documents of status `SUCCESS`.

Met while modelling, and visible in the models without a run of their own: a request
that Elasticsearch fails is logged and its document is lost (`lost` in `OutboxRelay`,
`audit-service.controller.ts:96`); with two instances the relay emits a row twice, as it
takes no lock (`outbox-relay.service.ts:40`); after a login in the page the socket is not
connected until the document is loaded again (`missed`, `SocketProvider.tsx:19`); a
logout leaves the cache to the next user (`mixed`, `useAuth.ts:51`); a failed call of
`fetchProfile()` removes whatever token is there by then (`useAuth.ts:31`);
`README.md:88` says that services are never hardcoded, and the notification service goes
on with `localhost:50051` (`FallBack`).

## 4. What is proved

TLAPS proves the following for every value of the constants that satisfies the named
assumptions (amounts are integers, the wallets there are at the start are finitely many
and their balances naturals, faults are known
faults, the two "none" values are not transfers or requests; for the relay, finitely
many rows and instances, a positive batch size and creation times that are naturals; for the audit
service, at least one reaction to an exception; for the client, a patch has a user,
the fields it names and an address, and "no request" is not a request; for discovery, addresses of
processes are not the two special ones, and the gateway needs nothing of the audit
service to start).

*Saga* (`TransferSagaProofs`). `NoOverdraft` is not inductive: a commit writes
`seen - amount`, which is safe only if `seen` is the balance and the amount has been
compared with it. The inductive invariant `IInv` is therefore `TypeOK`, `NoOverdraft`,
`LockedReadIsCurrent` (a handler between its locked read and its COMMIT owns the row, and
what it read is what the row says) and `SagasAreWellFormed` (valid terms, existing
wallets). Each action that ends a transaction is one lemma, each handler one. It holds
under **all** faults: `TypeCorrect`, `NeverOverdrawn`, `NoLostUpdate`.

`RInv` adds `StatusFollowsStage` and `OutboxFollowsStatus`: what the record says at each
stage, with the second cases that a lost answer to COMMIT opens. From it follow
`RefusedUntouched` (if the deduction's answer is not lost) and, if the credit's answer is
not lost, `SettledStays`, `EventsTrue` and `SagaIsEscrow`: the saga implements
`EscrowLedger`, initial state to initial state, every step to a step or a stutter. That
the condition on the credit's answer is needed `transfer_twice` shows; for the one on the
deduction's answer there is no run, as no document promises that an error means that
nothing happened: `TransferAckLost` after the COMMIT is the case.

`LocksAreHeld` and `PendingGoesOn` are the safety half of the liveness that TLC checks:
what waits has somebody who will go on. A row lock belongs to a handler that is between
its locked read and the end of its transaction, under all faults (`LocksHaveHolders` is
inductive: no handler takes a second lock). Held money has a saga in memory, unless a
crash, a failed refund or a lost answer to the deduction has left it to nobody; this one
needs `RInv`, which says that a saga that comes to rest has settled its record.

*Money* (`MoneyProofs`). `MoneyConserved` (under the condition of `SagaIsEscrow`) and
`NoMoneyDestroyed` (under all faults) are about sums, and `MoneyIn` folds over a set by a
recursive function of the library, of which one knows no more than that it is CHOSEN to
satisfy its equation. Part 1 of the module therefore shows that such a function exists for
every finite set and that two of them agree, and from this what one expects of a sum: it
is an integer, any term can be taken out first, one more term adds itself, a changed term
changes the sum by as much. The inductions in it are over the subsets of a finite set and
take a *set* of the subsets for which the claim holds, not a predicate; the step from
there is that strict inclusion is well founded (`FiniteInduction`). Part 2 adds to `RInv`
what the sum needs, `MoneyHasPlaces`: rows and held transfers are finitely many, at every
moment, although users and transfers need not be; a user without a row has no money, so
that `CreateWallet` adds nothing; held transfers have known terms. Then each action is
matched with what it does to the two halves of the sum. `RefundCommit` after a credit
whose answer was lost is the one that adds money: it is why one theorem has a condition
and the other says "at least".

*Relay* (`OutboxRelayProofs`). `CInv`, the flag and the statement of every cycle agree,
holds for any number of instances and any faults: `CyclesNeverOverlap` also says that the
flag is never left behind, so that the relay cannot lock itself out. With one instance
`SInv` gives `BatchNeverStale`. `MarkedIsSent` holds for any
number of instances and whatever fails: `LInv` adds that a row about to be saved has
been sent, or its message lost. `EmitsPerInstance` bounds what the missing lock costs:
that a row is emitted at most once per instance and once more per fault. The bound is not
inductive, as the relays that will still emit a row count too. `EmitsBounded` says that
the emits of a row, and the instances that have it in hand or, while it is unmarked, may
still read it, stay within instances and faults: a cycle that emits a row moves its
instance from those who will to those who have, and only a fault lets it read the row
again.

*Audit service* (`AuditTrailProofs`). `CountedOnce` is not inductive: that a handler about
to write the receiver's log finds none depends on who else may be there. `GateInv` says
that at most one handler per transfer has passed the unique log, that this handler finds
in the trail exactly what its earlier statements wrote, and that the four writes of a
transfer are there in their order. It holds for any number of consumers and under all
faults, whatever Kafka does when the handler throws, and gives `CountedAtMostOnce`,
`StatsInTrail` and, step by step, `TrailIsBook`: the statement that a handler is at is the
next entry of the page of its transfer in `AuditBook`, and a message is an announcement
or no news. For `CommittedHasItsTrail` `CommitInv` adds where each consumer is in the log:
at work, it holds the transfer of the message at its position, and all before it, like all
that is committed, is complete or in `passedOver`. Nobody gets past a message but by its
last statement, which completes the page (`LastEntryCompletes`), or because Kafka goes on
after a throw, and by `AuditedStays` nothing is lost again.

*Search* (`SearchProofs`). `OneFetchPerKey` is inductive given the types: a DEL that
deletes the lock of another request is that of a request whose own lock has expired, and
its key is then in `overrun`. `OwnAnswers` needs `EntriesFit` (an entry of the cache holds
transfers that the key stands for) and that a document is written once, so that what
fitted goes on fitting; `MappedByTheCode` needs `WalletHasIndex` (when the wallet service
is up the index exists, or something has failed: no document makes it).

*Discovery* (`DiscoveryProofs`). `StartsInOrder` rests on two facts about what a process
knows: without a fallback it never knows `localhost`, and until something fails, an entry
that passes, and every address made of one, is of a process that is up
(`UpWithoutFaults`). `WellIsListed`, for any number of processes that
share an id, rests on `DueIsListed`: the entry of a name that is due to a process is of
that process, and no poll of it has failed since, because the process runs with its ports
open and has not been sick; so the one action that removes entries passes it by.

*Accounts and client* (`WebClientProofs`). A step of the whole is a step of `Accounts` or
leaves it alone but for a fault (`NextAccounts`), so that `EveryAccountFollows` and
`OnlyOverlapsLoseUpdates`, whose invariants speak of `Accounts` alone, hold of the
composition. An insert fails where the user has a row, or where another profile has the
user's address: `AddressesFit` says that such an address is from a patch that names it and
has been written, and only the second case, with a reaction that skips, loses a profile.
For the patches, `PatchesFit`: what `save()` is about to write differs from
the row only in fields that the patch names or that were written after it had read the
row. For the document, `OneOwner`: until `mixed`, everything in it belongs to the user of the token.
For the balances, `BalancesFit`: an entry of the cache, or an answer that has been read
and is on its way, is the balance, or a transfer that has left a trace is still to be
answered or notified, or the key is in `missed`. `CurrentWhenQuiet` is not inductive: it
says nothing of answers on their way, and a pending request excuses it.

Only model-checked: the liveness properties of each component and everything else under
fairness (`DeductedIsSettled`, `LocksAreReleased`, `EventuallyIndexed`,
`AuditedWithoutFaults`, `EverySearchEnds`, `BootEnds`, `AuditIsFoundAgain`), which need
ENABLED and are out of the prover's reach. Every other property that a passing run checks
is also a theorem.

## 5. What is not modelled

Amounts below a cent and the rounding of `decimal(15,2)`: numbers of JavaScript and
decimals of PostgreSQL are arithmetic, not control. Nor is an amount that is no number:
`Number(amount)` is then NaN (`wallet.controller.ts:74`), which passes both comparisons
of the handler. The contents of payloads and
notifications; of a document only the status and the day. HTTP, TCP and gRPC framing;
passwords and signatures (a token is valid, expired or not there); validation of DTOs
and forms; logging, filters, configuration; rendering. The enrichment of a history in the
gateway, the full-text part of a search, paging and the sums of the statistics change no
state. `invalidate` and `invalidateByPattern` of the cache have no caller, `user.events`
no producer. The eviction of logs from the capped collection. One tab of one browser:
two tabs that share `localStorage` are not. The client's retry of a transfer is another
transfer. Patches that name `id` or `userId`. That searches for different days share an
answer is in the model, but no property watches it. A start that takes longer than the
minute after which Consul removes an entry, and a call to Consul that is never answered.

What the histories excuse is modelled but promised by nobody, so that the properties say
nothing of it: messages lost after the emit (`lost`), changes of which no news reaches the
tab (`missed`), a token replaced in place (`mixed`), fetches slower than their lock
(`overrun`), messages skipped after a throw (`passedOver`).

`PROJECT.json` gives the status of every component.

## 6. What could follow

`TransferSaga` and `OutboxRelay` composed over one outbox table; a second tab; and the
arithmetic of amounts.
