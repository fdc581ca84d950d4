----------------------------- MODULE WebClient ------------------------------
(***************************************************************************)
(* One browser tab of the web client in front of the services: the token   *)
(* in localStorage, the two instances of useAuth() (one in the root        *)
(* layout, one in the page), the cache of react-query, the socket to the   *)
(* notification service and the form that sends money.                     *)
(*                                                                         *)
(* A balance is represented by how often it has changed, and a transfer by *)
(* the steps of TransferSaga that the client can tell apart.               *)
(***************************************************************************)
EXTENDS Accounts

CONSTANTS
    Pages,       \* the dashboard pages that are visited
    Keys,        \* the query keys that are followed
    Transfers,   \* the transfers of a behaviour
    Nobody,      \* no user
    NoData,      \* no entry in the cache
    NoQuery,     \* no request under way
    NoTransfer,  \* no transfer
    MaxSignIns   \* how often somebody signs in in the tab

DashboardPages == {"overview", "wallet", "history", "activity", "profile"}
AllKeys == {"balance", "history", "profile", "wallet-stats", "audit-logs"}

ASSUME PagesAssumption == Pages \subseteq DashboardPages /\ "overview" \in Pages
ASSUME KeysAssumption == Keys \subseteq AllKeys
ASSUME NobodyAssumption == Nobody \notin Users
ASSUME NoQueryAssumption ==
    NoQuery \notin [as : Users \union {Nobody}, read : BOOLEAN, val : Nat]
ASSUME MaxSignInsAssumption == MaxSignIns \in Nat

VARIABLES
    page,        \* the route that is shown
    token,       \* whose token localStorage holds
    rootUser,    \* the user of the root layout's useAuth()
    ready,       \* the useAuth() of the page is not loading
    fetches,     \* the calls of fetchProfile() under way
    socket,      \* whose room the socket is in
    cache,       \* cache[k]: whose data it is, of which version, and whether stale
    query,       \* query[k]: the request of k under way
    recipient,   \* the recipient that the form of the wallet page has found
    confirming,  \* the transfer whose answer that form waits for
    waiting,     \* the transfers whose answer the document waits for
    signIns,     \* how often somebody has signed in
    mixed,       \* the token was taken away or replaced without a new document
    missed,      \* the keys whose data has changed without the tab being told
    transfer,    \* transfer[t]: from, to and state
    version,     \* version[u]: how often the balance of u has changed
    events       \* the transfers whose SUCCESS event is in topic wallet.events

session == <<page, token, rootUser, ready, fetches, mixed>>
data == <<cache, query, missed>>
form == <<recipient, confirming, waiting>>
money == <<transfer, version, events>>
vars == <<accounts, session, socket, data, form, signIns, money>>

Init ==
    /\ AccountsInit
    /\ page = "login" /\ token = Nobody
    /\ rootUser = Nobody /\ ready = TRUE /\ fetches = {} /\ socket = Nobody /\ mixed = FALSE
    /\ cache = [k \in Keys |-> NoData]
    /\ query = [k \in Keys |-> NoQuery]
    /\ recipient = Nobody /\ confirming = NoTransfer /\ waiting = {}
    /\ signIns = 0 /\ missed = {}
    /\ transfer = [t \in Transfers |-> [from |-> Nobody, to |-> Nobody, state |-> "none"]]
    /\ version = [u \in Users |-> 0]
    /\ events = {}

-----------------------------------------------------------------------------
(***************************************************************************)
(* The queries of the pages.                                               *)
(***************************************************************************)
OverviewQueries == {"profile", "wallet-stats", "balance", "history", "audit-logs"}
WalletQueries == {"balance", "history"}
HistoryQueries == {"history"}
ActivityQueries == {"audit-logs"}
ProfileQueries == {"profile"}

Active(p) ==
    Keys \intersect
        CASE p = "overview" -> OverviewQueries
          [] p = "wallet" -> WalletQueries
          [] p = "history" -> HistoryQueries
          [] p = "activity" -> ActivityQueries
          [] p = "profile" -> ProfileQueries
          [] OTHER -> {}

\* The interceptor sends the token that is there when the request leaves.
Ask(u) == [as |-> u, read |-> FALSE, val |-> 0]

Usable(k) == cache[k] # NoData /\ ~cache[k].stale

\* The effect of useAuth() in the component that owner stands for, when it is
\* mounted on page p with the token of u in localStorage.
FetchOnMount(owner, p, u) ==
    IF u = Nobody \/ (owner = "page" /\ p = "register") THEN {}
    ELSE {[by |-> owner, as |-> u, push |-> FALSE]}

\* A whole document is loaded: of the old one only localStorage is left.  A page
\* of the dashboard without a token goes on to /login.
Load(p, u) ==
    LET shown == IF u = Nobody /\ p \in Pages THEN "login" ELSE p
    IN  /\ page' = shown /\ token' = u /\ mixed' = FALSE
        /\ rootUser' = Nobody /\ ready' = (FetchOnMount("page", shown, u) = {})
        /\ fetches' = FetchOnMount("root", shown, u) \union FetchOnMount("page", shown, u)
        /\ socket' = Nobody
        /\ cache' = [k \in Keys |-> NoData]
        /\ query' = [k \in Keys |-> IF k \in Active(shown) THEN Ask(u) ELSE NoQuery]
        /\ missed' = {}
        /\ recipient' = Nobody /\ confirming' = NoTransfer /\ waiting' = {}

\* The router shows another page in the same document: the root layout, the
\* cache and every request under way stay.  rest: the calls of fetchProfile() left.
Mount(p, u, rest, m) ==
    IF u = Nobody /\ p \in Pages THEN Load("login", u)
    ELSE /\ page' = p /\ token' = u /\ mixed' = m
         /\ ready' = (FetchOnMount("page", p, u) = {})
         /\ fetches' = FetchOnMount("page", p, u) \union
              {IF f.by = "page" THEN [f EXCEPT !.by = "gone"] ELSE f : f \in rest}
         /\ query' = [k \in Keys |->
                        IF k \in Active(p) /\ query[k] = NoQuery /\ ~Usable(k)
                        THEN Ask(u) ELSE query[k]]
         /\ recipient' = Nobody /\ confirming' = NoTransfer
         /\ UNCHANGED <<rootUser, socket, cache, missed, waiting>>

-----------------------------------------------------------------------------
(***************************************************************************)
(* Navigation, registration and login.                                     *)
(***************************************************************************)

\* Somebody types an address, or reloads.
OpenPage(p) ==
    /\ Load(p, token)
    /\ UNCHANGED <<accounts, signIns, money>>

\* The layout of the dashboard shows its links when the profile is there.
Shown == page \in Pages /\ ready

FollowLink(p) ==
    /\ \/ Shown /\ p \in Pages \ {page}
       \/ page = "login" /\ p = "register"
       \/ page = "register" /\ p = "login"
    /\ Mount(p, token, fetches, mixed)
    /\ UNCHANGED <<accounts, signIns, money>>

SignUp(u) ==
    /\ page = "register"
    /\ RegisterUser(u)
    /\ Mount("login", token, fetches, mixed)
    /\ UNCHANGED <<signIns, money>>

\* login() of the page's useAuth(): the one of the root layout learns nothing.
SignIn(u) ==
    /\ page = "login"
    /\ u \in users
    /\ signIns < MaxSignIns
    /\ signIns' = signIns + 1
    /\ token' = u
    /\ fetches' = fetches \union {[by |-> "page", as |-> u, push |-> TRUE]}
    /\ mixed' = (mixed \/ token \notin {Nobody, u})
    /\ UNCHANGED <<accounts, page, rootUser, ready, socket, data, form, money>>

\* The 401 of a wrong password takes away the token that is there.
SignInRefused ==
    /\ page = "login"
    /\ token # Nobody
    /\ token' = Nobody
    /\ mixed' = TRUE
    /\ UNCHANGED <<accounts, page, rootUser, ready, fetches, socket, data, form, signIns, money>>

\* The cache, the root layout's user and its socket stay.
Logout ==
    /\ Shown
    /\ Mount("login", Nobody, fetches, mixed \/ token # Nobody)
    /\ UNCHANGED <<accounts, signIns, money>>

\* A component that is gone ignores its state setters.
SetUser(owner, u) ==
    /\ rootUser' = IF owner = "root" THEN u ELSE rootUser
    /\ ready' = (ready \/ owner = "page")

ProfileFetched(f) ==
    /\ f \in fetches
    /\ f.as \in rows["profile"]
    /\ IF f.push THEN Mount("overview", token, fetches \ {f}, mixed)
       ELSE IF f.by = "page" /\ page \in Pages /\ token = Nobody THEN Load("login", Nobody)
       ELSE /\ SetUser(f.by, f.as)
            /\ fetches' = fetches \ {f}
            /\ UNCHANGED <<page, token, mixed, socket, data, form>>
    /\ UNCHANGED <<accounts, signIns, money>>

\* The token is taken away without a new document.
DropToken == token' = Nobody /\ mixed' = (mixed \/ token # Nobody)

\* Mutant of Unauthorized: the router shows /login in the old document.
UnauthorizedStays == Mount("login", Nobody, fetches, mixed)

\* The response interceptor on a 401 of any request.
Unauthorized == Load("login", Nobody)

\* fetchProfile() removes whatever token is there by now.
ProfileFails(f) ==
    /\ f \in fetches
    /\ IF f.push \/ (f.by = "page" /\ page \in Pages) THEN Load("login", Nobody)
       ELSE /\ SetUser(f.by, Nobody)
            /\ fetches' = fetches \ {f}
            /\ DropToken
            /\ UNCHANGED <<page, socket, data, form>>

\* The event that makes the profile has not been handled yet.
ProfileMissing(f) ==
    /\ f \in fetches
    /\ f.as \notin rows["profile"]
    /\ ProfileFails(f)
    /\ UNCHANGED <<accounts, signIns, money>>

ProfileUnavailable(f) ==
    /\ Fault("api")
    /\ ProfileFails(f)
    /\ UNCHANGED <<onboarding, patching, signIns, money>>

ProfileUnauthorized(f) ==
    /\ f \in fetches
    /\ Fault("expired")
    /\ IF page = "login" THEN ProfileFails(f) ELSE Unauthorized
    /\ UNCHANGED <<onboarding, patching, signIns, money>>

-----------------------------------------------------------------------------
(***************************************************************************)
(* The socket of the root layout and the queries of react-query.           *)
(***************************************************************************)
JoinRoom ==
    /\ rootUser # Nobody
    /\ socket' = rootUser /\ socket' # socket
    /\ UNCHANGED <<accounts, session, data, form, signIns, money>>

\* The client connects again by itself.
Disconnect ==
    /\ socket # Nobody
    /\ Fault("socket")
    /\ socket' = Nobody
    /\ UNCHANGED <<onboarding, patching, session, data, form, signIns, money>>

\* The gateway passes the request of the token's user on to the wallet service.
QueryRead(k) ==
    /\ query[k] # NoQuery
    /\ query[k].as # Nobody /\ ~query[k].read
    /\ query' = [query EXCEPT ![k].read = TRUE, ![k].val = version[query[k].as]]
    /\ missed' = missed \ {k}
    /\ UNCHANGED <<accounts, session, cache, socket, form, signIns, money>>

QueryDone(k) ==
    /\ query[k] # NoQuery
    /\ query[k].read
    /\ cache' = [cache EXCEPT ![k] = [of |-> query[k].as, seen |-> query[k].val, stale |-> FALSE]]
    /\ query' = [query EXCEPT ![k] = NoQuery]
    /\ UNCHANGED <<accounts, session, missed, socket, form, signIns, money>>

\* Both attempts (retry: 1) have failed.
QueryFails(k) ==
    /\ query[k] # NoQuery
    /\ ~query[k].read
    /\ Fault("api")
    /\ query' = [query EXCEPT ![k] = NoQuery]
    /\ UNCHANGED <<onboarding, patching, session, cache, missed, socket, form, signIns, money>>

QueryUnauthorized(k) ==
    /\ query[k] # NoQuery
    /\ ~query[k].read
    /\ IF query[k].as = Nobody THEN UNCHANGED faults ELSE Fault("expired")
    /\ IF page # "login" THEN Unauthorized
       ELSE /\ query' = [query EXCEPT ![k] = NoQuery]
            /\ DropToken
            /\ UNCHANGED <<page, rootUser, ready, fetches, cache, missed, socket, form>>
    /\ UNCHANGED <<onboarding, patching, signIns, money>>

\* staleTime is over: the next page that uses the key asks again.
GoStale(k) ==
    /\ Usable(k)
    /\ cache' = [cache EXCEPT ![k].stale = TRUE]
    /\ UNCHANGED <<accounts, session, query, missed, socket, form, signIns, money>>

\* A request that has been answered with old data, and is not asked again.
TooLate(k) == query[k] # NoQuery /\ query[k].read

\* invalidateQueries(): what is on the page is asked again at once.  The first
\* request of a key is never cancelled, and neither is one of a page that is left.
Invalidate(K) ==
    LET again == {k \in K \intersect Active(page) : cache[k] # NoData \/ query[k] = NoQuery} IN
    /\ cache' = [k \in Keys |->
                   IF k \in K /\ cache[k] # NoData THEN [cache[k] EXCEPT !.stale = TRUE] ELSE cache[k]]
    /\ query' = [k \in Keys |-> IF k \in again THEN Ask(token) ELSE query[k]]
    /\ missed' = missed \union {k \in (K \intersect Keys) \ again : TooLate(k)}

Refresh ==
    /\ Shown /\ page = "wallet" /\ "balance" \in Keys
    /\ query["balance"] = NoQuery
    /\ query' = [query EXCEPT !["balance"] = Ask(token)]
    /\ UNCHANGED <<accounts, session, cache, missed, socket, form, signIns, money>>

-----------------------------------------------------------------------------
(***************************************************************************)
(* The wizard of the wallet page.                                          *)
(***************************************************************************)
FindRecipient(u) ==
    /\ Shown /\ page = "wallet" /\ token # Nobody
    /\ recipient = Nobody
    /\ u \in rows["profile"]
    /\ recipient' = u
    /\ UNCHANGED <<accounts, session, data, socket, confirming, waiting, signIns, money>>

ChangeRecipient ==
    /\ page = "wallet" /\ recipient # Nobody
    /\ recipient' = Nobody
    /\ UNCHANGED <<accounts, session, data, socket, confirming, waiting, signIns, money>>

Requested(t, u, v) ==
    /\ transfer[t].state = "none"
    /\ transfer' = [transfer EXCEPT ![t] = [from |-> u, to |-> v, state |-> "asked"]]
    /\ UNCHANGED <<version, events>>

\* The button is disabled while the form waits for an answer.
Confirm(t) ==
    /\ page = "wallet" /\ recipient # Nobody /\ token # Nobody
    /\ confirming = NoTransfer
    /\ Requested(t, token, recipient)
    /\ confirming' = t /\ waiting' = waiting \union {t}
    /\ UNCHANGED <<accounts, session, data, socket, recipient, signIns>>

\* The same user, or another one, on another device.
ConfirmElsewhere(t, u, v) ==
    /\ u \in users /\ v \in rows["profile"] \ {u}
    /\ Requested(t, u, v)
    /\ UNCHANGED <<accounts, session, data, socket, form, signIns>>

\* Mutant of Answered: the form goes on waiting.
AnsweredButWaiting(t) ==
    /\ t \in waiting
    /\ waiting' = waiting \ {t}
    /\ UNCHANGED confirming

Answered(t) ==
    /\ t \in waiting
    /\ waiting' = waiting \ {t}
    /\ confirming' = IF confirming = t THEN NoTransfer ELSE confirming

\* Mutant of TransferAnswered: the cache is left as it is.
TransferAnsweredOnly(t) ==
    /\ Answered(t)
    /\ transfer[t].state \in {"held", "paid", "returned"}
    /\ recipient' = IF confirming = t THEN Nobody ELSE recipient
    /\ UNCHANGED <<accounts, session, data, socket, signIns, money>>

TransferAnswered(t) ==
    /\ Answered(t)
    /\ transfer[t].state \in {"held", "paid", "returned"}
    /\ Invalidate({"balance", "history"})
    /\ recipient' = IF confirming = t THEN Nobody ELSE recipient
    /\ UNCHANGED <<accounts, session, socket, signIns, money>>

TransferRefused(t) ==
    /\ Answered(t)
    /\ transfer[t].state = "refused"
    /\ UNCHANGED <<accounts, session, data, socket, recipient, signIns, money>>

\* The keys that show a balance of u that is about to change.
Showing(u) ==
    {k \in Keys : \/ cache[k] # NoData /\ cache[k].of = u
                  \/ TooLate(k) /\ query[k].as = u}

\* The transfer may have been made, and onError() does not look.
AnswerLost(t) ==
    /\ Answered(t)
    /\ Fault("api")
    /\ missed' = missed \union Showing(transfer[t].from)
    /\ UNCHANGED <<onboarding, patching, session, cache, query, socket, recipient, signIns, money>>

-----------------------------------------------------------------------------
(***************************************************************************)
(* The transfer in the wallet service, and the notification service.       *)
(***************************************************************************)
Becomes(t, from, to) ==
    /\ transfer[t].state = from
    /\ transfer' = [transfer EXCEPT ![t].state = to]

Changed(u) == version' = [version EXCEPT ![u] = @ + 1]

Deduct(t) ==
    /\ Becomes(t, "asked", "held")
    /\ transfer[t].from \in rows["wallet"] /\ transfer[t].from # transfer[t].to
    /\ Changed(transfer[t].from)
    /\ missed' = missed \union (IF t \in waiting THEN {} ELSE Showing(transfer[t].from))
    /\ UNCHANGED <<accounts, session, cache, query, socket, form, signIns, events>>

Refuse(t) ==
    /\ Becomes(t, "asked", "refused")
    /\ UNCHANGED <<accounts, session, data, socket, form, signIns, version, events>>

\* Mutant of Credit: the event leaves before the COMMIT.
CreditPublishesFirst(t) ==
    /\ transfer[t].to \in rows["wallet"]
    /\ \/ /\ transfer[t].state = "held" /\ t \notin events
          /\ events' = events \union {t}
          /\ UNCHANGED <<transfer, version>>
       \/ /\ Becomes(t, "held", "paid")
          /\ Changed(transfer[t].to)
          /\ UNCHANGED events
    /\ UNCHANGED <<accounts, session, data, socket, form, signIns>>

Credit(t) ==
    /\ Becomes(t, "held", "paid")
    /\ transfer[t].to \in rows["wallet"]
    /\ Changed(transfer[t].to)
    /\ events' = events \union {t}
    /\ UNCHANGED <<accounts, session, data, socket, form, signIns>>

\* The event REFUNDED reaches the log of the notification service, not the tab.
Refund(t) ==
    /\ Becomes(t, "held", "returned")
    /\ Changed(transfer[t].from)
    /\ missed' = missed \union Showing(transfer[t].from)
    /\ UNCHANGED <<accounts, session, cache, query, socket, form, signIns, events>>

\* handleWalletEvent: nobody in the room, nobody is told.
Notify(t) ==
    /\ t \in events
    /\ events' = events \ {t}
    /\ IF socket = transfer[t].to THEN Invalidate({"balance", "history", "wallet-stats"})
       ELSE missed' = missed \union Showing(transfer[t].to) /\ UNCHANGED <<cache, query>>
    /\ UNCHANGED <<accounts, session, socket, form, signIns, transfer, version>>

\* The user service does not answer, or the client of it is not there yet.
NotifyFails(t) ==
    /\ t \in events
    /\ Fault("grpc")
    /\ events' = events \ {t}
    /\ missed' = missed \union Showing(transfer[t].to)
    /\ UNCHANGED <<onboarding, patching, session, cache, query, socket, form, signIns, transfer, version>>

-----------------------------------------------------------------------------
Services ==
    /\ AccountsStep
    /\ UNCHANGED <<session, socket, data, form, signIns, money>>

Browse ==
    \/ \E p \in Pages \union {"login", "register"} : OpenPage(p) \/ FollowLink(p)
    \/ \E u \in Users : SignUp(u) \/ SignIn(u)
    \/ SignInRefused \/ Logout

FetchProfile ==
    \E f \in fetches :
       ProfileFetched(f) \/ ProfileMissing(f) \/ ProfileUnavailable(f) \/ ProfileUnauthorized(f)

Query(k) ==
    QueryRead(k) \/ QueryDone(k) \/ QueryFails(k) \/ QueryUnauthorized(k) \/ GoStale(k)

Send(t) ==
    \/ Confirm(t) \/ \E u, v \in Users : ConfirmElsewhere(t, u, v)
    \/ TransferAnswered(t) \/ TransferRefused(t) \/ AnswerLost(t)

Settle(t) ==
    Deduct(t) \/ Refuse(t) \/ Credit(t) \/ Refund(t) \/ Notify(t) \/ NotifyFails(t)

Next ==
    \/ Services \/ Browse \/ FetchProfile
    \/ JoinRoom \/ Disconnect \/ Refresh \/ ChangeRecipient
    \/ \E k \in Keys : Query(k)
    \/ \E u \in Users : FindRecipient(u)
    \/ \E t \in Transfers : Send(t) \/ Settle(t)

Spec == Init /\ [][Next]_vars

-----------------------------------------------------------------------------
(***************************************************************************)
(* Properties.                                                             *)
(***************************************************************************)
Somebody == Users \union {Nobody}

TypeOK ==
    /\ AccountsTypeOK
    /\ page \in Pages \union {"login", "register"}
    /\ {token, rootUser, socket, recipient} \subseteq Somebody /\ ready \in BOOLEAN
    /\ fetches \subseteq [by : {"root", "page", "gone"}, as : Users, push : BOOLEAN]
    /\ cache \in [Keys -> {NoData} \union [of : Users, seen : Nat, stale : BOOLEAN]]
    /\ query \in [Keys -> {NoQuery} \union [as : Somebody, read : BOOLEAN, val : Nat]]
    /\ confirming \in waiting \union {NoTransfer} /\ waiting \subseteq Transfers
    /\ signIns \in 0 .. MaxSignIns /\ mixed \in BOOLEAN /\ missed \subseteq Keys
    /\ transfer \in [Transfers -> [from : Somebody, to : Somebody,
                       state : {"none", "asked", "held", "paid", "returned", "refused"}]]
    /\ version \in [Users -> Nat] /\ events \subseteq Transfers

\* Everybody whose data or requests the document holds.
Owners ==
    ({token, socket, rootUser}
       \union {f.as : f \in fetches}
       \union {cache[k].of : k \in {j \in Keys : cache[j] # NoData}}
       \union {query[k].as : k \in {j \in Keys : query[j] # NoQuery}}) \ {Nobody}

\* A document holds the data of one user, unless its token has been taken away or
\* replaced in place (a logout, a failed login or fetchProfile()): neither the
\* redirect after a 401 nor the late answer of a request leaves anything of the
\* user before.
OneUserPerDocument == ~mixed => Cardinality(Owners) <= 1

\* What the tab takes for fresh is the balance that the wallet service has, once
\* every answer and every notification about it has arrived, unless a change was
\* not made known to it (missed).
CurrentWhenQuiet ==
    \A k \in Keys \intersect {"balance", "history"} :
       Usable(k) /\ query[k] = NoQuery /\ k \notin missed =>
          \/ cache[k].seen = version[cache[k].of]
          \/ \E t \in waiting : transfer[t].from = cache[k].of
          \/ \E t \in events : transfer[t].to = cache[k].of
=============================================================================
