----------------------------- MODULE QueryCache -----------------------------
(***************************************************************************)
(* The dashboard's query cache: the hooks of web/src/hooks/useApi.ts over  *)
(* the requests of web/src/api/client.ts, with the defaults that           *)
(* web/src/main.tsx gives the TanStack query client.  The engine is a      *)
(* library (query-core 5.96, web/package-lock.json) and is modelled from   *)
(* the options the code gives it: a polled query joins the fetch already   *)
(* in flight, an invalidation or a click on "Try again" replaces it once   *)
(* the query has data, a failed fetch is repeated Retry times and then     *)
(* leaves its error beside the data it had.  While the browser takes       *)
(* itself to be offline, fetches, repeats and calls that would start are   *)
(* held back; once it is online again the calls go out, and when they are  *)
(* answered the fetches do.                                                *)
(*                                                                         *)
(* Data are versions: the node's answer to a query is how often the data   *)
(* behind it have changed when the node read them.                         *)
(***************************************************************************)
EXTENDS Naturals, Screens

CONSTANTS
  Key,          \* the queries of an instance
  Call,         \* the mutations a user submits
  HookOf(_),    \* the mutation hook of each
  MaxVersion,   \* bound on the version the node reaches on its own
  MaxFailures,  \* bound on the fetches that fail
  MaxOffline    \* bound on the times the network goes away

Hooks == {"registerAgent", "executeAgent", "createOrder", "createWorkflow",
          "cancelWorkflow"}

\* the queries and how often each is repeated while a page shows it, in ms
RefetchInterval ==
  [status |-> 5000, peers |-> 5000, agents |-> 5000, localAgents |-> 5000,
   walletBalance |-> 10000, orders |-> 5000, sessions |-> 5000, session |-> 5000,
   workflows |-> 5000, workflow |-> 5000, reputation |-> 30000]
Queries == DOMAIN RefetchInterval

\* the defaults of the query client
Retry == 1
StaleTime == 2000

\* the queries a successful mutation invalidates
Invalidates(h) ==
  CASE h = "registerAgent"  -> {"localAgents"}
    [] h = "createOrder"    -> {"orders"}
    [] h = "createWorkflow" -> {"workflows"}
    [] h = "cancelWorkflow" -> {"workflows"}
    [] OTHER                -> {}

\* the queries whose data a request has changed at the node when it is answered;
\* a cancellation only signals the run, which saves its record when it comes to
\* it, or never
Changes(h) ==
  CASE h = "registerAgent"  -> {"localAgents", "agents"}
    [] h = "executeAgent"   -> {"sessions", "session"}
    [] h = "createOrder"    -> {"orders"}
    [] h = "createWorkflow" -> {"workflows"}
    [] h = "cancelWorkflow" -> {}

ASSUME QueryCacheAssumption ==
  /\ Key \subseteq Queries
  /\ \A c \in Call : HookOf(c) \in Hooks
  /\ MaxVersion \in Nat \ {0} /\ MaxFailures \in Nat /\ MaxOffline \in Nat

\* data are stale again before the next poll comes round
ASSUME PollsFindStaleData == \A q \in Queries : StaleTime < RefetchInterval[q]

VARIABLES
  version,    \* the node's data
  observed,   \* the queries a mounted component uses, and has enabled
  data,       \* what the cache holds
  fresh,      \* neither stale nor invalidated
  failed,     \* the query is in error
  fetch,      \* the fetch in flight
  failures,   \* how many have failed
  call,       \* where each mutation stands
  wrote,      \* the versions a mutation made at the node (history)
  due,        \* the queries its success could refresh (history)
  online,     \* what the browser takes itself to be
  offlines,   \* how often it was offline
  awaited     \* the calls each return of the network waits for

queries == <<observed, data, fresh, failed, fetch, failures>>
calls == <<call, wrote, due>>
network == <<online, offlines, awaited>>
vars == <<version, queries, calls, network>>

NoData == 0
Idle == [at |-> "idle", attempt |-> 0, value |-> NoData]
Sent(n) == [at |-> "sent", attempt |-> n, value |-> NoData]
Paused(n) == [at |-> "paused", attempt |-> n, value |-> NoData]
Begun(n) == IF online THEN Sent(n) ELSE Paused(n)

TypeOK ==
  /\ version \in [Key -> Nat \ {0}]
  /\ observed \subseteq Key
  /\ data \in [Key -> Nat]
  /\ fresh \subseteq Key
  /\ failed \subseteq Key
  /\ fetch \in [Key -> [at : {"idle", "paused", "sent", "read"}, attempt : 0..Retry,
                       value : Nat]]
  /\ failures \in 0..MaxFailures
  /\ call \in [Call -> {"idle", "paused", "sent", "applied", "ok", "failed"}]
  /\ wrote \in [Call -> [Key -> Nat]]
  /\ due \in [Call -> SUBSET Key]
  /\ online \in BOOLEAN
  /\ offlines \in 0..MaxOffline
  /\ awaited \subseteq SUBSET Call

Init ==
  /\ version = [k \in Key |-> 1]
  /\ observed = {} /\ fresh = {} /\ failed = {}
  /\ data = [k \in Key |-> NoData]
  /\ fetch = [k \in Key |-> Idle]
  /\ failures = 0
  /\ call = [c \in Call |-> "idle"]
  /\ wrote = [c \in Call |-> [k \in Key |-> NoData]]
  /\ due = [c \in Call |-> {}]
  /\ online = TRUE
  /\ offlines = 0
  /\ awaited = {}

-----------------------------------------------------------------------------
(* Fetches *)

Loaded(k) == data[k] # NoData
InFlight(k) == fetch[k].at \in {"sent", "read"}

\* a new fetch; an error is kept only beside data
Started(K) ==
  /\ fetch' = [k \in Key |-> IF k \in K THEN Begun(0) ELSE fetch[k]]
  /\ failed' = {k \in failed : k \in K => Loaded(k)}

\* mutant: whoever asks again is given the fetch already in flight
JoinsAny(K) == Started({k \in K : fetch[k].at = "idle"})

\* refetch(), and what an invalidation does to the queries in use: the fetch in
\* flight is replaced, unless it is the query's first
Refetch(K) == Started({k \in K : fetch[k].at = "idle" \/ Loaded(k)})

\* a component that uses the query is mounted: stale data are fetched again
Observe(k) ==
  /\ k \notin observed
  /\ observed' = observed \cup {k}
  /\ Started({k} \ (fresh \cup {q \in Key : fetch[q].at # "idle"}))
  /\ UNCHANGED <<version, data, fresh, failures, calls, network>>

\* the last one is unmounted, or disables it; the fetch in flight goes on, but a
\* first one that is held back is dropped
Leave(k) ==
  /\ k \in observed
  /\ observed' = observed \ {k}
  /\ fetch' = [fetch EXCEPT ![k] = IF @.at = "paused" /\ ~Loaded(k) THEN Idle ELSE @]
  /\ UNCHANGED <<version, data, fresh, failed, failures, calls, network>>

\* mutant: the hook gives no refetchInterval
NeverPolls(k) == FALSE /\ UNCHANGED vars

\* the refetchInterval of every hook
Poll(k) ==
  /\ k \in observed /\ fetch[k].at = "idle"
  /\ Started({k})
  /\ UNCHANGED <<version, observed, data, fresh, failures, calls, network>>

\* the button of ErrorState
TryAgain(k) ==
  /\ k \in observed \cap failed
  /\ Refetch({k})
  /\ UNCHANGED <<version, observed, data, fresh, failures, calls, network>>

\* the node reads its data for the answer
NodeReads(k) ==
  /\ fetch[k].at = "sent"
  /\ fetch' = [fetch EXCEPT
       ![k] = [at |-> "read", attempt |-> fetch[k].attempt, value |-> version[k]]]
  /\ UNCHANGED <<version, observed, data, fresh, failed, failures, calls, network>>

\* request() resolves
FetchSucceeds(k) ==
  /\ fetch[k].at = "read"
  /\ data' = [data EXCEPT ![k] = fetch[k].value]
  /\ fetch' = [fetch EXCEPT ![k] = Idle]
  /\ fresh' = fresh \cup {k}
  /\ failed' = failed \ {k}
  /\ UNCHANGED <<version, observed, failures, calls, network>>

\* mutant: a failed fetch is repeated as long as somebody looks
RepeatsForEver(k) ==
  /\ InFlight(k) /\ failures < MaxFailures
  /\ failures' = failures + 1
  /\ IF k \in observed
     THEN /\ fetch' = [fetch EXCEPT ![k] = Begun(@.attempt + 1)]
          /\ UNCHANGED <<fresh, failed>>
     ELSE /\ fetch' = [fetch EXCEPT ![k] = Idle]
          /\ fresh' = fresh \ {k} /\ failed' = failed \cup {k}
  /\ UNCHANGED <<version, observed, data, calls, network>>

\* mutant: request() does not throw
SwallowsErrors(k) ==
  /\ InFlight(k) /\ failures < MaxFailures
  /\ failures' = failures + 1
  /\ fetch' = [fetch EXCEPT ![k] = Idle]
  /\ fresh' = fresh \ {k}
  /\ UNCHANGED <<version, observed, data, failed, calls, network>>

\* request() throws, on a network error or an answer that is not ok; it is
\* repeated Retry times, and not at all when nobody looks any more
FetchFails(k) ==
  /\ InFlight(k) /\ failures < MaxFailures
  /\ failures' = failures + 1
  /\ IF fetch[k].attempt < Retry /\ k \in observed
     THEN /\ fetch' = [fetch EXCEPT ![k] = Begun(@.attempt + 1)]
          /\ UNCHANGED <<fresh, failed>>
     ELSE /\ fetch' = [fetch EXCEPT ![k] = Idle]
          /\ fresh' = fresh \ {k} /\ failed' = failed \cup {k}
  /\ UNCHANGED <<version, observed, data, calls, network>>

\* staleTime has passed
Age(k) ==
  /\ k \in fresh
  /\ fresh' = fresh \ {k}
  /\ UNCHANGED <<version, observed, data, failed, fetch, failures, calls, network>>

\* the cache drops what nobody has used for five minutes
Collect(k) ==
  /\ k \notin observed /\ fetch[k].at = "idle" /\ Loaded(k)
  /\ data' = [data EXCEPT ![k] = NoData]
  /\ fresh' = fresh \ {k} /\ failed' = failed \ {k}
  /\ UNCHANGED <<version, observed, fetch, failures, calls, network>>

-----------------------------------------------------------------------------
(* Mutations *)

Advance(c, place) == call' = [call EXCEPT ![c] = place]

Submit(c) ==
  /\ call[c] = "idle"
  /\ Advance(c, IF online THEN "sent" ELSE "paused")
  /\ UNCHANGED <<version, queries, wrote, due, network>>

Bumped(K) == [k \in Key |-> IF k \in K THEN version[k] + 1 ELSE version[k]]

\* the node does what it is asked to
NodeApplies(c) ==
  /\ call[c] = "sent"
  /\ Advance(c, "applied")
  /\ version' = Bumped(Changes(HookOf(c)))
  /\ wrote' = [wrote EXCEPT ![c] = version']
  /\ UNCHANGED <<queries, due, network>>

\* mutant: the answer is put into the cache, and the fetch in flight left alone
WritesCache(c) ==
  /\ call[c] = "applied"
  /\ Advance(c, "ok")
  /\ data' = [k \in Key |-> IF k \in Invalidates(HookOf(c)) THEN wrote[c][k] ELSE data[k]]
  /\ due' = [due EXCEPT ![c] = {}]
  /\ UNCHANGED <<version, observed, fresh, failed, fetch, failures, wrote, network>>

\* onSuccess: the queries are invalidated, and those in use fetched again
CallSucceeds(c) ==
  /\ call[c] = "applied"
  /\ Advance(c, "ok")
  /\ fresh' = fresh \ Invalidates(HookOf(c))
  /\ Refetch(Invalidates(HookOf(c)) \cap observed)
  /\ due' = [due EXCEPT ![c] = {k \in Key : \/ ~InFlight(k)
                                            \/ (k \in observed /\ Loaded(k))}]
  /\ UNCHANGED <<version, observed, data, failures, wrote, network>>

\* the node refuses, or its answer is lost; mutations are not repeated
CallFails(c) ==
  /\ call[c] \in {"sent", "applied"}
  /\ Advance(c, "failed")
  /\ UNCHANGED <<version, queries, wrote, due, network>>

\* other users and the network change the node
NodeChanges(k) ==
  /\ \A q \in Key : version[q] < MaxVersion
  /\ version' = Bumped({k})
  /\ UNCHANGED <<queries, calls, network>>

-----------------------------------------------------------------------------
(* The network, as the browser sees it *)

Disconnect ==
  /\ online /\ offlines < MaxOffline
  /\ online' = FALSE
  /\ offlines' = offlines + 1
  /\ UNCHANGED <<version, queries, calls, awaited>>

\* the calls held back go out
Reconnect ==
  /\ ~online
  /\ online' = TRUE
  /\ LET held == {c \in Call : call[c] = "paused"} IN
     /\ call' = [c \in Call |-> IF c \in held THEN "sent" ELSE call[c]]
     /\ awaited' = awaited \cup {held}
  /\ UNCHANGED <<version, queries, wrote, due, offlines>>

\* when they are answered the fetches held back go out, if the browser is still
\* online, and stale data in use are fetched again
Resume ==
  /\ \E held \in awaited :
       /\ \A c \in held : call[c] \in {"ok", "failed"}
       /\ awaited' = awaited \ {held}
  /\ LET stale == {k \in observed \ fresh : fetch[k].at = "idle"}
         back == {k \in Key : online /\ fetch[k].at = "paused"} IN
     /\ fetch' = [k \in Key |-> IF k \in stale THEN Begun(0)
                               ELSE IF k \in back THEN Sent(fetch[k].attempt) ELSE fetch[k]]
     /\ failed' = {k \in failed : k \in stale => Loaded(k)}
  /\ UNCHANGED <<version, observed, data, fresh, failures, calls, online, offlines>>

-----------------------------------------------------------------------------
QueryNext(k) ==
  \/ Observe(k) \/ Leave(k) \/ Poll(k) \/ TryAgain(k)
  \/ NodeReads(k) \/ FetchSucceeds(k) \/ FetchFails(k)
  \/ Age(k) \/ Collect(k) \/ NodeChanges(k)

CallNext(c) == Submit(c) \/ NodeApplies(c) \/ CallSucceeds(c) \/ CallFails(c)

NetworkNext == Disconnect \/ Reconnect \/ Resume

Next == (\E k \in Key : QueryNext(k)) \/ (\E c \in Call : CallNext(c)) \/ NetworkNext

Spec == Init /\ [][Next]_vars

\* timers fire, the node answers, and an answer that keeps coming is taken some
\* time: nobody clicks "Try again" for ever just before it arrives
Fairness ==
  /\ \A k \in Key :
       WF_vars(Poll(k)) /\ WF_vars(NodeReads(k)) /\ SF_vars(FetchSucceeds(k))
  /\ WF_vars(Resume)

FairSpec == Spec /\ Fairness

-----------------------------------------------------------------------------
(* Properties *)

\* the list on which a user looks for what a mutation did; what a cancellation
\* does comes after its answer, with the run's own changes of its record
ListOf(h) ==
  CASE h = "registerAgent" -> {"localAgents"}
    [] h = "createOrder" -> {"orders"}
    [] h = "createWorkflow" -> {"workflows"}
    [] OTHER -> {}

\* After a mutation has succeeded its list never passes for fresh without what
\* the mutation did: a fetch the node had answered before is replaced.  It is
\* not replaced when it is the query's first, or when no page shows the query;
\* such lists are not due, and catch up with the next poll (useApi.ts 69-141).
WritesShow ==
  \A c \in Call : call[c] = "ok" =>
    \A k \in ListOf(HookOf(c)) \cap due[c] \cap fresh : data[k] >= wrote[c][k]

\* A list says that it is empty, and the dashboard that there are no peers, only of
\* an answer of the node: while there is none the query is loading or in error, and
\* the page shows that instead; only a first fetch that is held back while the
\* browser is offline is taken for an empty answer.  (The agents above the sessions
\* and the other figures of the dashboard promise nothing of the kind: Sessions.tsx
\* 34, Dashboard.tsx 54-57.)  Orders.tsx 33-78, Wallet.tsx 10-17, Dashboard.tsx
\* 28-53 and the others of Screens.
Shown(k) ==
  [data |-> IF Loaded(k) THEN "empty" ELSE "none",
   error |-> k \in failed,
   loading |-> ~Loaded(k) /\ InFlight(k)]

EmptyMeansEmpty ==
  \A k \in observed : ~Loaded(k) /\ fetch[k].at # "paused" =>
    LET r == Shown(k) IN
    /\ "nothing" \notin {AgentsSay(r), OrdersSay(r), WorkflowsSay(r), WalletSays(r)}
    /\ \A a, b, c \in Key :
         /\ SessionsSay(Shown(a), r).sessions # "nothing"
         /\ DashboardSays(r, Shown(a), Shown(b), Shown(c)).peers # "nothing"

\* Pages see the node's data in the order in which they came to be, whatever
\* fetches, repeats, invalidations and mutations cross (useApi.ts).
View == INSTANCE CachedView WITH shown <- data
ImplementsCachedView == View!Spec

\* What changes at the node is shown, and an error taken off the screen, as
\* long as the page stays, not every fetch fails, the browser stays online and no
\* call is left without an answer: by the polls, since no mutation invalidates
\* everything it changes, and a cancellation changes nothing yet (useApi.ts 6-67).
ChangesShow ==
  \/ []<>~online
  \/ \E c \in Call : <>[](call[c] \in {"sent", "applied"})
  \/ \A k \in Key : \A v \in 1..MaxVersion :
       (k \in observed /\ version[k] >= v)
         ~> (k \notin observed \/ (data[k] >= v /\ k \notin failed))
=============================================================================
