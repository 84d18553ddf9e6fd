-------------------------- MODULE QueryCacheProofs --------------------------
(***************************************************************************)
(* The inductive invariant of QueryCache, for any queries, mutations,      *)
(* versions and failures, and the refinement of CachedView.                *)
(***************************************************************************)
EXTENDS QueryCache, TLAPS

\* what is in the cache, and on its way to it, came from the node, the newest
\* last; what cannot be shown yet is being fetched, or is in error
EntryInv(k) ==
  /\ version[k] >= 1
  /\ data[k] <= version[k]
  /\ fetch[k].at = "read" =>
       fetch[k].value \in 1..version[k] /\ data[k] <= fetch[k].value
  /\ k \in fresh => data[k] # NoData
  /\ k \in observed /\ data[k] = NoData => k \in failed \/ fetch[k].at # "idle"

\* what a mutation has made known to be stale: neither the data that pass for
\* fresh nor the answer on its way are older than the mutation
CallInv(c) ==
  /\ \A k \in Key : wrote[c][k] <= version[k]
  /\ call[c] = "ok" => \A k \in ListOf(HookOf(c)) \cap due[c] :
       /\ k \in fresh => wrote[c][k] <= data[k]
       /\ fetch[k].at = "read" => wrote[c][k] <= fetch[k].value

IInv ==
  /\ TypeOK
  /\ \A k \in Key : EntryInv(k)
  /\ \A c \in Call : CallInv(c)

Fetch == [at : {"idle", "paused", "sent", "read"}, attempt : 0..Retry, value : Nat]

-----------------------------------------------------------------------------
(* The parts of a step *)

USE QueryCacheAssumption

\* Every list a user looks on for a mutation is among the queries its hook
\* invalidates (useApi.ts 69-141).
LEMMA ListsAreInvalidated ==
  ASSUME NEW c \in Call
  PROVE  ListOf(HookOf(c)) \subseteq Invalidates(HookOf(c))
BY DEF ListOf, Invalidates, Hooks

\* A fetch that is sent is one, whatever its attempt.
LEMMA SentIsFetch ==
  /\ Idle \in Fetch /\ Idle.at = "idle"
  /\ \A n \in 0..Retry :
       /\ Sent(n) \in Fetch /\ Sent(n).at = "sent"
       /\ Begun(n) \in Fetch /\ Begun(n).at \in {"sent", "paused"}
BY DEF Fetch, Idle, Sent, Paused, Begun, NoData, Retry

\* A fetch that starts leaves the others alone.
LEMMA StartedFetches ==
  ASSUME TypeOK, NEW K, Started(K)
  PROVE  /\ fetch' \in [Key -> Fetch]
         /\ failed' \subseteq failed
         /\ \A k \in Key : k \in K => fetch'[k].at \in {"sent", "paused"}
         /\ \A k \in Key : k \notin K => fetch'[k] = fetch[k]
         /\ \A k \in Key : data[k] = NoData /\ k \in failed => k \in failed' \/ k \in K
         /\ \A k \in Key : k \in failed /\ k \notin K => k \in failed'
<1>1. Begun(0) \in Fetch /\ Begun(0).at \in {"sent", "paused"}
  BY SentIsFetch DEF Retry
<1>2. fetch \in [Key -> Fetch]
  BY DEF TypeOK, Fetch
<1> QED
  BY <1>1, <1>2 DEF Started, Loaded, TypeOK

\* The node's data only change for newer ones.
LEMMA BumpedVersions ==
  ASSUME TypeOK, NEW K, version' = Bumped(K)
  PROVE  /\ version' \in [Key -> Nat \ {0}]
         /\ \A k \in Key : version[k] <= version'[k]
BY DEF TypeOK, Bumped

-----------------------------------------------------------------------------
(* Types *)

\* A query's step keeps the types (useApi.ts 6-67).
LEMMA QueryTypes ==
  ASSUME TypeOK, NEW k \in Key, QueryNext(k)
  PROVE  TypeOK'
<1>f. fetch \in [Key -> Fetch]
  BY DEF TypeOK, Fetch
<1>1. CASE Observe(k)
  BY <1>1, StartedFetches DEF Observe, TypeOK, Fetch, calls, network
<1>2. CASE Leave(k)
  <2>1. fetch' \in [Key -> Fetch]
    BY <1>2, <1>f, SentIsFetch DEF Leave
  <2> QED BY <1>2, <2>1 DEF Leave, TypeOK, Fetch, calls, network
<1>3. CASE Poll(k)
  BY <1>3, StartedFetches DEF Poll, TypeOK, Fetch, calls, network
<1>4. CASE TryAgain(k)
  BY <1>4, StartedFetches DEF TryAgain, Refetch, TypeOK, Fetch, calls, network
<1>5. CASE NodeReads(k)
  <2>1. [at |-> "read", attempt |-> fetch[k].attempt, value |-> version[k]] \in Fetch
    BY <1>f DEF TypeOK, Fetch
  <2>2. fetch' \in [Key -> Fetch]
    BY <1>5, <1>f, <2>1 DEF NodeReads
  <2> QED BY <1>5, <2>2 DEF NodeReads, TypeOK, Fetch, calls, network
<1>6. CASE FetchSucceeds(k)
  <2>1. fetch' \in [Key -> Fetch]
    BY <1>6, <1>f, SentIsFetch DEF FetchSucceeds
  <2>2. fetch[k].value \in Nat
    BY <1>f DEF Fetch
  <2> QED BY <1>6, <2>1, <2>2 DEF FetchSucceeds, TypeOK, Fetch, calls, network
<1>7. CASE FetchFails(k)
  <2>1. fetch' \in [Key -> Fetch]
    <3>1. CASE fetch[k].attempt < Retry /\ k \in observed
      <4>1. fetch[k].attempt + 1 \in 0..Retry
        BY <1>f, <3>1 DEF Fetch, Retry
      <4>2. fetch' = [fetch EXCEPT ![k] = Begun(fetch[k].attempt + 1)]
        BY <1>7, <3>1 DEF FetchFails
      <4> QED BY <1>f, <4>1, <4>2, SentIsFetch
    <3>2. CASE ~(fetch[k].attempt < Retry /\ k \in observed)
      BY <1>7, <1>f, <3>2, SentIsFetch DEF FetchFails
    <3> QED BY <3>1, <3>2
  <2>2. failures' \in 0..MaxFailures
    BY <1>7 DEF FetchFails, TypeOK
  <2>3. fresh' \subseteq Key /\ failed' \subseteq Key
    BY <1>7 DEF FetchFails, TypeOK
  <2> QED BY <1>7, <2>1, <2>2, <2>3 DEF FetchFails, TypeOK, Fetch, calls, network
<1>8. CASE Age(k)
  BY <1>8 DEF Age, TypeOK, calls, network
<1>9. CASE Collect(k)
  BY <1>9 DEF Collect, TypeOK, NoData, calls, network
<1>10. CASE NodeChanges(k)
  BY <1>10, BumpedVersions DEF NodeChanges, TypeOK, queries, calls, network
<1> QED
  BY <1>1, <1>2, <1>3, <1>4, <1>5, <1>6, <1>7, <1>8, <1>9, <1>10 DEF QueryNext

\* A mutation's step keeps the types (useApi.ts 69-141).
LEMMA CallTypes ==
  ASSUME TypeOK, NEW c \in Call, CallNext(c)
  PROVE  TypeOK'
<1>1. CASE Submit(c)
  BY <1>1 DEF Submit, Advance, TypeOK, queries, network
<1>2. CASE NodeApplies(c)
  <2>1. version' \in [Key -> Nat \ {0}]
    BY <1>2, BumpedVersions DEF NodeApplies
  <2>2. wrote' \in [Call -> [Key -> Nat]]
    BY <1>2, <2>1 DEF NodeApplies, TypeOK
  <2> QED BY <1>2, <2>1, <2>2 DEF NodeApplies, Advance, TypeOK, queries, network
<1>3. CASE CallSucceeds(c)
  <2>1. fetch' \in [Key -> Fetch] /\ failed' \subseteq failed
    BY <1>3, StartedFetches DEF CallSucceeds, Refetch
  <2>2. due' \in [Call -> SUBSET Key]
    BY <1>3 DEF CallSucceeds, TypeOK
  <2>3. call' \in [Call -> {"idle", "paused", "sent", "applied", "ok", "failed"}]
    BY <1>3 DEF CallSucceeds, Advance, TypeOK
  <2> QED BY <1>3, <2>1, <2>2, <2>3 DEF CallSucceeds, TypeOK, Fetch, network
<1>4. CASE CallFails(c)
  BY <1>4 DEF CallFails, Advance, TypeOK, queries, network
<1> QED
  BY <1>1, <1>2, <1>3, <1>4 DEF CallNext

\* The fetches that go out when the network is back.
LEMMA ResumedFetches ==
  ASSUME TypeOK, Resume
  PROVE  /\ fetch' \in [Key -> Fetch] /\ failed' \subseteq failed
         /\ \A k \in Key : fetch'[k] = fetch[k] \/ fetch'[k].at \in {"sent", "paused"}
         /\ \A k \in Key : data[k] = NoData /\ k \in failed =>
                             k \in failed' \/ fetch'[k].at # "idle"
         /\ UNCHANGED <<version, observed, data, fresh, failures, calls, online, offlines>>
         /\ awaited' \subseteq awaited
<1>1. \A n \in 0..Retry :
        /\ Sent(n) \in Fetch /\ Sent(n).at = "sent"
        /\ Begun(n) \in Fetch /\ Begun(n).at \in {"sent", "paused"}
  BY SentIsFetch
<1>2. fetch \in [Key -> Fetch] /\ \A k \in Key : fetch[k].attempt \in 0..Retry
  BY DEF TypeOK, Fetch
<1>3. 0 \in 0..Retry
  BY DEF Retry
<1> DEFINE stale == {k \in observed \ fresh : fetch[k].at = "idle"}
           back == {k \in Key : online /\ fetch[k].at = "paused"}
<1>4. /\ fetch' = [k \in Key |-> IF k \in stale THEN Begun(0)
                                ELSE IF k \in back THEN Sent(fetch[k].attempt) ELSE fetch[k]]
      /\ failed' = {k \in failed : k \in stale => Loaded(k)}
      /\ UNCHANGED <<version, observed, data, fresh, failures, calls, online, offlines>>
      /\ awaited' \subseteq awaited
  BY DEF Resume
<1> HIDE DEF stale, back
<1>5. \A k \in Key :
        /\ fetch'[k] \in Fetch
        /\ fetch'[k] = fetch[k] \/ fetch'[k].at \in {"sent", "paused"}
        /\ k \in stale => fetch'[k].at # "idle"
  BY <1>1, <1>2, <1>3, <1>4
<1>6. fetch' \in [Key -> Fetch]
  <2> DEFINE f(k) == IF k \in stale THEN Begun(0)
                     ELSE IF k \in back THEN Sent(fetch[k].attempt) ELSE fetch[k]
  <2>1. fetch' = [k \in Key |-> f(k)] /\ \A k \in Key : f(k) \in Fetch
    BY <1>4, <1>5
  <2> HIDE DEF f
  <2> QED BY <2>1
<1>7. \A k \in Key : data[k] = NoData /\ k \in failed => k \in failed' \/ k \in stale
  BY <1>4 DEF Loaded
<1>8. failed' \subseteq failed
  BY <1>4
<1>9. \A k \in Key : data[k] = NoData /\ k \in failed =>
                      k \in failed' \/ fetch'[k].at # "idle"
  BY <1>5, <1>7
<1> QED BY <1>4, <1>5, <1>6, <1>8, <1>9

\* The network's comings and goings keep the types.
LEMMA NetworkTypes ==
  ASSUME TypeOK, NetworkNext
  PROVE  TypeOK'
<1>1. CASE Disconnect
  <2>1. offlines' \in 0..MaxOffline
    BY <1>1 DEF Disconnect, TypeOK
  <2> QED BY <1>1, <2>1 DEF Disconnect, TypeOK, queries, calls
<1>2. CASE Reconnect
  <2>1. call' \in [Call -> {"idle", "paused", "sent", "applied", "ok", "failed"}]
    BY <1>2 DEF Reconnect, TypeOK
  <2>2. awaited' \subseteq SUBSET Call
    BY <1>2 DEF Reconnect, TypeOK
  <2> QED BY <1>2, <2>1, <2>2 DEF Reconnect, TypeOK, queries
<1>3. CASE Resume
  BY <1>3, ResumedFetches DEF TypeOK, Fetch, calls
<1> QED
  BY <1>1, <1>2, <1>3 DEF NetworkNext

\* A step keeps the types.
LEMMA NextTypes ==
  ASSUME TypeOK, [Next]_vars
  PROVE  TypeOK'
<1>1. CASE UNCHANGED vars
  BY <1>1 DEF vars, queries, calls, network, TypeOK
<1>2. CASE Next
  BY <1>2, QueryTypes, CallTypes, NetworkTypes DEF Next
<1> QED BY <1>1, <1>2

\* The initial values have their types.
LEMMA InitTypes ==
  ASSUME Init
  PROVE  TypeOK
<1>1. fetch \in [Key -> Fetch]
  BY SentIsFetch DEF Init
<1> QED BY <1>1 DEF Init, TypeOK, Fetch, NoData

-----------------------------------------------------------------------------
(* What the cache holds *)

\* A step at one query keeps what is known of every query's data and fetch
\* (useApi.ts 6-67).
LEMMA QueryEntries ==
  ASSUME IInv, NEW q \in Key, QueryNext(q), TypeOK', NEW k \in Key
  PROVE  EntryInv(k)'
<1>i. TypeOK /\ EntryInv(k) /\ EntryInv(q)
  BY DEF IInv
<1>1. CASE Observe(q)
  <2>1. Started({q} \ (fresh \cup {p \in Key : fetch[p].at # "idle"}))
    BY <1>1 DEF Observe
  <2>2. k = q /\ data[q] = NoData => fetch'[q].at # "idle"
    BY <1>i, <2>1, StartedFetches DEF EntryInv
  <2>3. fetch'[k] = fetch[k] \/ fetch'[k].at \in {"sent", "paused"}
    BY <1>i, <2>1, StartedFetches
  <2>4. data[k] = NoData /\ k \in failed => k \in failed' \/ fetch'[k].at # "idle"
    BY <1>i, <2>1, StartedFetches
  <2> QED BY <1>1, <1>i, <2>2, <2>3, <2>4 DEF Observe, EntryInv, calls, network
<1>2. CASE Leave(q)
  <2>1. fetch'[k] = fetch[k] \/ (k = q /\ fetch'[k] = Idle)
    BY <1>2, <1>i DEF Leave, TypeOK
  <2> QED BY <1>2, <1>i, <2>1, SentIsFetch DEF Leave, EntryInv, calls, network
<1>3. CASE Poll(q)
  <2>1. fetch'[k] = fetch[k] \/ fetch'[k].at \in {"sent", "paused"}
    BY <1>3, <1>i, StartedFetches DEF Poll
  <2>2. data[k] = NoData /\ k \in failed => k \in failed' \/ fetch'[k].at # "idle"
    BY <1>3, <1>i, StartedFetches DEF Poll
  <2> QED BY <1>3, <1>i, <2>1, <2>2 DEF Poll, EntryInv, calls, network
<1>4. CASE TryAgain(q)
  <2>1. fetch'[k] = fetch[k] \/ fetch'[k].at \in {"sent", "paused"}
    BY <1>4, <1>i, StartedFetches DEF TryAgain, Refetch
  <2>2. data[k] = NoData /\ k \in failed => k \in failed' \/ fetch'[k].at # "idle"
    BY <1>4, <1>i, StartedFetches DEF TryAgain, Refetch
  <2> QED BY <1>4, <1>i, <2>1, <2>2 DEF TryAgain, EntryInv, calls, network
<1>5. CASE NodeReads(q)
  <2>1. fetch'[k] = IF k = q THEN [at |-> "read", attempt |-> fetch[q].attempt,
                                   value |-> version[q]]
                             ELSE fetch[k]
    BY <1>5, <1>i DEF NodeReads, TypeOK
  <2> QED BY <1>5, <1>i, <2>1 DEF NodeReads, EntryInv, TypeOK, calls, network
<1>6. CASE FetchSucceeds(q)
  <2>1. fetch'[k] = (IF k = q THEN Idle ELSE fetch[k])
    BY <1>6, <1>i DEF FetchSucceeds, TypeOK
  <2>2. data'[k] = (IF k = q THEN fetch[q].value ELSE data[k])
    BY <1>6, <1>i DEF FetchSucceeds, TypeOK
  <2>3. fetch[q].value \in 1..version[q]
    BY <1>6, <1>i DEF FetchSucceeds, EntryInv
  <2>4. version \in [Key -> Nat \ {0}]
    BY <1>i DEF TypeOK
  <2> QED BY <1>6, <1>i, <2>1, <2>2, <2>3, <2>4, SentIsFetch
          DEF FetchSucceeds, EntryInv, NoData, calls, network
<1>7. CASE FetchFails(q)
  <2>1. k # q => fetch'[k] = fetch[k] /\ (k \in fresh' <=> k \in fresh)
                 /\ (k \in failed' <=> k \in failed)
    BY <1>7, <1>i DEF FetchFails, TypeOK
  <2>2. k = q => \/ fetch'[k].at \in {"sent", "paused"} /\ fresh' = fresh
                 \/ fetch'[k].at = "idle" /\ k \in failed' /\ fresh' \subseteq fresh
    <3>1. CASE fetch[q].attempt < Retry /\ q \in observed
      <4>1. fetch[q].attempt + 1 \in 0..Retry
        <5>1. fetch[q] \in Fetch
          BY <1>i DEF TypeOK, Fetch
        <5> QED BY <3>1, <5>1 DEF Fetch, Retry
      <4> QED BY <1>7, <1>i, <3>1, <4>1, SentIsFetch DEF FetchFails, TypeOK
    <3>2. CASE ~(fetch[q].attempt < Retry /\ q \in observed)
      BY <1>7, <1>i, <3>2, SentIsFetch DEF FetchFails, TypeOK
    <3> QED BY <3>1, <3>2
  <2> QED BY <1>7, <1>i, <2>1, <2>2 DEF FetchFails, EntryInv, calls, network
<1>8. CASE Age(q)
  BY <1>8, <1>i DEF Age, EntryInv, calls, network
<1>9. CASE Collect(q)
  BY <1>9, <1>i DEF Collect, EntryInv, TypeOK, NoData, calls, network
<1>10. CASE NodeChanges(q)
  <2>1. version[k] <= version'[k] /\ version'[k] \in Nat /\ version[k] \in Nat
    BY <1>10, <1>i, BumpedVersions DEF NodeChanges, TypeOK
  <2>2. data[k] \in Nat /\ fetch[k].value \in Nat
    BY <1>i DEF TypeOK
  <2> QED BY <1>10, <1>i, <2>1, <2>2 DEF NodeChanges, EntryInv, queries, calls, network
<1> QED
  BY <1>1, <1>2, <1>3, <1>4, <1>5, <1>6, <1>7, <1>8, <1>9, <1>10 DEF QueryNext

\* A step of a mutation keeps it, too (useApi.ts 69-141).
LEMMA CallEntries ==
  ASSUME IInv, NEW c \in Call, CallNext(c), TypeOK', NEW k \in Key
  PROVE  EntryInv(k)'
<1>i. TypeOK /\ EntryInv(k)
  BY DEF IInv
<1>1. CASE Submit(c)
  BY <1>1, <1>i DEF Submit, EntryInv, queries, network
<1>2. CASE NodeApplies(c)
  <2>1. version[k] <= version'[k] /\ version'[k] \in Nat /\ version[k] \in Nat
    BY <1>2, <1>i, BumpedVersions DEF NodeApplies, TypeOK
  <2>2. data[k] \in Nat /\ fetch[k].value \in Nat
    BY <1>i DEF TypeOK
  <2> QED BY <1>2, <1>i, <2>1, <2>2 DEF NodeApplies, EntryInv, queries, network
<1>3. CASE CallSucceeds(c)
  <2>1. Started({p \in Invalidates(HookOf(c)) \cap observed :
                   fetch[p].at = "idle" \/ Loaded(p)})
    BY <1>3 DEF CallSucceeds, Refetch
  <2>2. fetch'[k] = fetch[k] \/ fetch'[k].at \in {"sent", "paused"}
    BY <1>i, <2>1, StartedFetches
  <2>3. data[k] = NoData /\ k \in failed => k \in failed' \/ fetch'[k].at # "idle"
    BY <1>i, <2>1, StartedFetches
  <2> QED BY <1>3, <1>i, <2>2, <2>3 DEF CallSucceeds, EntryInv
<1>4. CASE CallFails(c)
  BY <1>4, <1>i DEF CallFails, EntryInv, queries, network
<1> QED
  BY <1>1, <1>2, <1>3, <1>4 DEF CallNext

\* The network's comings and goings keep it: what is held back is not idle.
LEMMA NetworkEntries ==
  ASSUME IInv, NetworkNext, TypeOK', NEW k \in Key
  PROVE  EntryInv(k)'
<1>i. TypeOK /\ EntryInv(k)
  BY DEF IInv
<1>1. CASE Disconnect \/ Reconnect
  BY <1>1, <1>i DEF Disconnect, Reconnect, EntryInv, queries
<1>2. CASE Resume
  BY <1>2, <1>i, ResumedFetches DEF EntryInv
<1> QED
  BY <1>1, <1>2 DEF NetworkNext

-----------------------------------------------------------------------------
(* What a mutation has made stale *)

\* A query's step never makes stale data pass for fresh (useApi.ts 6-67).
LEMMA QueryCalls ==
  ASSUME IInv, NEW q \in Key, QueryNext(q), TypeOK', NEW c \in Call
  PROVE  CallInv(c)'
<1>i. TypeOK /\ CallInv(c)
  BY DEF IInv
<1>n. \A k \in Key : wrote[c][k] \in Nat /\ version[k] \in Nat /\ version'[k] \in Nat
  BY <1>i DEF TypeOK
<1>u. /\ wrote' = wrote /\ call' = call /\ due' = due
      /\ \A k \in Key : version[k] <= version'[k]
  <2>1. CASE NodeChanges(q)
    BY <2>1, <1>i, BumpedVersions DEF NodeChanges, calls, network
  <2>2. CASE ~NodeChanges(q)
    BY <2>2, <1>n DEF QueryNext, Observe, Leave, Poll, TryAgain, NodeReads, FetchSucceeds,
                 FetchFails, Age, Collect, calls, network
  <2> QED BY <2>1, <2>2
<1>w. \A k \in Key : wrote'[c][k] <= version'[k]
  BY <1>i, <1>n, <1>u DEF CallInv
<1>s. SUFFICES ASSUME call[c] = "ok", NEW k \in ListOf(HookOf(c)) \cap due[c]
               PROVE  /\ k \in fresh' => wrote[c][k] <= data'[k]
                      /\ fetch'[k].at = "read" => wrote[c][k] <= fetch'[k].value
  BY <1>u, <1>w DEF CallInv
<1>k. k \in Key /\ fetch[k] \in Fetch /\ wrote[c][k] <= version[k]
  BY <1>i DEF TypeOK, CallInv, Fetch
<1>c. /\ k \in fresh => wrote[c][k] <= data[k]
      /\ fetch[k].at = "read" => wrote[c][k] <= fetch[k].value
  BY <1>i, <1>s DEF CallInv
<1>1. CASE Observe(q) \/ Poll(q) \/ TryAgain(q)
  <2>1. fetch'[k] = fetch[k] \/ fetch'[k].at \in {"sent", "paused"}
    BY <1>1, <1>i, <1>k, StartedFetches DEF Observe, Poll, TryAgain, Refetch
  <2> QED BY <1>1, <1>c, <2>1 DEF Observe, Poll, TryAgain
<1>2. CASE Leave(q) \/ Age(q) \/ NodeChanges(q)
  <2>1. fetch'[k] = fetch[k] \/ fetch'[k] = Idle
    BY <1>2, <1>i, <1>k DEF Leave, Age, NodeChanges, queries, TypeOK
  <2> QED BY <1>2, <1>c, <2>1, SentIsFetch DEF Leave, Age, NodeChanges, queries
<1>3. CASE NodeReads(q)
  <2>1. fetch'[k] = IF k = q THEN [at |-> "read", attempt |-> fetch[q].attempt,
                                   value |-> version[q]]
                             ELSE fetch[k]
    BY <1>3, <1>i, <1>k DEF NodeReads, TypeOK
  <2> QED BY <1>3, <1>c, <1>k, <2>1 DEF NodeReads
<1>4. CASE FetchSucceeds(q)
  <2>1. fetch'[k] = (IF k = q THEN Idle ELSE fetch[k])
    BY <1>4, <1>i, <1>k DEF FetchSucceeds, TypeOK
  <2>2. data'[k] = (IF k = q THEN fetch[q].value ELSE data[k])
    BY <1>4, <1>i, <1>k DEF FetchSucceeds, TypeOK
  <2> QED BY <1>4, <1>c, <2>1, <2>2, SentIsFetch DEF FetchSucceeds
<1>5. CASE FetchFails(q)
  <2>1. fetch'[k] = fetch[k] \/ fetch'[k].at \in {"sent", "paused", "idle"}
    <3>1. CASE fetch[q].attempt < Retry /\ q \in observed
      <4>1. fetch[q].attempt + 1 \in 0..Retry
        <5>1. fetch[q] \in Fetch
          BY <1>i DEF TypeOK, Fetch
        <5> QED BY <3>1, <5>1 DEF Fetch, Retry
      <4> QED BY <1>5, <1>i, <1>k, <3>1, <4>1, SentIsFetch DEF FetchFails, TypeOK
    <3>2. CASE ~(fetch[q].attempt < Retry /\ q \in observed)
      BY <1>5, <1>i, <1>k, <3>2, SentIsFetch DEF FetchFails, TypeOK
    <3> QED BY <3>1, <3>2
  <2>2. data' = data /\ fresh' \subseteq fresh
    BY <1>5 DEF FetchFails
  <2> QED BY <1>c, <2>1, <2>2
<1>6. CASE Collect(q)
  <2>1. k # q => data'[k] = data[k]
    BY <1>6, <1>i, <1>k DEF Collect, TypeOK
  <2> QED BY <1>6, <1>c, <2>1 DEF Collect
<1> QED
  BY <1>1, <1>2, <1>3, <1>4, <1>5, <1>6 DEF QueryNext

\* A mutation that succeeds leaves none of its lists with data that pass for
\* fresh, or with an answer under way, unless they are not due (useApi.ts 69-141).
LEMMA CallCalls ==
  ASSUME IInv, NEW c \in Call, CallNext(c), TypeOK', NEW d \in Call
  PROVE  CallInv(d)'
<1>i. TypeOK /\ CallInv(d) /\ CallInv(c)
  BY DEF IInv
<1>n. \A k \in Key : /\ wrote[d][k] \in Nat /\ version[k] \in Nat
                      /\ wrote'[d][k] \in Nat /\ version'[k] \in Nat
  BY <1>i DEF TypeOK
<1>1. CASE Submit(c) \/ CallFails(c)
  <2>1. call'[d] = "ok" => call[d] = "ok"
    BY <1>1, <1>i DEF Submit, CallFails, Advance, TypeOK
  <2> QED BY <1>1, <1>i, <2>1 DEF Submit, CallFails, CallInv, queries, network
<1>2. CASE NodeApplies(c)
  <2>1. \A k \in Key : version[k] <= version'[k]
    BY <1>2, <1>i, BumpedVersions DEF NodeApplies
  <2>2. call'[d] = "ok" => call[d] = "ok" /\ d # c
    BY <1>2, <1>i DEF NodeApplies, Advance, TypeOK
  <2>3. wrote'[d] = IF d = c THEN version' ELSE wrote[d]
    BY <1>2, <1>i DEF NodeApplies, TypeOK
  <2>4. \A k \in Key : wrote'[d][k] <= version'[k]
    BY <1>i, <1>n, <2>1, <2>3 DEF CallInv
  <2> QED BY <1>2, <1>i, <2>2, <2>3, <2>4 DEF NodeApplies, CallInv, queries, network
<1>3. CASE CallSucceeds(c)
  <2> DEFINE K == {p \in Invalidates(HookOf(c)) \cap observed :
                     fetch[p].at = "idle" \/ Loaded(p)}
  <2>1. Started(K)
    BY <1>3 DEF CallSucceeds, Refetch
  <2>2. \A k \in Key : fetch'[k] = fetch[k] \/ fetch'[k].at \in {"sent", "paused"}
    BY <1>i, <2>1, StartedFetches
  <2>3. CASE d = c
    <3>1. SUFFICES ASSUME NEW k \in ListOf(HookOf(c)) \cap due'[c]
                   PROVE  k \notin fresh' /\ fetch'[k].at # "read"
      BY <1>3, <1>i, <2>3 DEF CallSucceeds, CallInv
    <3>2. k \in Invalidates(HookOf(c))
      BY ListsAreInvalidated
    <3>3. k \in Key /\ (~InFlight(k) \/ (k \in observed /\ Loaded(k)))
      BY <1>3, <1>i DEF CallSucceeds, TypeOK
    <3>4. fetch[k].at # "read" \/ k \in K
      BY <3>2, <3>3 DEF InFlight
    <3>5. fetch'[k].at # "read"
      BY <1>i, <2>1, <2>2, <3>3, <3>4, StartedFetches
    <3> QED BY <1>3, <3>2, <3>5 DEF CallSucceeds
  <2>4. CASE d # c
    <3>1. call'[d] = call[d] /\ due'[d] = due[d] /\ wrote' = wrote /\ version' = version
          /\ data' = data /\ fresh' \subseteq fresh
      BY <1>3, <1>i, <2>4 DEF CallSucceeds, Advance, TypeOK
    <3>2. \A k \in ListOf(HookOf(d)) \cap due[d] : k \in Key
      BY <1>i DEF TypeOK
    <3> QED BY <1>i, <2>2, <3>1, <3>2 DEF CallInv
  <2> QED BY <2>3, <2>4
<1> QED
  BY <1>1, <1>2, <1>3 DEF CallNext

\* Nor do fetches held back bring anything older (useApi.ts 6-67).
LEMMA NetworkCalls ==
  ASSUME IInv, NetworkNext, TypeOK', NEW c \in Call
  PROVE  CallInv(c)'
<1>i. TypeOK /\ CallInv(c)
  BY DEF IInv
<1>1. /\ wrote' = wrote /\ due' = due /\ version' = version
      /\ data' = data /\ fresh' = fresh
  BY ResumedFetches, <1>i DEF NetworkNext, Disconnect, Reconnect, queries, calls
<1>2. call'[c] = "ok" => call[c] = "ok"
  <2>1. CASE Reconnect
    BY <2>1, <1>i DEF Reconnect, TypeOK
  <2> QED
    BY <2>1, ResumedFetches, <1>i DEF NetworkNext, Disconnect, calls
<1>3. \A k \in Key : fetch'[k] = fetch[k] \/ fetch'[k].at \in {"sent", "paused"}
  BY ResumedFetches, <1>i DEF NetworkNext, Disconnect, Reconnect, queries
<1>4. due[c] \subseteq Key
  BY <1>i DEF TypeOK
<1> QED BY <1>i, <1>1, <1>2, <1>3, <1>4 DEF CallInv

-----------------------------------------------------------------------------
(* The theorems *)

\* The invariant holds at the start.
LEMMA InitIInv ==
  ASSUME Init
  PROVE  IInv
<1>1. TypeOK
  BY InitTypes
<1>2. ASSUME NEW k \in Key
      PROVE  EntryInv(k)
  BY SentIsFetch DEF Init, EntryInv, NoData
<1>3. ASSUME NEW c \in Call
      PROVE  CallInv(c)
  BY DEF Init, CallInv, NoData
<1> QED BY <1>1, <1>2, <1>3 DEF IInv

\* The invariant is inductive.
LEMMA NextIInv ==
  ASSUME IInv, [Next]_vars
  PROVE  IInv'
<1>1. CASE UNCHANGED vars
  BY <1>1 DEF vars, queries, calls, network, IInv, TypeOK, EntryInv, CallInv
<1>2. CASE Next
  <2>t. TypeOK'
    BY <1>2, NextTypes DEF IInv
  <2>1. ASSUME NEW k \in Key
        PROVE  EntryInv(k)'
    BY <1>2, <2>t, QueryEntries, CallEntries, NetworkEntries DEF Next
  <2>2. ASSUME NEW c \in Call
        PROVE  CallInv(c)'
    BY <1>2, <2>t, QueryCalls, CallCalls, NetworkCalls DEF Next
  <2> QED BY <2>t, <2>1, <2>2 DEF IInv
<1> QED BY <1>1, <1>2

\* The inductive invariant of the query cache.
THEOREM CacheInvariant == Spec => []IInv
<1>1. Init => IInv
  BY InitIInv
<1>2. IInv /\ [Next]_vars => IInv'
  BY NextIInv
<1> QED BY <1>1, <1>2, PTL DEF Spec

\* The types of the query cache's state.
THEOREM CacheTypes == Spec => []TypeOK
<1>1. IInv => TypeOK
  BY DEF IInv
<1> QED BY <1>1, CacheInvariant, PTL

\* A list that is due never passes for fresh without what a mutation that has
\* succeeded did, whatever the queries and mutations (useApi.ts 69-141).
THEOREM MutationsShow == Spec => []WritesShow
<1>1. ASSUME IInv
      PROVE  WritesShow
  <2>1. SUFFICES ASSUME NEW c \in Call, call[c] = "ok",
                        NEW k \in ListOf(HookOf(c)) \cap due[c] \cap fresh
                 PROVE  data[k] >= wrote[c][k]
    BY DEF WritesShow
  <2>2. k \in Key /\ data[k] \in Nat /\ wrote[c][k] \in Nat
    BY <1>1 DEF IInv, TypeOK
  <2>3. wrote[c][k] <= data[k]
    BY <1>1, <2>1 DEF IInv, CallInv
  <2> QED BY <2>2, <2>3
<1> QED BY <1>1, CacheInvariant, PTL

\* No list says that it is empty, and the dashboard does not say that there are no
\* peers, without an answer of the node, but while a first fetch is held back (the
\* pages of web/src/pages).
THEOREM NothingIsAnAnswer == Spec => []EmptyMeansEmpty
<1>1. ASSUME IInv
      PROVE  EmptyMeansEmpty
  <2>1. SUFFICES ASSUME NEW k \in observed, ~Loaded(k), fetch[k].at # "paused"
                 PROVE  LET r == Shown(k) IN
                        /\ "nothing" \notin {AgentsSay(r), OrdersSay(r), WorkflowsSay(r),
                                             WalletSays(r)}
                        /\ \A a, b, c \in Key :
                             /\ SessionsSay(Shown(a), r).sessions # "nothing"
                             /\ DashboardSays(r, Shown(a), Shown(b), Shown(c)).peers
                                  # "nothing"
    BY DEF EmptyMeansEmpty
  <2>2. k \in failed \/ fetch[k].at # "idle"
    BY <1>1, <2>1 DEF IInv, EntryInv, TypeOK, Loaded
  <2>3. fetch[k].at \in {"idle", "paused", "sent", "read"}
    BY <1>1, <2>1 DEF IInv, TypeOK
  <2>4. Shown(k).error \/ Shown(k).loading
    BY <2>1, <2>2, <2>3 DEF Shown, InFlight
  <2>5. ListSays(Shown(k)) \in {"error", "loading"}
    BY <2>4 DEF ListSays
  <2>6. \A a \in Key : StatSays(Shown(k), Shown(a), Shown(k)) \in {"error", "loading"}
    BY <2>4 DEF StatSays
  <2> QED BY <2>5, <2>6
          DEF AgentsSay, OrdersSay, WorkflowsSay, WalletSays, SessionsSay, DashboardSays
<1> QED BY <1>1, CacheInvariant, PTL

-----------------------------------------------------------------------------
(* The refinement of CachedView *)

\* A query's step shows a newer version, forgets one, or is a change at the node
\* (useApi.ts 6-67).
LEMMA QuerySteps ==
  ASSUME IInv, NEW k \in Key, QueryNext(k)
  PROVE  [View!Next]_<<version, data>>
<1>i. TypeOK /\ EntryInv(k)
  BY DEF IInv
<1>1. CASE \/ Observe(k) \/ Leave(k) \/ Poll(k) \/ TryAgain(k)
           \/ NodeReads(k) \/ FetchFails(k) \/ Age(k)
  BY <1>1 DEF Observe, Leave, Poll, TryAgain, NodeReads, FetchFails, Age
<1>2. CASE FetchSucceeds(k)
  <2> DEFINE v == fetch[k].value
  <2>1. data' = [data EXCEPT ![k] = v] /\ version' = version
    BY <1>2 DEF FetchSucceeds
  <2>2. v \in 1..version[k] /\ data[k] <= v /\ data[k] \in Nat /\ version[k] \in Nat
    BY <1>2, <1>i DEF FetchSucceeds, EntryInv, TypeOK
  <2>3. CASE v = data[k]
    BY <1>i, <2>1, <2>3 DEF TypeOK
  <2>4. CASE v # data[k]
    <3>1. v \in (data[k] + 1)..version[k]
      BY <2>2, <2>4
    <3>2. View!Show(k)
      BY <2>1, <3>1 DEF View!Show
    <3> QED BY <3>2 DEF View!Next
  <2> QED BY <2>3, <2>4
<1>3. CASE Collect(k)
  <2>1. View!Forget(k)
    BY <1>3 DEF Collect, View!Forget, NoData, View!NoData
  <2> QED BY <2>1 DEF View!Next
<1>4. CASE NodeChanges(k)
  <2>1. View!Change({k})
    BY <1>4 DEF NodeChanges, Bumped, View!Change, queries, network
  <2> QED BY <2>1 DEF View!Next
<1> QED
  BY <1>1, <1>2, <1>3, <1>4 DEF QueryNext

\* A mutation's step changes the node's data or nothing a page shows
\* (useApi.ts 69-141).
LEMMA CallSteps ==
  ASSUME IInv, NEW c \in Call, CallNext(c)
  PROVE  [View!Next]_<<version, data>>
<1>1. CASE Submit(c) \/ CallSucceeds(c) \/ CallFails(c)
  BY <1>1 DEF Submit, CallSucceeds, CallFails, queries, network
<1>2. CASE NodeApplies(c)
  <2>1. View!Change(Key \cap Changes(HookOf(c)))
    BY <1>2 DEF NodeApplies, Bumped, View!Change, queries, network
  <2> QED BY <2>1 DEF View!Next
<1> QED
  BY <1>1, <1>2 DEF CallNext

\* The network's comings and goings show nothing (query-core).
LEMMA NetworkSteps ==
  ASSUME IInv, NetworkNext
  PROVE  [View!Next]_<<version, data>>
BY ResumedFetches DEF IInv, NetworkNext, Disconnect, Reconnect, queries

\* The query cache implements CachedView: what a page shows never goes back,
\* whatever crosses (useApi.ts, main.tsx 10-17).
THEOREM CacheImplementsView == Spec => ImplementsCachedView
<1>1. Init => View!Init
  BY DEF Init, View!Init, NoData, View!NoData
<1>2. ASSUME IInv, [Next]_vars
      PROVE  [View!Next]_<<version, data>>
  <2>1. CASE UNCHANGED vars
    BY <2>1 DEF vars, queries, network
  <2>2. CASE Next
    BY <1>2, <2>2, QuerySteps, CallSteps, NetworkSteps DEF Next
  <2> QED BY <1>2, <2>1, <2>2
<1> QED
  BY <1>1, <1>2, CacheInvariant, PTL DEF Spec, ImplementsCachedView, View!Spec
=============================================================================
