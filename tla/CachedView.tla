----------------------------- MODULE CachedView -----------------------------
(***************************************************************************)
(* What a page of the web dashboard may assume of the queries it shows:    *)
(* it sees nothing or some version of the node's data, never one from the  *)
(* future, and never an older one after a newer one.  Data nobody looks at *)
(* may be forgotten.                                                       *)
(***************************************************************************)
EXTENDS Naturals

CONSTANTS Key    \* the queries

VARIABLES
  version,   \* how often the data behind each query has changed at the node
  shown      \* the version a page shows, 0 before the first

NoData == 0

Init ==
  /\ version = [k \in Key |-> 1]
  /\ shown = [k \in Key |-> NoData]

Change(K) ==
  /\ version' = [k \in Key |-> IF k \in K THEN version[k] + 1 ELSE version[k]]
  /\ UNCHANGED shown

Show(k) ==
  /\ \E v \in (shown[k] + 1)..version[k] : shown' = [shown EXCEPT ![k] = v]
  /\ UNCHANGED version

Forget(k) ==
  /\ shown' = [shown EXCEPT ![k] = NoData]
  /\ UNCHANGED version

Next ==
  \/ \E K \in SUBSET Key : Change(K)
  \/ \E k \in Key : Show(k) \/ Forget(k)

Spec == Init /\ [][Next]_<<version, shown>>
=============================================================================
