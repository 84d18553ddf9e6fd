---------------------------- MODULE PaidService ----------------------------
(***************************************************************************)
(* What a paid agent promises its buyers, whatever the protocol in between *)
(* (specs/x402-libp2p.md, section 7): a transfer settles once, and a paid  *)
(* task is served only against a settled transfer that has paid for        *)
(* nothing else.                                                           *)
(***************************************************************************)
CONSTANTS
  Requests,  \* the requests that may be served
  Payments,  \* the transfers that may settle
  Free       \* what an unpaid request is served against

VARIABLES
  settled,   \* the transfers on chain
  served     \* <<request, what paid for it>>

Init == settled = {} /\ served = {}

Settle(p) ==
  /\ p \notin settled
  /\ settled' = settled \cup {p}
  /\ UNCHANGED served

Unserved(r) == \A x \in served : x[1] # r

ServePaid(r, p) ==
  /\ Unserved(r)
  /\ p \in settled /\ \A x \in served : x[2] # p
  /\ served' = served \cup {<<r, p>>}
  /\ UNCHANGED settled

ServeFree(r) ==
  /\ Unserved(r)
  /\ served' = served \cup {<<r, Free>>}
  /\ UNCHANGED settled

Next ==
  \/ \E p \in Payments : Settle(p)
  \/ \E r \in Requests : ServeFree(r) \/ \E p \in Payments : ServePaid(r, p)

Spec == Init /\ [][Next]_<<settled, served>>
=============================================================================
