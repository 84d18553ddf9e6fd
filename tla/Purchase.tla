------------------------------ MODULE Purchase ------------------------------
(***************************************************************************)
(* What a task promises the user whose wallet pays for it, wherever it     *)
(* runs (internal/agent/manager.go 239-944): while it is open it may sign  *)
(* one transfer; it ends once, with an output that cost nothing or that    *)
(* its transfer has paid for, or with an error.  An error may come after   *)
(* the transfer, and the transfer may settle after that.                   *)
(***************************************************************************)
CONSTANTS
  Tasks,      \* what users submit
  Transfers   \* what a wallet may sign, each for the task in its field call

VARIABLES
  spent,      \* the transfers signed
  paid,       \* those on chain
  result      \* what each task has come to: "open", "output" or "error"

SpentFor(t) == {p \in spent : p.call = t}

Init == spent = {} /\ paid = {} /\ result = [t \in Tasks |-> "open"]

Spend(p) ==
  /\ result[p.call] = "open" /\ SpentFor(p.call) = {}
  /\ spent' = spent \cup {p}
  /\ UNCHANGED <<paid, result>>

Settle(p) ==
  /\ p \in spent \ paid
  /\ paid' = paid \cup {p}
  /\ UNCHANGED <<spent, result>>

\* with an output, if what was spent on it is on chain
End(t) ==
  /\ result[t] = "open"
  /\ \E r \in {"output", "error"} :
       /\ r = "output" => SpentFor(t) \subseteq paid
       /\ result' = [result EXCEPT ![t] = r]
  /\ UNCHANGED <<spent, paid>>

Next ==
  \/ \E p \in Transfers : Spend(p) \/ Settle(p)
  \/ \E t \in Tasks : End(t)

Spec == Init /\ [][Next]_<<spent, paid, result>>
=============================================================================
