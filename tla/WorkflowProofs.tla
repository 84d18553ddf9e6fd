--------------------------- MODULE WorkflowProofs ---------------------------
(***************************************************************************)
(* The inductive invariant of Workflow, for any number of workflows, steps *)
(* and restarts, with writes lost or not.                                  *)
(***************************************************************************)
EXTENDS Workflow, TLAPS

\* the copy of a run about to look at its step k + 1
BetweenSteps(r, k) ==
  /\ r.status = "running" /\ First(r, k, "completed") /\ After(r, k, "pending")

\* the copy of a run in its step k
InStep(r, k) ==
  /\ r.status = "running" /\ First(r, k - 1, "completed") /\ After(r, k, "pending")
  /\ k \in DOMAIN r.steps /\ r.steps[k].status = "running"

\* what the next step is fed with
Fed(r, k) == IF k = 1 THEN r.input ELSE r.steps[k - 1].output

\* q has the steps of r, and the completed ones are as they were
Extends(r, q) ==
  /\ DOMAIN q.steps = DOMAIN r.steps
  /\ \A i \in DOMAIN r.steps :
       r.steps[i].status = "completed" => q.steps[i] = r.steps[i]

\* the copy of a run with the output of its last step
Completed(r, k) == [r EXCEPT !.status = "completed", !.output = Fed(r, k)]

CopyInv(w) ==
  /\ pc[w] \in {"none", "created"} => wf[w] = None /\ next[w] = 1
  /\ pc[w] \in {"loop", "begin", "execute", "leave", "ended"} => wf[w] # None
  /\ wf[w] # None => Piped(wf[w])
  /\ pc[w] \in {"loop", "begin"} =>
       /\ BetweenSteps(wf[w], next[w] - 1)
       /\ input[w] = Fed(wf[w], next[w])
  /\ pc[w] = "begin" => More(w)
  /\ pc[w] = "execute" => InStep(wf[w], next[w])
  /\ pc[w] \in {"leave", "ended"} =>
       Consistent(wf[w]) /\ wf[w].status \in Terminal

\* the stored record is the copy or an earlier version of it
StoreInv(w) ==
  /\ pc[w] = "none" <=> stored[w] = None
  /\ pc[w] = "created" => stored[w].status = "pending"
  /\ stored[w] # None => Consistent(stored[w])
  /\ stored[w] # None /\ stored[w].status \in Terminal =>
       pc[w] \in {"leave", "ended", "dead"}
  /\ stored[w] # None /\ wf[w] # None => Extends(stored[w], wf[w])
  /\ pc[w] \in {"loop", "begin", "execute", "leave", "ended"} =>
       w \in unsaved \/ stored[w] = wf[w]

CancelInv(w) ==
  /\ w \in cancels => pc[w] \in {"loop", "begin", "execute", "leave"}
  /\ canceler[w] = "signal" => wf[w] # None
  /\ w \in cancelled =>
       wf[w] # None /\ Passed(w) \subseteq 1..begun[w]

RunInv(w) == CopyInv(w) /\ StoreInv(w) /\ CancelInv(w)

IInv == TypeOK /\ \A w \in Workflows : RunInv(w)

\* what NeverGoesBack says of a step and one workflow
Forward(w) ==
  stored[w] # None =>
    /\ stored'[w] # None
    /\ stored[w].status \in Terminal => stored'[w] = stored[w]
    /\ \A i \in DOMAIN stored[w].steps :
         stored[w].steps[i].status = "completed" =>
           stored'[w].steps[i] = stored[w].steps[i]

-----------------------------------------------------------------------------
(* Records *)

USE WorkflowAssumption, NoneIsNoRecord

\* The fields of a record (pkg/types/workflow.go 37-61): it has at least one step.
LEMMA RecordFields ==
  ASSUME NEW r \in Record
  PROVE  /\ r.status \in {"pending", "running"} \cup Terminal
         /\ r.input \in Texts /\ r.output \in Texts \cup {None}
         /\ \E n \in 1..MaxSteps : DOMAIN r.steps = 1..n /\ r.steps \in [1..n -> Step]
         /\ r # None
<1>1. r.steps \in UNION {[1..n -> Step] : n \in 1..MaxSteps}
  BY DEF Record
<1>2. PICK n \in 1..MaxSteps : r.steps \in [1..n -> Step]
  BY <1>1
<1> QED
  BY <1>2 DEF Record

\* The fields of a step of a record (pkg/types/workflow.go 24-35).
LEMMA StepFields ==
  ASSUME NEW x \in Step
  PROVE  /\ x.status \in StepStatus
         /\ x.input \in Texts \cup {None} /\ x.output \in Texts \cup {None}
BY DEF Step

\* q is r but for its k-th step
ButFor(r, q, n, k) ==
  /\ q \in Record /\ DOMAIN q.steps = 1..n
  /\ q.status = r.status /\ q.input = r.input /\ q.output = r.output
  /\ \A i \in 1..n : i # k => q.steps[i] = r.steps[i]

\* A copy between two steps is one a reader may see.
LEMMA BetweenIsConsistent ==
  ASSUME NEW r \in Record, NEW k \in 0..MaxSteps, Piped(r), BetweenSteps(r, k)
  PROVE  Consistent(r)
BY DEF BetweenSteps, Consistent

\* A copy in the middle of a step is one a reader may see.
LEMMA InStepIsConsistent ==
  ASSUME NEW r \in Record, NEW k \in DOMAIN r.steps, Piped(r), InStep(r, k)
  PROVE  Consistent(r)
<1>1. PICK n \in 1..MaxSteps : DOMAIN r.steps = 1..n
  BY RecordFields
<1>2. k - 1 \in 0..MaxSteps /\ (k - 1) + 1 = k
  BY <1>1
<1>3. First(r, k - 1, "completed") /\ Reaches(r, k - 1) /\ r.status = "running"
  BY <1>2 DEF InStep, Reaches
<1>4. After(r, (k - 1) + 1, "pending") /\ r.steps[(k - 1) + 1].status = "running"
  BY <1>2 DEF InStep
<1> QED
  BY <1>2, <1>3, <1>4 DEF Consistent

\* BeginStep (orchestrator.go 116-123): the copy is in its step k.
LEMMA BeginRecord ==
  ASSUME NEW r \in Record, NEW n \in 1..MaxSteps, DOMAIN r.steps = 1..n,
         NEW k \in 1..n, NEW t,
         Piped(r), BetweenSteps(r, k - 1), t = Fed(r, k),
         NEW q, ButFor(r, q, n, k), q.steps[k].status = "running", q.steps[k].input = t
  PROVE  /\ q \in Record /\ Extends(r, q) /\ Started(q) \subseteq Started(r) \cup {k}
         /\ Piped(q) /\ InStep(q, k) /\ Consistent(q)
<1>1. /\ q \in Record /\ DOMAIN q.steps = 1..n
      /\ q.status = r.status /\ q.input = r.input /\ q.output = r.output
      /\ \A i \in 1..n : i # k => q.steps[i] = r.steps[i]
  BY DEF ButFor
<1>2. n \in Nat /\ n <= MaxSteps
  OBVIOUS
<1>3. /\ r.status = "running"
      /\ \A i \in 1..n : i < k => r.steps[i].status = "completed"
      /\ \A i \in 1..n : i > k - 1 => r.steps[i].status = "pending"
  BY <1>2 DEF BetweenSteps, First, After
<1>4. InStep(q, k)
  <2>1. First(q, k - 1, "completed")
    BY <1>1, <1>2, <1>3 DEF First
  <2>2. After(q, k, "pending")
    BY <1>1, <1>2, <1>3 DEF After
  <2> QED
    BY <2>1, <2>2, <1>1, <1>2, <1>3 DEF InStep
<1>5. Piped(q)
  <2> SUFFICES ASSUME NEW i \in Started(q)
               PROVE  q.steps[i].input = IF i = 1 THEN q.input ELSE q.steps[i - 1].output
    BY DEF Piped
  <2>1. i \in 1..n
    BY <1>1, <1>2 DEF Started
  <2>2. CASE i = k
    <3>1. k # 1 => k - 1 \in 1..n /\ k - 1 # k
      BY <1>2
    <3> QED
      BY <2>2, <3>1, <1>1, <1>2 DEF Fed
  <2>3. CASE i # k
    <3>1. i \in Started(r)
      BY <2>1, <2>3, <1>1, <1>2 DEF Started
    <3>2. i < k
      BY <2>1, <2>3, <1>2, <1>3, <3>1 DEF Started
    <3>3. i # 1 => i - 1 \in 1..n /\ i - 1 # k
      BY <2>1, <3>2, <1>2
    <3> QED
      BY <2>1, <2>3, <3>1, <3>3, <1>1, <1>2 DEF Piped
  <2> QED
    BY <2>2, <2>3
<1>6. Extends(r, q)
  BY <1>1, <1>2, <1>3 DEF Extends
<1>7. Consistent(q)
  BY <1>1, <1>2, <1>4, <1>5, InStepIsConsistent
<1>8. Started(q) \subseteq Started(r) \cup {k}
  BY <1>1, <1>2 DEF Started
<1> QED
  BY <1>1, <1>4, <1>5, <1>6, <1>7, <1>8

\* CompleteStep (138-147): the copy is before its next step, whose input is t.
LEMMA CompleteRecord ==
  ASSUME NEW r \in Record, NEW n \in 1..MaxSteps, DOMAIN r.steps = 1..n,
         NEW k \in 1..n, NEW t \in Texts, Piped(r), InStep(r, k),
         NEW q, ButFor(r, q, n, k), q.steps[k].status = "completed",
         q.steps[k].output = t, q.steps[k].input = r.steps[k].input
  PROVE  /\ q \in Record /\ Extends(r, q) /\ Started(q) = Started(r)
         /\ Piped(q) /\ BetweenSteps(q, k) /\ t = Fed(q, k + 1) /\ Consistent(q)
<1>1. /\ q \in Record /\ DOMAIN q.steps = 1..n
      /\ q.status = r.status /\ q.input = r.input /\ q.output = r.output
      /\ \A i \in 1..n : i # k => q.steps[i] = r.steps[i]
  BY DEF ButFor
<1>2. n \in Nat /\ n <= MaxSteps
  OBVIOUS
<1>3. /\ r.status = "running" /\ r.steps[k].status = "running"
      /\ \A i \in 1..n : i < k => r.steps[i].status = "completed"
      /\ \A i \in 1..n : i > k => r.steps[i].status = "pending"
  BY <1>2 DEF InStep, First, After
<1>4. BetweenSteps(q, k)
  <2>1. First(q, k, "completed")
    BY <1>1, <1>2, <1>3 DEF First
  <2>2. After(q, k, "pending")
    BY <1>1, <1>2, <1>3 DEF After
  <2> QED
    BY <2>1, <2>2, <1>1, <1>3 DEF BetweenSteps
<1>5. Started(q) = Started(r)
  <2>1. \A i \in 1..n : i \in Started(q) <=> i \in Started(r)
    BY <1>1, <1>2, <1>3 DEF Started
  <2> QED
    BY <2>1, <1>1, <1>2 DEF Started
<1>6. Piped(q)
  <2> SUFFICES ASSUME NEW i \in Started(q)
               PROVE  q.steps[i].input = IF i = 1 THEN q.input ELSE q.steps[i - 1].output
    BY DEF Piped
  <2>1. i \in 1..n /\ i \in Started(r)
    BY <1>5, <1>1, <1>2 DEF Started
  <2>2. i <= k
    BY <2>1, <1>2, <1>3 DEF Started
  <2>3. i # 1 => i - 1 \in 1..n /\ i - 1 # k
    BY <2>1, <2>2, <1>2
  <2>4. q.steps[i].input = r.steps[i].input
    BY <2>1, <1>1
  <2> QED
    BY <2>1, <2>3, <2>4, <1>1, <1>2 DEF Piped
<1>7. Extends(r, q)
  BY <1>1, <1>2, <1>3 DEF Extends
<1>8. t = Fed(q, k + 1)
  BY <1>1, <1>2 DEF Fed
<1>9. Consistent(q)
  BY <1>1, <1>2, <1>4, <1>6, BetweenIsConsistent
<1> QED
  BY <1>1, <1>4, <1>5, <1>6, <1>7, <1>8, <1>9

\* CreateWorkflow (37-68): a fresh record is pending and consistent.
LEMMA FreshRecord ==
  ASSUME NEW n \in 1..MaxSteps, NEW t \in Texts
  PROVE  /\ Fresh(n, t) \in Record /\ Fresh(n, t).status = "pending"
         /\ Consistent(Fresh(n, t))
<1> DEFINE q == Fresh(n, t)
<1>1. [status |-> "pending", input |-> None, output |-> None] \in Step
  BY DEF Step, StepStatus
<1>2. /\ q \in Record /\ q.status = "pending"
      /\ q.steps = [i \in 1..n |->
                      [status |-> "pending", input |-> None, output |-> None]]
  BY <1>1 DEF Fresh, Record
<1> HIDE DEF q
<1>3. \A i \in DOMAIN q.steps : q.steps[i].status = "pending"
  BY <1>2
<1>4. Piped(q)
  BY <1>3 DEF Piped, Started
<1>5. First(q, 0, "completed") /\ After(q, 0, "pending") /\ 0 \in 0..MaxSteps
  BY <1>3 DEF First, After
<1> QED
  BY <1>2, <1>4, <1>5 DEF Consistent, q

\* RunWorkflow (73-99): the copy is before its first step.
LEMMA RunRecord ==
  ASSUME NEW r \in Record, r.status = "pending", Consistent(r),
         NEW q, q = [r EXCEPT !.status = "running"]
  PROVE  /\ q \in Record /\ Extends(r, q) /\ q.status = "running"
         /\ Piped(q) /\ BetweenSteps(q, 0) /\ r.input = Fed(q, 1) /\ Consistent(q)
<1>1. /\ q \in Record /\ q.steps = r.steps /\ q.status = "running"
      /\ q.input = r.input
  BY DEF Record
<1>2. After(r, 0, "pending") /\ Piped(r)
  BY DEF Consistent
<1>3. Piped(q)
  BY <1>1, <1>2 DEF Piped, Started
<1>4. BetweenSteps(q, 0) /\ 0 \in 0..MaxSteps
  BY <1>1, <1>2 DEF BetweenSteps, First, After
<1>5. Extends(r, q) /\ r.input = Fed(q, 1)
  BY <1>1 DEF Extends, Fed
<1> QED
  BY <1>1, <1>3, <1>4, <1>5, BetweenIsConsistent

\* FailStep (124-136): the failed step is followed by skipped ones.
LEMMA FailRecord ==
  ASSUME NEW r \in Record, NEW n \in 1..MaxSteps, DOMAIN r.steps = 1..n,
         NEW k \in 1..n, Piped(r), InStep(r, k), NEW f \in [1..n -> Step],
         f[k].status = "failed", f[k].input = r.steps[k].input,
         \A i \in 1..n : i < k => f[i] = r.steps[i],
         \A i \in 1..n : i > k => f[i].status = "skipped",
         NEW q, q = Stopped(r, "failed", f)
  PROVE  /\ q \in Record /\ Extends(r, q) /\ Started(q) = Started(r)
         /\ q.status = "failed" /\ Consistent(q) /\ Piped(q)
<1>1. /\ q \in Record /\ q.steps = f /\ q.status = "failed" /\ q.input = r.input
  BY DEF Record, Terminal, Stopped
<1>2. n \in Nat /\ n <= MaxSteps /\ DOMAIN f = 1..n
  OBVIOUS
<1>3. /\ r.steps[k].status = "running"
      /\ \A i \in 1..n : i < k => r.steps[i].status = "completed"
      /\ \A i \in 1..n : i > k => r.steps[i].status = "pending"
  BY <1>2 DEF InStep, First, After
<1>4. Started(q) = Started(r)
  <2>1. \A i \in 1..n : i \in Started(q) <=> i \in Started(r)
    BY <1>1, <1>2, <1>3 DEF Started
  <2> QED
    BY <2>1, <1>1, <1>2 DEF Started
<1>5. Piped(q)
  <2> SUFFICES ASSUME NEW i \in Started(q)
               PROVE  q.steps[i].input = IF i = 1 THEN q.input ELSE q.steps[i - 1].output
    BY DEF Piped
  <2>1. i \in 1..n /\ i \in Started(r)
    BY <1>4, <1>1, <1>2 DEF Started
  <2>2. i <= k
    BY <2>1, <1>2, <1>3 DEF Started
  <2>3. i # 1 => i - 1 \in 1..n /\ i - 1 < k
    BY <2>1, <2>2, <1>2
  <2>4. q.steps[i].input = r.steps[i].input
    BY <2>1, <2>2, <1>1, <1>2
  <2> QED
    BY <2>1, <2>3, <2>4, <1>1, <1>2 DEF Piped
<1>6. Extends(r, q)
  BY <1>1, <1>2, <1>3 DEF Extends
<1>7. Consistent(q)
  <2>1. k - 1 \in 0..MaxSteps /\ (k - 1) + 1 = k
    BY <1>2
  <2>2. First(q, k - 1, "completed") /\ Reaches(q, k - 1)
    BY <1>1, <1>2, <1>3, <2>1 DEF First, Reaches
  <2>3. After(q, (k - 1) + 1, "skipped") /\ q.steps[(k - 1) + 1].status = "failed"
    BY <1>1, <1>2, <2>1 DEF After
  <2> QED
    BY <1>1, <1>5, <2>1, <2>2, <2>3 DEF Consistent
<1> QED
  BY <1>1, <1>4, <1>5, <1>6, <1>7

\* StopCancelled (103-113): the steps not reached are skipped.
LEMMA StopRecord ==
  ASSUME NEW r \in Record, NEW n \in 1..MaxSteps, DOMAIN r.steps = 1..n,
         NEW k \in 1..n, Piped(r), BetweenSteps(r, k - 1), NEW f \in [1..n -> Step],
         \A i \in 1..n : i < k => f[i] = r.steps[i],
         \A i \in 1..n : i >= k => f[i].status = "skipped",
         NEW q, q = Stopped(r, "canceled", f)
  PROVE  /\ q \in Record /\ Extends(r, q) /\ Started(q) = Started(r)
         /\ q.status = "canceled" /\ Consistent(q) /\ Piped(q)
<1>1. /\ q \in Record /\ q.steps = f /\ q.status = "canceled" /\ q.input = r.input
  BY DEF Record, Terminal, Stopped
<1>2. n \in Nat /\ n <= MaxSteps /\ DOMAIN f = 1..n
  OBVIOUS
<1>3. /\ \A i \in 1..n : i < k => r.steps[i].status = "completed"
      /\ \A i \in 1..n : i >= k => r.steps[i].status = "pending"
  BY <1>2 DEF BetweenSteps, First, After
<1>4. Started(q) = Started(r)
  <2>1. \A i \in 1..n : i \in Started(q) <=> i \in Started(r)
    BY <1>1, <1>2, <1>3 DEF Started
  <2> QED
    BY <2>1, <1>1, <1>2 DEF Started
<1>5. Piped(q)
  <2> SUFFICES ASSUME NEW i \in Started(q)
               PROVE  q.steps[i].input = IF i = 1 THEN q.input ELSE q.steps[i - 1].output
    BY DEF Piped
  <2>1. i \in 1..n /\ i \in Started(r)
    BY <1>4, <1>1, <1>2 DEF Started
  <2>2. i < k
    BY <2>1, <1>2, <1>3 DEF Started
  <2>3. i # 1 => i - 1 \in 1..n /\ i - 1 < k
    BY <2>1, <2>2, <1>2
  <2> QED
    BY <2>1, <2>2, <2>3, <1>1, <1>2 DEF Piped
<1>6. Extends(r, q)
  BY <1>1, <1>2, <1>3 DEF Extends
<1>7. Consistent(q)
  <2>1. k - 1 \in 0..MaxSteps /\ (k - 1) + 1 = k
    BY <1>2
  <2>2. Reaches(q, k - 1)
    BY <1>1, <1>2, <2>1 DEF Reaches
  <2>3. After(q, k - 1, "skipped")
    BY <1>1, <1>2 DEF After
  <2>4. First(q, k - 1, "completed")
    BY <1>1, <1>2, <1>3 DEF First
  <2> QED
    BY <1>1, <1>5, <2>1, <2>2, <2>3, <2>4 DEF Consistent
<1> QED
  BY <1>1, <1>4, <1>5, <1>6, <1>7

\* Finish (149-155): every step is completed and the last output is the result.
LEMMA FinishRecord ==
  ASSUME NEW r \in Record, NEW k \in 1..(MaxSteps + 1), k \notin DOMAIN r.steps,
         Piped(r), BetweenSteps(r, k - 1),
         NEW q, q = Completed(r, k)
  PROVE  /\ q \in Record /\ Extends(r, q) /\ Started(q) = Started(r)
         /\ q.status = "completed" /\ Consistent(q) /\ Piped(q)
<1>1. PICK n \in 1..MaxSteps : DOMAIN r.steps = 1..n /\ r.steps \in [1..n -> Step]
  BY RecordFields
<1>2. \A i \in 1..(k - 1) : i \in 1..n /\ r.steps[i].status = "completed"
  BY <1>1 DEF BetweenSteps, First
<1>3. k - 1 = n /\ k # 1 /\ n \in 0..MaxSteps
  <2>1. k > n
    BY <1>1
  <2>2. k = 1 \/ k - 1 \in 1..(k - 1)
    OBVIOUS
  <2>3. k = 1 \/ k - 1 \in 1..n
    BY <2>2, <1>2
  <2> QED
    BY <2>1, <2>3, <1>1
<1>4. Fed(r, k) = r.steps[n].output /\ Fed(r, k) \in Texts \cup {None}
  BY <1>1, <1>3, StepFields DEF Fed
<1>5. /\ q \in Record /\ q.steps = r.steps /\ q.status = "completed"
      /\ q.input = r.input /\ q.output = r.steps[n].output
  BY <1>4 DEF Completed, Record, Terminal
<1>6. Started(q) = Started(r) /\ Piped(q) /\ Extends(r, q)
  BY <1>5 DEF Started, Piped, Extends
<1>7. First(q, n, "completed")
  BY <1>1, <1>2, <1>3, <1>5 DEF First
<1> QED
  BY <1>1, <1>3, <1>5, <1>6, <1>7 DEF Consistent

-----------------------------------------------------------------------------
(* Steps *)

\* A step that leaves the places of v alone keeps what is known of v.
LEMMA OtherRuns ==
  ASSUME NEW v \in Workflows, RunInv(v),
         stored'[v] = stored[v], wf'[v] = wf[v], next'[v] = next[v],
         input'[v] = input[v], pc'[v] = pc[v], begun'[v] = begun[v],
         canceler'[v] = "signal" => canceler[v] = "signal",
         v \in cancels' <=> v \in cancels, v \in cancelled' <=> v \in cancelled,
         v \in unsaved => v \in unsaved'
  PROVE  RunInv(v)' /\ Forward(v)
<1>1. CopyInv(v)'
  BY DEF RunInv, CopyInv, More
<1>2. StoreInv(v)'
  BY DEF RunInv, StoreInv
<1>3. CancelInv(v)'
  BY DEF RunInv, CancelInv, Passed
<1>4. Forward(v)
  BY DEF Forward
<1> QED
  BY <1>1, <1>2, <1>3, <1>4 DEF RunInv

\* Later versions of a record extend the earlier ones.
LEMMA ExtendsTransitive ==
  ASSUME NEW p, NEW q, NEW r, Extends(p, q), Extends(q, r)
  PROVE  Extends(p, r)
<1>1. DOMAIN r.steps = DOMAIN p.steps
  BY DEF Extends
<1>2. ASSUME NEW i \in DOMAIN p.steps, p.steps[i].status = "completed"
      PROVE  r.steps[i] = p.steps[i]
  BY <1>2 DEF Extends
<1> QED
  BY <1>1, <1>2 DEF Extends

\* A goroutine changes its copy and saves it, or loses the write.
LEMMA UpdateStep ==
  ASSUME IInv, NEW w \in Workflows, NEW q \in Record,
         NEW place \in {"loop", "execute", "leave"},
         pc[w] \in {"created", "loop", "begin", "execute"},
         Update(w, q), Goto(w, place),
         Extends(stored[w], q), Consistent(q), q.status # "pending",
         q.status \in Terminal => place = "leave"
  PROVE  /\ wf' = [wf EXCEPT ![w] = q] /\ wf'[w] = q /\ pc'[w] = place
         /\ wf' \in [Workflows -> Record \cup {None}]
         /\ stored' \in [Workflows -> Record \cup {None}]
         /\ pc' \in [Workflows -> Active \cup {"none", "ended", "dead"}]
         /\ unsaved' \subseteq Workflows
         /\ StoreInv(w)' /\ Forward(w)
         /\ \A v \in Workflows : v # w =>
              /\ stored'[v] = stored[v] /\ wf'[v] = wf[v] /\ pc'[v] = pc[v]
              /\ v \in unsaved => v \in unsaved'
<1>1. /\ stored \in [Workflows -> Record \cup {None}]
      /\ wf \in [Workflows -> Record \cup {None}]
      /\ pc \in [Workflows -> Active \cup {"none", "ended", "dead"}]
      /\ unsaved \subseteq Workflows
  BY DEF IInv, TypeOK
<1>2. /\ wf' = [wf EXCEPT ![w] = q] /\ wf'[w] = q
      /\ wf' \in [Workflows -> Record \cup {None}]
  BY <1>1 DEF Update
<1>3. /\ pc' = [pc EXCEPT ![w] = place] /\ pc'[w] = place
      /\ pc' \in [Workflows -> Active \cup {"none", "ended", "dead"}]
  BY <1>1 DEF Goto, Active
<1>4. \/ stored' = [stored EXCEPT ![w] = q] /\ unsaved' = unsaved
      \/ stored' = stored /\ unsaved' = unsaved \cup {w}
  BY DEF Update
<1>5. /\ stored' \in [Workflows -> Record \cup {None}]
      /\ unsaved' \subseteq Workflows
      /\ stored'[w] = q \/ (stored'[w] = stored[w] /\ w \in unsaved')
      /\ \A v \in Workflows : v # w =>
           stored'[v] = stored[v] /\ wf'[v] = wf[v] /\ pc'[v] = pc[v]
      /\ \A v \in Workflows : v \in unsaved => v \in unsaved'
  <2>1. \A v \in Workflows : v # w => wf'[v] = wf[v] /\ pc'[v] = pc[v]
    BY <1>1, <1>2, <1>3
  <2>2. CASE stored' = [stored EXCEPT ![w] = q] /\ unsaved' = unsaved
    BY <2>1, <2>2, <1>1
  <2>3. CASE stored' = stored /\ unsaved' = unsaved \cup {w}
    BY <2>1, <2>3, <1>1
  <2> QED
    BY <2>2, <2>3, <1>4
<1>6. StoreInv(w) /\ stored[w] # None
  BY DEF IInv, RunInv, StoreInv
<1>7. stored[w] \in Record /\ stored[w].status \notin Terminal /\ q # None
  BY <1>1, <1>6, NoneIsNoRecord DEF StoreInv, Active
<1>8. Extends(q, q)
  BY DEF Extends
<1>9. stored'[w] # None /\ Extends(stored'[w], q) /\ Consistent(stored'[w])
  BY <1>5, <1>6, <1>7, <1>8 DEF StoreInv
<1>10. StoreInv(w)'
  BY <1>2, <1>3, <1>5, <1>7, <1>9 DEF StoreInv
<1>11. Forward(w)
  <2>1. ASSUME NEW i \in DOMAIN stored[w].steps, stored[w].steps[i].status = "completed"
        PROVE  stored'[w].steps[i] = stored[w].steps[i]
    BY <2>1, <1>5 DEF Extends
  <2> QED
    BY <1>7, <1>9, <2>1 DEF Forward
<1> QED
  BY <1>2, <1>3, <1>5, <1>10, <1>11

\* The places of the other workflows, in a step of one of them.
Apart(w) ==
  \A v \in Workflows : v # w =>
    /\ next'[v] = next[v] /\ input'[v] = input[v] /\ begun'[v] = begun[v]
    /\ canceler'[v] = canceler[v]
    /\ v \in cancels' <=> v \in cancels
    /\ v \in cancelled' <=> v \in cancelled

\* What is left to show of a step that updates the record of w.
LEMMA WorkStep ==
  ASSUME IInv, NEW w \in Workflows, NEW q \in Record,
         NEW place \in {"loop", "execute", "leave"},
         pc[w] \in {"created", "loop", "begin", "execute"},
         Update(w, q), Goto(w, place),
         Extends(stored[w], q), Consistent(q), q.status # "pending",
         q.status \in Terminal => place = "leave",
         Apart(w), CopyInv(w)', CancelInv(w)'
  PROVE  /\ \A v \in Workflows : RunInv(v)'
         /\ \A v \in Workflows : Forward(v)
<1>1. /\ StoreInv(w)' /\ Forward(w)
      /\ \A v \in Workflows : v # w =>
           /\ stored'[v] = stored[v] /\ wf'[v] = wf[v] /\ pc'[v] = pc[v]
           /\ v \in unsaved => v \in unsaved'
  BY UpdateStep
<1>2. RunInv(w)'
  BY <1>1 DEF RunInv
<1>3. ASSUME NEW v \in Workflows, v # w
      PROVE  RunInv(v)' /\ Forward(v)
  BY <1>1, <1>3, OtherRuns DEF Apart, IInv
<1> QED
  BY <1>1, <1>2, <1>3

\* RunWorkflow (73-99) registers the run and starts its loop.
LEMMA RunStep ==
  ASSUME IInv, NEW w \in Workflows, RunWorkflow(w)
  PROVE  IInv' /\ \A v \in Workflows : Forward(v)
<1> DEFINE r == stored[w]
           q == [r EXCEPT !.status = "running"]
<1>1. TypeOK /\ CopyInv(w) /\ StoreInv(w) /\ CancelInv(w) /\ pc[w] = "created"
  BY DEF IInv, RunInv, RunWorkflow
<1>2. r \in Record /\ r.status = "pending" /\ Consistent(r) /\ wf[w] = None /\ next[w] = 1
  BY <1>1 DEF TypeOK, StoreInv, CopyInv
<1>3. /\ q \in Record /\ Extends(r, q) /\ q.status = "running"
      /\ Piped(q) /\ BetweenSteps(q, 0) /\ r.input = Fed(q, 1) /\ Consistent(q)
  BY <1>2, RunRecord
<1>4. /\ Update(w, q) /\ Goto(w, "loop")
      /\ input' = [input EXCEPT ![w] = r.input]
      /\ cancels' = cancels \cup {w}
      /\ UNCHANGED <<next, cancelled, canceler, begun, restarts>>
  BY DEF RunWorkflow
<1> HIDE DEF q, r
<1>5. /\ wf'[w] = q /\ pc'[w] = "loop"
      /\ wf' \in [Workflows -> Record \cup {None}]
      /\ stored' \in [Workflows -> Record \cup {None}]
      /\ pc' \in [Workflows -> Active \cup {"none", "ended", "dead"}]
      /\ unsaved' \subseteq Workflows
  BY <1>1, <1>3, <1>4, UpdateStep DEF Terminal, r
<1>6. q # None /\ r.input \in Texts
  BY <1>2, <1>3, RecordFields
<1>7. TypeOK'
  BY <1>1, <1>4, <1>5, <1>6 DEF TypeOK
<1>8. CopyInv(w)'
  BY <1>1, <1>2, <1>3, <1>4, <1>5, <1>6 DEF CopyInv, TypeOK
<1>9. CancelInv(w)'
  BY <1>1, <1>2, <1>4, <1>5 DEF CancelInv
<1>10. Apart(w)
  BY <1>1, <1>4 DEF Apart, TypeOK
<1>11. /\ \A v \in Workflows : RunInv(v)'
       /\ \A v \in Workflows : Forward(v)
  BY <1>1, <1>3, <1>4, <1>8, <1>9, <1>10, WorkStep DEF Terminal, r
<1> QED
  BY <1>7, <1>11 DEF IInv
\* What the steps of a running goroutine start from.
LEMMA Running ==
  ASSUME IInv, NEW w \in Workflows, pc[w] \in {"loop", "begin", "execute"}
  PROVE  /\ TypeOK /\ CopyInv(w) /\ StoreInv(w) /\ CancelInv(w)
         /\ wf[w] \in Record /\ wf[w] # None /\ Piped(wf[w])
         /\ stored[w] # None /\ Extends(stored[w], wf[w])
         /\ next[w] \in Nat /\ input[w] \in Texts \cup {None}
<1>1. TypeOK /\ CopyInv(w) /\ StoreInv(w) /\ CancelInv(w)
  BY DEF IInv, RunInv
<1>2. wf[w] # None /\ stored[w] # None
  BY <1>1 DEF CopyInv, StoreInv
<1>3. wf[w] \in Record /\ next[w] \in Nat /\ input[w] \in Texts \cup {None}
  BY <1>1, <1>2 DEF TypeOK
<1> QED
  BY <1>1, <1>2, <1>3 DEF CopyInv, StoreInv

\* The check at the head of the loop ends a cancelled run (103-113).
LEMMA StopStep ==
  ASSUME IInv, NEW w \in Workflows, StopCancelled(w)
  PROVE  IInv' /\ \A v \in Workflows : Forward(v)
<1> DEFINE r == wf[w]
           f == SkipRemaining(r, next[w])
           q == Stopped(r, "canceled", f)
<1>1. pc[w] = "loop" /\ next[w] \in DOMAIN r.steps
  BY DEF StopCancelled, More
<1>2. /\ TypeOK /\ CopyInv(w) /\ CancelInv(w) /\ Extends(stored[w], r)
      /\ r \in Record /\ Piped(r) /\ BetweenSteps(r, next[w] - 1)
  BY <1>1, Running DEF CopyInv
<1>3. PICK n \in 1..MaxSteps : DOMAIN r.steps = 1..n /\ r.steps \in [1..n -> Step]
  BY <1>2, RecordFields
<1>4. /\ f \in [1..n -> Step]
      /\ \A i \in 1..n : i < next[w] => f[i] = r.steps[i]
      /\ \A i \in 1..n : i >= next[w] => f[i].status = "skipped"
  <2>1. f = [i \in 1..n |-> IF i >= next[w] THEN [r.steps[i] EXCEPT !.status = "skipped"]
                                            ELSE r.steps[i]]
    BY <1>3 DEF SkipRemaining
  <2>2. \A x \in Step : [x EXCEPT !.status = "skipped"] \in Step
                        /\ [x EXCEPT !.status = "skipped"].status = "skipped"
    BY DEF Step, StepStatus
  <2>3. \A i \in 1..n : r.steps[i] \in Step
    BY <1>3
  <2>4. \A i \in 1..n : i >= next[w] => ~(i < next[w])
    BY <1>1, <1>3
  <2> HIDE DEF f, r
  <2> QED
    BY <2>1, <2>2, <2>3, <2>4
<1>5. /\ Update(w, q) /\ Goto(w, "leave")
      /\ UNCHANGED <<next, input, cancels, cancelled, canceler, begun, restarts>>
  BY DEF StopCancelled
<1> HIDE DEF f, r
<1>14. next[w] \in 1..n /\ q = Stopped(r, "canceled", f)
  BY <1>1, <1>3
<1> HIDE DEF q
<1>6. /\ q \in Record /\ Extends(r, q) /\ Started(q) = Started(r)
      /\ q.status = "canceled" /\ Consistent(q) /\ Piped(q)
  BY <1>2, <1>3, <1>4, <1>14, StopRecord
<1>7. Extends(stored[w], q) /\ q # None
  BY <1>2, <1>6, ExtendsTransitive, RecordFields
<1>8. /\ wf'[w] = q /\ pc'[w] = "leave"
      /\ wf' \in [Workflows -> Record \cup {None}]
      /\ stored' \in [Workflows -> Record \cup {None}]
      /\ pc' \in [Workflows -> Active \cup {"none", "ended", "dead"}]
      /\ unsaved' \subseteq Workflows
  BY <1>1, <1>5, <1>6, <1>7, UpdateStep
<1>9. TypeOK'
  BY <1>2, <1>5, <1>8 DEF TypeOK
<1>10. CopyInv(w)'
  BY <1>5, <1>6, <1>7, <1>8 DEF CopyInv, Terminal
<1>11. CancelInv(w)'
  BY <1>1, <1>2, <1>5, <1>6, <1>7, <1>8 DEF CancelInv, Passed, r
<1>12. Apart(w)
  BY <1>5 DEF Apart
<1>13. /\ \A v \in Workflows : RunInv(v)'
       /\ \A v \in Workflows : Forward(v)
  BY <1>1, <1>5, <1>6, <1>7, <1>10, <1>11, <1>12, WorkStep
<1> QED
  BY <1>9, <1>13 DEF IInv
\* How a step of a record is replaced.
LEMMA SetStepFields ==
  ASSUME NEW r \in Record, NEW n \in 1..MaxSteps, r.steps \in [1..n -> Step],
         NEW k \in 1..n, NEW x \in Step
  PROVE  ButFor(r, SetStep(r, k, x), n, k) /\ SetStep(r, k, x).steps[k] = x
<1> DEFINE f == [r.steps EXCEPT ![k] = x]
<1>1. f \in [1..n -> Step] /\ f[k] = x /\ \A i \in 1..n : i # k => f[i] = r.steps[i]
  OBVIOUS
<1>2. SetStep(r, k, x) = [r EXCEPT !.steps = f]
  BY DEF SetStep, Record
<1> DEFINE q == [r EXCEPT !.steps = f]
<1> HIDE DEF f
<1>3. /\ q \in Record /\ q.steps = f
      /\ q.status = r.status /\ q.input = r.input /\ q.output = r.output
  BY <1>1 DEF Record
<1> HIDE DEF q
<1>4. DOMAIN f = 1..n
  BY <1>1
<1> QED
  BY <1>1, <1>2, <1>3, <1>4 DEF ButFor, q

\* The check that finds nothing (103-113) binds the run to one more step.
LEMMA CheckStep ==
  ASSUME IInv, NEW w \in Workflows, CheckContext(w)
  PROVE  IInv' /\ \A v \in Workflows : Forward(v)
<1>1. TypeOK /\ RunInv(w) /\ pc[w] = "loop" /\ More(w) /\ w \notin cancelled
  BY DEF IInv, CheckContext
<1>2. /\ pc' = [pc EXCEPT ![w] = "begin"]
      /\ UNCHANGED <<stored, wf, next, input, cancels, cancelled, canceler, begun,
                     unsaved, restarts>>
  BY DEF CheckContext, Goto
<1>3. /\ pc' \in [Workflows -> Active \cup {"none", "ended", "dead"}]
      /\ pc'[w] = "begin"
      /\ \A v \in Workflows : v # w => pc'[v] = pc[v]
  BY <1>1, <1>2 DEF TypeOK, Active
<1>4. TypeOK'
  BY <1>1, <1>2, <1>3 DEF TypeOK
<1>5. RunInv(w)'
  <2>1. CopyInv(w)'
    BY <1>1, <1>2, <1>3 DEF RunInv, CopyInv, More
  <2>2. StoreInv(w)'
    BY <1>1, <1>2, <1>3 DEF RunInv, StoreInv, Terminal, CopyInv
  <2>3. CancelInv(w)'
    BY <1>1, <1>2, <1>3 DEF RunInv, CancelInv
  <2> QED
    BY <2>1, <2>2, <2>3 DEF RunInv
<1>6. Forward(w)
  BY <1>2 DEF Forward
<1>7. \A v \in Workflows : v # w => RunInv(v)' /\ Forward(v)
  BY <1>2, <1>3, OtherRuns DEF IInv
<1> QED
  BY <1>4, <1>5, <1>6, <1>7 DEF IInv

\* A run that cannot read its record (75-77, 159-161) is dead, the record pending.
LEMMA NotStartedStep ==
  ASSUME IInv, NEW w \in Workflows, NotStarted(w)
  PROVE  IInv' /\ \A v \in Workflows : Forward(v)
<1>1. TypeOK /\ RunInv(w) /\ pc[w] = "created"
  BY DEF IInv, NotStarted
<1>2. /\ pc' = [pc EXCEPT ![w] = "dead"]
      /\ UNCHANGED <<stored, wf, next, input, cancels, cancelled, canceler, begun,
                     unsaved, restarts>>
  BY DEF NotStarted, Goto
<1>3. /\ pc' \in [Workflows -> Active \cup {"none", "ended", "dead"}]
      /\ pc'[w] = "dead"
      /\ \A v \in Workflows : v # w => pc'[v] = pc[v]
  BY <1>1, <1>2 DEF TypeOK
<1>4. TypeOK'
  BY <1>1, <1>2, <1>3 DEF TypeOK
<1>5. RunInv(w)'
  <2>1. CopyInv(w)'
    BY <1>1, <1>2, <1>3 DEF RunInv, CopyInv
  <2>2. StoreInv(w)'
    BY <1>1, <1>2, <1>3 DEF RunInv, StoreInv
  <2>3. CancelInv(w)'
    BY <1>1, <1>2, <1>3 DEF RunInv, CancelInv, Passed
  <2> QED
    BY <2>1, <2>2, <2>3 DEF RunInv
<1>6. Forward(w)
  BY <1>2 DEF Forward
<1>7. \A v \in Workflows : v # w => RunInv(v)' /\ Forward(v)
  BY <1>2, <1>3, OtherRuns DEF IInv
<1> QED
  BY <1>4, <1>5, <1>6, <1>7 DEF IInv

\* A step is begun by a run that has passed the check (116-123), whether its context
\* is cancelled by now or not.
LEMMA BeginStepStep ==
  ASSUME IInv, NEW w \in Workflows, BeginStep(w)
  PROVE  IInv' /\ \A v \in Workflows : Forward(v)
<1> DEFINE r == wf[w]
           k == next[w]
           x == [r.steps[k] EXCEPT !.status = "running", !.input = input[w]]
           q == SetStep(r, k, x)
<1>1. pc[w] = "begin" /\ k \in DOMAIN r.steps
  BY Running DEF BeginStep, CopyInv, More
<1>2. /\ TypeOK /\ CopyInv(w) /\ CancelInv(w) /\ Extends(stored[w], r)
      /\ r \in Record /\ Piped(r) /\ BetweenSteps(r, k - 1)
      /\ input[w] = Fed(r, k)
  BY <1>1, Running DEF CopyInv
<1>3. PICK n \in 1..MaxSteps : DOMAIN r.steps = 1..n /\ r.steps \in [1..n -> Step]
  BY <1>2, RecordFields
<1>4. k \in 1..n /\ input[w] \in Texts \cup {None}
  BY <1>1, <1>2, <1>3 DEF TypeOK
<1>5. x \in Step /\ x.status = "running" /\ x.input = input[w]
  BY <1>3, <1>4 DEF Step, StepStatus
<1>6. /\ Update(w, q) /\ Goto(w, "execute")
      /\ UNCHANGED <<next, input, cancels, cancelled, canceler, begun, restarts>>
  BY DEF BeginStep
<1> HIDE DEF x, r, k
<1>7. ButFor(r, q, n, k) /\ q.steps[k] = x
  BY <1>2, <1>3, <1>4, <1>5, SetStepFields
<1> HIDE DEF q
<1>8. /\ q \in Record /\ Extends(r, q) /\ Started(q) \subseteq Started(r) \cup {k}
      /\ Piped(q) /\ InStep(q, k) /\ Consistent(q)
  BY <1>2, <1>3, <1>4, <1>5, <1>7, BeginRecord
<1>9. Extends(stored[w], q) /\ q # None /\ q.status = "running"
  BY <1>2, <1>8, ExtendsTransitive, RecordFields DEF InStep
<1>10. /\ wf'[w] = q /\ pc'[w] = "execute"
       /\ wf' \in [Workflows -> Record \cup {None}]
       /\ stored' \in [Workflows -> Record \cup {None}]
       /\ pc' \in [Workflows -> Active \cup {"none", "ended", "dead"}]
       /\ unsaved' \subseteq Workflows
  BY <1>1, <1>6, <1>8, <1>9, UpdateStep DEF Terminal
<1>11. TypeOK'
  BY <1>2, <1>6, <1>10 DEF TypeOK
<1>12. CopyInv(w)'
  BY <1>6, <1>8, <1>9, <1>10 DEF CopyInv, k
<1>13. CancelInv(w)'
  <2>1. Passed(w) = Started(r) \cup {k} /\ Passed(w)' = Started(q)
    BY <1>1, <1>10 DEF Passed, r, k
  <2> QED
    BY <2>1, <1>1, <1>2, <1>6, <1>8, <1>9, <1>10 DEF CancelInv
<1>14. Apart(w)
  BY <1>6 DEF Apart
<1>15. /\ \A v \in Workflows : RunInv(v)'
       /\ \A v \in Workflows : Forward(v)
  BY <1>1, <1>6, <1>8, <1>9, <1>12, <1>13, <1>14, WorkStep DEF Terminal
<1> QED
  BY <1>11, <1>15 DEF IInv
\* A step ends with an output, which is piped on (138-147).
LEMMA CompleteStepStep ==
  ASSUME IInv, NEW w \in Workflows, CompleteStep(w)
  PROVE  IInv' /\ \A v \in Workflows : Forward(v)
<1>1. pc[w] = "execute"
  BY DEF CompleteStep
<1>2. PICK t \in Texts :
        /\ Update(w, SetStep(wf[w], next[w], [wf[w].steps[next[w]] EXCEPT
                                                !.status = "completed", !.output = t]))
        /\ input' = [input EXCEPT ![w] = t]
  BY DEF CompleteStep
<1> DEFINE r == wf[w]
           k == next[w]
           x == [r.steps[k] EXCEPT !.status = "completed", !.output = t]
           q == SetStep(r, k, x)
<1>3. /\ TypeOK /\ CopyInv(w) /\ CancelInv(w) /\ Extends(stored[w], r)
      /\ r \in Record /\ Piped(r) /\ InStep(r, k) /\ r # None
  BY <1>1, Running DEF CopyInv
<1>4. PICK n \in 1..MaxSteps : DOMAIN r.steps = 1..n /\ r.steps \in [1..n -> Step]
  BY <1>3, RecordFields
<1>5. k \in 1..n
  BY <1>3, <1>4 DEF InStep
<1>6. /\ x \in Step /\ x.status = "completed" /\ x.output = t
      /\ x.input = r.steps[k].input
  BY <1>4, <1>5 DEF Step, StepStatus
<1>7. /\ Update(w, q) /\ Goto(w, "loop") /\ next' = [next EXCEPT ![w] = k + 1]
      /\ UNCHANGED <<cancels, cancelled, canceler, begun, restarts>>
  BY <1>2 DEF CompleteStep
<1> HIDE DEF x, r, k
<1>8. ButFor(r, q, n, k) /\ q.steps[k] = x
  BY <1>3, <1>4, <1>5, <1>6, SetStepFields
<1> HIDE DEF q
<1>9. /\ q \in Record /\ Extends(r, q) /\ Started(q) = Started(r)
      /\ Piped(q) /\ BetweenSteps(q, k) /\ t = Fed(q, k + 1) /\ Consistent(q)
  BY <1>3, <1>4, <1>5, <1>6, <1>8, CompleteRecord
<1>10. Extends(stored[w], q) /\ q # None /\ q.status = "running"
  BY <1>3, <1>9, ExtendsTransitive, RecordFields DEF BetweenSteps
<1>11. /\ wf'[w] = q /\ pc'[w] = "loop"
       /\ wf' \in [Workflows -> Record \cup {None}]
       /\ stored' \in [Workflows -> Record \cup {None}]
       /\ pc' \in [Workflows -> Active \cup {"none", "ended", "dead"}]
       /\ unsaved' \subseteq Workflows
  BY <1>1, <1>7, <1>9, <1>10, UpdateStep DEF Terminal
<1>12. /\ next' \in [Workflows -> 1..(MaxSteps + 1)] /\ next'[w] = k + 1
       /\ next'[w] - 1 = k
       /\ input' \in [Workflows -> Texts \cup {None}] /\ input'[w] = t
  <2>1. k + 1 \in 1..(MaxSteps + 1) /\ (k + 1) - 1 = k
    BY <1>5
  <2> QED
    BY <2>1, <1>2, <1>3, <1>7 DEF TypeOK
<1>13. TypeOK'
  BY <1>3, <1>7, <1>11, <1>12 DEF TypeOK
<1>14. CopyInv(w)'
  BY <1>9, <1>10, <1>11, <1>12 DEF CopyInv
<1>15. CancelInv(w)'
  BY <1>1, <1>3, <1>7, <1>9, <1>10, <1>11 DEF CancelInv, Passed, r
<1>16. Apart(w)
  BY <1>2, <1>3, <1>7 DEF Apart, TypeOK
<1>17. /\ \A v \in Workflows : RunInv(v)'
       /\ \A v \in Workflows : Forward(v)
  BY <1>1, <1>7, <1>9, <1>10, <1>14, <1>15, <1>16, WorkStep DEF Terminal
<1> QED
  BY <1>13, <1>17 DEF IInv

\* A failed step ends the run (124-136).
LEMMA FailStepStep ==
  ASSUME IInv, NEW w \in Workflows, FailStep(w)
  PROVE  IInv' /\ \A v \in Workflows : Forward(v)
<1> DEFINE r == wf[w]
           k == next[w]
           g == SkipRemaining(r, k + 1)
           f == [g EXCEPT ![k].status = "failed"]
           q == Stopped(r, "failed", f)
<1>1. pc[w] = "execute"
  BY DEF FailStep
<1>2. /\ TypeOK /\ CopyInv(w) /\ CancelInv(w) /\ Extends(stored[w], r)
      /\ r \in Record /\ Piped(r) /\ InStep(r, k)
  BY <1>1, Running DEF CopyInv
<1>3. PICK n \in 1..MaxSteps : DOMAIN r.steps = 1..n /\ r.steps \in [1..n -> Step]
  BY <1>2, RecordFields
<1>4. k \in 1..n
  BY <1>2, <1>3 DEF InStep
<1>5. /\ f \in [1..n -> Step] /\ f[k].status = "failed" /\ f[k].input = r.steps[k].input
      /\ \A i \in 1..n : i < k => f[i] = r.steps[i]
      /\ \A i \in 1..n : i > k => f[i].status = "skipped"
  <2>1. g = [i \in 1..n |-> IF i >= k + 1 THEN [r.steps[i] EXCEPT !.status = "skipped"]
                                          ELSE r.steps[i]]
    BY <1>3 DEF SkipRemaining
  <2>2. \A x \in Step : /\ [x EXCEPT !.status = "skipped"] \in Step
                        /\ [x EXCEPT !.status = "skipped"].status = "skipped"
    BY DEF Step, StepStatus
  <2>3. \A x \in Step : /\ [x EXCEPT !.status = "failed"] \in Step
                        /\ [x EXCEPT !.status = "failed"].status = "failed"
                        /\ [x EXCEPT !.status = "failed"].input = x.input
    BY DEF Step, StepStatus
  <2>4. \A i \in 1..n : r.steps[i] \in Step
    BY <1>3
  <2>5. \A i \in 1..n : (i >= k + 1 <=> i > k) /\ (i < k => ~(i >= k + 1) /\ i # k)
                        /\ (i > k => i # k)
    BY <1>4
  <2> DEFINE y == [g[k] EXCEPT !.status = "failed"]
  <2>6. f = [g EXCEPT ![k] = y]
    OBVIOUS
  <2> HIDE DEF g, r, k
  <2>7. /\ g \in [1..n -> Step] /\ g[k] = r.steps[k]
        /\ \A i \in 1..n : i < k => g[i] = r.steps[i]
        /\ \A i \in 1..n : i > k => g[i].status = "skipped"
    <3>1. ~(k >= k + 1)
      BY <1>4
    <3> QED
      BY <1>4, <2>1, <2>2, <2>4, <2>5, <3>1
  <2>8. y \in Step /\ y.status = "failed" /\ y.input = r.steps[k].input
    BY <2>3, <2>4, <2>7, <1>4
  <2> HIDE DEF y, f
  <2> QED
    BY <1>4, <2>5, <2>6, <2>7, <2>8
<1>6. /\ Update(w, q) /\ Goto(w, "leave")
      /\ UNCHANGED <<next, input, cancels, cancelled, canceler, begun, restarts>>
  BY DEF FailStep, Failed
<1> HIDE DEF f, g, r, k
<1>7. q = Stopped(r, "failed", f)
  OBVIOUS
<1> HIDE DEF q
<1>8. /\ q \in Record /\ Extends(r, q) /\ Started(q) = Started(r)
      /\ q.status = "failed" /\ Consistent(q) /\ Piped(q)
  BY <1>2, <1>3, <1>4, <1>5, <1>7, FailRecord
<1>9. Extends(stored[w], q) /\ q # None
  BY <1>2, <1>8, ExtendsTransitive, RecordFields
<1>10. /\ wf'[w] = q /\ pc'[w] = "leave"
       /\ wf' \in [Workflows -> Record \cup {None}]
       /\ stored' \in [Workflows -> Record \cup {None}]
       /\ pc' \in [Workflows -> Active \cup {"none", "ended", "dead"}]
       /\ unsaved' \subseteq Workflows
  BY <1>1, <1>6, <1>8, <1>9, UpdateStep
<1>11. TypeOK'
  BY <1>2, <1>6, <1>10 DEF TypeOK
<1>12. CopyInv(w)'
  BY <1>6, <1>8, <1>9, <1>10 DEF CopyInv, Terminal
<1>13. CancelInv(w)'
  BY <1>1, <1>2, <1>6, <1>8, <1>9, <1>10 DEF CancelInv, Passed, r
<1>14. Apart(w)
  BY <1>6 DEF Apart
<1>15. /\ \A v \in Workflows : RunInv(v)'
       /\ \A v \in Workflows : Forward(v)
  BY <1>1, <1>6, <1>8, <1>9, <1>12, <1>13, <1>14, WorkStep
<1> QED
  BY <1>11, <1>15 DEF IInv

\* The run ends after its last step (149-155).
LEMMA FinishStep ==
  ASSUME IInv, NEW w \in Workflows, Finish(w)
  PROVE  IInv' /\ \A v \in Workflows : Forward(v)
<1> DEFINE r == wf[w]
           k == next[w]
           q == [r EXCEPT !.status = "completed", !.output = input[w]]
<1>1. pc[w] = "loop" /\ k \notin DOMAIN r.steps
  BY DEF Finish, More
<1>2. /\ TypeOK /\ CopyInv(w) /\ CancelInv(w) /\ Extends(stored[w], r)
      /\ r \in Record /\ Piped(r) /\ BetweenSteps(r, k - 1)
      /\ input[w] = Fed(r, k) /\ k \in 1..(MaxSteps + 1)
  BY <1>1, Running DEF CopyInv, TypeOK
<1>3. /\ Update(w, q) /\ Goto(w, "leave")
      /\ UNCHANGED <<next, input, cancels, cancelled, canceler, begun, restarts>>
  BY DEF Finish
<1>4. q = Completed(r, k)
  BY <1>2 DEF Completed
<1> HIDE DEF q, r, k
<1>5. /\ q \in Record /\ Extends(r, q) /\ Started(q) = Started(r)
      /\ q.status = "completed" /\ Consistent(q) /\ Piped(q)
  BY <1>1, <1>2, <1>4, FinishRecord
<1>6. Extends(stored[w], q) /\ q # None
  BY <1>2, <1>5, ExtendsTransitive, RecordFields
<1>7. /\ wf'[w] = q /\ pc'[w] = "leave"
      /\ wf' \in [Workflows -> Record \cup {None}]
      /\ stored' \in [Workflows -> Record \cup {None}]
      /\ pc' \in [Workflows -> Active \cup {"none", "ended", "dead"}]
      /\ unsaved' \subseteq Workflows
  BY <1>1, <1>3, <1>5, <1>6, UpdateStep
<1>8. TypeOK'
  BY <1>2, <1>3, <1>7 DEF TypeOK
<1>9. CopyInv(w)'
  BY <1>3, <1>5, <1>6, <1>7 DEF CopyInv, Terminal
<1>10. CancelInv(w)'
  BY <1>1, <1>2, <1>3, <1>5, <1>6, <1>7 DEF CancelInv, Passed, r
<1>11. Apart(w)
  BY <1>3 DEF Apart
<1>12. /\ \A v \in Workflows : RunInv(v)'
       /\ \A v \in Workflows : Forward(v)
  BY <1>1, <1>3, <1>5, <1>6, <1>9, <1>10, <1>11, WorkStep
<1> QED
  BY <1>8, <1>12 DEF IInv
\* CreateWorkflow (37-68) saves a fresh record.
LEMMA CreateStep ==
  ASSUME IInv, NEW w \in Workflows, CreateWorkflow(w)
  PROVE  IInv' /\ \A v \in Workflows : Forward(v)
<1>1. TypeOK /\ RunInv(w) /\ stored[w] = None /\ pc[w] = "none"
  BY DEF IInv, CreateWorkflow
<1>2. PICK n \in 1..MaxSteps, t \in Texts :
        stored' = [stored EXCEPT ![w] = Fresh(n, t)]
  BY DEF CreateWorkflow
<1> DEFINE q == Fresh(n, t)
<1>3. q \in Record /\ q # None /\ q.status = "pending" /\ Consistent(q)
  BY FreshRecord, RecordFields
<1> HIDE DEF q
<1>4. /\ pc' = [pc EXCEPT ![w] = "created"] /\ stored' = [stored EXCEPT ![w] = q]
      /\ UNCHANGED <<wf, next, input, cancels, cancelled, canceler, begun, unsaved,
                     restarts>>
  BY <1>2 DEF CreateWorkflow, Goto, q
<1>5. /\ stored' \in [Workflows -> Record \cup {None}] /\ stored'[w] = q
      /\ pc' \in [Workflows -> Active \cup {"none", "ended", "dead"}]
      /\ pc'[w] = "created"
      /\ \A v \in Workflows : v # w => stored'[v] = stored[v] /\ pc'[v] = pc[v]
  BY <1>1, <1>3, <1>4 DEF TypeOK, Active
<1>6. TypeOK'
  BY <1>1, <1>4, <1>5 DEF TypeOK
<1>7. RunInv(w)'
  <2>1. CopyInv(w)'
    BY <1>1, <1>4, <1>5 DEF RunInv, CopyInv
  <2>2. StoreInv(w)'
    BY <1>1, <1>3, <1>4, <1>5 DEF RunInv, StoreInv, CopyInv, Terminal
  <2>3. CancelInv(w)'
    BY <1>1, <1>4, <1>5 DEF RunInv, CancelInv, CopyInv, Passed
  <2> QED
    BY <2>1, <2>2, <2>3 DEF RunInv
<1>8. Forward(w)
  BY <1>1 DEF Forward
<1>9. \A v \in Workflows : v # w => RunInv(v)' /\ Forward(v)
  BY <1>4, <1>5, OtherRuns DEF IInv
<1> QED
  BY <1>6, <1>7, <1>8, <1>9 DEF IInv

\* The deferred function unregisters the run (91-96).
LEMMA LeaveStep ==
  ASSUME IInv, NEW w \in Workflows, Leave(w)
  PROVE  IInv' /\ \A v \in Workflows : Forward(v)
<1>1. TypeOK /\ RunInv(w) /\ pc[w] = "leave"
  BY DEF IInv, Leave
<1>2. /\ pc' = [pc EXCEPT ![w] = "ended"] /\ cancels' = cancels \ {w}
      /\ UNCHANGED <<stored, wf, next, input, cancelled, canceler, begun, unsaved,
                     restarts>>
  BY DEF Leave, Goto
<1>3. /\ pc' \in [Workflows -> Active \cup {"none", "ended", "dead"}]
      /\ pc'[w] = "ended"
      /\ \A v \in Workflows : v # w => pc'[v] = pc[v]
  BY <1>1, <1>2 DEF TypeOK
<1>4. TypeOK'
  BY <1>1, <1>2, <1>3 DEF TypeOK
<1>5. RunInv(w)'
  <2>1. CopyInv(w)'
    BY <1>1, <1>2, <1>3 DEF RunInv, CopyInv
  <2>2. StoreInv(w)'
    BY <1>1, <1>2, <1>3 DEF RunInv, StoreInv
  <2>3. CancelInv(w)'
    BY <1>1, <1>2, <1>3 DEF RunInv, CancelInv, Passed
  <2> QED
    BY <2>1, <2>2, <2>3 DEF RunInv
<1>6. Forward(w)
  BY <1>2 DEF Forward
<1>7. \A v \in Workflows : v # w => RunInv(v)' /\ Forward(v)
  BY <1>2, <1>3, OtherRuns DEF IInv
<1> QED
  BY <1>4, <1>5, <1>6, <1>7 DEF IInv

\* The first look of CancelWorkflow (184-192) changes nothing.
LEMMA CancelStep ==
  ASSUME IInv, NEW w \in Workflows, CancelWorkflow(w)
  PROVE  IInv' /\ \A v \in Workflows : Forward(v)
<1>1. /\ canceler' = [canceler EXCEPT ![w] = "lookup"]
      /\ UNCHANGED <<stored, wf, next, input, pc, cancels, cancelled, begun, unsaved,
                     restarts>>
  BY DEF CancelWorkflow, run
<1>2. TypeOK'
  BY <1>1 DEF IInv, TypeOK
<1>3. \A v \in Workflows : canceler'[v] = "signal" => canceler[v] = "signal"
  BY <1>1 DEF IInv, TypeOK
<1>4. \A v \in Workflows : RunInv(v)' /\ Forward(v)
  BY <1>1, <1>3, OtherRuns DEF IInv
<1> QED
  BY <1>2, <1>4 DEF IInv

\* A cancel function found (193-195) belongs to a run that has a copy.
LEMMA LookupStep ==
  ASSUME IInv, NEW w \in Workflows, Lookup(w)
  PROVE  IInv' /\ \A v \in Workflows : Forward(v)
<1>1. /\ canceler' = [canceler EXCEPT ![w] = IF w \in cancels THEN "signal" ELSE "idle"]
      /\ UNCHANGED <<stored, wf, next, input, pc, cancels, cancelled, begun, unsaved,
                     restarts>>
  BY DEF Lookup, run
<1>2. TypeOK /\ RunInv(w)
  BY DEF IInv
<1>3. TypeOK'
  BY <1>1, <1>2 DEF TypeOK
<1>4. RunInv(w)'
  <2>1. CopyInv(w)' /\ StoreInv(w)'
    BY <1>1, <1>2 DEF RunInv, CopyInv, StoreInv, More
  <2>2. w \in cancels => wf[w] # None
    BY <1>2 DEF RunInv, CancelInv, CopyInv
  <2>3. CancelInv(w)'
    BY <1>1, <1>2, <2>2 DEF RunInv, CancelInv, Passed, TypeOK
  <2> QED
    BY <2>1, <2>3 DEF RunInv
<1>5. \A v \in Workflows : v # w => canceler'[v] = canceler[v]
  BY <1>1, <1>2 DEF TypeOK
<1>6. \A v \in Workflows : v # w => RunInv(v)' /\ Forward(v)
  BY <1>1, <1>5, OtherRuns DEF IInv
<1>7. Forward(w)
  BY <1>1 DEF Forward
<1> QED
  BY <1>3, <1>4, <1>6, <1>7 DEF IInv

\* The call of the cancel function (196-199) marks the steps begun so far.
LEMMA SignalStep ==
  ASSUME IInv, NEW w \in Workflows, Signal(w)
  PROVE  IInv' /\ \A v \in Workflows : Forward(v)
<1>1. /\ canceler' = [canceler EXCEPT ![w] = "idle"] /\ canceler[w] = "signal"
      /\ UNCHANGED <<stored, wf, next, input, pc, cancels, unsaved, restarts>>
  BY DEF Signal, run
<1>2. TypeOK /\ RunInv(w)
  BY DEF IInv
<1>3. /\ canceler' \in [Workflows -> {"idle", "lookup", "signal"}]
      /\ \A v \in Workflows : canceler'[v] = "signal" => canceler[v] = "signal"
  BY <1>1, <1>2 DEF TypeOK
<1>4. CASE w \notin cancelled
  <2>1. PICK n \in 0..MaxSteps :
          Passed(w) = 1..n /\ begun' = [begun EXCEPT ![w] = n]
    BY <1>4 DEF Signal
  <2>2. cancelled' = cancelled \cup {w}
    BY <1>4 DEF Signal
  <2>3. /\ begun' \in [Workflows -> 0..MaxSteps] /\ begun'[w] = n
        /\ \A v \in Workflows : v # w => begun'[v] = begun[v]
    BY <2>1, <1>2 DEF TypeOK
  <2>4. TypeOK'
    BY <1>1, <1>2, <1>3, <2>2, <2>3 DEF TypeOK
  <2>5. RunInv(w)'
    <3>1. CopyInv(w)' /\ StoreInv(w)'
      BY <1>1, <1>2 DEF RunInv, CopyInv, StoreInv, More
    <3>2. CancelInv(w)'
      BY <1>1, <1>2, <2>1, <2>3 DEF RunInv, CancelInv, Passed
    <3> QED
      BY <3>1, <3>2 DEF RunInv
  <2>6. \A v \in Workflows : v # w => RunInv(v)'
    BY <1>1, <1>3, <2>2, <2>3, OtherRuns DEF IInv
  <2>7. \A v \in Workflows : Forward(v)
    BY <1>1 DEF Forward
  <2> QED
    BY <2>4, <2>5, <2>6, <2>7 DEF IInv
<1>5. CASE w \in cancelled
  <2>1. cancelled' = cancelled /\ begun' = begun
    BY <1>5 DEF Signal
  <2>2. TypeOK'
    BY <1>1, <1>2, <1>3, <2>1 DEF TypeOK
  <2>3. \A v \in Workflows : RunInv(v)' /\ Forward(v)
    BY <1>1, <1>3, <2>1, OtherRuns DEF IInv
  <2> QED
    BY <2>2, <2>3 DEF IInv
<1> QED
  BY <1>4, <1>5

\* The process goes down: unfinished runs are dead, their records stay.
LEMMA RestartStep ==
  ASSUME IInv, Restart
  PROVE  IInv' /\ \A v \in Workflows : Forward(v)
<1>1. /\ restarts' = restarts + 1 /\ restarts < MaxRestarts /\ cancels' = {}
      /\ pc' = [w \in Workflows |-> IF pc[w] \in Active THEN "dead" ELSE pc[w]]
      /\ canceler' = [w \in Workflows |-> "idle"]
      /\ UNCHANGED <<stored, wf, next, input, cancelled, begun, unsaved>>
  BY DEF Restart
<1>2. TypeOK'
  BY <1>1 DEF IInv, TypeOK
<1>3. ASSUME NEW v \in Workflows
      PROVE  RunInv(v)' /\ Forward(v)
  <2>1. /\ RunInv(v)
        /\ \/ pc'[v] = pc[v] /\ pc[v] \notin Active
           \/ pc'[v] = "dead" /\ pc[v] \in Active
    BY <1>1 DEF IInv
  <2>2. CopyInv(v)'
    BY <1>1, <2>1 DEF RunInv, CopyInv, Active
  <2>3. StoreInv(v)'
    BY <1>1, <2>1 DEF RunInv, StoreInv, Active
  <2>4. CancelInv(v)'
    BY <1>1, <2>1 DEF RunInv, CancelInv, Passed
  <2>5. Forward(v)
    BY <1>1 DEF Forward
  <2> QED
    BY <2>2, <2>3, <2>4, <2>5 DEF RunInv
<1> QED
  BY <1>2, <1>3 DEF IInv

\* Every step keeps the invariant and lets no record go back.
LEMMA NextStep ==
  ASSUME IInv, [Next]_vars
  PROVE  IInv' /\ \A v \in Workflows : Forward(v)
<1>1. CASE UNCHANGED vars
  <2>1. UNCHANGED <<stored, wf, next, input, pc, cancels, cancelled, canceler, begun,
                    unsaved, restarts>>
    BY <1>1 DEF vars, run
  <2>2. TypeOK'
    BY <2>1 DEF IInv, TypeOK
  <2>3. \A v \in Workflows : RunInv(v)' /\ Forward(v)
    BY <2>1, OtherRuns DEF IInv
  <2> QED
    BY <2>2, <2>3 DEF IInv
<1>2. CASE Restart
  BY <1>2, RestartStep
<1>3. ASSUME NEW w \in Workflows,
             CreateWorkflow(w) \/ Work(w) \/ CancelWorkflow(w) \/ Lookup(w) \/ Signal(w)
      PROVE  IInv' /\ \A v \in Workflows : Forward(v)
  <2>1. CASE CreateWorkflow(w)
    BY <2>1, CreateStep
  <2>2. CASE RunWorkflow(w)
    BY <2>2, RunStep
  <2>3. CASE StopCancelled(w)
    BY <2>3, StopStep
  <2>4. CASE BeginStep(w)
    BY <2>4, BeginStepStep
  <2>5. CASE CompleteStep(w)
    BY <2>5, CompleteStepStep
  <2>6. CASE FailStep(w)
    BY <2>6, FailStepStep
  <2>7. CASE Finish(w)
    BY <2>7, FinishStep
  <2>8. CASE Leave(w)
    BY <2>8, LeaveStep
  <2>9. CASE CancelWorkflow(w)
    BY <2>9, CancelStep
  <2>10. CASE Lookup(w)
    BY <2>10, LookupStep
  <2>11. CASE Signal(w)
    BY <2>11, SignalStep
  <2>12. CASE CheckContext(w)
    BY <2>12, CheckStep
  <2>13. CASE NotStarted(w)
    BY <2>13, NotStartedStep
  <2> QED
    BY <1>3, <2>1, <2>2, <2>3, <2>4, <2>5, <2>6, <2>7, <2>8, <2>9, <2>10,
       <2>11, <2>12, <2>13 DEF Work, Proceed
<1> QED
  BY <1>1, <1>2, <1>3 DEF Next

\* A node starts with an empty store and no goroutine.
LEMMA InitIInv == Init => IInv
<1> SUFFICES ASSUME Init PROVE IInv
  OBVIOUS
<1>1. TypeOK
  BY DEF Init, TypeOK, Active
<1>2. ASSUME NEW w \in Workflows
      PROVE  RunInv(w)
  BY DEF Init, RunInv, CopyInv, StoreInv, CancelInv
<1> QED
  BY <1>1, <1>2 DEF IInv

-----------------------------------------------------------------------------
(* Theorems *)

\* The invariant holds of every behaviour of the orchestrator.
THEOREM InductiveInvariant == Spec => []IInv
<1>1. IInv /\ [Next]_vars => IInv'
  BY NextStep
<1> QED
  BY InitIInv, <1>1, PTL DEF Spec

\* Every variable stays in its range, a stored record among them: it has at least
\* one step and a status the code knows (orchestrator.go 37-155).
THEOREM TypeCorrect == Spec => []TypeOK
<1>1. IInv => TypeOK
  BY DEF IInv
<1> QED
  BY <1>1, InductiveInvariant, PTL

\* Whatever was saved or lost, before and after restarts, a stored record is one a
\* run went through (orchestrator.go 100-155, store.go 75-142).
THEOREM StoreIsConsistent == Spec => []RecordsAreConsistent
<1>1. IInv => RecordsAreConsistent
  BY DEF IInv, RunInv, StoreInv, RecordsAreConsistent
<1> QED
  BY <1>1, InductiveInvariant, PTL

\* After the cancel function has been called no step begins but the one, if any, whose
\* check had been passed by then (103-122, 183-200).
THEOREM CancellationStops == Spec => []CancelStopsSteps
<1>1. IInv => CancelStopsSteps
  BY DEF IInv, TypeOK, RunInv, CancelInv, CancelStopsSteps
<1> QED
  BY <1>1, InductiveInvariant, PTL

\* A run that is over is unregistered, and final in its copy and, unless a write
\* was lost, in the store (orchestrator.go 91-96).
THEOREM EndsAreRecorded == Spec => []EndedRunsAreRecorded
<1>1. IInv => EndedRunsAreRecorded
  BY DEF IInv, RunInv, CopyInv, StoreInv, CancelInv, EndedRunsAreRecorded
<1> QED
  BY <1>1, InductiveInvariant, PTL

\* No step undoes a final record or a completed step (orchestrator.go 73-155).
THEOREM RecordsGoForward == Spec => NeverGoesBack
<1>1. IInv /\ [Next]_vars => [\A w \in Workflows : Forward(w)]_vars
  BY NextStep
<1>2. Spec => [][\A w \in Workflows : Forward(w)]_vars
  BY <1>1, InductiveInvariant, PTL DEF Spec
<1> QED
  BY <1>2 DEF NeverGoesBack, Forward

-----------------------------------------------------------------------------
(* What a run costs: the part of RunsEnd that needs no fairness. *)

\* The number of a record's steps.
LEMMA SizeOfRecord ==
  ASSUME NEW r \in Record
  PROVE  Size(r) \in 1..MaxSteps /\ DOMAIN r.steps = 1..Size(r)
<1>1. \E n \in 1..MaxSteps : DOMAIN r.steps = 1..n
  BY RecordFields
<1> QED
  BY <1>1 DEF Size

\* Two records with the same steps have the same number of them.
LEMMA SameSize ==
  ASSUME NEW r, NEW q, DOMAIN q.steps = DOMAIN r.steps
  PROVE  Size(q) = Size(r)
BY DEF Size

\* A goroutine's step never changes how many steps the stored workflow has.
LEMMA StepsAreFixed ==
  ASSUME IInv, NEW w \in Workflows, Work(w)
  PROVE  Size(stored'[w]) = Size(stored[w])
<1>1. TypeOK /\ stored[w] # None /\ StoreInv(w)
  <2>1. pc[w] # "none"
    BY DEF Work, Proceed, RunWorkflow, NotStarted, StopCancelled, CheckContext, BeginStep,
           CompleteStep, FailStep, Finish, Leave
  <2> QED
    BY <2>1 DEF IInv, RunInv, StoreInv
<1>2. stored[w] \in Record
  BY <1>1 DEF TypeOK
<1>3. ASSUME NEW q, Update(w, q), DOMAIN q.steps = DOMAIN stored[w].steps
      PROVE  DOMAIN stored'[w].steps = DOMAIN stored[w].steps
  <2>1. stored'[w] = q \/ stored'[w] = stored[w]
    BY <1>1, <1>3 DEF Update, TypeOK
  <2> QED
    BY <1>3, <2>1
<1>4. ASSUME pc[w] \in {"loop", "begin", "execute"}
      PROVE  /\ wf[w] \in Record /\ DOMAIN wf[w].steps = DOMAIN stored[w].steps
             /\ DOMAIN SkipRemaining(wf[w], next[w]) = DOMAIN stored[w].steps
             /\ DOMAIN SkipRemaining(wf[w], next[w] + 1) = DOMAIN stored[w].steps
  BY <1>4, Running DEF Extends, SkipRemaining
<1>5. ASSUME NEW r \in Record, NEW f, NEW st
      PROVE  Stopped(r, st, f).steps = f
  BY DEF Stopped, Record
<1>6. ASSUME NEW r \in Record, NEW k, NEW x
      PROVE  DOMAIN SetStep(r, k, x).steps = DOMAIN r.steps
  BY DEF SetStep, Record
<1>7. CASE RunWorkflow(w)
  <2>1. [stored[w] EXCEPT !.status = "running"].steps = stored[w].steps
    BY <1>2 DEF Record
  <2>2. Update(w, [stored[w] EXCEPT !.status = "running"])
    BY <1>7 DEF RunWorkflow
  <2>3. DOMAIN stored'[w].steps = DOMAIN stored[w].steps
    BY <1>3, <2>1, <2>2
  <2> QED
    BY <2>3, SameSize
<1>8. CASE StopCancelled(w)
  <2>1. Update(w, Stopped(wf[w], "canceled", SkipRemaining(wf[w], next[w]))) /\ pc[w] = "loop"
    BY <1>8 DEF StopCancelled
  <2>2. DOMAIN stored'[w].steps = DOMAIN stored[w].steps
    BY <1>3, <1>4, <1>5, <2>1
  <2> QED
    BY <2>2, SameSize
<1>9. CASE BeginStep(w) \/ CompleteStep(w)
  <2>1. /\ \E x : Update(w, SetStep(wf[w], next[w], x))
        /\ pc[w] \in {"begin", "execute"}
    BY <1>9 DEF BeginStep, CompleteStep
  <2>2. DOMAIN stored'[w].steps = DOMAIN stored[w].steps
    BY <1>3, <1>4, <1>6, <2>1
  <2> QED
    BY <2>2, SameSize
<1>10. CASE FailStep(w)
  <2>1. Update(w, Failed(w)) /\ pc[w] = "execute"
    BY <1>10 DEF FailStep
  <2>2. Failed(w).steps = [SkipRemaining(wf[w], next[w] + 1) EXCEPT ![next[w]].status = "failed"]
    BY <1>4, <1>5, <2>1 DEF Failed
  <2>3. DOMAIN stored'[w].steps = DOMAIN stored[w].steps
    BY <1>3, <1>4, <2>1, <2>2
  <2> QED
    BY <2>3, SameSize
<1>11. CASE Finish(w)
  <2>1. Update(w, [wf[w] EXCEPT !.status = "completed", !.output = input[w]]) /\ pc[w] = "loop"
    BY <1>11 DEF Finish
  <2>2. wf[w] \in Record /\ DOMAIN wf[w].steps = DOMAIN stored[w].steps
    BY <1>4, <2>1
  <2>3. [wf[w] EXCEPT !.status = "completed", !.output = input[w]].steps = wf[w].steps
    BY <2>2 DEF Record
  <2>4. DOMAIN stored'[w].steps = DOMAIN stored[w].steps
    BY <1>3, <2>1, <2>2, <2>3
  <2> QED
    BY <2>4, SameSize
<1>12. CASE NotStarted(w) \/ CheckContext(w) \/ Leave(w)
  BY <1>12 DEF NotStarted, CheckContext, Leave
<1> QED
  BY <1>7, <1>8, <1>9, <1>10, <1>11, <1>12 DEF Work, Proceed

\* what a goroutine does in one step
Move(w) ==
  \/ pc[w] = "created" /\ pc'[w] = "loop" /\ next'[w] = next[w]
  \/ /\ pc[w] = "created" /\ pc'[w] = "dead"
     /\ stored'[w] = stored[w] /\ restarts' = restarts
  \/ pc[w] = "loop" /\ pc'[w] = "begin" /\ next'[w] = next[w]
  \/ pc[w] = "begin" /\ pc'[w] = "execute" /\ next'[w] = next[w]
  \/ pc[w] = "execute" /\ pc'[w] = "loop" /\ next'[w] = next[w] + 1
  \/ pc[w] \in {"loop", "execute"} /\ pc'[w] = "leave"
  \/ pc[w] = "leave" /\ pc'[w] = "ended"

\* A step of one goroutine moves that one and leaves the others where they are.
LEMMA Moves ==
  ASSUME IInv, NEW w \in Workflows, Work(w)
  PROVE  /\ Move(w)
         /\ \A v \in Workflows \ {w} :
              pc'[v] = pc[v] /\ next'[v] = next[v] /\ stored'[v] = stored[v]
<1>1. /\ pc \in [Workflows -> Active \cup {"none", "ended", "dead"}]
      /\ next \in [Workflows -> 1..(MaxSteps + 1)]
      /\ DOMAIN stored = Workflows
  BY DEF IInv, TypeOK
<1> USE DEF Goto, Move
<1> DEFINE Stays == \A v \in Workflows \ {w} : stored'[v] = stored[v]
<1>2. ASSUME NEW q, Update(w, q) PROVE Stays
  BY <1>1, <1>2 DEF Update
<1>3. Stays
  BY <1>2 DEF Work, Proceed, RunWorkflow, NotStarted, StopCancelled, CheckContext, BeginStep,
              CompleteStep, FailStep, Finish, Leave
<1>4. CASE RunWorkflow(w)
  BY <1>1, <1>3, <1>4 DEF RunWorkflow
<1>5. CASE StopCancelled(w)
  BY <1>1, <1>3, <1>5 DEF StopCancelled
<1>6. CASE BeginStep(w)
  BY <1>1, <1>3, <1>6 DEF BeginStep
<1>7. CASE CompleteStep(w)
  BY <1>1, <1>3, <1>7 DEF CompleteStep
<1>8. CASE FailStep(w)
  BY <1>1, <1>3, <1>8 DEF FailStep
<1>9. CASE Finish(w)
  BY <1>1, <1>3, <1>9 DEF Finish
<1>10. CASE Leave(w)
  BY <1>1, <1>3, <1>10 DEF Leave
<1>11. CASE NotStarted(w)
  BY <1>1, <1>3, <1>11 DEF NotStarted
<1>12. CASE CheckContext(w)
  BY <1>1, <1>3, <1>12 DEF CheckContext
<1> QED
  BY <1>4, <1>5, <1>6, <1>7, <1>8, <1>9, <1>10, <1>11, <1>12 DEF Work, Proceed

\* Where a run stands in its workflow, and that it has a natural number of steps
\* left.
LEMMA StepsLeftIsNat ==
  ASSUME IInv, NEW w \in Workflows, pc[w] # "none"
  PROVE  /\ Size(stored[w]) \in Nat /\ next[w] \in Nat
         /\ pc[w] = "created" => next[w] = 1 /\ Size(stored[w]) >= 1
         /\ pc[w] = "loop" => next[w] <= Size(stored[w]) + 1
         /\ pc[w] \in {"begin", "execute"} => next[w] <= Size(stored[w])
         /\ StepsLeft(w) \in Nat
         /\ pc[w] \in Active => StepsLeft(w) > 0
<1>1. /\ TypeOK /\ stored[w] \in Record /\ CopyInv(w)
  BY DEF IInv, RunInv, StoreInv, TypeOK
<1>2. Size(stored[w]) \in 1..MaxSteps /\ DOMAIN stored[w].steps = 1..Size(stored[w])
  BY <1>1, SizeOfRecord
<1>3. next[w] \in Nat /\ next[w] >= 1 /\ MaxSteps \in Nat
  BY <1>1 DEF TypeOK
<1>4. ASSUME pc[w] \in {"loop", "begin", "execute"}
      PROVE  DOMAIN wf[w].steps = 1..Size(stored[w])
  BY <1>2, <1>4, Running DEF Extends
<1>5. ASSUME pc[w] = "loop" PROVE next[w] <= Size(stored[w]) + 1
  <2>1. First(wf[w], next[w] - 1, "completed")
    BY <1>1, <1>5 DEF CopyInv, BetweenSteps
  <2>2. next[w] - 1 = 0 \/ next[w] - 1 \in DOMAIN wf[w].steps
    BY <1>3, <2>1 DEF First
  <2> QED
    BY <1>2, <1>3, <1>4, <1>5, <2>2
<1>6. ASSUME pc[w] \in {"begin", "execute"} PROVE next[w] <= Size(stored[w])
  <2>1. next[w] \in DOMAIN wf[w].steps
    BY <1>1, <1>6 DEF CopyInv, InStep, More
  <2> QED
    BY <1>2, <1>3, <1>4, <1>6, <2>1
<1>7. pc[w] = "created" => next[w] = 1
  BY <1>1 DEF CopyInv
<1>8. /\ Size(stored[w]) \in Nat /\ Size(stored[w]) >= 1
      /\ pc[w] = "created" => next[w] = 1
      /\ pc[w] = "loop" => next[w] <= Size(stored[w]) + 1
      /\ pc[w] \in {"begin", "execute"} => next[w] <= Size(stored[w])
  BY <1>2, <1>3, <1>5, <1>6, <1>7
<1>9. StepsLeft(w) \in Nat /\ (pc[w] \in Active => StepsLeft(w) > 0)
  <2> DEFINE n == Size(stored[w])
             i == next[w]
  <2>1. n \in Nat /\ i \in Nat /\ n >= 1
    BY <1>3, <1>8
  <2> HIDE DEF n, i
  <2>2. CASE pc[w] = "created"
    <3>1. StepsLeft(w) = 3 * (n - i) + 6 /\ i = 1
      BY <1>8, <2>2 DEF StepsLeft, n, i
    <3> QED
      BY <2>1, <3>1
  <2>3. CASE pc[w] = "loop"
    <3>1. StepsLeft(w) = 3 * (n - i) + 5 /\ i <= n + 1
      BY <1>8, <2>3 DEF StepsLeft, n, i
    <3> QED
      BY <2>1, <3>1
  <2>4. CASE pc[w] = "begin"
    <3>1. StepsLeft(w) = 3 * (n - i) + 4 /\ i <= n
      BY <1>8, <2>4 DEF StepsLeft, n, i
    <3> QED
      BY <2>1, <3>1
  <2>5. CASE pc[w] = "execute"
    <3>1. StepsLeft(w) = 3 * (n - i) + 3 /\ i <= n
      BY <1>8, <2>5 DEF StepsLeft, n, i
    <3> QED
      BY <2>1, <3>1
  <2>6. CASE pc[w] \notin {"created", "loop", "begin", "execute"}
    BY <2>6 DEF StepsLeft, Active
  <2> QED
    BY <2>2, <2>3, <2>4, <2>5, <2>6
<1> QED
  BY <1>3, <1>8, <1>9

\* what EndsComeNearer says of a step and one workflow
Nearer(w) ==
  pc[w] # "none" =>
    /\ Work(w) => StepsLeft(w)' < StepsLeft(w)
    /\ StepsLeft(w)' <= StepsLeft(w)

\* Who is left alone in a step keeps its number of steps left.
LEMMA AloneIsNotNearer ==
  ASSUME IInv, NEW w \in Workflows, pc[w] # "none", ~Work(w),
         \/ pc'[w] = pc[w] /\ next'[w] = next[w] /\ stored'[w] = stored[w]
         \/ pc'[w] = "dead"
  PROVE  Nearer(w)
<1>1. StepsLeft(w) \in Nat
  BY StepsLeftIsNat
<1>2. StepsLeft(w)' = StepsLeft(w) \/ StepsLeft(w)' = 0
  BY DEF StepsLeft, Size
<1> QED
  BY <1>1, <1>2 DEF Nearer

\* A run of n agents takes at most 3n + 3 steps of its goroutine, whatever readers,
\* cancelers and other runs do meanwhile (orchestrator.go 100-155).
THEOREM RunsCostBoundedSteps == Spec => EndsComeNearer
<1>1. ASSUME IInv, IInv', [Next]_vars, NEW w \in Workflows, pc[w] # "none"
      PROVE  Nearer(w)
  <2>1. CASE Work(w)
    <3>1. Move(w) /\ Size(stored'[w]) = Size(stored[w])
      BY <1>1, <2>1, Moves, StepsAreFixed
    <3>2. /\ Size(stored[w]) \in Nat /\ next[w] \in Nat /\ next'[w] \in Nat
          /\ StepsLeft(w) \in Nat
          /\ pc[w] = "created" => next[w] = 1 /\ Size(stored[w]) >= 1
          /\ pc[w] = "loop" => next[w] <= Size(stored[w]) + 1
          /\ pc[w] \in {"begin", "execute"} => next[w] <= Size(stored[w])
      BY <1>1, StepsLeftIsNat DEF IInv, TypeOK
    <3>3. StepsLeft(w)' < StepsLeft(w) /\ StepsLeft(w)' <= StepsLeft(w)
      BY <3>1, <3>2 DEF Move, StepsLeft
    <3> QED
      BY <3>3 DEF Nearer
  <2>2. CASE ~Work(w) /\ \E v \in Workflows \ {w} : Work(v)
    <3>1. pc'[w] = pc[w] /\ next'[w] = next[w] /\ stored'[w] = stored[w]
      BY <1>1, <2>2, Moves
    <3> QED
      BY <1>1, <2>2, <3>1, AloneIsNotNearer
  <2>3. CASE ~Work(w) /\ \E v \in Workflows : CreateWorkflow(v)
    <3>1. PICK v \in Workflows : CreateWorkflow(v)
      BY <2>3
    <3>2. v # w
      BY <1>1, <3>1 DEF CreateWorkflow
    <3>3. pc'[w] = pc[w] /\ next'[w] = next[w] /\ stored'[w] = stored[w]
      BY <1>1, <3>1, <3>2 DEF CreateWorkflow, Goto, IInv, TypeOK
    <3> QED
      BY <1>1, <2>3, <3>3, AloneIsNotNearer
  <2>4. CASE ~Work(w) /\ Restart
    <3>1. pc'[w] = "dead" \/ (pc'[w] = pc[w] /\ next'[w] = next[w] /\ stored'[w] = stored[w])
      BY <1>1, <2>4 DEF Restart, IInv, TypeOK
    <3> QED
      BY <1>1, <2>4, <3>1, AloneIsNotNearer
  <2>5. CASE /\ ~Work(w)
             /\ \/ \E v \in Workflows : CancelWorkflow(v) \/ Lookup(v) \/ Signal(v)
                \/ UNCHANGED vars
    <3>1. pc'[w] = pc[w] /\ next'[w] = next[w] /\ stored'[w] = stored[w]
      BY <2>5 DEF CancelWorkflow, Lookup, Signal, vars, run
    <3> QED
      BY <1>1, <2>5, <3>1, AloneIsNotNearer
  <2> QED
    BY <1>1, <2>1, <2>2, <2>3, <2>4, <2>5 DEF Next
<1>2. IInv /\ IInv' /\ [Next]_vars => [\A w \in Workflows : Nearer(w)]_vars
  BY <1>1 DEF Nearer
<1>3. Spec => [][\A w \in Workflows : Nearer(w)]_vars
  BY <1>2, InductiveInvariant, PTL DEF Spec
<1> QED
  BY <1>3 DEF EndsComeNearer, Nearer

-----------------------------------------------------------------------------
\* A record that says "running" with nobody at work is the trace of a crash or of a
\* lost write (orchestrator.go 73-155).
THEOREM CrashesStrand == Spec => []OnlyCrashesStrand
<1> DEFINE Alive == restarts = 0 =>
             \A w \in Workflows : pc[w] = "dead" => stored[w].status = "pending"
<1>1. Init => Alive
  BY DEF Init
<1>2. ASSUME IInv, Alive, [Next]_vars PROVE Alive'
  <2> SUFFICES ASSUME restarts' = 0, NEW w \in Workflows, pc'[w] = "dead"
               PROVE  stored'[w].status = "pending"
    OBVIOUS
  <2>1. CASE \E v \in Workflows : Work(v)
    <3>1. UNCHANGED restarts
      BY <2>1 DEF Work, Proceed, RunWorkflow, NotStarted, StopCancelled, CheckContext,
         BeginStep, CompleteStep, FailStep, Finish, Leave
    <3>2. (pc'[w] = pc[w] /\ stored'[w] = stored[w]) \/ Move(w)
      BY <1>2, <2>1, Moves
    <3>3. pc[w] = "created" => stored[w].status = "pending"
      BY <1>2 DEF IInv, RunInv, StoreInv
    <3> QED
      BY <1>2, <3>1, <3>2, <3>3 DEF Move
  <2>2. CASE \E v \in Workflows : CreateWorkflow(v)
    <3>1. restarts' = restarts /\ pc'[w] = pc[w] /\ stored'[w] = stored[w]
      BY <1>2, <2>2 DEF CreateWorkflow, Goto, IInv, TypeOK
    <3> QED
      BY <1>2, <3>1
  <2>3. CASE \/ \E v \in Workflows : CancelWorkflow(v) \/ Lookup(v) \/ Signal(v)
             \/ UNCHANGED vars
    BY <1>2, <2>3 DEF CancelWorkflow, Lookup, Signal, vars, run
  <2>4. CASE Restart
    <3>1. restarts \in Nat
      BY <1>2 DEF IInv, TypeOK
    <3> QED
      BY <2>4, <3>1 DEF Restart
  <2> QED
    BY <1>2, <2>1, <2>2, <2>3, <2>4 DEF Next
<1>3. ASSUME IInv, Alive PROVE OnlyCrashesStrand
  <2> SUFFICES ASSUME restarts = 0, NEW w \in Workflows \ unsaved,
                      stored[w] # None, stored[w].status = "running"
               PROVE  pc[w] \in Active
    BY DEF OnlyCrashesStrand
  <2>1. pc[w] \in Active \cup {"none", "ended", "dead"} /\ CopyInv(w) /\ StoreInv(w)
    BY <1>3 DEF IInv, TypeOK, RunInv
  <2>2. pc[w] \notin {"none", "dead"}
    BY <1>3, <2>1 DEF StoreInv
  <2>3. pc[w] # "ended"
    BY <2>1 DEF StoreInv, CopyInv, Terminal
  <2> QED
    BY <2>1, <2>2, <2>3
<1> QED
  BY <1>1, <1>2, <1>3, InductiveInvariant, PTL DEF Spec
=============================================================================
