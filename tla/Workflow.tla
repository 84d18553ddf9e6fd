------------------------------ MODULE Workflow ------------------------------
(***************************************************************************)
(* The workflow orchestrator, internal/workflow/orchestrator.go, over the  *)
(* LevelDB store of internal/workflow/store.go.  A workflow is created and *)
(* run once, by the HTTP handler or the TUI (cmd/betar); its goroutine     *)
(* works on a copy of the stored record and saves the copy after each      *)
(* change.  Readers and CancelWorkflow look at the store, so they see what *)
(* was saved last.                                                         *)
(***************************************************************************)
EXTENDS Naturals

CONSTANTS
  Workflows,     \* ids, drawn by CreateWorkflow
  Texts,         \* task inputs and outputs
  MaxSteps,      \* bound on the agents of a workflow
  MaxRestarts,   \* bound on the restarts of the node
  SaveMayFail,   \* FALSE: no access of a run to the store fails
  None           \* Go's nil and empty string

ASSUME WorkflowAssumption ==
  /\ MaxSteps \in Nat \ {0} /\ MaxRestarts \in Nat
  /\ SaveMayFail \in BOOLEAN
  /\ None \notin Texts

StepStatus == {"pending", "running", "completed", "failed", "skipped"}
Terminal == {"completed", "failed", "canceled"}
Step == [status: StepStatus, input: Texts \cup {None}, output: Texts \cup {None}]
Record == [status: {"pending", "running"} \cup Terminal,
           input: Texts, output: Texts \cup {None},
           steps: UNION {[1..n -> Step] : n \in 1..MaxSteps}]

ASSUME NoneIsNoRecord == None \notin Record

VARIABLES
  stored,      \* the workflow store; survives a restart
  wf,          \* the goroutine's copy
  next,        \* its loop index
  input,       \* what it pipes to the next step
  pc,          \* where the run of each workflow stands; "dead": it went with
               \* the process, or was never started
  cancels,     \* the ids in Orchestrator.cancels
  cancelled,   \* the runs whose context is cancelled
  canceler,    \* where a CancelWorkflow call for each workflow stands
  begun,       \* steps past their check when the context was cancelled (history)
  unsaved,     \* the runs that lost a write (history)
  restarts

run == <<next, input, pc>>
vars == <<stored, wf, run, cancels, cancelled, canceler, begun, unsaved, restarts>>

Active == {"created", "loop", "begin", "execute", "leave"}

TypeOK ==
  /\ stored \in [Workflows -> Record \cup {None}]
  /\ wf \in [Workflows -> Record \cup {None}]
  /\ next \in [Workflows -> 1..(MaxSteps + 1)]
  /\ input \in [Workflows -> Texts \cup {None}]
  /\ pc \in [Workflows -> Active \cup {"none", "ended", "dead"}]
  /\ cancels \subseteq Workflows
  /\ cancelled \subseteq Workflows
  /\ canceler \in [Workflows -> {"idle", "lookup", "signal"}]
  /\ begun \in [Workflows -> 0..MaxSteps]
  /\ unsaved \subseteq Workflows
  /\ restarts \in 0..MaxRestarts

Init ==
  /\ stored = [w \in Workflows |-> None]
  /\ wf = [w \in Workflows |-> None]
  /\ next = [w \in Workflows |-> 1]
  /\ input = [w \in Workflows |-> None]
  /\ pc = [w \in Workflows |-> "none"]
  /\ cancels = {}
  /\ cancelled = {}
  /\ canceler = [w \in Workflows |-> "idle"]
  /\ begun = [w \in Workflows |-> 0]
  /\ unsaved = {}
  /\ restarts = 0

-----------------------------------------------------------------------------
Goto(w, place) == pc' = [pc EXCEPT ![w] = place]

\* the goroutine changes its copy and saves it; the error of Save is dropped
Update(w, new) ==
  /\ wf' = [wf EXCEPT ![w] = new]
  /\ \/ stored' = [stored EXCEPT ![w] = new] /\ UNCHANGED unsaved
     \/ SaveMayFail /\ unsaved' = unsaved \cup {w} /\ UNCHANGED stored

\* the steps of r with those from the i-th on skipped
SkipRemaining(r, i) ==
  [j \in DOMAIN r.steps |->
     IF j >= i THEN [r.steps[j] EXCEPT !.status = "skipped"] ELSE r.steps[j]]

SetStep(r, i, step) == [r EXCEPT !.steps[i] = step]

\* the run of r ends early: its status says so, its steps are as given
Stopped(r, status, steps) == [r EXCEPT !.status = status, !.steps = steps]

Fresh(n, t) ==
  [status |-> "pending", input |-> t, output |-> None,
   steps |-> [i \in 1..n |-> [status |-> "pending", input |-> None, output |-> None]]]

\* mutant: a definition without agents is taken
CreateUnchecked(w) ==
  /\ stored[w] = None /\ pc[w] = "none"
  /\ \E n \in 0..MaxSteps, t \in Texts :
       stored' = [stored EXCEPT ![w] = Fresh(n, t)]
  /\ Goto(w, "created")
  /\ UNCHANGED <<wf, next, input, cancels, cancelled, canceler, begun, unsaved,
                 restarts>>

\* a definition has an agent and an input, and its first save must succeed
CreateWorkflow(w) ==
  /\ stored[w] = None /\ pc[w] = "none"
  /\ \E n \in 1..MaxSteps, t \in Texts :
       stored' = [stored EXCEPT ![w] = Fresh(n, t)]
  /\ Goto(w, "created")
  /\ UNCHANGED <<wf, next, input, cancels, cancelled, canceler, begun, unsaved,
                 restarts>>

\* RunWorkflowAsync and RunWorkflow look at the stored status in turn; then the
\* run registers its cancel function and saves itself as running
RunWorkflow(w) ==
  /\ pc[w] = "created" /\ stored[w].status = "pending"
  /\ Update(w, [stored[w] EXCEPT !.status = "running"])
  /\ input' = [input EXCEPT ![w] = stored[w].input]
  /\ cancels' = cancels \cup {w}
  /\ Goto(w, "loop")
  /\ UNCHANGED <<next, cancelled, canceler, begun, restarts>>

\* Get fails in one or the other: nothing runs, and nothing will
NotStarted(w) ==
  /\ pc[w] = "created" /\ SaveMayFail
  /\ Goto(w, "dead")
  /\ UNCHANGED <<stored, wf, next, input, cancels, cancelled, canceler, begun,
                 unsaved, restarts>>

More(w) == next[w] \in DOMAIN wf[w].steps

\* the check at the head of the loop finds the context cancelled
StopCancelled(w) ==
  /\ pc[w] = "loop" /\ More(w) /\ w \in cancelled
  /\ Update(w, Stopped(wf[w], "canceled", SkipRemaining(wf[w], next[w])))
  /\ Goto(w, "leave")
  /\ UNCHANGED <<next, input, cancels, cancelled, canceler, begun, restarts>>

\* mutant: the context is not looked at between steps
CheckNothing(w) ==
  /\ pc[w] = "loop" /\ More(w)
  /\ Goto(w, "begin")
  /\ UNCHANGED <<stored, wf, next, input, cancels, cancelled, canceler, begun,
                 unsaved, restarts>>

\* it finds nothing: what happens to the context from here on does not keep the
\* step from beginning
CheckContext(w) ==
  /\ pc[w] = "loop" /\ More(w) /\ w \notin cancelled
  /\ Goto(w, "begin")
  /\ UNCHANGED <<stored, wf, next, input, cancels, cancelled, canceler, begun,
                 unsaved, restarts>>

BeginStep(w) ==
  /\ pc[w] = "begin"
  /\ Update(w, SetStep(wf[w], next[w], [wf[w].steps[next[w]] EXCEPT !.status = "running",
                                                             !.input = input[w]]))
  /\ Goto(w, "execute")
  /\ UNCHANGED <<next, input, cancels, cancelled, canceler, begun, restarts>>

\* mutant: the output is not piped on
CompleteStepUnpiped(w) ==
  /\ pc[w] = "execute"
  /\ \E t \in Texts :
       Update(w, SetStep(wf[w], next[w], [wf[w].steps[next[w]] EXCEPT
                                            !.status = "completed", !.output = t]))
  /\ next' = [next EXCEPT ![w] = @ + 1]
  /\ Goto(w, "loop")
  /\ UNCHANGED <<input, cancels, cancelled, canceler, begun, restarts>>

\* ExecuteTask returns an output, cancelled or not
CompleteStep(w) ==
  /\ pc[w] = "execute"
  /\ \E t \in Texts :
       /\ Update(w, SetStep(wf[w], next[w], [wf[w].steps[next[w]] EXCEPT
                                               !.status = "completed", !.output = t]))
       /\ input' = [input EXCEPT ![w] = t]
  /\ next' = [next EXCEPT ![w] = @ + 1]
  /\ Goto(w, "loop")
  /\ UNCHANGED <<cancels, cancelled, canceler, begun, restarts>>

Failed(w) ==
  Stopped(wf[w], "failed",
          [SkipRemaining(wf[w], next[w] + 1) EXCEPT ![next[w]].status = "failed"])

\* mutant: the run goes on after a failed step
FailStepGoesOn(w) ==
  /\ pc[w] = "execute"
  /\ Update(w, Failed(w))
  /\ Goto(w, "loop")
  /\ UNCHANGED <<next, input, cancels, cancelled, canceler, begun, restarts>>

\* ExecuteTask returns an error, be it only the cancelled context
FailStep(w) ==
  /\ pc[w] = "execute"
  /\ Update(w, Failed(w))
  /\ Goto(w, "leave")
  /\ UNCHANGED <<next, input, cancels, cancelled, canceler, begun, restarts>>

\* after the last step the context is not looked at again
Finish(w) ==
  /\ pc[w] = "loop" /\ ~More(w)
  /\ Update(w, [wf[w] EXCEPT !.status = "completed", !.output = input[w]])
  /\ Goto(w, "leave")
  /\ UNCHANGED <<next, input, cancels, cancelled, canceler, begun, restarts>>

\* mutant: the cancel function stays registered
LeaveRegistered(w) ==
  /\ pc[w] = "leave"
  /\ Goto(w, "ended")
  /\ UNCHANGED <<stored, wf, next, input, cancels, cancelled, canceler, begun,
                 unsaved, restarts>>

\* the deferred function
Leave(w) ==
  /\ pc[w] = "leave"
  /\ cancels' = cancels \ {w}
  /\ Goto(w, "ended")
  /\ UNCHANGED <<stored, wf, next, input, cancelled, canceler, begun, unsaved,
                 restarts>>

\* CancelWorkflow reads the stored status
CancelWorkflow(w) ==
  /\ canceler[w] = "idle"
  /\ stored[w] # None /\ stored[w].status = "running"
  /\ canceler' = [canceler EXCEPT ![w] = "lookup"]
  /\ UNCHANGED <<stored, wf, run, cancels, cancelled, begun, unsaved, restarts>>

\* it takes the cancel function under the lock; without one it succeeds all the
\* same
Lookup(w) ==
  /\ canceler[w] = "lookup"
  /\ canceler' = [canceler EXCEPT ![w] = IF w \in cancels THEN "signal" ELSE "idle"]
  /\ UNCHANGED <<stored, wf, run, cancels, cancelled, begun, unsaved, restarts>>

Started(r) ==
  {i \in DOMAIN r.steps : r.steps[i].status \in {"running", "completed", "failed"}}

\* the steps a run has begun or is bound to begin
Passed(w) == Started(wf[w]) \cup IF pc[w] = "begin" THEN {next[w]} ELSE {}

\* it calls the function outside the lock; only the first call has an effect
Signal(w) ==
  /\ canceler[w] = "signal"
  /\ canceler' = [canceler EXCEPT ![w] = "idle"]
  /\ \/ w \in cancelled /\ UNCHANGED <<cancelled, begun>>
     \/ /\ w \notin cancelled
        /\ cancelled' = cancelled \cup {w}
        /\ \E n \in 0..MaxSteps :
             /\ Passed(w) = 1..n
             /\ begun' = [begun EXCEPT ![w] = n]
  /\ UNCHANGED <<stored, wf, run, cancels, unsaved, restarts>>

\* the process ends: goroutines and cancel functions are gone, and nothing looks
\* for unfinished workflows when it starts again
Restart ==
  /\ restarts < MaxRestarts
  /\ restarts' = restarts + 1
  /\ pc' = [w \in Workflows |-> IF pc[w] \in Active THEN "dead" ELSE pc[w]]
  /\ cancels' = {}
  /\ canceler' = [w \in Workflows |-> "idle"]
  /\ UNCHANGED <<stored, wf, next, input, cancelled, begun, unsaved>>

-----------------------------------------------------------------------------
\* what the orchestrator's goroutine does by itself
Proceed(w) ==
  \/ RunWorkflow(w) \/ NotStarted(w) \/ StopCancelled(w)
  \/ CheckContext(w) \/ BeginStep(w) \/ Finish(w) \/ Leave(w)

Work(w) == Proceed(w) \/ CompleteStep(w) \/ FailStep(w)

Next ==
  \/ \E w \in Workflows : \/ CreateWorkflow(w) \/ Work(w)
                          \/ CancelWorkflow(w) \/ Lookup(w) \/ Signal(w)
  \/ Restart

Spec == Init /\ [][Next]_vars

\* nothing is assumed of ExecuteTask: a run started over HTTP has no deadline
\* (handlers/workflows.go 43), and a local agent may never return
FairSpec == Spec /\ \A w \in Workflows : WF_vars(Proceed(w))

-----------------------------------------------------------------------------
(* Properties *)

\* What a reader may see of a record: completed steps, then at most one that runs
\* or failed, then steps not reached; each step fed with the output of the one
\* before; and a status that says the same (orchestrator.go 100-155).
Piped(r) ==
  \A i \in Started(r) :
    r.steps[i].input = IF i = 1 THEN r.input ELSE r.steps[i - 1].output
First(r, k, status) == \A i \in 1..k : i \in DOMAIN r.steps /\ r.steps[i].status = status
After(r, k, status) == \A i \in DOMAIN r.steps : i > k => r.steps[i].status = status
Reaches(r, k) == k + 1 \in DOMAIN r.steps
Consistent(r) ==
  /\ Piped(r)
  /\ \E k \in 0..MaxSteps :
       /\ First(r, k, "completed")
       /\ \/ r.status = "pending" /\ After(r, 0, "pending")
          \/ r.status = "running" /\ After(r, k, "pending")
          \/ r.status = "running" /\ Reaches(r, k) /\ After(r, k + 1, "pending")
               /\ r.steps[k + 1].status = "running"
          \/ r.status = "canceled" /\ Reaches(r, k) /\ After(r, k, "skipped")
          \/ r.status = "failed" /\ Reaches(r, k) /\ After(r, k + 1, "skipped")
               /\ r.steps[k + 1].status = "failed"
          \/ r.status = "completed" /\ DOMAIN r.steps = 1..k
               /\ r.output = r.steps[k].output
RecordsAreConsistent ==
  \A w \in Workflows : stored[w] # None => Consistent(stored[w])

\* A reader never sees a run go back: a final record stays as it is and a step
\* completed stays completed with its output, also across lost writes and
\* restarts (orchestrator.go 73-155).
NeverGoesBack ==
  [][\A w \in Workflows : stored[w] # None =>
       /\ stored'[w] # None
       /\ stored[w].status \in Terminal => stored'[w] = stored[w]
       /\ \A i \in DOMAIN stored[w].steps :
            stored[w].steps[i].status = "completed" =>
              stored'[w].steps[i] = stored[w].steps[i]]_vars

\* Once the cancel function has been called no step begins but one whose check
\* was already passed: at most one, and none while a task is out
\* (orchestrator.go 103-122, 183-200).
CancelStopsSteps ==
  \A w \in cancelled : Passed(w) \subseteq 1..begun[w]

\* A run that is over has left no cancel function behind, its copy is final, and
\* unless a write was lost the store says the same (orchestrator.go 91-96).
EndedRunsAreRecorded ==
  \A w \in Workflows : pc[w] = "ended" =>
    /\ w \notin cancels
    /\ wf[w].status \in Terminal
    /\ w \in unsaved \/ stored[w] = wf[w]

\* A reader who sees a run that nobody works on sees the trace of a crash or of a
\* lost write, nothing else (orchestrator.go 73-155).
OnlyCrashesStrand ==
  restarts = 0 => \A w \in Workflows \ unsaved :
    stored[w] # None /\ stored[w].status = "running" => pc[w] \in Active

\* the agents of a workflow, and the steps its goroutine has left at most
Size(r) == CHOOSE n \in 1..MaxSteps : DOMAIN r.steps = 1..n
StepsLeft(w) ==
  LET ahead == Size(stored[w]) - next[w] IN
  CASE pc[w] = "created" -> 3 * ahead + 6
    [] pc[w] = "loop" -> 3 * ahead + 5
    [] pc[w] = "begin" -> 3 * ahead + 4
    [] pc[w] = "execute" -> 3 * ahead + 3
    [] pc[w] = "leave" -> 1
    [] OTHER -> 0

\* A workflow of n agents costs its goroutine at most 3n + 3 steps: each one brings
\* the end nearer, and no reader, canceler or other run takes it away again
\* (orchestrator.go 100-155).
EndsComeNearer ==
  [][\A w \in Workflows : pc[w] # "none" =>
       /\ Work(w) => StepsLeft(w)' < StepsLeft(w)
       /\ StepsLeft(w)' <= StepsLeft(w)]_vars

\* A run whose tasks return comes to an end, cancelled or not, unless the node
\* goes down; one that does not end stays in a task for ever, since a local task
\* has no deadline (orchestrator.go 100-155, handlers/workflows.go 43).
RunsEnd ==
  \A w \in Workflows :
    \/ pc[w] \in Active ~> pc[w] \in {"ended", "dead"}
    \/ <>[](pc[w] = "execute")

\* "workflow is actively executing steps" is what the status running means
\* (pkg/types/workflow.go 11), also to a reader after a restart.
RunningMeansExecuting ==
  \A w \in Workflows : stored[w] # None /\ stored[w].status = "running" =>
    pc[w] \in Active
=============================================================================
