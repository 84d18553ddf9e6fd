---------------------------- MODULE MCQueryCache ----------------------------
(* The list of the workflows page, a workflow that is created there and one   *)
(* that is cancelled.                                                         *)
EXTENDS QueryCache

CONSTANTS create, cancel    \* calls

MCHookOf(c) == IF c = create THEN "createWorkflow" ELSE "cancelWorkflow"
=============================================================================
