------------------------------- MODULE Screens -------------------------------
(***************************************************************************)
(* What the pages of web/src/pages make of a query's result.  A result has *)
(* data (none, an empty list, items), may be in error, with data or        *)
(* without, and is loading while its first data are fetched.               *)
(*                                                                         *)
(* A page says one of: "error" (ErrorState.tsx), "loading" (a skeleton of  *)
(* Skeleton.tsx), "nothing" (its empty state, or a zero) and "items".      *)
(***************************************************************************)

Result == [data : {"none", "empty", "items"}, error : BOOLEAN, loading : BOOLEAN]

\* the common last case of every page: data?.length, data ?? 0
Content(r) == IF r.data = "items" THEN "items" ELSE "nothing"

\* an error before everything else, then the wait for the first data
ListSays(r) ==
  IF r.error THEN "error" ELSE IF r.loading THEN "loading" ELSE Content(r)

AgentsSay(r) == ListSays(r)      \* the tab that is open
OrdersSay(r) == ListSays(r)
WorkflowsSay(r) == ListSays(r)
WalletSays(r) == ListSays(r)     \* address and balances

\* the bar of agents looks at their data only; the sessions are those of the agent
\* selected
SessionsSay(agents, sessions) ==
  [agents |-> Content(agents), sessions |-> ListSays(sessions)]

\* a figure of the dashboard that shows r: status decides, and the agents of the
\* node are waited for, too, but nothing else about r is looked at
StatSays(status, agents, r) ==
  IF status.error THEN "error"
  ELSE IF status.loading \/ agents.loading THEN "loading" ELSE Content(r)

DashboardSays(status, localAgents, networkAgents, workflows) ==
  [peers |-> StatSays(status, localAgents, status),
   localAgents |-> StatSays(status, localAgents, localAgents),
   networkAgents |-> StatSays(status, localAgents, networkAgents),
   workflows |-> StatSays(status, localAgents, workflows)]

\* the buttons of a list page that open a dialog: the one in its head, and one
\* in its empty state or on each item
AgentsButtons(r, tab) ==
  {"header"} \cup
  CASE AgentsSay(r) = "items" -> {"card"}
    [] AgentsSay(r) = "nothing" /\ tab = "local" -> {"empty"}
    [] OTHER -> {}

OrdersButtons(r) == {"header"} \cup {b \in {"empty"} : OrdersSay(r) = "nothing"}

WorkflowsButtons(r) == {"header"} \cup {b \in {"empty"} : WorkflowsSay(r) = "nothing"}
=============================================================================
