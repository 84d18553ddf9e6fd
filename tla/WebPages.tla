------------------------------ MODULE WebPages ------------------------------
(***************************************************************************)
(* The pages of the web dashboard, web/src/pages, in the shell of App.tsx, *)
(* Layout.tsx and Toast.tsx: what a user can click where, the mutations    *)
(* these clicks start, and the answers that come back to a page that has   *)
(* changed since, or is gone.                                              *)
(*                                                                         *)
(* Of a query a page sees only its result, see Screens.  QueryCache says   *)
(* where results come from and when a mutation is answered; here results   *)
(* change and answers come at any time, and data once there are replaced,  *)
(* never taken away.                                                       *)
(***************************************************************************)
EXTENDS Naturals, FiniteSets, Sequences, Modal, Screens

CONSTANTS
  Item,        \* agents and workflows on a list
  MaxVisits,   \* bound on the pages opened
  MaxCalls,    \* bound on the mutations submitted
  None         \* null

ASSUME WebPagesAssumption ==
  MaxVisits \in Nat \ {0} /\ MaxCalls \in Nat /\ None \notin Item

Routes == {"/", "/agents", "/sessions", "/workflows", "/orders", "/wallet", "/peers"}

\* a query on screen has data, is in error, or is loading
Screen == {r \in Result : r.loading <=> (r.data = "none" /\ ~r.error)}

Hooks == Dialogs \cup {"cancel"}

VARIABLES
  route,      \* the page on screen
  visit,      \* how many have been opened
  screen,     \* the page's list
  detail,     \* the workflow or session shown beside the list
  ui,         \* the page's own state
  focus,      \* see Modal
  calls,      \* the mutations in flight
  submitted,  \* how many were ever
  reported,   \* how many toasts were raised
  toasts      \* those on screen

page == <<route, visit>>
mutations == <<calls, submitted, reported, toasts>>
vars == <<page, screen, detail, ui, focus, mutations>>

\* useState of the pages and their forms
Blank ==
  [dialogs |-> {},     \* showRegister, executeTarget, showCreate
   tab |-> "local",    \* the list of the agents page
   typed |-> {},       \* the dialogs whose text is there
   picked |-> <<>>,    \* selectedAgents
   result |-> 0,       \* executeResult: the answer to that call
   asked |-> 0,        \* the last execution this page asked for (history)
   selected |-> None,  \* selectedId, selectedAgent
   opened |-> None]    \* the agent of selectedCaller

\* agents picked for a workflow, in order, each once
Picks == {p \in Seq(Item) : \A i, j \in DOMAIN p : p[i] = p[j] => i = j}

TypeOK ==
  /\ route \in Routes /\ visit \in 1..MaxVisits
  /\ screen \in Screen
  /\ detail \in [of : Item, running : BOOLEAN] \cup {None}
  /\ ui \in [dialogs : SUBSET Dialogs, tab : {"local", "network"},
             typed : SUBSET Dialogs, picked : Picks, result : 0..MaxCalls,
             asked : 0..MaxCalls, selected : Item \cup {None},
             opened : Item \cup {None}]
  /\ focus \in Focus
  /\ calls \subseteq [n : 1..MaxCalls, hook : Hooks, visit : 1..MaxVisits]
  /\ submitted \in 0..MaxCalls /\ reported \in 0..MaxCalls
  /\ toasts \subseteq [n : 1..MaxCalls, good : BOOLEAN]

Init ==
  /\ route \in Routes /\ visit = 1
  /\ screen = [data |-> "none", error |-> FALSE, loading |-> TRUE]
  /\ detail = None
  /\ ui = Blank
  /\ focus = Nowhere
  /\ calls = {} /\ submitted = 0 /\ reported = 0 /\ toasts = {}

-----------------------------------------------------------------------------
(* What the pages show *)

\* the buttons that open a dialog
Buttons(s, tab) ==
  CASE route = "/agents" -> AgentsButtons(s, tab)
    [] route = "/orders" -> OrdersButtons(s)
    [] route = "/workflows" -> WorkflowsButtons(s)
    [] OTHER -> {}

\* the item whose detail the page asks for
DetailKey(u) == IF route = "/sessions" THEN u.opened ELSE u.selected

\* what the cache may have of the detail of x, cached under x's own key
Details(x) == {None} \cup (IF x = None THEN {} ELSE [of : {x}, running : BOOLEAN])

\* the page is rendered again, with the dialogs of ui' and the elements E beside
\* them
Rendered(f, E) ==
  focus' = Repeated(Kept(f, E \cup ui'.dialogs), ui.dialogs, ui'.dialogs)

-----------------------------------------------------------------------------
(* Navigation and data *)

\* a link of the sidebar, or the browser's history: the old page is unmounted,
\* the new one starts blank, with whatever the cache has
Navigate(p) ==
  /\ p # route /\ visit < MaxVisits
  /\ route' = p /\ visit' = visit + 1
  /\ screen' \in Screen
  /\ detail' = None
  /\ ui' = Blank
  /\ focus' = Nowhere
  /\ UNCHANGED mutations

\* the list's query has news; the item whose card opened a dialog may be gone
ListChanges ==
  /\ UNCHANGED <<page, detail, ui, mutations>>
  /\ \E s \in Screen :
       /\ screen.data # "none" => s.data # "none"
       /\ screen' = s
       /\ \E gone \in {{}, {"card"}} :
            Rendered(focus, (Buttons(s, ui.tab) \cup {"other"}) \ gone)

\* so has the detail's
DetailChanges ==
  /\ DetailKey(ui) # None
  /\ detail' \in Details(DetailKey(ui)) \ {None}
  /\ UNCHANGED <<page, screen, ui, mutations>>
  /\ Rendered(focus, Outside)

\* TabButton: the other list, with other cards
SwitchTab(t) ==
  /\ route = "/agents" /\ t # ui.tab
  /\ ui' = [ui EXCEPT !.tab = t]
  /\ screen' \in Screen
  /\ Rendered(At(focus, "other"), {"header", "other"})
  /\ UNCHANGED <<page, detail, mutations>>

\* another workflow of the list is selected
SelectWorkflow(x) ==
  /\ route = "/workflows" /\ WorkflowsSay(screen) = "items" /\ x # ui.selected
  /\ ui' = [ui EXCEPT !.selected = x]
  /\ detail' \in Details(x)
  /\ Rendered(At(focus, "other"), Outside)
  /\ UNCHANGED <<page, screen, mutations>>

\* mutant: the session stays open when another agent is selected
KeepsSession(x) ==
  /\ route = "/sessions"
  /\ ui' = [ui EXCEPT !.selected = x]
  /\ screen' \in Screen
  /\ UNCHANGED <<page, detail, focus, mutations>>

\* an agent of the sessions page is selected, which closes the session shown
SelectAgent(x) ==
  /\ route = "/sessions"
  /\ ui' = [ui EXCEPT !.selected = x, !.opened = None]
  /\ screen' \in IF x = ui.selected THEN {screen} ELSE Screen
  /\ detail' = None
  /\ UNCHANGED <<page, focus, mutations>>

\* a session of the selected agent is opened
OpenSession ==
  /\ route = "/sessions" /\ ui.selected # None /\ ListSays(screen) = "items"
  /\ ui' = [ui EXCEPT !.opened = ui.selected]
  /\ detail' \in Details(ui.selected)
  /\ UNCHANGED <<page, screen, focus, mutations>>

-----------------------------------------------------------------------------
(* Dialogs *)

\* the buttons that open each, and the form or result it starts with
DialogsOf(o) ==
  CASE route = "/agents" -> IF o = "card" THEN {"execute"} ELSE {"register"}
    [] route = "/orders" -> {"order"}
    [] route = "/workflows" -> {"workflow"}
    [] OTHER -> {}

\* setShowRegister and setShowCreate change nothing in a page that shows the dialog
\* already; setExecuteTarget does, and the input and the result are cleared
OpenDialog(o) ==
  /\ o \in Buttons(screen, ui.tab)
  /\ \E d \in DialogsOf(o) :
       /\ d \in ui.dialogs => d = "execute"
       /\ ui' = [ui EXCEPT !.dialogs = @ \cup {d}, !.typed = @ \ {d},
                           !.result = IF d = "execute" THEN 0 ELSE @]
       /\ Rendered(Pressed(focus, o, ui.dialogs, d), Outside)
  /\ UNCHANGED <<page, screen, detail, mutations>>

\* the page state once the dialogs D are gone, and their forms with them
Without(u, D) ==
  [u EXCEPT !.dialogs = @ \ D, !.typed = @ \ D,
            !.picked = IF "workflow" \in D THEN <<>> ELSE @]

\* the cross of dialog d, or a click beside it
CloseDialog(d) ==
  /\ ui' = Without(ui, {d})
  /\ Rendered(At(focus, d), Outside)
  /\ UNCHANGED <<page, screen, detail, mutations>>

\* Escape, which each open dialog's handler hears, wherever the focus is
Escape ==
  /\ ui.dialogs # {}
  /\ ui' = Without(ui, ui.dialogs)
  /\ Rendered(focus, Outside)
  /\ UNCHANGED <<page, screen, detail, mutations>>

\* the focus moves by itself; a dialog does not keep it inside
MoveFocus(e) ==
  /\ e \in Buttons(screen, ui.tab) \cup ui.dialogs \cup {"other"}
  /\ focus' = At(focus, e)
  /\ UNCHANGED <<page, screen, detail, ui, mutations>>

\* the input of an execution is state of the page, which is rendered again;
\* the other forms keep theirs
Type(d) ==
  /\ \E b \in BOOLEAN :
       ui' = [ui EXCEPT !.typed = IF b THEN @ \cup {d} ELSE @ \ {d}]
  /\ IF d = "execute" THEN Rendered(At(focus, d), Outside) ELSE focus' = At(focus, d)
  /\ UNCHANGED <<page, screen, detail, mutations>>

\* mutant: an agent can only be added
AddsOnly(x) ==
  /\ "workflow" \in ui.dialogs
  /\ ui' = [ui EXCEPT !.picked = Append(@, x)]
  /\ focus' = At(focus, "workflow")
  /\ UNCHANGED <<page, screen, detail, mutations>>

\* the picks p with the agent x, which is among them once, filtered out
Filtered(p, x) ==
  LET k == CHOOSE i \in DOMAIN p : p[i] = x
  IN SubSeq(p, 1, k - 1) \o SubSeq(p, k + 1, Len(p))

\* toggleAgent: agents in the order in which they were picked
ToggleAgent(x) ==
  /\ "workflow" \in ui.dialogs
  /\ ui' = [ui EXCEPT !.picked =
               IF \E i \in DOMAIN @ : @[i] = x THEN Filtered(@, x) ELSE Append(@, x)]
  /\ focus' = At(focus, "workflow")
  /\ UNCHANGED <<page, screen, detail, mutations>>

-----------------------------------------------------------------------------
(* Mutations *)

\* isPending: this page waits for its call of hook h
Pending(h) == \E c \in calls : c.hook = h /\ c.visit = visit

FormComplete(d) == d \in ui.typed /\ (d = "workflow" => ui.picked # <<>>)

Sent(h) ==
  /\ submitted < MaxCalls /\ ~Pending(h)
  /\ submitted' = submitted + 1
  /\ calls' = calls \cup {[n |-> submitted', hook |-> h, visit |-> visit]}
  /\ UNCHANGED <<reported, toasts>>

\* mutant: the result of the call before stays on screen
KeepsResult(u, d, n) == IF d = "execute" THEN [u EXCEPT !.asked = n] ELSE u

\* handleExecute clears the result
Asked(u, d, n) == IF d = "execute" THEN [u EXCEPT !.asked = n, !.result = 0] ELSE u

\* the button of the form in dialog d
Submit(d) ==
  /\ FormComplete(d)
  /\ Sent(d)
  /\ ui' = Asked(ui, d, submitted')
  /\ Rendered(At(focus, d), Outside)
  /\ UNCHANGED <<page, screen, detail>>

\* the button beside a running workflow
CancelWorkflow ==
  /\ route = "/workflows" /\ detail # None /\ detail.running
  /\ Sent("cancel")
  /\ UNCHANGED <<page, screen, detail, ui>>
  /\ Rendered(At(focus, "other"), Outside)

\* mutant: a form is closed by every answer
ClosedByAnyAnswer(u, c, good) ==
  IF c.hook = "execute" THEN [u EXCEPT !.result = c.n]
  ELSE IF c.hook \in u.dialogs THEN Without(u, {c.hook}) ELSE u

\* what the callbacks given to mutate() do: an execution shows its answer, a
\* form is closed by a success
Received(u, c, good) ==
  IF c.hook = "execute" THEN [u EXCEPT !.result = c.n]
  ELSE IF good /\ c.hook \in u.dialogs THEN Without(u, {c.hook}) ELSE u

\* mutant: a toast is raised by the page that submitted the call
ToastedByPage(c, good) ==
  IF c.visit = visit
  THEN toasts' = toasts \cup {[n |-> c.n, good |-> good]} /\ reported' = reported + 1
  ELSE UNCHANGED <<toasts, reported>>

\* the hooks' own callbacks, which outlive the page
Toasted(c, good) ==
  toasts' = toasts \cup {[n |-> c.n, good |-> good]} /\ reported' = reported + 1

\* the call is settled, and the page's callbacks run if it is still there; a page
\* is rendered again by every toast, whose context it reads
Settle(c, good) ==
  /\ calls' = calls \ {c}
  /\ Toasted(c, good)
  /\ ui' = IF c.visit = visit THEN Received(ui, c, good) ELSE ui
  /\ Rendered(focus, Outside)
  /\ UNCHANGED <<page, screen, detail, submitted>>

\* three seconds after the last change of the toasts, or by a click on its cross
ToastGoes(t) ==
  /\ toasts' = toasts \ {t}
  /\ UNCHANGED <<page, screen, detail, ui, calls, submitted, reported>>
  /\ \E f \in {focus, At(focus, "none")} : Rendered(f, Outside)

-----------------------------------------------------------------------------
Next ==
  \/ \E p \in Routes : Navigate(p)
  \/ ListChanges \/ DetailChanges
  \/ \E t \in {"local", "network"} : SwitchTab(t)
  \/ \E x \in Item : SelectWorkflow(x) \/ SelectAgent(x) \/ ToggleAgent(x)
  \/ OpenSession
  \/ \E o \in Openers : OpenDialog(o)
  \/ \E d \in ui.dialogs : CloseDialog(d) \/ Type(d) \/ Submit(d)
  \/ \E e \in Element : MoveFocus(e)
  \/ Escape \/ CancelWorkflow
  \/ \E c \in calls, good \in BOOLEAN : Settle(c, good)
  \/ \E t \in toasts : ToastGoes(t)

Spec == Init /\ [][Next]_vars

-----------------------------------------------------------------------------
(* Properties *)

\* Every call that is settled has raised one toast, also when the user has left
\* the page that submitted it (useApi.ts 69-141: the toasts are in the hooks'
\* options, which run without the page).
CallsAreReported == submitted = Cardinality(calls) + reported

\* The result under the form of an execution is that of the last execution this
\* page asked for, and none is shown while one is awaited: not that of an
\* earlier call, or of a call of the page as it was visited before.  Which agent
\* the dialog names by then is another matter: one dialog may be closed and
\* another opened while the call runs (Agents.tsx 27-37, 182-208).
ResultIsOfLastCall ==
  ui.result # 0 => ui.result = ui.asked /\ ~Pending("execute")

\* The detail on screen belongs to the item selected beside it, whatever was
\* selected, opened, cached and answered in between (Sessions.tsx 13, 24, 55;
\* Workflows.tsx 29, 59).
DetailIsOfSelection == detail # None => detail.of = ui.selected

\* An answer closes a form only when it says that a call of this page and this
\* form succeeded; after a failure, or another call's answer, the user finds the
\* form as it was, to submit it again (Agents.tsx 24, Orders.tsx 79,
\* Workflows.tsx 154).
FormsSurviveFailure ==
  [][(visit' = visit /\ calls' # calls) =>
       \A d \in ui.dialogs :
         \/ d \in ui'.dialogs /\ (FormComplete(d)' <=> FormComplete(d))
         \/ \E c \in calls \ calls' :
              /\ c.visit = visit /\ c.hook = d
              /\ [n |-> c.n, good |-> TRUE] \in toasts' \ toasts]_vars

\* When a dialog closes that no other has been open with, the focus returns to the
\* button that opened it if that is still on the page, however often the page was
\* rendered again, and wherever the focus went, while the dialog was open
\* (Modal.tsx 16-58).  Two dialogs of the agents page that were open together give
\* no such promise: each may remember an element of the other (Agents.tsx 177-182).
FocusReturns ==
  [][(visit' = visit /\ ui.dialogs # {} /\ ui'.dialogs = {} /\ focus.opener # "none")
       => focus'.at = focus.opener]_vars
=============================================================================
