--------------------------- MODULE WebPagesProofs ---------------------------
(***************************************************************************)
(* The inductive invariant of WebPages, for any items and any number of    *)
(* pages opened and mutations submitted.                                   *)
(***************************************************************************)
EXTENDS WebPages, FiniteSetTheorems, SequenceTheorems, TLAPS

\* the types of all but the agents picked
Shape ==
  /\ ui \in [dialogs : SUBSET Dialogs, tab : {"local", "network"},
             typed : SUBSET Dialogs, picked : {ui.picked}, result : Nat,
             asked : Nat, selected : Item \cup {None}, opened : Item \cup {None}]
  /\ focus \in Focus
  /\ visit \in Nat \ {0} /\ submitted \in Nat /\ reported \in Nat
  /\ calls \subseteq [n : 1..submitted, hook : Hooks, visit : 1..visit]
  /\ toasts \subseteq [n : 1..submitted, good : BOOLEAN]

\* each call is in flight or reported, and under its own number
ReportInv ==
  /\ IsFiniteSet(calls)
  /\ \A c, d \in calls : c.n = d.n => c = d
  /\ \A c \in calls, t \in toasts : c.n # t.n
  /\ CallsAreReported

\* an execution this page waits for is the last it asked for, and clears the result
ResultInv ==
  /\ ui.result # 0 => ui.result = ui.asked
  /\ \A c \in calls : c.hook = "execute" /\ c.visit = visit =>
       c.n = ui.asked /\ ui.result = 0

\* the session that is open is of the agent selected
SelectionInv ==
  /\ ui.opened \in {None, ui.selected}
  /\ route # "/sessions" => ui.opened = None
  /\ DetailIsOfSelection

\* the only dialog's opener is remembered as long as it is on the page
FocusInv ==
  focus.opener # "none" =>
    \E d \in Dialogs : ui.dialogs = {d} /\ focus.previous[d] = focus.opener

\* what is picked is distinct, and nothing goes past its bound
BoundInv ==
  /\ route \in Routes /\ screen \in Screen
  /\ detail \in [of : Item, running : BOOLEAN] \cup {None}
  /\ visit <= MaxVisits /\ submitted <= MaxCalls
  /\ ui.asked <= submitted /\ ui.result <= submitted
  /\ ui.picked \in Picks

IInv == Shape /\ ReportInv /\ ResultInv /\ SelectionInv /\ FocusInv /\ BoundInv

-----------------------------------------------------------------------------
USE WebPagesAssumption

\* Some open dialog is rendered first, and some last.
LEMMA Order ==
  ASSUME NEW D \in SUBSET Dialogs, D # {}
  PROVE  FirstOf(D) \in D /\ LastOf(D) \in D
<1>1. \E d \in D : \A e \in D : ~Before(e, d)
  <2>1. CASE "register" \in D
    BY <2>1 DEF Before
  <2>2. CASE "register" \notin D
    BY <2>2 DEF Before
  <2> QED BY <2>1, <2>2
<1>2. \E d \in D : \A e \in D : ~Before(d, e)
  <2>1. CASE "execute" \in D
    BY <2>1 DEF Before
  <2>2. CASE "execute" \notin D
    BY <2>2 DEF Before
  <2> QED BY <2>1, <2>2
<1> QED BY <1>1, <1>2 DEF FirstOf, LastOf

\* A focus that moves is a focus and remembers the same.
LEMMA MovedFocus ==
  ASSUME NEW f \in Focus, NEW e \in Element
  PROVE  /\ At(f, e) \in Focus
         /\ At(f, e).at = e /\ At(f, e).previous = f.previous /\ At(f, e).opener = f.opener
BY DEF At, Focus

\* Elements that leave the page are no longer remembered.
LEMMA KeptFocus ==
  ASSUME NEW f \in Focus, NEW E
  PROVE  /\ Kept(f, E) \in Focus
         /\ Kept(f, E).at = IF f.at \in E THEN f.at ELSE "none"
         /\ Kept(f, E).opener = IF f.opener \in E THEN f.opener ELSE "none"
         /\ \A d \in Dialogs :
              Kept(f, E).previous[d] = IF f.previous[d] \in E THEN f.previous[d] ELSE "none"
<1> DEFINE p(d) == IF f.previous[d] \in E THEN f.previous[d] ELSE "none"
           at == IF f.at \in E THEN f.at ELSE "none"
           opener == IF f.opener \in E THEN f.opener ELSE "none"
<1>1. Kept(f, E) = [at |-> at, previous |-> [d \in Dialogs |-> p(d)], opener |-> opener]
  BY DEF Kept
<1>2. \A d \in Dialogs : p(d) \in Element
  BY DEF Focus, Element
<1>3. at \in Element /\ opener \in Openers \cup {"none"}
  BY DEF Focus, Element
<1> HIDE DEF p, at, opener
<1>4. [d \in Dialogs |-> p(d)] \in [Dialogs -> Element]
  BY <1>2
<1>5. Kept(f, E) \in Focus
  BY <1>1, <1>3, <1>4 DEF Focus
<1>6. \A d \in Dialogs : Kept(f, E).previous[d] = p(d)
  BY <1>1
<1>7. Kept(f, E).at = at /\ Kept(f, E).opener = opener
  BY <1>1
<1> QED BY <1>5, <1>6, <1>7 DEF p, at, opener

\* An effect that is undone moves the focus, to what one of the dialogs remembers.
LEMMA UndoneFocus ==
  ASSUME NEW f \in Focus, NEW D \in SUBSET Dialogs
  PROVE  /\ Undone(f, D) \in Focus
         /\ Undone(f, D).opener = f.opener
         /\ (\A d \in D : f.previous[d] = "none") => Undone(f, D).at = f.at
         /\ \A d \in D : D = {d} /\ f.previous[d] # "none" => Undone(f, D).at = f.previous[d]
<1> DEFINE able == {d \in D : f.previous[d] # "none"}
<1>1. CASE able = {}
  BY <1>1 DEF Undone
<1>2. CASE able # {}
  <2>1. LastOf(able) \in able
    BY <1>2, Order
  <2>2. f.previous[LastOf(able)] \in Element
    BY <2>1 DEF Focus
  <2> DEFINE e == f.previous[LastOf(able)]
  <2>3. Undone(f, D) = At(f, e)
    BY <1>2 DEF Undone
  <2>4. ~\A d \in D : f.previous[d] = "none"
    BY <1>2
  <2>5. \A d \in D : D = {d} => e = f.previous[d]
    BY <2>1
  <2> HIDE DEF e
  <2>6. At(f, e) \in Focus /\ At(f, e).at = e /\ At(f, e).opener = f.opener
    BY <2>2, MovedFocus DEF e
  <2> QED BY <2>3, <2>4, <2>5, <2>6
<1> QED BY <1>1, <1>2

\* An effect that is done remembers the focused element, or the dialog before it.
LEMMA DoneFocus ==
  ASSUME NEW f \in Focus, NEW D \in SUBSET Dialogs
  PROVE  /\ Done(f, D) \in Focus
         /\ Done(f, D).opener = IF D = {} THEN "none" ELSE f.opener
         /\ D = {} => Done(f, D).at = f.at
         /\ \A d \in D : D = {d} => Done(f, D).previous[d] = f.at
<1> DEFINE p(d) == IF d \notin D THEN "none" ELSE IF d = FirstOf(D) THEN f.at ELSE FirstOf(D)
           at == IF D = {} THEN f.at ELSE LastOf(D)
           opener == IF D = {} THEN "none" ELSE f.opener
<1>1. Done(f, D) = [at |-> at, previous |-> [d \in Dialogs |-> p(d)], opener |-> opener]
  BY DEF Done
<1>2. \A d \in Dialogs : p(d) \in Element
  BY Order DEF Focus, Element
<1>3. at \in Element /\ opener \in Openers \cup {"none"}
  BY Order DEF Focus, Element
<1>4. \A d \in D : D = {d} => p(d) = f.at
  BY Order
<1>5. D = {} => at = f.at
  OBVIOUS
<1> HIDE DEF p, at
<1>6. [d \in Dialogs |-> p(d)] \in [Dialogs -> Element]
  BY <1>2
<1>7. Done(f, D) \in Focus
  BY <1>1, <1>3, <1>6 DEF Focus
<1>8. \A d \in Dialogs : Done(f, D).previous[d] = p(d)
  BY <1>1
<1> QED BY <1>1, <1>4, <1>5, <1>7, <1>8

\* A page that is rendered again keeps a focus a focus, and the opener of its only
\* dialog remembered: that of a dialog that was there before, or the button that
\* opened it now (Modal.tsx 16-58).
LEMMA RenderedFocus ==
  ASSUME NEW f \in Focus, NEW X, Rendered(f, X),
         ui.dialogs \in SUBSET Dialogs, ui'.dialogs \in SUBSET Dialogs,
         f.opener # "none" /\ ui'.dialogs # {} =>
           \E d \in Dialogs :
             /\ ui'.dialogs = {d}
             /\ \/ ui.dialogs = {d} /\ f.previous[d] = f.opener
                \/ ui.dialogs = {} /\ f.at = f.opener
  PROVE  focus' \in Focus /\ FocusInv'
<1> DEFINE g == Kept(f, X \cup ui'.dialogs)
           h == Undone(g, ui.dialogs)
<1>1. /\ g \in Focus
      /\ g.at = IF f.at \in X \cup ui'.dialogs THEN f.at ELSE "none"
      /\ g.opener = IF f.opener \in X \cup ui'.dialogs THEN f.opener ELSE "none"
      /\ \A d \in Dialogs : g.previous[d] =
           IF f.previous[d] \in X \cup ui'.dialogs THEN f.previous[d] ELSE "none"
  BY KeptFocus
<1>2. focus' = Done(h, ui'.dialogs)
  BY DEF Rendered, Repeated
<1> HIDE DEF g
<1>3. /\ h \in Focus /\ h.opener = g.opener
      /\ (\A d \in ui.dialogs : g.previous[d] = "none") => h.at = g.at
      /\ \A d \in ui.dialogs : ui.dialogs = {d} /\ g.previous[d] # "none" => h.at = g.previous[d]
  BY <1>1, UndoneFocus
<1> HIDE DEF h
<1>4. /\ focus' \in Focus
      /\ focus'.opener = IF ui'.dialogs = {} THEN "none" ELSE h.opener
      /\ \A d \in ui'.dialogs : ui'.dialogs = {d} => focus'.previous[d] = h.at
  BY <1>2, <1>3, DoneFocus
<1>5. ASSUME focus'.opener # "none"
      PROVE  \E d \in Dialogs : ui'.dialogs = {d} /\ focus'.previous[d] = focus'.opener
  <2>1. ui'.dialogs # {} /\ focus'.opener = f.opener /\ f.opener \in X \cup ui'.dialogs
    BY <1>1, <1>3, <1>4, <1>5
  <2>2. PICK d \in Dialogs :
          /\ ui'.dialogs = {d}
          /\ \/ ui.dialogs = {d} /\ f.previous[d] = f.opener
             \/ ui.dialogs = {} /\ f.at = f.opener
    BY <1>5, <2>1
  <2>3. CASE ui.dialogs = {d} /\ f.previous[d] = f.opener
    <3>1. g.previous[d] = f.opener
      BY <1>1, <2>1, <2>3
    <3>2. h.at = f.opener
      BY <1>3, <1>5, <2>1, <2>3, <3>1
    <3> QED BY <1>4, <2>1, <2>2, <3>2
  <2>4. CASE ui.dialogs = {} /\ f.at = f.opener
    <3>1. h.at = f.opener
      BY <1>1, <1>3, <2>1, <2>4
    <3> QED BY <1>4, <2>1, <2>2, <3>1
  <2> QED BY <2>2, <2>3, <2>4
<1> QED BY <1>4, <1>5 DEF FocusInv

\* So does a page whose focus has moved and whose dialogs stay or close.
LEMMA MovedAndRendered ==
  ASSUME Shape, FocusInv, NEW e \in Element, NEW X, Rendered(At(focus, e), X),
         ui'.dialogs \subseteq ui.dialogs
  PROVE  focus' \in Focus /\ FocusInv'
<1>1. /\ At(focus, e) \in Focus
      /\ At(focus, e).previous = focus.previous /\ At(focus, e).opener = focus.opener
  BY MovedFocus DEF Shape
<1>2. ui.dialogs \in SUBSET Dialogs /\ ui'.dialogs \in SUBSET Dialogs
  BY DEF Shape
<1>3. ASSUME At(focus, e).opener # "none", ui'.dialogs # {}
      PROVE  \E d \in Dialogs : /\ ui'.dialogs = {d} /\ ui.dialogs = {d}
                                /\ At(focus, e).previous[d] = At(focus, e).opener
  BY <1>1, <1>3 DEF FocusInv
<1> HIDE DEF FocusInv
<1> QED BY <1>1, <1>2, <1>3, RenderedFocus

LEMMA RenderedAgain ==
  ASSUME Shape, FocusInv, NEW X, Rendered(focus, X), ui'.dialogs \subseteq ui.dialogs
  PROVE  focus' \in Focus /\ FocusInv'
<1>1. focus.at \in Element /\ At(focus, focus.at) = focus
  BY DEF Shape, Focus, At
<1> QED BY <1>1, MovedAndRendered

\* The focus after any step.
LEMMA NextFocus ==
  ASSUME Shape, FocusInv, [Next]_vars
  PROVE  focus' \in Focus /\ FocusInv'
<1>u. ui.dialogs \in SUBSET Dialogs /\ ui \in [dialogs : {ui.dialogs}, tab : {ui.tab},
        typed : {ui.typed}, picked : {ui.picked}, result : {ui.result},
        asked : {ui.asked}, selected : {ui.selected}, opened : {ui.opened}]
  BY DEF Shape
<1>e. Dialogs \subseteq Element /\ "other" \in Element /\ "none" \in Element
  BY DEF Element, Outside
<1>1. ASSUME focus' = focus, ui'.dialogs = ui.dialogs
      PROVE  focus' \in Focus /\ FocusInv'
  BY <1>1 DEF Shape, FocusInv
<1>2. ASSUME NEW e \in Element, focus' = At(focus, e), ui'.dialogs = ui.dialogs
      PROVE  focus' \in Focus /\ FocusInv'
  <2>1. focus' \in Focus /\ focus'.previous = focus.previous /\ focus'.opener = focus.opener
    BY <1>2, MovedFocus DEF Shape
  <2> QED BY <1>2, <2>1 DEF FocusInv
<1>3. CASE \E r \in Routes : Navigate(r)
  <2>1. [d \in Dialogs |-> "none"] \in [Dialogs -> Element]
    BY <1>e
  <2>2. Nowhere \in Focus /\ Nowhere.opener = "none"
    BY <2>1 DEF Nowhere, Focus, Element, Outside
  <2> QED BY <1>3, <2>2 DEF Navigate, FocusInv
<1>4. CASE ListChanges \/ DetailChanges \/ (\E t \in toasts : ToastGoes(t))
  BY <1>e, <1>4, RenderedAgain, MovedAndRendered DEF ListChanges, DetailChanges, ToastGoes
<1>5. CASE \E t \in {"local", "network"} : SwitchTab(t)
  BY <1>u, <1>e, <1>5, MovedAndRendered DEF SwitchTab
<1>6. CASE CancelWorkflow \/ (\E x \in Item : SelectWorkflow(x))
  BY <1>u, <1>e, <1>6, MovedAndRendered DEF CancelWorkflow, SelectWorkflow
<1>7. ASSUME NEW o \in Openers, OpenDialog(o)
      PROVE  focus' \in Focus /\ FocusInv'
  <2>1. PICK d \in DialogsOf(o) :
          /\ ui' = [ui EXCEPT !.dialogs = @ \cup {d}, !.typed = @ \ {d},
                              !.result = IF d = "execute" THEN 0 ELSE @]
          /\ Rendered(Pressed(focus, o, ui.dialogs, d), Outside)
    BY <1>7 DEF OpenDialog
  <2> DEFINE f == Pressed(focus, o, ui.dialogs, d)
  <2>2. d \in Dialogs /\ ui'.dialogs = ui.dialogs \cup {d}
    BY <1>u, <2>1 DEF DialogsOf, Dialogs
  <2>3. /\ f \in Focus /\ f.at = o /\ f.previous = focus.previous
        /\ f.opener = IF ui.dialogs = {} THEN o ELSE IF d \in ui.dialogs THEN focus.opener ELSE "none"
    BY DEF Pressed, Shape, Focus, Element, Outside
  <2> HIDE DEF f
  <2>4. ASSUME f.opener # "none"
        PROVE  \E b \in Dialogs :
                 /\ ui'.dialogs = {b}
                 /\ \/ ui.dialogs = {b} /\ f.previous[b] = f.opener
                    \/ ui.dialogs = {} /\ f.at = f.opener
    <3>1. CASE ui.dialogs = {}
      BY <2>2, <2>3, <3>1
    <3>2. CASE ui.dialogs # {}
      <4>1. d \in ui.dialogs /\ f.opener = focus.opener
        BY <2>3, <2>4, <3>2
      <4>2. PICK b \in Dialogs : ui.dialogs = {b} /\ focus.previous[b] = focus.opener
        BY <2>4, <4>1 DEF FocusInv
      <4>3. ui'.dialogs = {b}
        BY <2>2, <4>1, <4>2
      <4> QED BY <2>3, <4>1, <4>2, <4>3
    <3> QED BY <3>1, <3>2
  <2>5. Rendered(f, Outside)
    BY <2>1 DEF f
  <2>6. ui'.dialogs \in SUBSET Dialogs
    BY <1>u, <2>2
  <2> QED BY <1>u, <2>3, <2>4, <2>5, <2>6, RenderedFocus
<1>8. ASSUME NEW D \in SUBSET Dialogs
      PROVE  Without(ui, D).dialogs \subseteq ui.dialogs
  BY <1>u DEF Without
<1>9. ASSUME NEW d \in ui.dialogs, CloseDialog(d)
      PROVE  focus' \in Focus /\ FocusInv'
  BY <1>u, <1>e, <1>8, <1>9, MovedAndRendered DEF CloseDialog
<1>10. CASE Escape
  BY <1>u, <1>8, <1>10, RenderedAgain DEF Escape
<1>11. ASSUME NEW d \in ui.dialogs, Type(d)
       PROVE  focus' \in Focus /\ FocusInv'
  <2>1. ui'.dialogs = ui.dialogs /\ d \in Element
    BY <1>u, <1>e, <1>11 DEF Type
  <2> QED BY <1>2, <1>11, <2>1, MovedAndRendered DEF Type
<1>12. ASSUME NEW d \in ui.dialogs, Submit(d)
       PROVE  focus' \in Focus /\ FocusInv'
  <2>1. ui'.dialogs = ui.dialogs /\ d \in Element
    BY <1>u, <1>e, <1>12 DEF Submit, Asked
  <2> QED BY <1>12, <2>1, MovedAndRendered DEF Submit
<1>13. ASSUME NEW c \in calls, NEW good \in BOOLEAN, Settle(c, good)
       PROVE  focus' \in Focus /\ FocusInv'
  <2>1. c.hook = "execute" => [ui EXCEPT !.result = c.n].dialogs = ui.dialogs
    BY <1>u
  <2>2. Received(ui, c, good).dialogs \subseteq ui.dialogs
    BY <1>u, <1>8, <2>1 DEF Received
  <2> QED BY <1>13, <2>2, RenderedAgain DEF Settle
<1>14. CASE \E x \in Item : ToggleAgent(x)
  <2>1. ui'.dialogs = ui.dialogs /\ "workflow" \in Element
    BY <1>u, <1>e, <1>14 DEF ToggleAgent, Dialogs
  <2> QED BY <1>2, <1>14, <2>1 DEF ToggleAgent
<1>15. CASE \E e \in Element : MoveFocus(e)
  BY <1>2, <1>15 DEF MoveFocus
<1>16. CASE OpenSession \/ (\E x \in Item : SelectAgent(x))
  BY <1>u, <1>1, <1>16 DEF OpenSession, SelectAgent
<1>17. CASE UNCHANGED vars
  BY <1>1, <1>17 DEF vars
<1> QED
  BY <1>3, <1>4, <1>5, <1>6, <1>7, <1>9, <1>10, <1>11, <1>12, <1>13, <1>14, <1>15, <1>16,
     <1>17 DEF Next

-----------------------------------------------------------------------------
(* Calls and their reports *)

\* A number no call has had yet is given to a call that is sent.
LEMMA SentCall ==
  ASSUME Shape, NEW h \in Hooks, Sent(h)
  PROVE  /\ submitted' = submitted + 1 /\ reported' = reported /\ toasts' = toasts
         /\ \E c \in [n : 1..submitted', hook : Hooks, visit : 1..visit] :
              /\ calls' = calls \cup {c} /\ c.n = submitted' /\ c.hook = h /\ c.visit = visit
              /\ c \notin calls
<1> DEFINE c == [n |-> submitted', hook |-> h, visit |-> visit]
<1>1. submitted' = submitted + 1 /\ reported' = reported /\ toasts' = toasts
  BY DEF Sent
<1>2. c \in [n : 1..submitted', hook : Hooks, visit : 1..visit]
  BY <1>1 DEF Shape
<1>3. c \notin calls
  BY <1>1 DEF Shape
<1>4. calls' = calls \cup {c} /\ c.n = submitted' /\ c.hook = h /\ c.visit = visit
  BY DEF Sent
<1> QED BY <1>1, <1>2, <1>3, <1>4

\* What a step does to the calls: nothing, or one is sent or settled.
LEMMA CallSteps ==
  ASSUME Shape, [Next]_vars
  PROVE  \/ UNCHANGED mutations
         \/ (CancelWorkflow \/ \E d \in ui.dialogs : Submit(d)) /\ (\E h \in Hooks : Sent(h))
         \/ \E c \in calls, good \in BOOLEAN : Settle(c, good)
         \/ \E t \in toasts : ToastGoes(t)
<1>1. CASE CancelWorkflow \/ \E d \in ui.dialogs : Submit(d)
  BY <1>1 DEF Submit, CancelWorkflow, Hooks, Shape
<1>2. CASE (\E p \in Routes : Navigate(p)) \/ ListChanges \/ DetailChanges
           \/ (\E t \in {"local", "network"} : SwitchTab(t)) \/ OpenSession
           \/ (\E x \in Item : SelectWorkflow(x) \/ SelectAgent(x) \/ ToggleAgent(x))
           \/ (\E o \in Openers : OpenDialog(o)) \/ Escape
           \/ (\E d \in ui.dialogs : CloseDialog(d) \/ Type(d))
           \/ (\E e \in Element : MoveFocus(e))
  BY <1>2 DEF Navigate, ListChanges, DetailChanges, SwitchTab, OpenSession, SelectWorkflow,
              SelectAgent, ToggleAgent, OpenDialog, Escape, CloseDialog, Type, MoveFocus
<1>3. CASE UNCHANGED vars
  BY <1>3 DEF vars, mutations
<1> QED BY <1>1, <1>2, <1>3 DEF Next

\* A visit lasts until another page is opened.
LEMMA Visits ==
  ASSUME Shape, [Next]_vars
  PROVE  \/ visit' = visit /\ route' = route
         \/ /\ visit' = visit + 1 /\ ui' = Blank /\ detail' = None
            /\ UNCHANGED mutations /\ \E p \in Routes : Navigate(p)
<1>1. CASE \E p \in Routes : Navigate(p)
  BY <1>1 DEF Navigate
<1>2. CASE UNCHANGED vars
  BY <1>2 DEF vars, page
<1> QED
  BY <1>1, <1>2 DEF Next, page, ListChanges, DetailChanges, SwitchTab, OpenSession, SelectWorkflow,
     SelectAgent, ToggleAgent, OpenDialog, Escape, CloseDialog, Type, Submit, CancelWorkflow,
     MoveFocus, Settle, ToastGoes

\* The types of the calls and toasts after any step.
LEMMA NextCallTypes ==
  ASSUME Shape, [Next]_vars
  PROVE  /\ visit' \in Nat \ {0} /\ submitted' \in Nat /\ reported' \in Nat
         /\ calls' \subseteq [n : 1..submitted', hook : Hooks, visit : 1..visit']
         /\ toasts' \subseteq [n : 1..submitted', good : BOOLEAN]
<1>s. /\ visit \in Nat \ {0} /\ submitted \in Nat /\ reported \in Nat
      /\ calls \subseteq [n : 1..submitted, hook : Hooks, visit : 1..visit]
      /\ toasts \subseteq [n : 1..submitted, good : BOOLEAN]
  BY DEF Shape
<1>v. visit' \in Nat \ {0} /\ 1..visit \subseteq 1..visit'
  BY <1>s, Visits
<1>1. CASE UNCHANGED mutations
  BY <1>s, <1>v, <1>1 DEF mutations
<1>2. ASSUME NEW h \in Hooks, Sent(h)
      PROVE  /\ submitted' \in Nat /\ reported' \in Nat
             /\ calls' \subseteq [n : 1..submitted', hook : Hooks, visit : 1..visit']
             /\ toasts' \subseteq [n : 1..submitted', good : BOOLEAN]
  <2>1. 1..submitted \subseteq 1..submitted' /\ submitted' \in Nat
    BY <1>s, <1>2, SentCall
  <2> QED BY <1>s, <1>v, <1>2, <2>1, SentCall
<1>4. ASSUME NEW c \in calls, NEW good \in BOOLEAN, Settle(c, good)
      PROVE  /\ submitted' \in Nat /\ reported' \in Nat
             /\ calls' \subseteq [n : 1..submitted', hook : Hooks, visit : 1..visit']
             /\ toasts' \subseteq [n : 1..submitted', good : BOOLEAN]
  BY <1>s, <1>v, <1>4 DEF Settle, Toasted
<1>5. CASE \E t \in toasts : ToastGoes(t)
  BY <1>s, <1>v, <1>5 DEF ToastGoes
<1> QED BY <1>v, <1>1, <1>2, <1>4, <1>5, CallSteps

\* Each call stays in flight until it is reported, once.
LEMMA NextReports ==
  ASSUME Shape, ReportInv, [Next]_vars
  PROVE  ReportInv'
<1>s. /\ visit \in Nat \ {0} /\ submitted \in Nat /\ reported \in Nat
      /\ calls \subseteq [n : 1..submitted, hook : Hooks, visit : 1..visit]
      /\ toasts \subseteq [n : 1..submitted, good : BOOLEAN]
  BY DEF Shape
<1>f. IsFiniteSet(calls) /\ Cardinality(calls) \in Nat
  BY FS_CardinalityType DEF ReportInv
<1>1. CASE UNCHANGED mutations
  BY <1>1 DEF mutations, ReportInv, CallsAreReported
<1>2. ASSUME NEW h \in Hooks, Sent(h)
      PROVE  ReportInv'
  <2>1. PICK c \in [n : 1..submitted', hook : Hooks, visit : 1..visit] :
          /\ calls' = calls \cup {c} /\ c.n = submitted' /\ c.hook = h /\ c.visit = visit
          /\ c \notin calls
    BY <1>2, SentCall
  <2>2. submitted' = submitted + 1 /\ reported' = reported /\ toasts' = toasts
    BY <1>2, SentCall
  <2>3. IsFiniteSet(calls') /\ Cardinality(calls') = Cardinality(calls) + 1
    BY <1>f, <2>1, FS_AddElement
  <2>4. \A d \in calls : d.n # c.n
    BY <1>s, <2>1, <2>2
  <2>5. \A t \in toasts : t.n # c.n
    BY <1>s, <2>1, <2>2
  <2>6. \A d, e \in calls' : d.n = e.n => d = e
    BY <2>1, <2>4 DEF ReportInv
  <2>7. \A d \in calls', t \in toasts' : d.n # t.n
    BY <2>1, <2>2, <2>5 DEF ReportInv
  <2>8. CallsAreReported'
    BY <1>s, <1>f, <2>2, <2>3 DEF ReportInv, CallsAreReported
  <2> QED BY <2>3, <2>6, <2>7, <2>8 DEF ReportInv
<1>4. ASSUME NEW c \in calls, NEW good \in BOOLEAN, Settle(c, good)
      PROVE  ReportInv'
  <2> DEFINE t == [n |-> c.n, good |-> good]
  <2>1. /\ calls' = calls \ {c} /\ toasts' = toasts \cup {t}
        /\ submitted' = submitted /\ reported' = reported + 1
    BY <1>4 DEF Settle, Toasted
  <2>2. t.n = c.n
    OBVIOUS
  <2> HIDE DEF t
  <2>3. IsFiniteSet(calls') /\ Cardinality(calls') = Cardinality(calls) - 1
    BY <1>f, <2>1, FS_RemoveElement
  <2>4. \A e, f \in calls' : e.n = f.n => e = f
    BY <2>1 DEF ReportInv
  <2>5. \A e \in calls', u \in toasts' : e.n # u.n
    BY <2>1, <2>2 DEF ReportInv
  <2>6. CallsAreReported'
    BY <1>s, <1>f, <2>1, <2>3 DEF ReportInv, CallsAreReported
  <2> QED BY <2>3, <2>4, <2>5, <2>6 DEF ReportInv
<1>5. CASE \E t \in toasts : ToastGoes(t)
  BY <1>5 DEF ToastGoes, ReportInv, CallsAreReported
<1> QED BY <1>1, <1>2, <1>4, <1>5, CallSteps

-----------------------------------------------------------------------------
(* The agents picked for a workflow *)

\* Filtering an agent out leaves the others, in their order, each once
\* (Workflows.tsx 174-178).
LEMMA FilteredPicks ==
  ASSUME NEW p \in Picks, NEW x, NEW j \in DOMAIN p, p[j] = x
  PROVE  Filtered(p, x) \in Picks
<1> DEFINE k == CHOOSE i \in DOMAIN p : p[i] = x
<1>1. p \in Seq(Item) /\ \A i, l \in 1..Len(p) : p[i] = p[l] => i = l
  BY DEF Picks
<1>2. k \in 1..Len(p)
  BY <1>1
<1> DEFINE q == SubSeq(p, 1, k - 1) \o SubSeq(p, k + 1, Len(p))
<1>3. Filtered(p, x) = q
  BY DEF Filtered
<1> HIDE DEF k
<1> DEFINE l == SubSeq(p, 1, k - 1)
           r == SubSeq(p, k + 1, Len(p))
<1>4. /\ l \in Seq(Item) /\ Len(l) = k - 1
      /\ r \in Seq(Item) /\ Len(r) = Len(p) - k
      /\ \A i \in 1..(k - 1) : l[i] = p[i]
      /\ \A i \in 1..(Len(p) - k) : r[i] = p[k + i]
  BY <1>1, <1>2
<1>q. q = l \o r
  OBVIOUS
<1> HIDE DEF q, l, r
<1>5. q \in Seq(Item) /\ Len(q) = Len(p) - 1
  <2>1. q \in Seq(Item) /\ Len(q) = Len(l) + Len(r)
    BY <1>4, <1>q, ConcatProperties
  <2> QED BY <1>1, <1>2, <1>4, <2>1
<1>6. ASSUME NEW i \in 1..Len(q)
      PROVE  q[i] = p[IF i < k THEN i ELSE i + 1]
  <2>1. CASE i < k
    <3>1. i \in 1..Len(l)
      BY <1>2, <1>4, <2>1
    <3> QED BY <1>4, <1>q, <2>1, <3>1
  <2>2. CASE ~(i < k)
    <3>1. i - (k - 1) \in 1..Len(r) /\ i \in (Len(l) + 1)..(Len(l) + Len(r))
      BY <1>1, <1>2, <1>4, <1>5, <2>2
    <3>2. q[i] = r[i - Len(l)]
      BY <1>4, <1>q, <3>1
    <3>3. r[i - (k - 1)] = p[k + (i - (k - 1))]
      BY <1>4, <3>1
    <3>4. k + (i - (k - 1)) = i + 1
      BY <1>2
    <3> QED BY <1>4, <2>2, <3>2, <3>3, <3>4
  <2> QED BY <2>1, <2>2
<1>7. ASSUME NEW i \in 1..Len(q), NEW m \in 1..Len(q), q[i] = q[m]
      PROVE  i = m
  BY <1>1, <1>2, <1>5, <1>6, <1>7
<1>8. DOMAIN q = 1..Len(q)
  BY <1>5
<1> QED BY <1>3, <1>5, <1>7, <1>8 DEF Picks, q

\* So does an agent added at the end, if it was not there.
LEMMA AddedPicks ==
  ASSUME NEW p \in Picks, NEW x \in Item, \A i \in DOMAIN p : p[i] # x
  PROVE  Append(p, x) \in Picks
<1>1. p \in Seq(Item) /\ \A i, m \in 1..Len(p) : p[i] = p[m] => i = m
  BY DEF Picks
<1> DEFINE q == Append(p, x)
<1>2. /\ q \in Seq(Item) /\ Len(q) = Len(p) + 1 /\ DOMAIN q = 1..(Len(p) + 1)
      /\ q[Len(p) + 1] = x /\ \A i \in 1..Len(p) : q[i] = p[i] /\ p[i] # x
  BY <1>1
<1> HIDE DEF q
<1>3. \A i, m \in 1..(Len(p) + 1) : q[i] = q[m] => i = m
  BY <1>1, <1>2
<1> QED BY <1>2, <1>3 DEF Picks, q

-----------------------------------------------------------------------------
(* The page's own state *)

\* page states with these agents picked
Page(p) ==
  [dialogs : SUBSET Dialogs, tab : {"local", "network"}, typed : SUBSET Dialogs, picked : {p},
   result : Nat, asked : Nat, selected : Item \cup {None}, opened : Item \cup {None}]

\* A dialog that closes takes its form with it, and nothing else.
LEMMA DialogCloses ==
  ASSUME NEW p, NEW u \in Page(p), NEW D \in SUBSET Dialogs
  PROVE  /\ \E q \in {p, <<>>} : Without(u, D) \in Page(q)
         /\ Without(u, D).dialogs = u.dialogs \ D /\ Without(u, D).typed = u.typed \ D
         /\ "workflow" \notin D => Without(u, D).picked = u.picked
         /\ Without(u, D).result = u.result /\ Without(u, D).asked = u.asked
         /\ Without(u, D).selected = u.selected /\ Without(u, D).opened = u.opened
<1> DEFINE q == IF "workflow" \in D THEN <<>> ELSE p
<1>1. u.picked = p
  BY DEF Page
<1>2. Without(u, D) = [u EXCEPT !.dialogs = u.dialogs \ D, !.typed = u.typed \ D, !.picked = q]
  BY <1>1 DEF Without, Page
<1>3. q \in {p, <<>>} /\ ("workflow" \notin D => q = p)
  OBVIOUS
<1> HIDE DEF q
<1>4. Without(u, D) \in Page(q)
  BY <1>2 DEF Page
<1> QED BY <1>1, <1>2, <1>3, <1>4 DEF Page

\* An answer changes the result of an execution, and no other.
LEMMA AnswerShows ==
  ASSUME NEW p, NEW u \in Page(p), NEW c, c.n \in Nat, c.hook \in Hooks, NEW good \in BOOLEAN
  PROVE  /\ Received(u, c, good).asked = u.asked
         /\ Received(u, c, good).selected = u.selected
         /\ Received(u, c, good).opened = u.opened
         /\ Received(u, c, good).result = IF c.hook = "execute" THEN c.n ELSE u.result
<1>1. CASE c.hook = "execute"
  BY <1>1 DEF Received, Page
<1>2. CASE c.hook # "execute" /\ good /\ c.hook \in u.dialogs
  <2>1. Received(u, c, good) = Without(u, {c.hook}) /\ {c.hook} \in SUBSET Dialogs
    BY <1>2 DEF Received, Page
  <2>2. /\ Without(u, {c.hook}).asked = u.asked /\ Without(u, {c.hook}).selected = u.selected
        /\ Without(u, {c.hook}).opened = u.opened /\ Without(u, {c.hook}).result = u.result
    BY <2>1, DialogCloses
  <2> QED BY <1>2, <2>1, <2>2
<1>3. CASE c.hook # "execute" /\ ~(good /\ c.hook \in u.dialogs)
  BY <1>3 DEF Received
<1> QED BY <1>1, <1>2, <1>3

\* It closes the dialog of its call, or none.
LEMMA AnswerArrives ==
  ASSUME NEW p, NEW u \in Page(p), NEW c, c.n \in Nat, c.hook \in Hooks, NEW good \in BOOLEAN
  PROVE  /\ \E q \in {p, <<>>} : Received(u, c, good) \in Page(q)
         /\ \/ /\ Received(u, c, good).dialogs = u.dialogs
               /\ Received(u, c, good).typed = u.typed
               /\ Received(u, c, good).picked = u.picked
            \/ good /\ c.hook \in u.dialogs /\ Received(u, c, good) = Without(u, {c.hook})
<1>1. CASE c.hook = "execute"
  <2>1. Received(u, c, good) = [u EXCEPT !.result = c.n]
    BY <1>1 DEF Received
  <2>2. [u EXCEPT !.result = c.n] \in Page(p)
    BY DEF Page
  <2> QED BY <2>1, <2>2 DEF Page
<1>2. CASE c.hook # "execute" /\ good /\ c.hook \in u.dialogs
  <2>1. Received(u, c, good) = Without(u, {c.hook}) /\ {c.hook} \in SUBSET Dialogs
    BY <1>2 DEF Received, Page
  <2>2. \E q \in {p, <<>>} : Without(u, {c.hook}) \in Page(q)
    BY <2>1, DialogCloses
  <2> QED BY <1>2, <2>1, <2>2
<1>3. CASE c.hook # "execute" /\ ~(good /\ c.hook \in u.dialogs)
  <2>1. Received(u, c, good) = u
    BY <1>3 DEF Received
  <2> QED BY <2>1
<1> QED BY <1>1, <1>2, <1>3

\* What a step does to the page: a new one starts blank, an execution is asked
\* for, an answer arrives, or the results stay as they are, and are cleared at
\* most.
LEMMA PageSteps ==
  ASSUME Shape, [Next]_vars
  PROVE  /\ \E q : ui' \in Page(q)
         /\ \/ ui' = Blank /\ visit' = visit + 1
            \/ \E d \in ui.dialogs : Submit(d) /\ ui' = Asked(ui, d, submitted')
            \/ \E c \in calls, good \in BOOLEAN :
                 Settle(c, good) /\ c.visit = visit /\ ui' = Received(ui, c, good)
            \/ ui'.asked = ui.asked /\ ui'.result \in {0, ui.result}
<1>0. ui \in Page(ui.picked)
  BY DEF Shape, Page
<1>1. ASSUME NEW r \in Routes, Navigate(r)
      PROVE  (\E q : ui' \in Page(q)) /\ ui' = Blank /\ visit' = visit + 1
  <2>1. Blank \in Page(<<>>)
    BY DEF Blank, Page, Dialogs
  <2> QED BY <1>1, <2>1 DEF Navigate
<1>2. ASSUME NEW d \in ui.dialogs, Submit(d)
      PROVE  (\E q : ui' \in Page(q)) /\ ui' = Asked(ui, d, submitted')
  <2>1. submitted' \in Nat
    BY NextCallTypes
  <2>2. Asked(ui, d, submitted') \in Page(ui.picked)
    BY <1>0, <2>1 DEF Asked, Page
  <2> QED BY <1>2, <2>2 DEF Submit
<1>3. ASSUME NEW c \in calls, NEW good \in BOOLEAN, Settle(c, good)
      PROVE  /\ \E q : ui' \in Page(q)
             /\ \/ c.visit = visit /\ ui' = Received(ui, c, good)
                \/ ui' = ui
  <2>1. c.n \in Nat /\ c.hook \in Hooks
    BY DEF Shape
  <2>2. \E q : Received(ui, c, good) \in Page(q)
    BY <1>0, <2>1, AnswerArrives
  <2> QED BY <1>0, <1>3, <2>2 DEF Settle
<1>4. CASE UNCHANGED ui
  BY <1>0, <1>4
<1>5. ASSUME NEW o \in Openers, OpenDialog(o)
      PROVE  (\E q : ui' \in Page(q)) /\ ui'.asked = ui.asked /\ ui'.result \in {0, ui.result}
  <2>1. PICK d \in DialogsOf(o) :
          ui' = [ui EXCEPT !.dialogs = @ \cup {d}, !.typed = @ \ {d},
                           !.result = IF d = "execute" THEN 0 ELSE @]
    BY <1>5 DEF OpenDialog
  <2>2. d \in Dialogs
    BY DEF DialogsOf, Dialogs
  <2>3. ui' \in Page(ui.picked)
    BY <1>0, <2>1, <2>2 DEF Page
  <2> QED BY <1>0, <2>1, <2>3 DEF Page
<1>6. ASSUME Escape \/ \E d \in ui.dialogs : CloseDialog(d)
      PROVE  (\E q : ui' \in Page(q)) /\ ui'.asked = ui.asked /\ ui'.result = ui.result
  <2>1. PICK D \in SUBSET Dialogs : ui' = Without(ui, D)
    BY <1>0, <1>6 DEF Escape, CloseDialog, Page
  <2> QED BY <1>0, <2>1, DialogCloses
<1>7. ASSUME NEW d \in ui.dialogs, Type(d)
      PROVE  (\E q : ui' \in Page(q)) /\ ui'.asked = ui.asked /\ ui'.result = ui.result
  <2>1. PICK D \in SUBSET Dialogs : ui' = [ui EXCEPT !.typed = D]
    BY <1>0, <1>7 DEF Type, Page
  <2>2. ui' \in Page(ui.picked)
    BY <1>0, <2>1 DEF Page
  <2> QED BY <1>0, <2>1, <2>2 DEF Page
<1>8. ASSUME NEW x \in Item, ToggleAgent(x)
      PROVE  (\E q : ui' \in Page(q)) /\ ui'.asked = ui.asked /\ ui'.result = ui.result
  <2>1. PICK q : ui' = [ui EXCEPT !.picked = q]
    BY <1>8 DEF ToggleAgent
  <2>2. ui' \in Page(q)
    BY <1>0, <2>1 DEF Page
  <2> QED BY <1>0, <2>1, <2>2 DEF Page
<1>9. ASSUME NEW t \in {"local", "network"}, SwitchTab(t)
      PROVE  (\E q : ui' \in Page(q)) /\ ui'.asked = ui.asked /\ ui'.result = ui.result
  <2>1. ui' = [ui EXCEPT !.tab = t]
    BY <1>9 DEF SwitchTab
  <2>2. ui' \in Page(ui.picked)
    BY <1>0, <2>1 DEF Page
  <2> QED BY <1>0, <2>1, <2>2 DEF Page
<1>10. ASSUME NEW x \in Item, SelectWorkflow(x) \/ SelectAgent(x)
       PROVE  (\E q : ui' \in Page(q)) /\ ui'.asked = ui.asked /\ ui'.result = ui.result
  <2>1. ui' = [ui EXCEPT !.selected = x] \/ ui' = [ui EXCEPT !.selected = x, !.opened = None]
    BY <1>10 DEF SelectWorkflow, SelectAgent
  <2>2. ui' \in Page(ui.picked)
    BY <1>0, <2>1 DEF Page
  <2> QED BY <1>0, <2>1, <2>2 DEF Page
<1>11. ASSUME OpenSession
       PROVE  (\E q : ui' \in Page(q)) /\ ui'.asked = ui.asked /\ ui'.result = ui.result
  <2>1. ui' = [ui EXCEPT !.opened = ui.selected]
    BY <1>11 DEF OpenSession
  <2>2. ui' \in Page(ui.picked)
    BY <1>0, <2>1 DEF Page
  <2> QED BY <1>0, <2>1, <2>2 DEF Page
<1>12. CASE ListChanges \/ DetailChanges \/ CancelWorkflow \/ (\E e \in Element : MoveFocus(e))
            \/ (\E t \in toasts : ToastGoes(t)) \/ UNCHANGED vars
  BY <1>4, <1>12 DEF ListChanges, DetailChanges, CancelWorkflow, MoveFocus, ToastGoes, vars
<1> QED BY <1>1, <1>2, <1>3, <1>5, <1>6, <1>7, <1>8, <1>9, <1>10, <1>11, <1>12 DEF Next

\* The types after any step.
LEMMA NextShape ==
  ASSUME Shape, FocusInv, [Next]_vars
  PROVE  Shape'
<1>1. focus' \in Focus
  BY NextFocus
<1>2. PICK q : ui' \in Page(q)
  BY PageSteps
<1>3. ui'.picked = q
  BY <1>2 DEF Page
<1>4. ui' \in Page(ui'.picked)
  BY <1>2, <1>3
<1> QED BY <1>1, <1>4, NextCallTypes DEF Shape, Page

\* The agents picked after any step: none, the same, one more or one less.
LEMMA NextPicks ==
  ASSUME Shape, ui.picked \in Picks, [Next]_vars
  PROVE  ui'.picked \in Picks
<1>0. ui \in Page(ui.picked) /\ <<>> \in Picks
  BY DEF Shape, Page, Picks
<1>1. CASE ui'.picked = ui.picked
  BY <1>1
<1>2. CASE ui' = Blank
  BY <1>0, <1>2 DEF Blank
<1>3. ASSUME NEW D \in SUBSET Dialogs
      PROVE  Without(ui, D).picked \in Picks
  <2>1. \E q \in {ui.picked, <<>>} : Without(ui, D) \in Page(q)
    BY <1>0, DialogCloses
  <2> QED BY <1>0, <2>1 DEF Page
<1>4. ASSUME NEW x \in Item, ToggleAgent(x)
      PROVE  ui'.picked \in Picks
  <2>1. ui'.picked = IF \E i \in DOMAIN ui.picked : ui.picked[i] = x
                     THEN Filtered(ui.picked, x) ELSE Append(ui.picked, x)
    BY <1>0, <1>4 DEF ToggleAgent, Page
  <2> QED BY <2>1, FilteredPicks, AddedPicks
<1>5. ASSUME NEW c \in calls, NEW good \in BOOLEAN, Settle(c, good)
      PROVE  ui'.picked \in Picks
  <2>1. c.n \in Nat /\ c.hook \in Hooks
    BY DEF Shape
  <2>2. \E q \in {ui.picked, <<>>} : Received(ui, c, good) \in Page(q)
    BY <1>0, <2>1, AnswerArrives
  <2>3. Received(ui, c, good).picked \in Picks
    BY <1>0, <2>2 DEF Page
  <2> QED BY <1>5, <2>3 DEF Settle
<1>6. CASE (\E p \in Routes : Navigate(p)) \/ Escape \/ (\E d \in ui.dialogs : CloseDialog(d))
  <2>1. ui.dialogs \in SUBSET Dialogs
    BY <1>0 DEF Page
  <2> QED BY <1>0, <1>2, <1>3, <1>6, <2>1 DEF Navigate, Escape, CloseDialog
<1>7. CASE ListChanges \/ DetailChanges \/ CancelWorkflow \/ (\E e \in Element : MoveFocus(e))
           \/ (\E t \in toasts : ToastGoes(t)) \/ UNCHANGED vars
  BY <1>1, <1>7 DEF ListChanges, DetailChanges, CancelWorkflow, MoveFocus, ToastGoes, vars
<1>8. CASE (\E t \in {"local", "network"} : SwitchTab(t))
           \/ (\E x \in Item : SelectWorkflow(x) \/ SelectAgent(x))
           \/ OpenSession \/ (\E o \in Openers : OpenDialog(o))
           \/ (\E d \in ui.dialogs : Type(d) \/ Submit(d))
  BY <1>0, <1>1, <1>8 DEF SwitchTab, SelectWorkflow, SelectAgent, OpenSession, OpenDialog,
     Type, Submit, Asked, Page
<1> QED BY <1>4, <1>5, <1>6, <1>7, <1>8 DEF Next

\* What is on screen, and the bounds, after any step.
LEMMA NextBounds ==
  ASSUME Shape, BoundInv, ResultInv, [Next]_vars
  PROVE  BoundInv'
<1>s. /\ visit \in Nat \ {0} /\ submitted \in Nat /\ ui \in Page(ui.picked)
      /\ calls \subseteq [n : 1..submitted, hook : Hooks, visit : 1..visit]
      /\ ui.asked \in Nat /\ ui.result \in Nat
  BY DEF Shape, Page
<1>1. ui'.picked \in Picks
  BY NextPicks DEF BoundInv
<1>2. /\ route' \in Routes /\ visit' <= MaxVisits
  <2>1. CASE \E p \in Routes : Navigate(p)
    BY <1>s, <2>1 DEF Navigate, BoundInv
  <2> QED BY <2>1, Visits DEF BoundInv
<1>3. screen' \in Screen
  BY DEF Next, BoundInv, vars, Navigate, ListChanges, DetailChanges, SwitchTab, OpenSession,
     SelectWorkflow, SelectAgent, ToggleAgent, OpenDialog, Escape, CloseDialog, Type, Submit,
     CancelWorkflow, MoveFocus, Settle, ToastGoes
<1>4. detail' \in [of : Item, running : BOOLEAN] \cup {None}
  <2>1. \A x \in Item \cup {None} : Details(x) \subseteq [of : Item, running : BOOLEAN] \cup {None}
    BY DEF Details
  <2>2. DetailKey(ui) \in Item \cup {None} /\ ui.selected \in Item \cup {None}
    BY <1>s DEF DetailKey, Page
  <2>3. CASE detail' = detail \/ detail' = None
    BY <2>3 DEF BoundInv
  <2>4. CASE \E x \in Item \cup {None} : detail' \in Details(x)
    BY <2>1, <2>4
  <2>5. CASE DetailChanges \/ OpenSession
    BY <2>2, <2>4, <2>5 DEF DetailChanges, OpenSession
  <2>6. CASE \E x \in Item : SelectWorkflow(x)
    BY <2>3, <2>4, <2>6 DEF SelectWorkflow
  <2>7. CASE (\E p \in Routes : Navigate(p)) \/ (\E x \in Item : SelectAgent(x))
    BY <2>3, <2>7 DEF Navigate, SelectAgent
  <2>8. CASE ListChanges \/ CancelWorkflow \/ (\E e \in Element : MoveFocus(e)) \/ Escape
             \/ (\E d \in ui.dialogs : Submit(d) \/ CloseDialog(d) \/ Type(d))
             \/ (\E t \in toasts : ToastGoes(t)) \/ UNCHANGED vars
    BY <2>3, <2>8 DEF ListChanges, CancelWorkflow, MoveFocus, Escape, Submit, CloseDialog, Type,
       ToastGoes, vars
  <2>9. CASE (\E t \in {"local", "network"} : SwitchTab(t)) \/ (\E x \in Item : ToggleAgent(x))
             \/ (\E o \in Openers : OpenDialog(o))
             \/ (\E c \in calls, good \in BOOLEAN : Settle(c, good))
    BY <2>3, <2>9 DEF SwitchTab, ToggleAgent, OpenDialog, Settle
  <2> QED BY <2>5, <2>6, <2>7, <2>8, <2>9 DEF Next
<1>5. submitted' \in {submitted, submitted + 1} /\ submitted' <= MaxCalls
  BY <1>s, CallSteps DEF BoundInv, mutations, Sent, Settle, ToastGoes
<1>6. ui'.asked <= submitted' /\ ui'.result <= submitted'
  <2>1. CASE ui' = Blank
    BY <1>s, <1>5, <2>1 DEF Blank
  <2>2. CASE \E d \in ui.dialogs : ui' = Asked(ui, d, submitted')
    BY <1>s, <1>5, <2>2 DEF Asked, BoundInv, Page
  <2>3. ASSUME NEW c \in calls, NEW good \in BOOLEAN, ui' = Received(ui, c, good)
        PROVE  ui'.asked <= submitted' /\ ui'.result <= submitted'
    <3>1. c.n \in 1..submitted /\ c.hook \in Hooks
      BY <1>s
    <3>2. ui'.asked = ui.asked /\ ui'.result \in {ui.result, c.n}
      <4>1. /\ Received(ui, c, good).asked = ui.asked
            /\ c.hook = "execute" => Received(ui, c, good).result = c.n
            /\ c.hook # "execute" => Received(ui, c, good).result = ui.result
        BY <1>s, <3>1, AnswerShows
      <4> QED BY <2>3, <4>1
    <3> QED BY <1>s, <1>5, <3>1, <3>2 DEF BoundInv
  <2>4. CASE ui'.asked = ui.asked /\ ui'.result \in {0, ui.result}
    BY <1>s, <1>5, <2>4 DEF BoundInv
  <2> QED BY <2>1, <2>2, <2>3, <2>4, PageSteps
<1> QED BY <1>1, <1>2, <1>3, <1>4, <1>5, <1>6 DEF BoundInv

\* The result shown after any step.
LEMMA NextResult ==
  ASSUME Shape, ReportInv, ResultInv, [Next]_vars
  PROVE  ResultInv'
<1>s. /\ visit \in Nat \ {0} /\ submitted \in Nat /\ ui \in Page(ui.picked)
      /\ calls \subseteq [n : 1..submitted, hook : Hooks, visit : 1..visit]
  BY DEF Shape, Page
<1>1. CASE ui' = Blank /\ visit' = visit + 1
  <2>1. calls' = calls
    BY <1>s, <1>1, Visits DEF mutations
  <2>2. \A c \in calls' : c.visit # visit'
    BY <1>s, <1>1, <2>1
  <2>3. ui'.result = 0
    BY <1>1 DEF Blank
  <2> QED BY <2>2, <2>3 DEF ResultInv
<1>2. ASSUME NEW d \in ui.dialogs, Submit(d)
      PROVE  ResultInv'
  <2>1. Sent(d) /\ ui' = Asked(ui, d, submitted')
    BY <1>2 DEF Submit
  <2>2. d \in Hooks
    BY <1>s, <1>2 DEF Page, Hooks
  <2>3. PICK c : /\ calls' = calls \cup {c} /\ c.n = submitted'
                 /\ c.hook = d /\ c.visit = visit
    BY <2>1, <2>2, SentCall
  <2>4. visit' = visit
    BY <1>2 DEF Submit, page
  <2>5. CASE d = "execute"
    <3>1. \A e \in calls : e.hook = "execute" => e.visit # visit
      BY <2>1, <2>5 DEF Sent, Pending
    <3>2. ui'.result = 0 /\ ui'.asked = submitted'
      BY <1>s, <2>1, <2>5 DEF Asked, Page
    <3> QED BY <2>3, <2>4, <3>1, <3>2 DEF ResultInv
  <2>6. CASE d # "execute"
    <3>1. ui' = ui
      BY <2>1, <2>6 DEF Asked
    <3> QED BY <2>3, <2>4, <2>6, <3>1 DEF ResultInv
  <2> QED BY <2>5, <2>6
<1>3. ASSUME NEW c \in calls, NEW good \in BOOLEAN, Settle(c, good), c.visit = visit,
             ui' = Received(ui, c, good)
      PROVE  ResultInv'
  <2>1. calls' = calls \ {c} /\ visit' = visit
    BY <1>3 DEF Settle, page
  <2>2. c.n \in Nat /\ c.hook \in Hooks
    BY <1>s
  <2>3. /\ ui'.asked = ui.asked
        /\ c.hook = "execute" => ui'.result = c.n
        /\ c.hook # "execute" => ui'.result = ui.result
    <3>1. /\ Received(ui, c, good).asked = ui.asked
          /\ c.hook = "execute" => Received(ui, c, good).result = c.n
          /\ c.hook # "execute" => Received(ui, c, good).result = ui.result
      BY <1>s, <2>2, AnswerShows
    <3> QED BY <1>3, <3>1
  <2>4. CASE c.hook = "execute"
    <3>1. c.n = ui.asked
      BY <1>3, <2>4 DEF ResultInv
    <3>2. \A d \in calls' : ~(d.hook = "execute" /\ d.visit = visit)
      BY <2>1, <3>1 DEF ResultInv, ReportInv
    <3> QED BY <2>1, <2>3, <2>4, <3>1, <3>2 DEF ResultInv
  <2>5. CASE c.hook # "execute"
    BY <2>1, <2>3, <2>5 DEF ResultInv
  <2> QED BY <2>4, <2>5
<1>4. CASE /\ ui'.asked = ui.asked /\ ui'.result \in {0, ui.result} /\ visit' = visit
           /\ ~\E d \in ui.dialogs : Submit(d)
  <2>1. \A c \in calls' : c.hook = "execute" /\ c.visit = visit =>
          \E d \in calls : d.hook = "execute" /\ d.visit = visit /\ d.n = c.n
    <3>1. CASE CancelWorkflow
      <4>1. Sent("cancel") /\ "cancel" \in Hooks
        BY <3>1 DEF CancelWorkflow, Hooks
      <4>2. PICK c : calls' = calls \cup {c} /\ c.hook = "cancel"
        BY <4>1, SentCall
      <4> QED BY <4>2
    <3>3. CASE calls' \subseteq calls
      BY <3>3
    <3>4. CASE UNCHANGED mutations
      BY <3>3, <3>4 DEF mutations
    <3>5. ASSUME NEW c \in calls, NEW good \in BOOLEAN, Settle(c, good)
          PROVE  calls' \subseteq calls
      BY <3>5 DEF Settle
    <3>6. CASE \E t \in toasts : ToastGoes(t)
      BY <3>3, <3>6 DEF ToastGoes
    <3> QED BY <1>4, <3>1, <3>3, <3>4, <3>5, <3>6, CallSteps
  <2> QED BY <1>4, <2>1 DEF ResultInv
<1>5. visit' = visit \/ (ui' = Blank /\ visit' = visit + 1)
  BY Visits
<1> QED BY <1>1, <1>2, <1>3, <1>4, <1>5, PageSteps

\* The detail and the selection after any step.
LEMMA NextSelection ==
  ASSUME Shape, SelectionInv, [Next]_vars
  PROVE  SelectionInv'
<1>s. ui \in Page(ui.picked)
  BY DEF Shape, Page
<1> USE DEF DetailIsOfSelection
<1>1. CASE ui'.selected = ui.selected /\ ui'.opened = ui.opened /\ detail' = detail /\ route' = route
  BY <1>1 DEF SelectionInv
<1>2. ASSUME NEW r \in Routes, Navigate(r)
      PROVE  SelectionInv'
  BY <1>2 DEF Navigate, Blank, SelectionInv
<1>3. CASE DetailChanges
  <2>1. /\ detail' \in Details(DetailKey(ui)) \ {None} /\ DetailKey(ui) # None
        /\ ui' = ui /\ route' = route
    BY <1>3 DEF DetailChanges, page
  <2>2. detail'.of = DetailKey(ui)
    BY <2>1 DEF Details
  <2>3. DetailKey(ui) = ui.selected
    BY <2>1 DEF DetailKey, SelectionInv
  <2> QED BY <2>1, <2>2, <2>3 DEF SelectionInv
<1>4. ASSUME NEW x \in Item, SelectWorkflow(x)
      PROVE  SelectionInv'
  <2>1. /\ ui'.selected = x /\ ui'.opened = ui.opened /\ route' = route /\ route # "/sessions"
        /\ detail' \in IF x = ui.selected THEN {detail} ELSE Details(x)
    BY <1>s, <1>4 DEF SelectWorkflow, Page, page
  <2> QED BY <2>1 DEF Details, SelectionInv
<1>5. ASSUME NEW x \in Item, SelectAgent(x)
      PROVE  SelectionInv'
  <2>1. ui'.opened = None /\ detail' = None
    BY <1>s, <1>5 DEF SelectAgent, Page
  <2> QED BY <2>1 DEF SelectionInv
<1>6. CASE OpenSession
  <2>1. /\ ui'.opened = ui.selected /\ ui'.selected = ui.selected
        /\ route = "/sessions" /\ route' = route /\ detail' \in Details(ui.selected)
    BY <1>s, <1>6 DEF OpenSession, Page, page
  <2> QED BY <2>1 DEF Details, SelectionInv
<1>7. CASE ListChanges \/ CancelWorkflow \/ (\E e \in Element : MoveFocus(e))
           \/ (\E t \in toasts : ToastGoes(t)) \/ UNCHANGED vars
  BY <1>1, <1>7 DEF ListChanges, CancelWorkflow, MoveFocus, ToastGoes, vars, page
<1>8. CASE (\E t \in {"local", "network"} : SwitchTab(t)) \/ (\E x \in Item : ToggleAgent(x))
           \/ (\E o \in Openers : OpenDialog(o)) \/ (\E d \in ui.dialogs : Type(d))
  BY <1>s, <1>1, <1>8 DEF SwitchTab, ToggleAgent, OpenDialog, Type, Page, page
<1>9. CASE Escape \/ \E d \in ui.dialogs : CloseDialog(d)
  <2>1. PICK D \in SUBSET Dialogs : ui' = Without(ui, D)
    BY <1>s, <1>9 DEF Escape, CloseDialog, Page
  <2>2. ui'.selected = ui.selected /\ ui'.opened = ui.opened
    BY <1>s, <2>1, DialogCloses
  <2> QED BY <1>1, <1>9, <2>2 DEF Escape, CloseDialog, page
<1>10. CASE \E d \in ui.dialogs : Submit(d)
  BY <1>s, <1>1, <1>10 DEF Submit, Asked, Page, page
<1>11. ASSUME NEW c \in calls, NEW good \in BOOLEAN, Settle(c, good)
       PROVE  SelectionInv'
  <2>1. c.n \in Nat /\ c.hook \in Hooks
    BY DEF Shape
  <2>2. ui'.selected = ui.selected /\ ui'.opened = ui.opened
    <3>1. /\ Received(ui, c, good).selected = ui.selected
          /\ Received(ui, c, good).opened = ui.opened
      BY <1>s, <2>1, AnswerShows
    <3> QED BY <1>11, <3>1 DEF Settle
  <2> QED BY <1>1, <1>11, <2>2 DEF Settle, page
<1> QED BY <1>2, <1>3, <1>4, <1>5, <1>6, <1>7, <1>8, <1>9, <1>10, <1>11 DEF Next

-----------------------------------------------------------------------------
(* Theorems *)

\* The invariant holds at the start.
LEMMA InitIInv ==
  ASSUME Init
  PROVE  IInv
<1>1. Shape
  BY DEF Init, Shape, Blank, Nowhere, Focus, Element, Openers
<1>2. ReportInv
  BY FS_EmptySet DEF Init, ReportInv, CallsAreReported
<1>3. ResultInv /\ SelectionInv /\ FocusInv
  BY DEF Init, ResultInv, SelectionInv, DetailIsOfSelection, FocusInv, Blank, Nowhere
<1>4. BoundInv
  BY DEF Init, BoundInv, Blank, Routes, Screen, Result, Picks
<1> QED BY <1>1, <1>2, <1>3, <1>4 DEF IInv

\* The invariant is kept by every step.
LEMMA NextIInv ==
  ASSUME IInv, [Next]_vars
  PROVE  IInv'
BY NextShape, NextReports, NextResult, NextSelection, NextFocus, NextBounds DEF IInv

\* The invariant holds in every state of every visit to the dashboard.
THEOREM PagesInvariant == Spec => []IInv
BY InitIInv, NextIInv, PTL DEF Spec

\* Every variable keeps its range; in particular the agents picked for a workflow
\* stay distinct, however often one is taken back and picked again
\* (Workflows.tsx 174-178).
THEOREM PagesTypes == Spec => []TypeOK
<1>1. ASSUME IInv PROVE TypeOK
  <2>1. /\ visit \in Nat \ {0} /\ submitted \in Nat /\ reported \in Nat
        /\ calls \subseteq [n : 1..submitted, hook : Hooks, visit : 1..visit]
        /\ toasts \subseteq [n : 1..submitted, good : BOOLEAN]
        /\ ui \in Page(ui.picked) /\ focus \in Focus
    BY <1>1 DEF IInv, Shape, Page
  <2>2. visit <= MaxVisits /\ submitted <= MaxCalls
    BY <1>1 DEF IInv, BoundInv
  <2>3. 1..submitted \subseteq 1..MaxCalls /\ 1..visit \subseteq 1..MaxVisits
    BY <2>1, <2>2
  <2>4. reported <= MaxCalls
    <3>1. Cardinality(calls) \in Nat /\ submitted = Cardinality(calls) + reported
      BY <1>1, FS_CardinalityType DEF IInv, ReportInv, CallsAreReported
    <3> QED BY <2>1, <2>2, <3>1
  <2>5. /\ ui.asked \in 0..MaxCalls /\ ui.result \in 0..MaxCalls /\ ui.picked \in Picks
    BY <1>1, <2>1, <2>2 DEF IInv, BoundInv, Page
  <2>6. ui \in [dialogs : SUBSET Dialogs, tab : {"local", "network"},
                typed : SUBSET Dialogs, picked : Picks, result : 0..MaxCalls,
                asked : 0..MaxCalls, selected : Item \cup {None},
                opened : Item \cup {None}]
    BY <2>1, <2>5 DEF Page
  <2>7. /\ calls \subseteq [n : 1..MaxCalls, hook : Hooks, visit : 1..MaxVisits]
        /\ toasts \subseteq [n : 1..MaxCalls, good : BOOLEAN]
    BY <2>1, <2>3
  <2> QED BY <1>1, <2>1, <2>2, <2>4, <2>6, <2>7 DEF IInv, BoundInv, TypeOK
<1> QED BY <1>1, PagesInvariant, PTL

\* Every call that is settled is reported, once, for any number of pages and calls
\* (useApi.ts 69-141).
THEOREM EveryCallIsReported == Spec => []CallsAreReported
<1>1. IInv => CallsAreReported
  BY DEF IInv, ReportInv
<1> QED BY <1>1, PagesInvariant, PTL

\* The result of an execution on screen is the last one's (Agents.tsx 27-37).
THEOREM ResultsAreCurrent == Spec => []ResultIsOfLastCall
<1>1. IInv => ResultIsOfLastCall
  BY DEF IInv, ResultInv, ResultIsOfLastCall, Pending
<1> QED BY <1>1, PagesInvariant, PTL

\* The detail on screen is that of the item selected (Sessions.tsx 13-55).
THEOREM DetailsMatch == Spec => []DetailIsOfSelection
<1>1. IInv => DetailIsOfSelection
  BY DEF IInv, SelectionInv
<1> QED BY <1>1, PagesInvariant, PTL

-----------------------------------------------------------------------------
(* How a dialog closes *)

\* A form is closed by its user or by its own success, never by a failure or the
\* answer to another call, which leave it complete or not, as it was (Agents.tsx
\* 24, Orders.tsx 79, Workflows.tsx 154).
THEOREM FormsStay == Spec => FormsSurviveFailure
<1>1. ASSUME IInv, [Next]_vars, visit' = visit, calls' # calls, NEW d \in ui.dialogs
      PROVE  \/ d \in ui'.dialogs /\ (FormComplete(d)' <=> FormComplete(d))
             \/ \E c \in calls \ calls' :
                  /\ c.visit = visit /\ c.hook = d
                  /\ [n |-> c.n, good |-> TRUE] \in toasts' \ toasts
  <2>1. ui \in Page(ui.picked)
    BY <1>1 DEF IInv, Shape, Page
  <2>2. CASE ui'.dialogs = ui.dialogs /\ ui'.typed = ui.typed /\ ui'.picked = ui.picked
    BY <2>2 DEF FormComplete
  <2>3. CASE CancelWorkflow \/ \E e \in ui.dialogs : Submit(e)
    BY <2>1, <2>2, <2>3 DEF CancelWorkflow, Submit, Asked, Page
  <2>4. ASSUME NEW c \in calls, NEW good \in BOOLEAN, Settle(c, good)
        PROVE  \/ d \in ui'.dialogs /\ (FormComplete(d)' <=> FormComplete(d))
               \/ \E b \in calls \ calls' :
                    /\ b.visit = visit /\ b.hook = d
                    /\ [n |-> b.n, good |-> TRUE] \in toasts' \ toasts
    <3>1. c.n \in Nat /\ c.hook \in Hooks
      BY <1>1 DEF IInv, Shape
    <3>2. \/ ui'.dialogs = ui.dialogs /\ ui'.typed = ui.typed /\ ui'.picked = ui.picked
          \/ /\ good /\ c.visit = visit /\ c.hook \in ui.dialogs
             /\ ui' = Without(ui, {c.hook})
      <4>1. \/ /\ Received(ui, c, good).dialogs = ui.dialogs
               /\ Received(ui, c, good).typed = ui.typed
               /\ Received(ui, c, good).picked = ui.picked
            \/ /\ good /\ c.hook \in ui.dialogs
               /\ Received(ui, c, good) = Without(ui, {c.hook})
        BY <2>1, <3>1, AnswerArrives
      <4> QED BY <2>4, <4>1 DEF Settle
    <3>3. CASE good /\ c.visit = visit /\ c.hook = d
      <4>1. c \in calls \ calls' /\ [n |-> c.n, good |-> TRUE] \in toasts'
        BY <2>4, <3>3 DEF Settle, Toasted
      <4>2. [n |-> c.n, good |-> TRUE] \notin toasts
        BY <1>1 DEF IInv, ReportInv
      <4> QED BY <3>3, <4>1, <4>2
    <3>4. CASE c.hook \in ui.dialogs /\ c.hook # d /\ ui' = Without(ui, {c.hook})
      <4>1. {c.hook} \in SUBSET Dialogs
        BY <2>1, <3>4 DEF Page
      <4>2. /\ ui'.dialogs = ui.dialogs \ {c.hook} /\ ui'.typed = ui.typed \ {c.hook}
            /\ d = "workflow" => ui'.picked = ui.picked
        BY <2>1, <3>4, <4>1, DialogCloses
      <4> QED BY <3>4, <4>2 DEF FormComplete
    <3> QED BY <2>2, <3>2, <3>3, <3>4
  <2>5. ~UNCHANGED mutations /\ ~\E t \in toasts : ToastGoes(t)
    BY <1>1 DEF mutations, ToastGoes
  <2> QED BY <1>1, <2>3, <2>4, <2>5, CallSteps DEF IInv
<1>2. IInv /\ [Next]_vars =>
        [(visit' = visit /\ calls' # calls) =>
           \A d \in ui.dialogs :
             \/ d \in ui'.dialogs /\ (FormComplete(d)' <=> FormComplete(d))
             \/ \E c \in calls \ calls' :
                  /\ c.visit = visit /\ c.hook = d
                  /\ [n |-> c.n, good |-> TRUE] \in toasts' \ toasts]_vars
  BY <1>1
<1> QED BY <1>2, PagesInvariant, PTL DEF Spec, FormsSurviveFailure

\* The page is rendered again by every step that closes the last dialog.
LEMMA LastDialogCloses ==
  ASSUME Shape, [Next]_vars, visit' = visit, ui.dialogs # {}, ui'.dialogs = {}
  PROVE  \E e \in Element : Rendered(At(focus, e), Outside)
<1>s. ui \in Page(ui.picked) /\ visit \in Nat /\ Dialogs \subseteq Element
  BY DEF Shape, Page, Element
<1>f. focus.at \in Element /\ At(focus, focus.at) = focus
  BY DEF Shape, Focus, At
<1>1. CASE Escape \/ \E c \in calls, good \in BOOLEAN : Settle(c, good)
  BY <1>f, <1>1 DEF Escape, Settle
<1>2. CASE \E d \in ui.dialogs : CloseDialog(d)
  BY <1>s, <1>2 DEF CloseDialog, Page
<1>3. ~(\E r \in Routes : Navigate(r))
  BY <1>s DEF Navigate
<1>4. ui' # ui
  OBVIOUS
<1>5. ~(ListChanges \/ DetailChanges \/ CancelWorkflow \/ (\E e \in Element : MoveFocus(e))
        \/ (\E t \in toasts : ToastGoes(t)) \/ UNCHANGED vars)
  BY <1>4 DEF ListChanges, DetailChanges, CancelWorkflow, MoveFocus, ToastGoes, vars
<1>6. ~((\E t \in {"local", "network"} : SwitchTab(t)) \/ (\E x \in Item : SelectWorkflow(x)))
  BY <1>s DEF SwitchTab, SelectWorkflow, Page
<1>9. ASSUME NEW o \in Openers, OpenDialog(o)
      PROVE  FALSE
  <2>1. PICK d \in DialogsOf(o) :
          ui' = [ui EXCEPT !.dialogs = @ \cup {d}, !.typed = @ \ {d},
                           !.result = IF d = "execute" THEN 0 ELSE @]
    BY <1>9 DEF OpenDialog
  <2>2. d \in ui'.dialogs
    BY <1>s, <2>1 DEF Page
  <2> QED BY <2>2
<1>7. ~((\E d \in ui.dialogs : Type(d)) \/ (\E x \in Item : ToggleAgent(x) \/ SelectAgent(x))
        \/ OpenSession)
  BY <1>s DEF Type, ToggleAgent, SelectAgent, OpenSession, Page
<1>8. ~\E d \in ui.dialogs : Submit(d)
  BY <1>s DEF Submit, Asked, Page
<1> QED BY <1>1, <1>2, <1>3, <1>5, <1>6, <1>7, <1>8, <1>9 DEF Next

\* The focus returns to the button that opened the only dialog, if it is still
\* there, wherever the focus has been meanwhile (Modal.tsx 16-58).
THEOREM FocusComesBack == Spec => FocusReturns
<1>1. ASSUME IInv, [Next]_vars, visit' = visit, ui.dialogs # {}, ui'.dialogs = {},
             focus.opener # "none"
      PROVE  focus'.at = focus.opener
  <2>1. PICK d \in Dialogs : ui.dialogs = {d} /\ focus.previous[d] = focus.opener
    BY <1>1 DEF IInv, FocusInv
  <2>2. PICK e \in Element : Rendered(At(focus, e), Outside)
    BY <1>1, LastDialogCloses DEF IInv
  <2> DEFINE f == At(focus, e)
             g == Kept(f, Outside)
  <2>3. f \in Focus /\ f.previous = focus.previous
    BY <1>1, MovedFocus DEF IInv, Shape
  <2>4. focus.opener \in Outside
    BY <1>1 DEF IInv, Shape, Focus, Outside
  <2> HIDE DEF f
  <2>5. g \in Focus /\ g.previous[d] = focus.opener
    BY <2>1, <2>3, <2>4, KeptFocus
  <2>6. focus' = Done(Undone(g, {d}), {})
    <3>1. Outside \cup {} = Outside
      OBVIOUS
    <3> QED BY <1>1, <2>1, <2>2, <3>1 DEF Rendered, Repeated, f
  <2> HIDE DEF g
  <2>7. Undone(g, {d}) \in Focus /\ Undone(g, {d}).at = focus.opener
    BY <1>1, <2>5, UndoneFocus
  <2> QED BY <2>6, <2>7, DoneFocus
<1>2. IInv /\ [Next]_vars =>
        [(visit' = visit /\ ui.dialogs # {} /\ ui'.dialogs = {} /\ focus.opener # "none")
           => focus'.at = focus.opener]_vars
  BY <1>1
<1> QED BY <1>2, PagesInvariant, PTL DEF Spec, FocusReturns
=============================================================================
