-------------------------------- MODULE Modal --------------------------------
(***************************************************************************)
(* Where the keyboard focus is around the dialogs of                       *)
(* web/src/components/Modal.tsx.  A dialog's effect depends on onClose,    *)
(* which every page writes inline, so React undoes and repeats the effects *)
(* of all open dialogs whenever their page renders again.                  *)
(*                                                                         *)
(* A focus is a record: the focused element, what each dialog remembers in *)
(* its previousFocusRef, and the button that opened the only dialog there  *)
(* is (history; "none" once two have been open together).  An element is a *)
(* button that opens a dialog, something in a dialog, named as the dialog, *)
(* something else on the page, or "none": the body, or what has left the   *)
(* page, which cannot be focused.                                          *)
(***************************************************************************)

Dialogs == {"register", "execute", "order", "workflow"}
Openers == {"header", "empty", "card"}
Outside == Openers \cup {"other"}
Element == Dialogs \cup Outside \cup {"none"}

Focus == [at : Element, previous : [Dialogs -> Element], opener : Openers \cup {"none"}]

Nowhere == [at |-> "none", previous |-> [d \in Dialogs |-> "none"], opener |-> "none"]

\* the focus moves to e: a click, Tab, Shift+Tab, which leaves a dialog from its panel
At(f, e) == [f EXCEPT !.at = e]

\* button o is pressed while the dialogs D are open, which opens the dialog d
Pressed(f, o, D, d) ==
  [f EXCEPT !.at = o,
            !.opener = IF D = {} THEN o ELSE IF d \in D THEN @ ELSE "none"]

\* what is left when only the elements of E are still on the page
Kept(f, E) ==
  LET Alive(e) == IF e \in E THEN e ELSE "none"
  IN [at |-> Alive(f.at), previous |-> [d \in Dialogs |-> Alive(f.previous[d])],
      opener |-> Alive(f.opener)]

\* the order of the dialogs on the one page that has two
Before(d, e) == d = "register" /\ e = "execute"
FirstOf(D) == CHOOSE d \in D : \A e \in D : ~Before(e, d)
LastOf(D) == CHOOSE d \in D : \A e \in D : ~Before(d, e)

\* the effects of the dialogs D are undone in that order: each focuses the
\* element it remembers, if it can
Undone(f, D) ==
  LET able == {d \in D : f.previous[d] # "none"}
  IN IF able = {} THEN f ELSE At(f, f.previous[LastOf(able)])

\* and done: each remembers the focused element and moves on to its dialog
Done(f, D) ==
  [at |-> IF D = {} THEN f.at ELSE LastOf(D),
   previous |-> [d \in Dialogs |-> IF d \notin D THEN "none"
                                   ELSE IF d = FirstOf(D) THEN f.at ELSE FirstOf(D)],
   opener |-> IF D = {} THEN "none" ELSE f.opener]

\* mutant: the elements are remembered before the old effects are undone
SavedTooEarly(f, D, E) == IF E = {} THEN Done(Undone(f, D), E) ELSE Done(f, E)

\* the page had the dialogs D and is rendered with the dialogs E: all effects
\* are undone, then those of E are done
Repeated(f, D, E) == Done(Undone(f, D), E)
=============================================================================
