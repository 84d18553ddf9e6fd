------------------------------- MODULE Orders -------------------------------
(***************************************************************************)
(* One order in the books of its buyer and its seller: OrderService of     *)
(* internal/marketplace/order.go.  Each node keeps an object for the order *)
(* under a lock.  A local call changes the object in place and reads it    *)
(* again, without the lock, for the message it sends; a message replaces   *)
(* the object.  Calls at both nodes overlap as they will, and messages and *)
(* their answers may be lost.                                              *)
(***************************************************************************)
EXTENDS Naturals, FiniteSets

CONSTANTS
  Update,   \* the calls of AcceptOrder, CompleteOrder and CancelOrder
  Create,   \* the call of CreateOrder
  Waiter,   \* the calls of WaitForOrder, all at the seller
  None      \* no order, no waiter

Node == {"buyer", "seller"}
Other(n) == IF n = "buyer" THEN "seller" ELSE "buyer"
Status == {"pending", "accepted", "completed", "cancelled"}
Call == Update \cup {Create}

\* a call that holds the object of its book, whatever its status becomes
Current == "current"

ASSUME OrdersAssumption ==
  Create \notin Update /\ None \notin Status \cup Waiter \cup {Current}

VARIABLES
  status,     \* the order in the book of each node
  stage,      \* where each call stands
  node,       \* the node it was made at
  sets,       \* the status it sets
  object,     \* the object it holds: the book's, or one replaced since
  sent,       \* the status in its message, or in the answer to it
  channel,    \* the waiter whose channel is in the seller's pending map
  waiter,     \* where each waiter stands
  reached,    \* the statuses each book has had (history)
  blurred,    \* the calls whose object another one changed (history)
  displaced,  \* the waiters that were not alone (history)
  quiet       \* no two calls have overlapped, and none has failed (history)

calls == <<stage, node, sets, object, sent>>
waiters == <<channel, waiter, displaced>>
history == <<reached, blurred, quiet>>
vars == <<status, calls, waiters, history>>

TypeOK ==
  /\ status \in [Node -> Status \cup {None}]
  /\ stage \in [Call -> {"idle", "updated", "sent", "handled", "answered", "ok", "failed"}]
  /\ node \in [Call -> Node]
  /\ sets \in [Call -> Status]
  /\ object \in [Call -> Status \cup {Current, None}]
  /\ sent \in [Call -> Status \cup {None}]
  /\ channel \in Waiter \cup {None}
  /\ waiter \in [Waiter -> {"idle", "waiting", "woken", "leaving", "gone"}]
  /\ reached \in [Node -> SUBSET Status]
  /\ blurred \subseteq Call /\ displaced \subseteq Waiter
  /\ quiet \in BOOLEAN

Init ==
  /\ status = [n \in Node |-> None]
  /\ stage = [c \in Call |-> "idle"]
  /\ node = [c \in Call |-> "buyer"] /\ sets = [c \in Call |-> "pending"]
  /\ object = [c \in Call |-> None] /\ sent = [c \in Call |-> None]
  /\ channel = None /\ waiter = [w \in Waiter |-> "idle"]
  /\ reached = [n \in Node |-> {}] /\ blurred = {} /\ displaced = {}
  /\ quiet = TRUE

Active(c) == stage[c] \in {"updated", "sent", "handled", "answered"}
Goes(c, place) == stage' = [stage EXCEPT ![c] = place]

\* a call begins: it is not quiet any more when another one is under way
Begins(c, n, s, place) ==
  /\ stage[c] = "idle"
  /\ Goes(c, place)
  /\ node' = [node EXCEPT ![c] = n] /\ sets' = [sets EXCEPT ![c] = s]
  /\ quiet' = (quiet /\ ~\E d \in Call : Active(d))

\* the book whose object a call holds
BookOf(c) == IF stage[c] = "updated" THEN node[c] ELSE Other(node[c])
Holds(c, n) == object[c] = Current /\ BookOf(c) = n
Seen(c) == IF object[c] = Current THEN status[BookOf(c)] ELSE object[c]

Becomes(n, s) ==
  /\ status' = [status EXCEPT ![n] = s]
  /\ reached' = [reached EXCEPT ![n] = @ \cup {s}]

\* the object of a book is replaced: who holds the old one keeps its status
Left(n) == [c \in Call |-> IF Holds(c, n) THEN status[n] ELSE object[c]]

-----------------------------------------------------------------------------
(* Calls at a node *)

\* CreateOrder: an order of one's own agent, or of an agent nobody sells, stays
\* in the buyer's book; any other is sent to its seller
CreateOrder ==
  /\ \/ Begins(Create, "buyer", "pending", "ok") /\ UNCHANGED sent
     \/ /\ Begins(Create, "buyer", "pending", "sent")
        /\ sent' = [sent EXCEPT ![Create] = "pending"]
  /\ Becomes("buyer", "pending")
  /\ UNCHANGED <<object, waiters, blurred>>

\* mutant: an order that is not in the book is no error
UpdatesUnknown(c, n, s) ==
  /\ Begins(c, n, s, "updated")
  /\ IF status[n] = None THEN UNCHANGED <<status, reached>> ELSE Becomes(n, s)
  /\ object' = [object EXCEPT ![c] = IF status[n] = None THEN None ELSE Current]
  /\ blurred' = blurred \cup {d \in Call : stage[d] = "updated" /\ Holds(d, n)}
  /\ UNCHANGED <<sent, waiters>>

\* updateOrderStatus: the object of the book is changed, and kept
UpdateStatus(c, n, s) ==
  /\ status[n] # None
  /\ Begins(c, n, s, "updated")
  /\ Becomes(n, s)
  /\ object' = [object EXCEPT ![c] = Current]
  /\ blurred' = blurred \cup {d \in Call : stage[d] = "updated" /\ Holds(d, n)}
  /\ UNCHANGED <<sent, waiters>>

\* the order has a counterparty unless it is the buyer's own
OwnOrder == stage[Create] = "ok" /\ sent[Create] = None

\* notifyCounterparty: the object is read without the lock
Notify(c) ==
  /\ stage[c] = "updated"
  /\ IF OwnOrder
     THEN Goes(c, "ok") /\ UNCHANGED sent
     ELSE Goes(c, "sent") /\ sent' = [sent EXCEPT ![c] = Seen(c)]
  /\ object' = [object EXCEPT ![c] = None]
  /\ UNCHANGED <<status, node, sets, waiters, history>>

\* mutant: a message that was not delivered is no error
FailsQuietly(c) ==
  /\ stage[c] \in {"sent", "handled", "answered"}
  /\ Goes(c, "ok") /\ quiet' = FALSE
  /\ object' = [object EXCEPT ![c] = None]
  /\ UNCHANGED <<status, node, sets, sent, waiters, reached, blurred>>

\* the counterparty is not reached, or its answer is lost: the call returns an
\* error, and what it has stored stays
Fail(c) ==
  /\ stage[c] \in {"sent", "handled", "answered"}
  /\ Goes(c, "failed") /\ quiet' = FALSE
  /\ object' = [object EXCEPT ![c] = None]
  /\ UNCHANGED <<status, node, sets, sent, waiters, reached, blurred>>

\* the answer is there; CreateOrder puts the order in it into the book
Return(c) ==
  /\ stage[c] = "answered"
  /\ Goes(c, "ok")
  /\ IF c = Create
     THEN Becomes("buyer", sent[c]) /\ object' = Left("buyer")
     ELSE UNCHANGED <<status, reached, object>>
  /\ UNCHANGED <<node, sets, sent, waiters, blurred, quiet>>

-----------------------------------------------------------------------------
(* Messages *)

\* mutant: a message is put into the book when the order is known
ChangesKnown(c) ==
  LET n == Other(node[c]) IN
  /\ stage[c] = "sent" /\ Goes(c, "handled")
  /\ IF c = Create \/ status[n] = "pending"
     THEN Becomes(n, sent[c]) ELSE UNCHANGED <<status, reached>>
  /\ object' = [Left(n) EXCEPT ![c] = Current]
  /\ waiter' = [w \in Waiter |->
       IF n = "seller" /\ w = channel /\ waiter[w] = "waiting" THEN "woken" ELSE waiter[w]]
  /\ UNCHANGED <<node, sets, sent, channel, displaced, blurred, quiet>>

\* handleRemoteOrderMutation: the order of the message replaces the book's,
\* whatever its status, and wakes who waits for it
Handle(c) ==
  LET n == Other(node[c]) IN
  /\ stage[c] = "sent" /\ Goes(c, "handled")
  /\ Becomes(n, sent[c])
  /\ object' = [Left(n) EXCEPT ![c] = Current]
  /\ waiter' = [w \in Waiter |->
       IF n = "seller" /\ w = channel /\ waiter[w] = "waiting" THEN "woken" ELSE waiter[w]]
  /\ UNCHANGED <<node, sets, sent, channel, displaced, blurred, quiet>>

\* the answer is encoded from the object, without the lock
Answer(c) ==
  /\ stage[c] = "handled" /\ Goes(c, "answered")
  /\ sent' = [sent EXCEPT ![c] = Seen(c)]
  /\ object' = [object EXCEPT ![c] = None]
  /\ UNCHANGED <<status, node, sets, waiters, history>>

-----------------------------------------------------------------------------
(* WaitForOrder *)

Waits(w) == waiter[w] \in {"waiting", "woken", "leaving"}

\* mutant: the book is not looked at under the lock of the pending map
RegistersUnseen(w) ==
  /\ channel' = w
  /\ waiter' = [waiter EXCEPT ![w] = "waiting"]
  /\ displaced' = displaced \cup {v \in Waiter : Waits(v) \/ (v = w /\ \E u \in Waiter : Waits(u))}

\* the order is in the book, or the waiter's channel takes the place of any other
Register(w) ==
  IF status["seller"] # None
  THEN waiter' = [waiter EXCEPT ![w] = "gone"] /\ UNCHANGED <<channel, displaced>>
  ELSE /\ channel' = w
       /\ waiter' = [waiter EXCEPT ![w] = "waiting"]
       /\ displaced' = displaced \cup
            {v \in Waiter : Waits(v) \/ (v = w /\ \E u \in Waiter : Waits(u))}

WaitForOrder(w) ==
  /\ waiter[w] = "idle"
  /\ Register(w)
  /\ UNCHANGED <<status, calls, history>>

\* the channel has the order, the time is up, or the caller has given up
Stop(w) ==
  /\ waiter[w] \in {"waiting", "woken"}
  /\ waiter' = [waiter EXCEPT ![w] = "leaving"]
  /\ UNCHANGED <<status, calls, channel, displaced, history>>

\* whosever channel it is, it is taken out of the pending map
Unregister(w) ==
  /\ waiter[w] = "leaving"
  /\ waiter' = [waiter EXCEPT ![w] = "gone"]
  /\ channel' = None
  /\ UNCHANGED <<status, calls, displaced, history>>

-----------------------------------------------------------------------------
Next ==
  \/ CreateOrder
  \/ \E c \in Update, n \in Node, s \in Status \ {"pending"} : UpdateStatus(c, n, s)
  \/ \E c \in Call : Notify(c) \/ Handle(c) \/ Answer(c) \/ Return(c) \/ Fail(c)
  \/ \E w \in Waiter : WaitForOrder(w) \/ Stop(w) \/ Unregister(w)

Spec == Init /\ [][Next]_vars

-----------------------------------------------------------------------------
(* Properties *)

\* As long as no two calls overlap and none fails, the books agree whenever no
\* call is under way.  Nothing but the messages of the calls keeps them together,
\* and a message carries the status the object happens to have; calls that cross
\* leave the books apart for good (order.go 128-155, 211-256).
QuietBooksAgree ==
  quiet /\ status["seller"] # None /\ (\A c \in Call : ~Active(c)) =>
    status["buyer"] = status["seller"]

\* A call that returned no error has changed the book of the counterparty, too:
\* the status it set was there, unless another call at its node changed the
\* object before it was read for the message (order.go 101-126, 148).
SuccessMeansDelivered ==
  \A c \in Call : stage[c] = "ok" /\ ~OwnOrder /\ c \notin blurred =>
    sets[c] \in reached[Other(node[c])]

\* Who waits for the order alone is woken by its arrival, at whatever moment it
\* arrives; a second waiter takes the place of the first, and the first one's
\* leaving takes the second's away (order.go 303-332).
NoLostWakeup ==
  \A w \in Waiter : waiter[w] = "waiting" /\ status["seller"] # None => w \in displaced

\* A book never says what nobody did: every status it has had, through whatever
\* messages, late answers and objects that changed under their readers, is one
\* that a call set at one of the nodes (order.go 45-156, 211-256).
SetByCall(s) == \E c \in Call : stage[c] # "idle" /\ sets[c] = s
NothingMadeUp == \A n \in Node : \A s \in reached[n] \cup {status[n]} : s # None => SetByCall(s)
=============================================================================
