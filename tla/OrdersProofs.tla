---------------------------- MODULE OrdersProofs ----------------------------
(***************************************************************************)
(* The inductive invariant of Orders, for any number of calls and waiters. *)
(***************************************************************************)
EXTENDS Orders, TLAPS

\* a call holds an object, and has a status to send
CallInv(c) ==
  /\ stage[c] \in {"updated", "handled"} =>
       object[c] # None /\ (object[c] = Current => status[BookOf(c)] # None)
  /\ stage[c] \notin {"updated", "handled"} => object[c] = None
  /\ stage[c] \in {"sent", "handled", "answered"} => sent[c] # None
  /\ stage[c] = "idle" => sent[c] = None
  /\ stage[c] # "idle" => stage[Create] # "idle"

\* what a call that nobody has blurred has brought about
DeliveryInv(c) ==
  c \notin blurred =>
    /\ stage[c] = "updated" => Seen(c) = sets[c]
    /\ stage[c] = "sent" => sent[c] = sets[c]
    /\ stage[c] \in {"handled", "answered"} => sets[c] \in reached[Other(node[c])]
    /\ stage[c] = "ok" => OwnOrder \/ sets[c] \in reached[Other(node[c])]

\* an order of the buyer's own is in its book only
OwnInv ==
  /\ stage[Create] = "idle" => \A n \in Node : status[n] = None
  /\ OwnOrder => /\ status["seller"] = None
                 /\ \A c \in Call : stage[c] \notin {"sent", "handled", "answered"}

\* one call at a time: what it does to the books in each of its steps
QuietInv ==
  quiet =>
    /\ \A c, d \in Call : Active(c) /\ Active(d) => c = d
    /\ \A c \in Call :
         /\ stage[c] = "updated" => object[c] = Current
         /\ stage[c] = "sent" => sent[c] = status[node[c]]
         /\ stage[c] = "handled" => object[c] = Current
         /\ stage[c] = "answered" => sent[c] = status["seller"]
         /\ stage[c] \in {"handled", "answered"} => status["buyer"] = status["seller"]
    /\ status["seller"] # None /\ (\A c \in Call : ~Active(c)) =>
         status["buyer"] = status["seller"]

WaiterInv ==
  \A w \in Waiter : w \notin displaced =>
    /\ waiter[w] = "waiting" => channel = w /\ status["seller"] = None
    /\ Waits(w) => \A v \in Waiter : Waits(v) => v = w

IInv ==
  /\ TypeOK
  /\ \A c \in Call : CallInv(c) /\ DeliveryInv(c)
  /\ OwnInv /\ QuietInv /\ WaiterInv

-----------------------------------------------------------------------------
USE OrdersAssumption DEF Node, Other

\* The object a call holds has a status.
LEMMA SeenStatus ==
  ASSUME IInv, NEW c \in Call, stage[c] \in {"updated", "handled"}
  PROVE  Seen(c) \in Status
<1>1. /\ TypeOK /\ object[c] # None
      /\ object[c] = Current => status[BookOf(c)] # None
  BY DEF IInv, CallInv
<1>2. BookOf(c) \in Node
  BY <1>1 DEF TypeOK, BookOf
<1> QED BY <1>1, <1>2 DEF Seen, TypeOK

\* The objects replaced in a book keep their status.
LEMMA LeftObjects ==
  ASSUME TypeOK, NEW n \in Node, status[n] # None \/ \A c \in Call : ~Holds(c, n)
  PROVE  /\ Left(n) \in [Call -> Status \cup {Current, None}]
         /\ \A c \in Call : Left(n)[c] = IF Holds(c, n) THEN status[n] ELSE object[c]
BY DEF TypeOK, Left

-----------------------------------------------------------------------------
(* Types *)

\* Every step keeps the types (order.go 45-332).
LEMMA NextTypes ==
  ASSUME IInv, Next
  PROVE  TypeOK'
<1>i. TypeOK
  BY DEF IInv
<1>1. CASE CreateOrder
  <2>0. PICK place \in {"ok", "sent"} : Begins(Create, "buyer", "pending", place)
    BY <1>1 DEF CreateOrder
  <2>1. stage' \in [Call -> {"idle", "updated", "sent", "handled", "answered", "ok", "failed"}]
        /\ node' \in [Call -> Node] /\ sets' \in [Call -> Status] /\ quiet' \in BOOLEAN
    BY <1>i, <2>0 DEF Begins, Goes, TypeOK, Call, Status
  <2>2. sent' \in [Call -> Status \cup {None}]
    BY <1>1, <1>i DEF CreateOrder, TypeOK, Status
  <2>3. status' \in [Node -> Status \cup {None}] /\ reached' \in [Node -> SUBSET Status]
    BY <1>1, <1>i DEF CreateOrder, Becomes, TypeOK, Status
  <2> QED BY <1>1, <1>i, <2>1, <2>2, <2>3 DEF CreateOrder, TypeOK, waiters
<1>2. ASSUME NEW c \in Update, NEW n \in Node, NEW s \in Status \ {"pending"},
             UpdateStatus(c, n, s)
      PROVE  TypeOK'
  <2>1. stage' \in [Call -> {"idle", "updated", "sent", "handled", "answered", "ok", "failed"}]
        /\ node' \in [Call -> Node] /\ sets' \in [Call -> Status] /\ quiet' \in BOOLEAN
    BY <1>2, <1>i DEF UpdateStatus, Begins, Goes, TypeOK, Call
  <2>2. status' \in [Node -> Status \cup {None}] /\ reached' \in [Node -> SUBSET Status]
    BY <1>2, <1>i DEF UpdateStatus, Becomes, TypeOK
  <2> QED BY <1>2, <1>i, <2>1, <2>2 DEF UpdateStatus, TypeOK, waiters
<1>3. ASSUME NEW c \in Call, Notify(c)
      PROVE  TypeOK'
  <2>1. Seen(c) \in Status
    BY <1>3, SeenStatus DEF Notify
  <2> QED BY <1>3, <1>i, <2>1 DEF Notify, Goes, TypeOK, waiters, history
<1>4. ASSUME NEW c \in Call, Handle(c)
      PROVE  TypeOK'
  <2> DEFINE n == Other(node[c])
  <2>1. n \in Node /\ sent[c] \in Status
    BY <1>4, <1>i DEF Handle, IInv, CallInv, TypeOK
  <2>2. \A d \in Call : Holds(d, n) => status[n] # None
    BY DEF IInv, CallInv, Holds
  <2>3. object' \in [Call -> Status \cup {Current, None}]
    <3>1. Left(n) \in [Call -> Status \cup {Current, None}]
      BY <1>i, <2>1, <2>2, LeftObjects DEF TypeOK, Left
    <3> QED BY <1>4, <3>1 DEF Handle
  <2>4. status' \in [Node -> Status \cup {None}] /\ reached' \in [Node -> SUBSET Status]
    BY <1>4, <1>i, <2>1 DEF Handle, Becomes, TypeOK
  <2>5. waiter' \in [Waiter -> {"idle", "waiting", "woken", "leaving", "gone"}]
    BY <1>4, <1>i DEF Handle, TypeOK
  <2> QED BY <1>4, <1>i, <2>3, <2>4, <2>5 DEF Handle, Goes, TypeOK
<1>5. ASSUME NEW c \in Call, Answer(c)
      PROVE  TypeOK'
  <2>1. Seen(c) \in Status
    BY <1>5, SeenStatus DEF Answer
  <2> QED BY <1>5, <1>i, <2>1 DEF Answer, Goes, TypeOK, waiters, history
<1>6. ASSUME NEW c \in Call, Return(c)
      PROVE  TypeOK'
  <2>1. sent[c] \in Status
    BY <1>6, <1>i DEF Return, IInv, CallInv, TypeOK
  <2>2. Left("buyer") \in [Call -> Status \cup {Current, None}]
    BY <1>i, LeftObjects DEF IInv, CallInv, Holds
  <2>3. object' \in [Call -> Status \cup {Current, None}]
    BY <1>6, <1>i, <2>2 DEF Return, TypeOK
  <2>4. status' \in [Node -> Status \cup {None}] /\ reached' \in [Node -> SUBSET Status]
    BY <1>6, <1>i, <2>1 DEF Return, Becomes, TypeOK
  <2> QED BY <1>6, <1>i, <2>3, <2>4 DEF Return, Goes, TypeOK, waiters
<1>7. ASSUME NEW c \in Call, Fail(c)
      PROVE  TypeOK'
  BY <1>7, <1>i DEF Fail, Goes, TypeOK, waiters
<1>8. ASSUME NEW w \in Waiter, WaitForOrder(w) \/ Stop(w) \/ Unregister(w)
      PROVE  TypeOK'
  BY <1>8, <1>i DEF WaitForOrder, Register, Stop, Unregister, TypeOK, calls, history
<1> QED
  BY <1>1, <1>2, <1>3, <1>4, <1>5, <1>6, <1>7, <1>8 DEF Next

-----------------------------------------------------------------------------
(* Objects *)

\* Every step leaves each call an object with a status while it needs one.
LEMMA NextCall ==
  ASSUME IInv, Next, TypeOK', NEW d \in Call
  PROVE  CallInv(d)'
<1>i. TypeOK /\ CallInv(d) /\ OwnInv /\ Create \in Call
  BY DEF IInv, Call
<1>1. CASE CreateOrder
  <2>1. stage[Create] = "idle" /\ stage'[Create] \in {"ok", "sent"} /\ object' = object
        /\ sent'[Create] \in {sent[Create], "pending"}
        /\ (stage'[Create] = "sent" => sent'[Create] = "pending")
        /\ \A e \in Call \ {Create} : stage'[e] = stage[e] /\ sent'[e] = sent[e]
    BY <1>1, <1>i DEF CreateOrder, Begins, Goes, TypeOK
  <2>2. stage[d] = "idle"
    BY <1>i, <2>1 DEF CallInv
  <2> QED BY <1>i, <2>1, <2>2 DEF CallInv, Status
<1>2. ASSUME NEW c \in Update, NEW n \in Node, NEW s \in Status \ {"pending"},
             UpdateStatus(c, n, s)
      PROVE  CallInv(d)'
  <2>1. /\ status[n] # None /\ stage[Create] # "idle" /\ c # Create /\ sent' = sent
        /\ stage' = [stage EXCEPT ![c] = "updated"] /\ object' = [object EXCEPT ![c] = Current]
        /\ status' = [status EXCEPT ![n] = s] /\ node' = [node EXCEPT ![c] = n] /\ s # None
        /\ stage[c] = "idle"
    BY <1>2, <1>i DEF UpdateStatus, Begins, Goes, Becomes, OwnInv
  <2>2. \A m \in Node : status[m] # None => status'[m] # None
    BY <1>i, <2>1 DEF TypeOK
  <2>3. CASE d = c
    <3>1. /\ stage'[d] = "updated" /\ object'[d] = Current /\ node'[d] = n
          /\ status'[n] = s /\ stage'[Create] # "idle" /\ Current # None
      BY <1>i, <2>1, <2>3 DEF TypeOK, Call
    <3> QED BY <2>1, <3>1 DEF CallInv, BookOf
  <2>4. CASE d # c
    <3>1. /\ stage'[d] = stage[d] /\ object'[d] = object[d] /\ node'[d] = node[d]
          /\ stage'[Create] = stage[Create]
      BY <1>i, <2>1, <2>4 DEF TypeOK, Call
    <3>2. BookOf(d)' = BookOf(d) /\ BookOf(d) \in Node
      BY <1>i, <3>1 DEF BookOf, TypeOK
    <3> QED BY <1>i, <2>1, <2>2, <3>1, <3>2 DEF CallInv
  <2> QED BY <2>3, <2>4
<1>3. ASSUME NEW c \in Call, Notify(c) \/ Answer(c)
      PROVE  CallInv(d)'
  <2>1. Seen(c) \in Status
    BY <1>3, SeenStatus DEF Notify, Answer
  <2>2. /\ UNCHANGED <<status, node>> /\ object' = [object EXCEPT ![c] = None]
        /\ \/ stage' = [stage EXCEPT ![c] = "ok"] /\ sent' = sent
           \/ /\ stage' = [stage EXCEPT ![c] = "sent"] \/ stage' = [stage EXCEPT ![c] = "answered"]
              /\ sent' = [sent EXCEPT ![c] = Seen(c)]
        /\ stage[c] # "idle"
    BY <1>3 DEF Notify, Answer, Goes
  <2>3. CASE d = c
    BY <1>i, <2>1, <2>2, <2>3 DEF CallInv, TypeOK
  <2>4. CASE d # c
    <3>1. /\ stage'[d] = stage[d] /\ object'[d] = object[d] /\ sent'[d] = sent[d]
          /\ (stage[Create] # "idle" => stage'[Create] # "idle")
      BY <1>i, <2>2, <2>4 DEF TypeOK
    <3>2. BookOf(d)' = BookOf(d)
      BY <2>2, <3>1 DEF BookOf
    <3> QED BY <1>i, <2>2, <3>1, <3>2 DEF CallInv
  <2> QED BY <2>3, <2>4
<1>4. ASSUME NEW c \in Call, Handle(c)
      PROVE  CallInv(d)'
  <2> DEFINE n == Other(node[c])
  <2>1. n \in Node /\ sent[c] \in Status /\ sent[c] # None /\ n # node[c]
    BY <1>4, <1>i DEF Handle, IInv, CallInv, TypeOK
  <2>2. /\ stage' = [stage EXCEPT ![c] = "handled"] /\ stage[c] = "sent"
        /\ UNCHANGED <<node, sent>>
        /\ status' = [status EXCEPT ![n] = sent[c]]
        /\ object' = [Left(n) EXCEPT ![c] = Current]
    BY <1>4 DEF Handle, Goes, Becomes
  <2>3. status'[n] # None /\ \A m \in Node : status[m] # None => status'[m] # None
    BY <1>i, <2>1, <2>2 DEF TypeOK
  <2>4. \A e \in Call : Left(n)[e] = IF Holds(e, n) THEN status[n] ELSE object[e]
    BY DEF Left
  <2>5. CASE d = c
    <3>1. /\ stage'[d] = "handled" /\ object'[d] = Current /\ sent'[d] # None
          /\ (stage[Create] # "idle" => stage'[Create] # "idle")
          /\ Current # None
      BY <1>i, <2>1, <2>2, <2>5 DEF TypeOK, Left
    <3>2. BookOf(d)' = n
      BY <2>2, <2>5, <3>1 DEF BookOf
    <3> QED BY <1>i, <2>2, <2>3, <2>5, <3>1, <3>2 DEF CallInv
  <2>6. CASE d # c
    <3>1. /\ stage'[d] = stage[d] /\ object'[d] = Left(n)[d]
          /\ (stage[Create] # "idle" => stage'[Create] # "idle")
      BY <1>i, <2>2, <2>6 DEF TypeOK, Left
    <3>2. BookOf(d)' = BookOf(d) /\ BookOf(d) \in Node
      BY <1>i, <2>2, <3>1 DEF BookOf, TypeOK
    <3>3. Holds(d, n) => status[n] # None /\ status[n] # Current
      BY <1>i, <2>1 DEF Holds, CallInv, TypeOK, Status, Current
    <3> QED BY <1>i, <2>2, <2>3, <2>4, <3>1, <3>2, <3>3 DEF CallInv, Holds
  <2> QED BY <2>5, <2>6
<1>5. ASSUME NEW c \in Call, Return(c)
      PROVE  CallInv(d)'
  <2>1. /\ stage' = [stage EXCEPT ![c] = "ok"] /\ stage[c] = "answered" /\ UNCHANGED <<node, sent>>
        /\ \/ UNCHANGED <<status, object>>
           \/ /\ status' = [status EXCEPT !["buyer"] = sent[c]]
              /\ object' = Left("buyer")
    BY <1>5 DEF Return, Goes, Becomes
  <2>2. sent[c] # None
    BY <2>1 DEF IInv, CallInv
  <2>3. \A m \in Node : status[m] # None => status'[m] # None
    BY <1>i, <2>1, <2>2 DEF TypeOK
  <2>4. object'[d] = object[d] \/ (Holds(d, "buyer") /\ object'[d] = status["buyer"])
    BY <2>1 DEF Left
  <2>5. Holds(d, "buyer") => status["buyer"] # None /\ status["buyer"] # Current
                             /\ stage[d] \in {"updated", "handled"}
    BY <1>i DEF Holds, CallInv, TypeOK, Status, Current
  <2>6. CASE d = c
    <3>1. stage'[d] = "ok" /\ object[d] = None
      BY <1>i, <2>1, <2>6 DEF TypeOK, CallInv
    <3>2. object'[d] = None
      BY <2>1, <2>4, <2>5, <2>6, <3>1
    <3> QED BY <1>i, <2>1, <2>6, <3>1, <3>2 DEF CallInv, TypeOK
  <2>7. CASE d # c
    <3>1. stage'[d] = stage[d] /\ (stage[Create] # "idle" => stage'[Create] # "idle")
      BY <1>i, <2>1, <2>7 DEF TypeOK
    <3>2. BookOf(d)' = BookOf(d) /\ BookOf(d) \in Node
      BY <1>i, <2>1, <3>1 DEF BookOf, TypeOK
    <3> QED BY <1>i, <2>1, <2>3, <2>4, <2>5, <3>1, <3>2 DEF CallInv
  <2> QED BY <2>6, <2>7
<1>6. ASSUME NEW c \in Call, Fail(c)
      PROVE  CallInv(d)'
  <2>1. /\ stage' = [stage EXCEPT ![c] = "failed"] /\ UNCHANGED <<node, sent, status>>
        /\ object' = [object EXCEPT ![c] = None]
        /\ stage[c] \in {"sent", "handled", "answered"}
    BY <1>6 DEF Fail, Goes
  <2> QED BY <1>i, <2>1 DEF CallInv, BookOf, TypeOK
<1>7. ASSUME NEW w \in Waiter, WaitForOrder(w) \/ Stop(w) \/ Unregister(w)
      PROVE  CallInv(d)'
  BY <1>7, <1>i DEF WaitForOrder, Stop, Unregister, CallInv, BookOf, calls
<1> QED
  BY <1>1, <1>2, <1>3, <1>4, <1>5, <1>6, <1>7 DEF Next

-----------------------------------------------------------------------------
(* The buyer's own order *)

\* An order without a seller stays in the buyer's book (order.go 71-73, 133-140).
LEMMA NextOwn ==
  ASSUME IInv, Next, TypeOK'
  PROVE  OwnInv'
<1>i. TypeOK /\ OwnInv /\ Create \in Call /\ \A d \in Call : CallInv(d)
  BY DEF IInv, Call
<1>1. CASE CreateOrder
  <2>1. stage[Create] = "idle" /\ stage'[Create] \in {"ok", "sent"}
        /\ (stage'[Create] = "sent" => sent'[Create] = "pending")
        /\ status' = [status EXCEPT !["buyer"] = "pending"]
        /\ \A e \in Call \ {Create} : stage'[e] = stage[e]
    BY <1>1, <1>i DEF CreateOrder, Begins, Goes, Becomes, TypeOK
  <2>2. \A e \in Call : stage[e] = "idle"
    BY <1>i, <2>1 DEF CallInv
  <2>3. \A n \in Node : status[n] = None
    BY <1>i, <2>1 DEF OwnInv
  <2>4. OwnOrder' => stage'[Create] = "ok"
    BY DEF OwnOrder
  <2> QED BY <1>i, <2>1, <2>2, <2>3, <2>4 DEF OwnInv, TypeOK
<1>2. ASSUME NEW c \in Update, NEW n \in Node, NEW s \in Status \ {"pending"},
             UpdateStatus(c, n, s)
      PROVE  OwnInv'
  <2>1. /\ status[n] # None /\ stage[Create] # "idle" /\ c # Create /\ sent' = sent
        /\ stage' = [stage EXCEPT ![c] = "updated"] /\ status' = [status EXCEPT ![n] = s]
        /\ c \in Call
    BY <1>2, <1>i DEF UpdateStatus, Begins, Goes, Becomes, OwnInv, Call
  <2>2. stage'[Create] = stage[Create]
    BY <1>i, <2>1 DEF TypeOK
  <2>3. OwnOrder' <=> OwnOrder
    BY <2>1, <2>2 DEF OwnOrder
  <2>4. OwnOrder => n = "buyer"
    BY <1>i, <2>1 DEF OwnInv
  <2> QED BY <1>i, <2>1, <2>2, <2>3, <2>4 DEF OwnInv, TypeOK
<1>3. ASSUME NEW c \in Call, Notify(c)
      PROVE  OwnInv'
  <2>1. Seen(c) \in Status
    BY <1>3, SeenStatus DEF Notify
  <2>2. stage[c] = "updated" /\ UNCHANGED status
        /\ IF OwnOrder THEN stage' = [stage EXCEPT ![c] = "ok"] /\ sent' = sent
           ELSE stage' = [stage EXCEPT ![c] = "sent"] /\ sent' = [sent EXCEPT ![c] = Seen(c)]
    BY <1>3 DEF Notify, Goes
  <2>3. CASE OwnOrder
    <3>1. stage' = [stage EXCEPT ![c] = "ok"] /\ sent' = sent
      BY <2>2, <2>3
    <3> QED BY <1>i, <2>2, <2>3, <3>1 DEF OwnInv, OwnOrder, TypeOK
  <2>4. CASE ~OwnOrder
    <3>1. stage' = [stage EXCEPT ![c] = "sent"] /\ sent' = [sent EXCEPT ![c] = Seen(c)]
      BY <2>2, <2>4
    <3>2. ~OwnOrder'
      BY <1>i, <2>1, <2>2, <2>4, <3>1 DEF OwnOrder, TypeOK
    <3>3. stage'[Create] # "idle"
      BY <1>i, <2>2, <3>1 DEF CallInv, TypeOK
    <3> QED BY <3>2, <3>3 DEF OwnInv
  <2> QED BY <2>3, <2>4
<1>4. ASSUME NEW c \in Call, Handle(c) \/ Answer(c) \/ Return(c) \/ Fail(c)
      PROVE  OwnInv'
  <2>1. stage[c] \in {"sent", "handled", "answered"} /\ sent[c] # None /\ ~OwnOrder
        /\ stage[Create] # "idle"
    BY <1>4, <1>i DEF Handle, Answer, Return, Fail, CallInv, OwnInv
  <2>2. \/ sent' = sent
        \/ stage[c] = "handled" /\ sent' = [sent EXCEPT ![c] = Seen(c)]
    BY <1>4 DEF Handle, Answer, Return, Fail
  <2>3. /\ \A e \in Call \ {c} : stage'[e] = stage[e]
        /\ stage'[c] \in {"handled", "answered", "ok", "failed"}
    BY <1>4, <1>i DEF Handle, Answer, Return, Fail, Goes, TypeOK
  <2>4. sent'[Create] = sent[Create] \/ sent'[Create] # None
    <3>1. CASE stage[c] = "handled"
      BY <1>i, <2>2, <3>1, SeenStatus DEF TypeOK
    <3> QED BY <2>2, <3>1
  <2>5. ~OwnOrder'
    <3>1. CASE c = Create
      BY <2>1, <2>4, <3>1 DEF OwnOrder
    <3>2. CASE c # Create
      BY <1>i, <2>1, <2>3, <2>4, <3>2 DEF OwnOrder
    <3> QED BY <3>1, <3>2
  <2>6. stage'[Create] # "idle"
    BY <1>i, <2>1, <2>3
  <2> QED BY <2>5, <2>6 DEF OwnInv
<1>5. ASSUME NEW w \in Waiter, WaitForOrder(w) \/ Stop(w) \/ Unregister(w)
      PROVE  OwnInv'
  BY <1>5, <1>i DEF WaitForOrder, Stop, Unregister, OwnInv, OwnOrder, calls
<1> QED
  BY <1>1, <1>2, <1>3, <1>4, <1>5 DEF Next

-----------------------------------------------------------------------------
(* Waiters *)

\* Nobody but a waiter that was displaced waits for an order that is there
\* (order.go 245-253, 303-332).
LEMMA NextWaiters ==
  ASSUME IInv, Next, TypeOK'
  PROVE  WaiterInv'
<1>i. TypeOK /\ WaiterInv /\ OwnInv
  BY DEF IInv
<1>1. CASE CreateOrder
  BY <1>1, <1>i DEF CreateOrder, Becomes, WaiterInv, Waits, TypeOK, waiters
<1>2. ASSUME NEW c \in Update, NEW n \in Node, NEW s \in Status \ {"pending"},
             UpdateStatus(c, n, s)
      PROVE  WaiterInv'
  BY <1>2, <1>i DEF UpdateStatus, Becomes, WaiterInv, Waits, TypeOK, waiters
<1>3. ASSUME NEW c \in Call, Notify(c) \/ Answer(c) \/ Fail(c)
      PROVE  WaiterInv'
  BY <1>3, <1>i DEF Notify, Answer, Fail, WaiterInv, Waits, waiters
<1>4. ASSUME NEW c \in Call, Return(c)
      PROVE  WaiterInv'
  BY <1>4, <1>i DEF Return, Becomes, WaiterInv, Waits, TypeOK, waiters
<1>5. ASSUME NEW c \in Call, Handle(c)
      PROVE  WaiterInv'
  <2> DEFINE n == Other(node[c])
  <2>1. /\ UNCHANGED <<channel, displaced>> /\ status' = [status EXCEPT ![n] = sent[c]]
        /\ \A w \in Waiter : waiter'[w] =
             IF n = "seller" /\ w = channel /\ waiter[w] = "waiting" THEN "woken" ELSE waiter[w]
    BY <1>5 DEF Handle, Becomes
  <2>2. \A w \in Waiter : Waits(w)' <=> Waits(w)
    BY <2>1 DEF Waits
  <2>3. n # "seller" => status'["seller"] = status["seller"]
    BY <1>i, <2>1 DEF TypeOK
  <2>4. ASSUME NEW w \in Waiter, w \notin displaced, waiter'[w] = "waiting"
        PROVE  channel' = w /\ status'["seller"] = None
    BY <1>i, <2>1, <2>3, <2>4 DEF WaiterInv
  <2> QED BY <1>i, <2>1, <2>2, <2>4 DEF WaiterInv
<1>6. ASSUME NEW w \in Waiter, WaitForOrder(w)
      PROVE  WaiterInv'
  <2>1. CASE status["seller"] # None
    BY <1>6, <1>i, <2>1 DEF WaitForOrder, Register, WaiterInv, Waits, TypeOK
  <2>2. CASE status["seller"] = None
    <3>1. /\ channel' = w /\ waiter' = [waiter EXCEPT ![w] = "waiting"] /\ status' = status
          /\ waiter[w] = "idle"
          /\ displaced' = displaced \cup
               {v \in Waiter : Waits(v) \/ (v = w /\ \E u \in Waiter : Waits(u))}
      BY <1>6, <2>2 DEF WaitForOrder, Register
    <3>2. \A v \in Waiter : Waits(v)' <=> Waits(v) \/ v = w
      BY <1>i, <3>1 DEF Waits, TypeOK
    <3>3. ASSUME NEW v \in Waiter, v \notin displaced', Waits(v)'
          PROVE  v = w /\ \A u \in Waiter : ~Waits(u)
      BY <3>1, <3>2, <3>3
    <3>4. \A v \in Waiter : waiter'[v] = "waiting" => Waits(v)'
      BY DEF Waits
    <3> QED BY <2>2, <3>1, <3>2, <3>3, <3>4 DEF WaiterInv
  <2> QED BY <2>1, <2>2
<1>7. ASSUME NEW w \in Waiter, Stop(w)
      PROVE  WaiterInv'
  BY <1>7, <1>i DEF Stop, WaiterInv, Waits, TypeOK
<1>8. ASSUME NEW w \in Waiter, Unregister(w)
      PROVE  WaiterInv'
  <2>1. /\ waiter[w] = "leaving" /\ waiter' = [waiter EXCEPT ![w] = "gone"]
        /\ UNCHANGED <<status, displaced>> /\ Waits(w)
    BY <1>8 DEF Unregister, Waits
  <2>2. \A v \in Waiter : Waits(v)' <=> Waits(v) /\ v # w
    BY <1>i, <2>1 DEF Waits, TypeOK
  <2>3. \A v \in Waiter : v \notin displaced => ~Waits(v)'
    BY <1>i, <2>1, <2>2 DEF WaiterInv
  <2>4. \A v \in Waiter : waiter'[v] = "waiting" => Waits(v)'
    BY DEF Waits
  <2> QED BY <2>1, <2>3, <2>4 DEF WaiterInv
<1> QED
  BY <1>1, <1>2, <1>3, <1>4, <1>5, <1>6, <1>7, <1>8 DEF Next

-----------------------------------------------------------------------------
(* Deliveries *)

\* OwnOrder is for good.
LEMMA OwnStays ==
  ASSUME IInv, Next, OwnOrder
  PROVE  OwnOrder'
<1>i. TypeOK /\ OwnInv /\ Create \in Call
  BY DEF IInv, Call
<1>o. stage[Create] = "ok" /\ sent[Create] = None
      /\ \A c \in Call : stage[c] \notin {"sent", "handled", "answered"}
  BY <1>i DEF OwnInv, OwnOrder
<1>1. CASE CreateOrder
  BY <1>1, <1>o DEF CreateOrder, Begins
<1>2. ASSUME NEW c \in Update, NEW n \in Node, NEW s \in Status \ {"pending"},
             UpdateStatus(c, n, s)
      PROVE  OwnOrder'
  BY <1>2, <1>i, <1>o DEF UpdateStatus, Begins, Goes, OwnOrder, TypeOK, Call
<1>3. ASSUME NEW c \in Call, Notify(c)
      PROVE  OwnOrder'
  BY <1>3, <1>i, <1>o DEF Notify, Goes, OwnOrder, TypeOK
<1>4. ASSUME NEW c \in Call, Handle(c) \/ Answer(c) \/ Return(c) \/ Fail(c)
      PROVE  OwnOrder'
  BY <1>4, <1>o DEF Handle, Answer, Return, Fail
<1>5. ASSUME NEW w \in Waiter, WaitForOrder(w) \/ Stop(w) \/ Unregister(w)
      PROVE  OwnOrder'
  BY <1>5, <1>o DEF WaitForOrder, Stop, Unregister, OwnOrder, calls
<1> QED
  BY <1>1, <1>2, <1>3, <1>4, <1>5 DEF Next

\* What holds of a call holds after a step that leaves the call alone, and what it
\* sees.
LEMMA DeliveryStays ==
  ASSUME IInv, Next, NEW d \in Call, stage'[d] = stage[d], sets'[d] = sets[d],
         node'[d] = node[d], sent'[d] = sent[d], blurred \subseteq blurred',
         \A n \in Node : reached[n] \subseteq reached'[n],
         stage[d] = "updated" /\ d \notin blurred' => Seen(d)' = Seen(d)
  PROVE  DeliveryInv(d)'
<1>1. OwnOrder => OwnOrder'
  BY OwnStays
<1>2. Other(node[d]) \in Node
  BY DEF IInv, TypeOK
<1>3. DeliveryInv(d)
  BY DEF IInv
<1> QED BY <1>1, <1>2, <1>3 DEF DeliveryInv

\* A book never forgets in this history what it has had.
LEMMA ReachedGrows ==
  ASSUME IInv, NEW n \in Node, NEW s, Becomes(n, s)
  PROVE  /\ \A m \in Node : reached[m] \subseteq reached'[m]
         /\ s \in reached'[n]
         /\ \A m \in Node : status'[m] = IF m = n THEN s ELSE status[m]
BY DEF IInv, TypeOK, Becomes

\* The status a call has set goes into its message, and with the message into the
\* other book, unless another call changes the object first (order.go 101-155).
LEMMA NextDelivery ==
  ASSUME IInv, Next, TypeOK', NEW d \in Call
  PROVE  DeliveryInv(d)'
<1>i. TypeOK /\ DeliveryInv(d) /\ CallInv(d) /\ Create \in Call /\ Other(node[d]) \in Node
  BY DEF IInv, Call, TypeOK
<1>1. CASE CreateOrder
  <2>0. PICK place \in {"ok", "sent"} : Begins(Create, "buyer", "pending", place)
                                      /\ (place = "ok" => sent' = sent)
                                      /\ (place = "sent" => sent'[Create] = "pending")
    BY <1>1, <1>i DEF CreateOrder, TypeOK
  <2>1. /\ stage[Create] = "idle" /\ stage'[Create] = place /\ sets'[Create] = "pending"
        /\ \A e \in Call \ {Create} : stage'[e] = stage[e]
    BY <1>i, <2>0 DEF Begins, Goes, TypeOK
  <2>2. \A e \in Call : stage[e] = "idle"
    BY <2>1 DEF IInv, CallInv
  <2>3. sent[Create] = None => (place = "ok" => OwnOrder')
    BY <2>0, <2>1 DEF OwnOrder
  <2>4. CASE d = Create
    <3>1. place = "ok" => sent'[Create] = sent[Create]
      BY <2>0
    <3>2. place = "sent" => stage'[d] = "sent" /\ sent'[d] = sets'[d]
      BY <2>0, <2>1, <2>4
    <3>3. place = "ok" => stage'[d] = "ok" /\ OwnOrder'
      <4>1. sent[Create] = None
        BY <1>i, <2>1 DEF IInv, CallInv
      <4> QED BY <2>1, <2>3, <2>4, <4>1
    <3> QED BY <3>2, <3>3 DEF DeliveryInv
  <2>5. CASE d # Create
    BY <2>1, <2>2, <2>5 DEF DeliveryInv
  <2> QED BY <2>4, <2>5
<1>2. ASSUME NEW c \in Update, NEW n \in Node, NEW s \in Status \ {"pending"},
             UpdateStatus(c, n, s)
      PROVE  DeliveryInv(d)'
  <2>1. /\ stage' = [stage EXCEPT ![c] = "updated"] /\ node' = [node EXCEPT ![c] = n]
        /\ sets' = [sets EXCEPT ![c] = s] /\ object' = [object EXCEPT ![c] = Current]
        /\ Becomes(n, s) /\ sent' = sent /\ c \in Call
        /\ blurred' = blurred \cup {e \in Call : stage[e] = "updated" /\ Holds(e, n)}
    BY <1>2 DEF UpdateStatus, Begins, Goes, Call
  <2>2. \A m \in Node : /\ reached[m] \subseteq reached'[m]
                         /\ status'[m] = IF m = n THEN s ELSE status[m]
    BY <2>1, ReachedGrows
  <2>3. CASE d = c
    <3>1. stage'[d] = "updated" /\ sets'[d] = s /\ object'[d] = Current /\ node'[d] = n
      BY <1>i, <2>1, <2>3 DEF TypeOK
    <3>2. Seen(d)' = s
      BY <2>2, <3>1 DEF Seen, BookOf
    <3> QED BY <3>1, <3>2 DEF DeliveryInv
  <2>4. CASE d # c
    <3>1. /\ stage'[d] = stage[d] /\ sets'[d] = sets[d] /\ node'[d] = node[d]
          /\ object'[d] = object[d] /\ sent'[d] = sent[d]
      BY <1>i, <2>1, <2>4 DEF TypeOK
    <3>2. BookOf(d)' = BookOf(d) /\ BookOf(d) \in Node
      BY <1>i, <3>1 DEF BookOf, TypeOK
    <3>3. stage[d] = "updated" /\ d \notin blurred' => Seen(d)' = Seen(d)
      BY <2>1, <2>2, <3>1, <3>2 DEF Seen, Holds
    <3> QED BY <2>1, <2>2, <3>1, <3>3, DeliveryStays
  <2> QED BY <2>3, <2>4
<1>3. ASSUME NEW c \in Call, Notify(c)
      PROVE  DeliveryInv(d)'
  <2>1. /\ stage[c] = "updated" /\ object' = [object EXCEPT ![c] = None]
        /\ UNCHANGED <<status, node, sets, reached, blurred>>
        /\ \/ OwnOrder /\ stage' = [stage EXCEPT ![c] = "ok"] /\ sent' = sent
           \/ stage' = [stage EXCEPT ![c] = "sent"] /\ sent' = [sent EXCEPT ![c] = Seen(c)]
    BY <1>3 DEF Notify, Goes, history
  <2>2. CASE d = c
    <3>1. \/ OwnOrder' /\ stage'[d] = "ok"
          \/ stage'[d] = "sent" /\ sent'[d] = Seen(d)
      BY <1>i, <2>1, <2>2, OwnStays DEF TypeOK
    <3> QED BY <1>i, <2>1, <2>2, <3>1 DEF DeliveryInv
  <2>3. CASE d # c
    <3>1. stage'[d] = stage[d] /\ object'[d] = object[d] /\ sent'[d] = sent[d]
      BY <1>i, <2>1, <2>3 DEF TypeOK
    <3>2. Seen(d)' = Seen(d)
      BY <2>1, <3>1 DEF Seen, BookOf
    <3> QED BY <2>1, <3>1, <3>2, DeliveryStays
  <2> QED BY <2>2, <2>3
<1>4. ASSUME NEW c \in Call, Handle(c)
      PROVE  DeliveryInv(d)'
  <2> DEFINE n == Other(node[c])
  <2>1. /\ stage' = [stage EXCEPT ![c] = "handled"] /\ stage[c] = "sent" /\ Becomes(n, sent[c])
        /\ UNCHANGED <<node, sets, sent, blurred>> /\ object' = [Left(n) EXCEPT ![c] = Current]
        /\ n \in Node
    BY <1>4, <1>i DEF Handle, Goes, TypeOK
  <2>2. /\ \A m \in Node : /\ reached[m] \subseteq reached'[m]
                            /\ status'[m] = IF m = n THEN sent[c] ELSE status[m]
        /\ sent[c] \in reached'[n]
    BY <2>1, ReachedGrows
  <2>3. CASE d = c
    <3>1. stage'[d] = "handled"
      BY <1>i, <2>1, <2>3 DEF TypeOK
    <3> QED BY <1>i, <2>1, <2>2, <2>3, <3>1 DEF DeliveryInv
  <2>4. CASE d # c
    <3>1. stage'[d] = stage[d] /\ object'[d] = IF Holds(d, n) THEN status[n] ELSE object[d]
      BY <1>i, <2>1, <2>4 DEF TypeOK, Left
    <3>2. BookOf(d)' = BookOf(d) /\ BookOf(d) \in Node
      BY <1>i, <2>1, <3>1 DEF BookOf, TypeOK
    <3>3. Holds(d, n) => status[n] # Current
      BY <1>i, <2>1 DEF Holds, CallInv, TypeOK, Status, Current
    <3>4. Seen(d)' = Seen(d)
      BY <2>2, <3>1, <3>2, <3>3 DEF Seen, Holds
    <3> QED BY <2>1, <2>2, <3>1, <3>4, DeliveryStays
  <2> QED BY <2>3, <2>4
<1>5. ASSUME NEW c \in Call, Answer(c)
      PROVE  DeliveryInv(d)'
  <2>1. /\ stage' = [stage EXCEPT ![c] = "answered"] /\ stage[c] = "handled"
        /\ UNCHANGED <<status, node, sets, reached, blurred>>
        /\ sent' = [sent EXCEPT ![c] = Seen(c)] /\ object' = [object EXCEPT ![c] = None]
    BY <1>5 DEF Answer, Goes, history
  <2>2. CASE d = c
    BY <1>i, <2>1, <2>2 DEF DeliveryInv, TypeOK
  <2>3. CASE d # c
    <3>1. stage'[d] = stage[d] /\ object'[d] = object[d] /\ sent'[d] = sent[d]
      BY <1>i, <2>1, <2>3 DEF TypeOK
    <3>2. Seen(d)' = Seen(d)
      BY <2>1, <3>1 DEF Seen, BookOf
    <3> QED BY <2>1, <3>1, <3>2, DeliveryStays
  <2> QED BY <2>2, <2>3
<1>6. ASSUME NEW c \in Call, Return(c)
      PROVE  DeliveryInv(d)'
  <2>1. /\ stage' = [stage EXCEPT ![c] = "ok"] /\ stage[c] = "answered"
        /\ node' = node /\ sets' = sets /\ sent' = sent /\ blurred' = blurred
    BY <1>6 DEF Return, Goes
  <2>2. \/ status' = status /\ reached' = reached /\ object' = object
        \/ Becomes("buyer", sent[c]) /\ object' = Left("buyer")
    BY <1>6 DEF Return
  <2>3. \A m \in Node : reached[m] \subseteq reached'[m]
    BY <2>2, ReachedGrows
  <2>4. status'["seller"] = status["seller"]
    BY <2>2, ReachedGrows
  <2>5. CASE d = c
    <3>1. stage'[d] = "ok" /\ stage[d] = "answered"
      BY <1>i, <2>1, <2>5 DEF TypeOK
    <3>2. d \notin blurred => sets[d] \in reached'[Other(node[d])]
      BY <1>i, <2>3, <3>1 DEF DeliveryInv
    <3> QED BY <2>1, <3>1, <3>2 DEF DeliveryInv
  <2>6. CASE d # c
    <3>1. stage'[d] = stage[d]
      BY <1>i, <2>1, <2>6 DEF TypeOK
    <3>2. BookOf(d)' = BookOf(d) /\ BookOf(d) \in Node
      BY <1>i, <2>1, <3>1 DEF BookOf, TypeOK
    <3>4. Seen(d)' = Seen(d)
      <4>1. CASE status' = status /\ reached' = reached /\ object' = object
        BY <3>2, <4>1 DEF Seen
      <4>2. CASE object' = Left("buyer")
        <5>1. object'[d] = IF Holds(d, "buyer") THEN status["buyer"] ELSE object[d]
          BY <4>2 DEF Left
        <5>2. CASE Holds(d, "buyer")
          <6>1. status["buyer"] # Current
            BY <1>i, <5>2 DEF Holds, CallInv, TypeOK, Status, Current
          <6> QED BY <5>1, <5>2, <6>1 DEF Seen, Holds
        <5>3. CASE ~Holds(d, "buyer")
          <6>1. object'[d] = object[d]
            BY <5>1, <5>3
          <6>2. object[d] = Current => BookOf(d) = "seller"
            BY <3>2, <5>3 DEF Holds
          <6> QED BY <2>4, <3>2, <6>1, <6>2 DEF Seen
        <5> QED BY <5>2, <5>3
      <4> QED BY <2>2, <4>1, <4>2
    <3> QED BY <2>1, <2>3, <3>1, <3>4, DeliveryStays
  <2> QED BY <2>5, <2>6
<1>7. ASSUME NEW c \in Call, Fail(c)
      PROVE  DeliveryInv(d)'
  <2>1. /\ stage' = [stage EXCEPT ![c] = "failed"] /\ object' = [object EXCEPT ![c] = None]
        /\ UNCHANGED <<status, node, sets, sent, reached, blurred>>
    BY <1>7 DEF Fail, Goes
  <2>2. CASE d = c
    BY <1>i, <2>1, <2>2 DEF DeliveryInv, TypeOK
  <2>3. CASE d # c
    <3>1. stage'[d] = stage[d] /\ object'[d] = object[d]
      BY <1>i, <2>1, <2>3 DEF TypeOK
    <3>2. Seen(d)' = Seen(d)
      BY <2>1, <3>1 DEF Seen, BookOf
    <3> QED BY <2>1, <3>1, <3>2, DeliveryStays
  <2> QED BY <2>2, <2>3
<1>8. ASSUME NEW w \in Waiter, WaitForOrder(w) \/ Stop(w) \/ Unregister(w)
      PROVE  DeliveryInv(d)'
  <2>1. UNCHANGED <<status, calls, history>>
    BY <1>8 DEF WaitForOrder, Stop, Unregister
  <2> QED BY <1>i, <2>1 DEF DeliveryInv, Seen, BookOf, OwnOrder, calls, history
<1> QED
  BY <1>1, <1>2, <1>3, <1>4, <1>5, <1>6, <1>7, <1>8 DEF Next
-----------------------------------------------------------------------------
(* Quiet books *)

\* What is left to show of a step, when only one call can be under way after it.
LEMMA QuietAlone ==
  ASSUME NEW c \in Call, \A d \in Call : d # c => ~Active(d)',
         /\ stage'[c] = "updated" => object'[c] = Current
         /\ stage'[c] = "sent" => sent'[c] = status'[node'[c]]
         /\ stage'[c] = "handled" => object'[c] = Current
         /\ stage'[c] = "answered" => sent'[c] = status'["seller"]
         /\ stage'[c] \in {"handled", "answered"} => status'["buyer"] = status'["seller"]
         /\ status'["seller"] # None /\ ~Active(c)' => status'["buyer"] = status'["seller"]
  PROVE  QuietInv'
BY DEF QuietInv, Active

\* One call at a time and no failure: the call carries its status from the book of
\* its node into the other one (order.go 45-155, 211-256).
LEMMA NextQuiet ==
  ASSUME IInv, Next, TypeOK'
  PROVE  QuietInv'
<1>i. TypeOK /\ OwnInv /\ QuietInv /\ Create \in Call /\ \A d \in Call : CallInv(d)
  BY DEF IInv, Call
<1>1. CASE CreateOrder
  <2>1. /\ stage[Create] = "idle" /\ \A e \in Call \ {Create} : stage'[e] = stage[e]
        /\ node'[Create] = "buyer" /\ status' = [status EXCEPT !["buyer"] = "pending"]
        /\ \/ stage'[Create] = "ok"
           \/ stage'[Create] = "sent" /\ sent'[Create] = "pending"
    BY <1>1, <1>i DEF CreateOrder, Begins, Goes, Becomes, TypeOK
  <2>2. \A e \in Call : stage[e] = "idle"
    BY <1>i, <2>1 DEF CallInv
  <2>3. status'["buyer"] = "pending" /\ status'["seller"] = None
    BY <1>i, <2>1 DEF TypeOK, OwnInv
  <2>4. \A d \in Call : d # Create => ~Active(d)'
    BY <2>1, <2>2 DEF Active
  <2> QED BY <1>i, <2>1, <2>3, <2>4, QuietAlone DEF Active
<1>2. ASSUME NEW c \in Update, NEW n \in Node, NEW s \in Status \ {"pending"},
             UpdateStatus(c, n, s)
      PROVE  QuietInv'
  <2>1. /\ stage' = [stage EXCEPT ![c] = "updated"] /\ object' = [object EXCEPT ![c] = Current]
        /\ c \in Call /\ (quiet' => ~\E d \in Call : Active(d))
    BY <1>2 DEF UpdateStatus, Begins, Goes, Call
  <2>2. stage'[c] = "updated" /\ object'[c] = Current
        /\ \A d \in Call : d # c => stage'[d] = stage[d]
    BY <1>i, <2>1 DEF TypeOK
  <2>3. quiet' => \A d \in Call : d # c => ~Active(d)'
    BY <2>1, <2>2 DEF Active
  <2>4. CASE quiet'
    BY <2>1, <2>2, <2>3, <2>4, QuietAlone DEF Active
  <2> QED BY <2>4 DEF QuietInv
<1>3. ASSUME NEW c \in Call, Active(c), quiet' => quiet, \A d \in Call : d # c => stage'[d] = stage[d],
             quiet => /\ stage'[c] = "updated" => object'[c] = Current
                      /\ stage'[c] = "sent" => sent'[c] = status'[node'[c]]
                      /\ stage'[c] = "handled" => object'[c] = Current
                      /\ stage'[c] = "answered" => sent'[c] = status'["seller"]
                      /\ stage'[c] \in {"handled", "answered"} => status'["buyer"] = status'["seller"]
                      /\ status'["seller"] # None /\ ~Active(c)' => status'["buyer"] = status'["seller"]
      PROVE  QuietInv'
  <2>1. quiet => \A d \in Call : d # c => ~Active(d)
    BY <1>i, <1>3 DEF QuietInv
  <2>2. quiet => \A d \in Call : d # c => ~Active(d)'
    BY <1>3, <2>1 DEF Active
  <2>3. CASE quiet
    BY <1>3, <2>2, <2>3, QuietAlone
  <2> QED BY <1>3, <2>3 DEF QuietInv
<1>4. ASSUME NEW c \in Call, Notify(c)
      PROVE  QuietInv'
  <2>1. /\ stage[c] = "updated" /\ UNCHANGED <<status, node, quiet>>
        /\ IF OwnOrder THEN stage' = [stage EXCEPT ![c] = "ok"]
           ELSE stage' = [stage EXCEPT ![c] = "sent"] /\ sent' = [sent EXCEPT ![c] = Seen(c)]
    BY <1>4 DEF Notify, Goes, history
  <2>2. (\A d \in Call : d # c => stage'[d] = stage[d]) /\ Active(c)
    BY <1>i, <2>1 DEF TypeOK, Active
  <2>3. quiet => Seen(c) = status[node[c]]
    BY <1>i, <2>1 DEF QuietInv, Seen, BookOf
  <2>4. CASE OwnOrder
    <3>1. stage'[c] = "ok" /\ status'["seller"] = None
      BY <1>i, <2>1, <2>4 DEF TypeOK, OwnInv
    <3> QED BY <1>3, <2>1, <2>2, <3>1
  <2>5. CASE ~OwnOrder
    <3>1. stage'[c] = "sent" /\ sent'[c] = Seen(c) /\ node'[c] = node[c] /\ Active(c)'
      BY <1>i, <2>1, <2>5 DEF TypeOK, Active
    <3> QED BY <1>3, <2>1, <2>2, <2>3, <3>1
  <2> QED BY <2>4, <2>5
<1>5. ASSUME NEW c \in Call, Handle(c)
      PROVE  QuietInv'
  <2> DEFINE n == Other(node[c])
  <2>1. /\ stage[c] = "sent" /\ stage' = [stage EXCEPT ![c] = "handled"]
        /\ status' = [status EXCEPT ![n] = sent[c]] /\ UNCHANGED <<node, quiet>>
        /\ object' = [Left(n) EXCEPT ![c] = Current]
    BY <1>5 DEF Handle, Goes, Becomes
  <2>2. /\ \A d \in Call : d # c => stage'[d] = stage[d]
        /\ Active(c) /\ stage'[c] = "handled" /\ object'[c] = Current /\ Active(c)'
    BY <1>i, <2>1 DEF TypeOK, Active, Left
  <2>3. node[c] \in Node /\ status \in [Node -> Status \cup {None}]
    BY <1>i DEF TypeOK
  <2>4. quiet => sent[c] = status[node[c]]
    BY <1>i, <2>1 DEF QuietInv
  <2>5. quiet => status'["buyer"] = status'["seller"]
    BY <2>1, <2>3, <2>4
  <2> QED BY <1>3, <2>1, <2>2, <2>5
<1>6. ASSUME NEW c \in Call, Answer(c)
      PROVE  QuietInv'
  <2>1. /\ stage[c] = "handled" /\ stage' = [stage EXCEPT ![c] = "answered"]
        /\ UNCHANGED <<status, node, quiet>> /\ sent' = [sent EXCEPT ![c] = Seen(c)]
    BY <1>6 DEF Answer, Goes, history
  <2>2. /\ \A d \in Call : d # c => stage'[d] = stage[d]
        /\ Active(c) /\ stage'[c] = "answered" /\ sent'[c] = Seen(c) /\ Active(c)'
    BY <1>i, <2>1 DEF TypeOK, Active
  <2>3. quiet => status["buyer"] = status["seller"] /\ Seen(c) = status[Other(node[c])]
    BY <1>i, <2>1 DEF QuietInv, Seen, BookOf
  <2>4. quiet => Seen(c) = status["seller"]
    BY <1>i, <2>3 DEF TypeOK
  <2> QED BY <1>3, <2>1, <2>2, <2>3, <2>4
<1>7. ASSUME NEW c \in Call, Return(c)
      PROVE  QuietInv'
  <2>1. /\ stage[c] = "answered" /\ stage' = [stage EXCEPT ![c] = "ok"] /\ quiet' = quiet
        /\ \/ status' = status
           \/ status' = [status EXCEPT !["buyer"] = sent[c]]
    BY <1>7 DEF Return, Goes, Becomes
  <2>2. /\ \A d \in Call : d # c => stage'[d] = stage[d]
        /\ Active(c) /\ stage'[c] = "ok"
    BY <1>i, <2>1 DEF TypeOK, Active
  <2>3. quiet => status["buyer"] = status["seller"] /\ sent[c] = status["seller"]
    BY <1>i, <2>1 DEF QuietInv
  <2>4. quiet => status'["buyer"] = status'["seller"]
    BY <1>i, <2>1, <2>3 DEF TypeOK
  <2> QED BY <1>3, <2>1, <2>2, <2>4
<1>8. ASSUME NEW c \in Call, Fail(c)
      PROVE  QuietInv'
  BY <1>8 DEF Fail, QuietInv
<1>9. ASSUME NEW w \in Waiter, WaitForOrder(w) \/ Stop(w) \/ Unregister(w)
      PROVE  QuietInv'
  BY <1>9, <1>i DEF WaitForOrder, Stop, Unregister, QuietInv, Active, calls, history
<1> QED
  BY <1>1, <1>2, <1>4, <1>5, <1>6, <1>7, <1>8, <1>9 DEF Next

-----------------------------------------------------------------------------
(* Where statuses come from *)

\* every status that is anywhere was set by a call
CausalInv ==
  /\ \A n \in Node : status[n] # None => SetByCall(status[n])
  /\ \A n \in Node : \A s \in reached[n] : SetByCall(s)
  /\ \A c \in Call : object[c] \notin {None, Current} => SetByCall(object[c])
  /\ \A c \in Call : sent[c] # None => SetByCall(sent[c])

\* What a call sees of its object was set by a call.
LEMMA SeenWasSet ==
  ASSUME IInv, CausalInv, NEW c \in Call, stage[c] \in {"updated", "handled"}
  PROVE  SetByCall(Seen(c))
<1>1. TypeOK /\ CallInv(c)
  BY DEF IInv
<1>2. CASE object[c] = Current
  <2>1. BookOf(c) \in Node /\ status[BookOf(c)] # None
    BY <1>1, <1>2 DEF BookOf, TypeOK, CallInv
  <2> QED BY <1>2, <2>1 DEF CausalInv, Seen
<1>3. CASE object[c] # Current
  BY <1>1, <1>3 DEF CausalInv, CallInv, Seen
<1> QED BY <1>2, <1>3

\* What was set stays so: a call that has begun keeps the status it sets.
LEMMA StaysSet ==
  ASSUME TypeOK, Next, NEW s, SetByCall(s)
  PROVE  SetByCall(s)'
<1>1. PICK d \in Call : stage[d] # "idle" /\ sets[d] = s
  BY DEF SetByCall
<1>2. ASSUME NEW c \in Call, NEW n, NEW t, NEW place, Begins(c, n, t, place)
      PROVE  stage'[d] # "idle" /\ sets'[d] = s
  BY <1>1, <1>2 DEF Begins, Goes, TypeOK
<1>3. stage'[d] # "idle" /\ sets'[d] = s
  <2>1. CASE CreateOrder
    BY <1>2, <2>1 DEF CreateOrder, Call
  <2>2. CASE \E c \in Update, n \in Node, t \in Status \ {"pending"} : UpdateStatus(c, n, t)
    BY <1>2, <2>2 DEF UpdateStatus, Call
  <2>3. CASE \E c \in Call : Notify(c) \/ Handle(c) \/ Answer(c) \/ Return(c) \/ Fail(c)
    BY <1>1, <2>3 DEF Notify, Handle, Answer, Return, Fail, Goes, TypeOK
  <2>4. CASE \E w \in Waiter : WaitForOrder(w) \/ Stop(w) \/ Unregister(w)
    BY <1>1, <2>4 DEF WaitForOrder, Stop, Unregister, calls
  <2> QED BY <2>1, <2>2, <2>3, <2>4 DEF Next
<1> QED BY <1>3 DEF SetByCall

\* A status that gets into a book is the one a call sets, or the one a message or
\* an answer carries (order.go 73-88, 133-156, 211-256).
LEMMA NextCausal ==
  ASSUME IInv, CausalInv, Next
  PROVE  CausalInv'
<1>i. TypeOK /\ \A c \in Call : CallInv(c)
  BY DEF IInv
<1>s. \A s : SetByCall(s) => SetByCall(s)'
  BY <1>i, StaysSet
<1>k. ASSUME NEW n \in Node, NEW c \in Call
      PROVE  Left(n)[c] \notin {None, Current} => SetByCall(Left(n)[c])
  BY DEF Left, CausalInv, Holds
<1>1. CASE CreateOrder
  <2>1. /\ stage'[Create] # "idle" /\ sets'[Create] = "pending" /\ object' = object
        /\ status' = [status EXCEPT !["buyer"] = "pending"]
        /\ reached' = [reached EXCEPT !["buyer"] = @ \cup {"pending"}]
        /\ \A c \in Call : sent'[c] \in {sent[c], "pending"}
    BY <1>1, <1>i DEF CreateOrder, Begins, Goes, Becomes, TypeOK, Call
  <2>2. SetByCall("pending")'
    BY <2>1 DEF SetByCall, Call
  <2> QED BY <1>i, <1>s, <2>1, <2>2 DEF CausalInv, TypeOK
<1>2. ASSUME NEW c \in Update, NEW n \in Node, NEW s \in Status \ {"pending"},
             UpdateStatus(c, n, s)
      PROVE  CausalInv'
  <2>1. /\ stage'[c] # "idle" /\ sets'[c] = s /\ sent' = sent
        /\ object' = [object EXCEPT ![c] = Current]
        /\ status' = [status EXCEPT ![n] = s]
        /\ reached' = [reached EXCEPT ![n] = @ \cup {s}]
    BY <1>2, <1>i DEF UpdateStatus, Begins, Goes, Becomes, TypeOK, Call
  <2>2. SetByCall(s)'
    BY <2>1 DEF SetByCall, Call
  <2> QED BY <1>i, <1>s, <2>1, <2>2 DEF CausalInv, TypeOK
<1>3. ASSUME NEW c \in Call, Notify(c) \/ Answer(c)
      PROVE  CausalInv'
  <2>1. SetByCall(Seen(c))
    BY <1>3, SeenWasSet DEF Notify, Answer
  <2>2. /\ UNCHANGED <<status, reached>>
        /\ object' = [object EXCEPT ![c] = None]
        /\ sent' \in {sent, [sent EXCEPT ![c] = Seen(c)]}
    BY <1>3 DEF Notify, Answer, history
  <2> QED BY <1>i, <1>s, <2>1, <2>2 DEF CausalInv, TypeOK
<1>4. ASSUME NEW c \in Call, Handle(c)
      PROVE  CausalInv'
  <2> DEFINE n == Other(node[c])
  <2>1. n \in Node /\ SetByCall(sent[c])
    BY <1>4, <1>i DEF Handle, CallInv, CausalInv, TypeOK
  <2>2. /\ sent' = sent /\ status' = [status EXCEPT ![n] = sent[c]]
        /\ reached' = [reached EXCEPT ![n] = @ \cup {sent[c]}]
        /\ object' = [Left(n) EXCEPT ![c] = Current]
    BY <1>4 DEF Handle, Becomes
  <2>3. \A d \in Call : object'[d] \notin {None, Current} => SetByCall(object'[d])
    <3>1. \A d \in Call : object'[d] \in {Left(n)[d], Current}
      BY <2>2 DEF Left
    <3> QED BY <1>k, <2>1, <3>1
  <2> HIDE DEF n
  <2> QED BY <1>i, <1>s, <2>1, <2>2, <2>3 DEF CausalInv, TypeOK
<1>5. ASSUME NEW c \in Call, Return(c)
      PROVE  CausalInv'
  <2>1. SetByCall(sent[c])
    BY <1>5, <1>i DEF Return, CallInv, CausalInv
  <2>2. CASE UNCHANGED <<status, reached, object>>
    BY <1>5, <1>s, <2>2 DEF Return, CausalInv
  <2>3. CASE Becomes("buyer", sent[c]) /\ object' = Left("buyer")
    BY <1>5, <1>i, <1>s, <1>k, <2>1, <2>3 DEF Return, Becomes, CausalInv, TypeOK
  <2> QED BY <1>5, <2>2, <2>3 DEF Return
<1>6. ASSUME NEW c \in Call, Fail(c)
      PROVE  CausalInv'
  BY <1>6, <1>i, <1>s DEF Fail, CausalInv, TypeOK
<1>7. ASSUME NEW w \in Waiter, WaitForOrder(w) \/ Stop(w) \/ Unregister(w)
      PROVE  CausalInv'
  BY <1>7, <1>s DEF WaitForOrder, Stop, Unregister, CausalInv, calls, history
<1> QED
  BY <1>1, <1>2, <1>3, <1>4, <1>5, <1>6, <1>7 DEF Next

-----------------------------------------------------------------------------
(* The theorems *)

\* The books are empty at first.
LEMMA InitIInv ==
  ASSUME Init
  PROVE  IInv
<1>1. TypeOK
  BY DEF Init, TypeOK, Status
<1>2. \A c \in Call : CallInv(c) /\ DeliveryInv(c)
  BY DEF Init, CallInv, DeliveryInv
<1>3. OwnInv /\ QuietInv /\ WaiterInv
  BY DEF Init, OwnInv, OwnOrder, QuietInv, Active, WaiterInv, Waits, Call
<1> QED BY <1>1, <1>2, <1>3 DEF IInv

\* The invariant is kept by every step.
LEMMA NextIInv ==
  ASSUME IInv, [Next]_vars
  PROVE  IInv'
<1>1. CASE Next
  <2>1. TypeOK'
    BY <1>1, NextTypes
  <2> QED BY <1>1, <2>1, NextCall, NextDelivery, NextOwn, NextQuiet, NextWaiters DEF IInv
<1>2. CASE UNCHANGED vars
  BY <1>2 DEF vars, calls, waiters, history, IInv, TypeOK, CallInv, DeliveryInv, OwnInv, OwnOrder,
              QuietInv, WaiterInv, Waits, Active, Seen, BookOf
<1> QED BY <1>1, <1>2

\* The invariant holds in every state of every run of the two books.
THEOREM OrdersInvariant == Spec => []IInv
BY InitIInv, NextIInv, PTL DEF Spec

\* Statuses, calls and waiters have their types, for any number of each.
THEOREM OrdersTypes == Spec => []TypeOK
<1>1. IInv => TypeOK
  BY DEF IInv
<1> QED BY <1>1, OrdersInvariant, PTL

\* Without overlap and failure the two books agree whenever nothing is under way.
THEOREM QuietBooks == Spec => []QuietBooksAgree
<1>1. IInv => QuietBooksAgree
  BY DEF IInv, QuietInv, QuietBooksAgree
<1> QED BY <1>1, OrdersInvariant, PTL

\* A call that returned no error, and that no other has blurred, has changed the
\* book of the counterparty.
THEOREM Deliveries == Spec => []SuccessMeansDelivered
<1>1. IInv => SuccessMeansDelivered
  BY DEF IInv, DeliveryInv, SuccessMeansDelivered
<1> QED BY <1>1, OrdersInvariant, PTL

\* Who waits alone does not sleep on when the order has come.
THEOREM Wakeups == Spec => []NoLostWakeup
<1>1. IInv => NoLostWakeup
  BY DEF IInv, WaiterInv, NoLostWakeup
<1> QED BY <1>1, OrdersInvariant, PTL

\* No book says what nobody did, whatever crosses on the way.
THEOREM StatusesAreSet == Spec => []NothingMadeUp
<1>1. Init => CausalInv
  BY DEF Init, CausalInv
<1>2. IInv /\ CausalInv /\ [Next]_vars => CausalInv'
  <2>1. CASE Next
    BY <2>1, NextCausal
  <2>2. CASE UNCHANGED vars
    BY <2>2 DEF vars, calls, waiters, history, CausalInv, SetByCall
  <2> QED BY <2>1, <2>2
<1>3. CausalInv => NothingMadeUp
  BY DEF CausalInv, NothingMadeUp
<1> QED BY <1>1, <1>2, <1>3, OrdersInvariant, PTL DEF Spec
=============================================================================
