---------------------------- MODULE X402Exchange ----------------------------
(***************************************************************************)
(* The buyer's side of a task: Manager.ExecuteTask and RemoteExecuteX402   *)
(* of internal/agent/manager.go over SendX402Message, with the session     *)
(* store the calls write to.  Calls run at once, in HTTP handlers, steps   *)
(* of workflows and the TUI; each opens one stream for its request and     *)
(* another for its paid request.                                           *)
(*                                                                         *)
(* The peer keeps the promise of PaidService and is free otherwise: it     *)
(* asks any price, answers late, never, or with what was not asked for.    *)
(***************************************************************************)
EXTENDS Naturals, FiniteSets

CONSTANTS
  Call,        \* the tasks a user submits, each with a correlation id of its own
  Agent,       \* what they are submitted to
  AgentOf(_),  \* the agent of a call
  Amounts,     \* what a peer may ask for
  None         \* no frame, no authorization

NoPayment == 0

\* a signed transfer; its nonce is the challenge's, one for each call
Auth == [call : Call, amount : Amounts]
Signature(c, a) == [call |-> c, amount |-> a]

\* sessions are kept by agent and caller
Sessions == Agent \X {"local", "node"}
Exchange == [call : Call, paid : Amounts \cup {NoPayment}]

Frame(type, a) == [type |-> type, amount |-> a]
Requests ==
  {Frame("request", NoPayment)} \cup {Frame("paid_request", a) : a \in Amounts}
Replies ==   \* a type the buyer does not expect is an error to it
  {Frame(t, NoPayment) : t \in {"response", "error"}}
    \cup {Frame("payment_required", a) : a \in Amounts}

ASSUME ExchangeAssumption ==
  /\ \A c \in Call : AgentOf(c) \in Agent
  /\ Amounts \subseteq Nat \ {NoPayment}
ASSUME NoneIsNoFrame == None \notin Auth \cup Requests \cup Replies

VARIABLES
  stage,     \* where each call stands
  outcome,   \* what it comes to
  signed,    \* the transfers signed
  work,      \* the frame a peer has of a call
  reply,     \* the frame on its way back
  settled,   \* the transfers on chain
  served,    \* what was served, against what
  session,   \* the session store
  copy,      \* what a call has read from it
  price,     \* what its challenge asked for
  raced,     \* the calls whose write another one is about to undo (history)
  unsaved,   \* the calls that are not recorded (history)
  feedback   \* the reputation feedback of a call

peer == <<work, reply, settled, served>>
store == <<session, copy, raced, unsaved>>
vars == <<stage, outcome, signed, peer, store, price, feedback>>

Seller == INSTANCE PaidService WITH Requests <- Call, Payments <- Auth, Free <- None

\* a call's session
KeyOf(c) == <<AgentOf(c), IF outcome[c] = "local" THEN "local" ELSE "node">>

TypeOK ==
  /\ stage \in [Call -> {"idle", "run", "asked", "paid", "load", "save", "done"}]
  /\ outcome \in [Call -> {"none", "local", "remote", "failed"}]
  /\ signed \subseteq Auth
  /\ work \in [Call -> Requests \cup {None}]
  /\ reply \in [Call -> Replies \cup {None}]
  /\ settled \subseteq signed
  /\ served \subseteq Call \X (Auth \cup {None})
  /\ session \in [Sessions -> SUBSET Exchange]
  /\ copy \in [Call -> SUBSET Exchange]
  /\ price \in [Call -> Amounts \cup {NoPayment}]
  /\ raced \subseteq Call /\ unsaved \subseteq Call
  /\ feedback \in [Call -> {"none", "due", "given", "failed"}]

Init ==
  /\ stage = [c \in Call |-> "idle"] /\ outcome = [c \in Call |-> "none"]
  /\ signed = {} /\ Seller!Init
  /\ work = [c \in Call |-> None] /\ reply = [c \in Call |-> None]
  /\ session = [s \in Sessions |-> {}] /\ copy = [c \in Call |-> {}]
  /\ price = [c \in Call |-> NoPayment]
  /\ raced = {} /\ unsaved = {}
  /\ feedback = [c \in Call |-> "none"]

Goes(c, place) == stage' = [stage EXCEPT ![c] = place]
Becomes(c, what) == outcome' = [outcome EXCEPT ![c] = what]

-----------------------------------------------------------------------------
(* ExecuteTask *)

\* no such agent, no runtime for it, no connection to its seller
Unreachable(c) ==
  /\ stage[c] = "idle"
  /\ Goes(c, "done") /\ Becomes(c, "failed")
  /\ UNCHANGED <<signed, peer, store, price, feedback>>

\* the agent is on this node
ExecuteLocally(c) ==
  /\ stage[c] = "idle"
  /\ Goes(c, "run")
  /\ UNCHANGED <<outcome, signed, peer, store, price, feedback>>

\* the agent is listed: the request is sent to its seller
Request(c) ==
  /\ stage[c] = "idle"
  /\ Goes(c, "asked")
  /\ work' = [work EXCEPT ![c] = Frame("request", NoPayment)]
  /\ UNCHANGED <<outcome, signed, reply, settled, served, store, price, feedback>>

\* the runtime, or a custom handler, returns; only a runtime's work is recorded
LocalEnds(c) ==
  /\ stage[c] = "run"
  /\ \/ Goes(c, "load") /\ Becomes(c, "local")
     \/ Goes(c, "done") /\ Becomes(c, "local")
     \/ Goes(c, "done") /\ Becomes(c, "failed")
  /\ unsaved' = IF stage'[c] = "done" THEN unsaved \cup {c} ELSE unsaved
  /\ UNCHANGED <<signed, peer, session, copy, raced, price, feedback>>

-----------------------------------------------------------------------------
(* RemoteExecuteX402 *)

Waits(c) == stage[c] \in {"asked", "paid"}
Received(c) == Waits(c) /\ reply[c] # None

\* mutant: the paid request leaves before the transfer is signed
SendsUnsigned(c) ==
  LET amount == reply[c].amount IN
  /\ price' = [price EXCEPT ![c] = amount]
  /\ work' = [work EXCEPT ![c] = Frame("paid_request", amount)]
  /\ reply' = [reply EXCEPT ![c] = None]
  /\ Goes(c, "paid")
  /\ UNCHANGED <<outcome, signed, settled, served, store, feedback>>

\* the transfer the challenge asks for is signed and sent
Signs(c) ==
  LET amount == reply[c].amount IN
  /\ signed' = signed \cup {Signature(c, amount)}
  /\ price' = [price EXCEPT ![c] = amount]
  /\ work' = [work EXCEPT ![c] = Frame("paid_request", amount)]
  /\ reply' = [reply EXCEPT ![c] = None]
  /\ Goes(c, "paid")
  /\ UNCHANGED <<outcome, settled, served, store, feedback>>

\* mutant: every challenge is paid, the answer to a paid request included
PaysEveryChallenge(c) ==
  /\ Received(c) /\ reply[c].type = "payment_required"
  /\ Signs(c)

\* the answer to the request is a challenge
Pay(c) ==
  /\ stage[c] = "asked" /\ Received(c) /\ reply[c].type = "payment_required"
  /\ Signs(c)

\* mutant: an x402.error is taken for an output
TakesErrors(c) ==
  /\ Received(c)
  /\ Goes(c, "load") /\ Becomes(c, "remote")
  /\ reply' = [reply EXCEPT ![c] = None]
  /\ UNCHANGED <<signed, work, settled, served, store, price, feedback>>

\* the answer is a response: its output is the call's
TakeOutput(c) ==
  /\ Received(c) /\ reply[c].type = "response"
  /\ Goes(c, "load") /\ Becomes(c, "remote")
  /\ reply' = [reply EXCEPT ![c] = None]
  /\ UNCHANGED <<signed, work, settled, served, store, price, feedback>>

\* the answer is an error or not to be expected, or there is no wallet to pay with
Fail(c) ==
  /\ Received(c) /\ reply[c].type # "response"
  /\ Goes(c, "done") /\ Becomes(c, "failed")
  /\ reply' = [reply EXCEPT ![c] = None]
  /\ UNCHANGED <<signed, work, settled, served, store, price, feedback>>


\* the stream fails, its answer cannot be read, or its 30 s are over; a late answer
\* finds it closed
GiveUp(c) ==
  /\ Waits(c)
  /\ Goes(c, "done") /\ Becomes(c, "failed")
  /\ reply' = [reply EXCEPT ![c] = None]
  /\ UNCHANGED <<signed, work, settled, served, store, price, feedback>>

-----------------------------------------------------------------------------
(* AddExchange, and the goroutine of the feedback *)

\* the call returns; its feedback is left to a goroutine if the output was paid
\* for, the node can give one and the seller has a token
Return(c) ==
  /\ Goes(c, "done")
  /\ \/ UNCHANGED feedback
     \/ price[c] # NoPayment /\ feedback' = [feedback EXCEPT ![c] = "due"]

LoadSession(c) ==
  /\ stage[c] = "load"
  /\ Goes(c, "save")
  /\ copy' = [copy EXCEPT ![c] = session[KeyOf(c)]]
  /\ UNCHANGED <<outcome, signed, peer, session, raced, unsaved, price, feedback>>

Record(c) == [call |-> c, paid |-> price[c]]

\* mutant: a session is begun for each exchange
BeginsSession(c) == session' = [session EXCEPT ![KeyOf(c)] = {Record(c)}]

\* mutant: the record names the price of the listing
RecordsListedPrice(c) ==
  session' = [session EXCEPT ![KeyOf(c)] = copy[c] \cup
    {[call |-> c, paid |-> IF price[c] = NoPayment THEN NoPayment
                           ELSE CHOOSE a \in Amounts : TRUE]}]

Appends(c) == session' = [session EXCEPT ![KeyOf(c)] = copy[c] \cup {Record(c)}]

SaveSession(c) ==
  /\ stage[c] = "save"
  /\ Appends(c) /\ Return(c)
  /\ copy' = [copy EXCEPT ![c] = {}]
  /\ raced' = IF \E d \in Call \ {c} : stage[d] = "save" /\ KeyOf(d) = KeyOf(c)
              THEN raced \cup {c} ELSE raced
  /\ UNCHANGED <<outcome, signed, peer, unsaved, price>>

\* the read or the write fails, or there is no store; the call does not mind
NotSaved(c) ==
  /\ stage[c] \in {"load", "save"}
  /\ Return(c)
  /\ unsaved' = unsaved \cup {c}
  /\ copy' = [copy EXCEPT ![c] = {}]
  /\ UNCHANGED <<outcome, signed, peer, session, raced, price>>

GiveFeedback(c) ==
  /\ feedback[c] = "due"
  /\ \E result \in {"given", "failed"} : feedback' = [feedback EXCEPT ![c] = result]
  /\ UNCHANGED <<stage, outcome, signed, peer, store, price>>

-----------------------------------------------------------------------------
(* The peer *)

\* an answer reaches the buyer, unless it waits no more
Answers(c, frame) ==
  /\ work' = [work EXCEPT ![c] = None]
  /\ reply' = IF Waits(c) THEN [reply EXCEPT ![c] = frame] ELSE reply

\* a challenge, an error, or anything else but an output
PeerDeclines(c) ==
  /\ work[c] # None
  /\ \E frame \in Replies : frame.type # "response" /\ Answers(c, frame)
  /\ UNCHANGED <<stage, outcome, signed, settled, served, store, price, feedback>>

PeerServesFree(c) ==
  /\ work[c] = Frame("request", NoPayment)
  /\ Seller!ServeFree(c)
  /\ Answers(c, Frame("response", NoPayment))
  /\ UNCHANGED <<stage, outcome, signed, store, price, feedback>>

PeerSettles(c) ==
  /\ work[c] # None /\ work[c].type = "paid_request"
  /\ Seller!Settle(Signature(c, work[c].amount))
  /\ UNCHANGED <<stage, outcome, signed, work, reply, store, price, feedback>>

PeerServesPaid(c) ==
  /\ work[c] # None /\ work[c].type = "paid_request"
  /\ Seller!ServePaid(c, Signature(c, work[c].amount))
  /\ Answers(c, Frame("response", NoPayment))
  /\ UNCHANGED <<stage, outcome, signed, store, price, feedback>>

-----------------------------------------------------------------------------
Execute(c) == Unreachable(c) \/ ExecuteLocally(c) \/ Request(c)
Buyer(c) ==
  \/ LocalEnds(c) \/ Pay(c) \/ TakeOutput(c) \/ Fail(c) \/ GiveUp(c)
  \/ LoadSession(c) \/ SaveSession(c) \/ NotSaved(c)
Peer(c) == PeerDeclines(c) \/ PeerServesFree(c) \/ PeerSettles(c) \/ PeerServesPaid(c)

Next == \E c \in Call : Execute(c) \/ Buyer(c) \/ GiveFeedback(c) \/ Peer(c)

Spec == Init /\ [][Next]_vars

\* runtimes return, streams have deadlines, the store answers; a peer owes nothing
Fairness == \A c \in Call : WF_vars(Buyer(c))

FairSpec == Spec /\ Fairness

-----------------------------------------------------------------------------
(* Properties *)

Paid(c) == {p \in signed : p.call = c}

\* Every behaviour of the calls is one that Purchase promises their user: what is
\* signed, settled and returned happens once, in order, and never after the call
\* has ended, but for a settlement that comes late (manager.go 239-944).
Result(c) == CASE outcome[c] = "none" -> "open"
               [] outcome[c] = "failed" -> "error"
               [] OTHER -> "output"
User == INSTANCE Purchase WITH
  Tasks <- Call, Transfers <- Auth,
  spent <- signed, paid <- settled, result <- [c \in Call |-> Result(c)]
ImplementsPurchase == User!Spec

\* the steps a call has left at most
StepsLeft(c) ==
  CASE stage[c] = "idle" -> 5
    [] stage[c] = "asked" -> 4
    [] stage[c] \in {"paid", "run"} -> 3
    [] stage[c] = "load" -> 2
    [] stage[c] = "save" -> 1
    [] stage[c] = "done" -> 0

\* A call costs its user at most five steps and one paid request: each step of its
\* own brings its return nearer, and nothing a peer or another call does takes it
\* away again (manager.go 811-944).
ReturnsComeNearer ==
  [][\A c \in Call :
       /\ Execute(c) \/ Buyer(c) => StepsLeft(c)' < StepsLeft(c)
       /\ StepsLeft(c)' <= StepsLeft(c)]_vars

\* A call never gets more than one transfer of the user's money out of the
\* wallet, whatever the peer answers: a challenge in answer to the paid request
\* ends the call (manager.go 934-935, the default branch).
OneTransferPerCall ==
  \A c \in Call : Cardinality(Paid(c)) <= 1 /\ Cardinality(Paid(c) \cap settled) <= 1

\* A remote output comes from a peer that served the call: for nothing, and then
\* nothing was signed, or against the call's own transfer, and then it is on
\* chain; feedback goes on chain for the second kind only (manager.go 841-931).
OutputsArePaidFor ==
  \A c \in Call :
    /\ outcome[c] = "remote" =>
         \/ <<c, None>> \in served /\ Paid(c) = {}
         \/ \E p \in Paid(c) \cap settled : <<c, p>> \in served
    /\ feedback[c] # "none" => \E p \in Paid(c) \cap settled : <<c, p>> \in served

\* The session store agrees with the chain: an exchange is recorded once, for a
\* call that returned its output, with the payment it was served against or none
\* (manager.go 843-850, 895-910).
RecordsAgreeWithChain ==
  \A s \in Sessions : \A x \in session[s] :
    /\ outcome[x.call] \in {"local", "remote"} /\ s = KeyOf(x.call)
    /\ IF x.paid = NoPayment
       THEN Paid(x.call) = {}
       ELSE /\ Signature(x.call, x.paid) \in settled
            /\ <<x.call, Signature(x.call, x.paid)>> \in served

\* A call that returned an output is in its session, unless the store failed or
\* another call of the session had read it and not yet written: AddExchange
\* holds no lock (store.go 76-100), and this is all that it loses.
OnlyRacesLoseRecords ==
  \A c \in Call :
    stage[c] = "done" /\ outcome[c] \in {"local", "remote"} /\ c \notin raced \cup unsaved
      => Record(c) \in session[KeyOf(c)]

=============================================================================
