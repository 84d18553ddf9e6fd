------------------------- MODULE X402ExchangeProofs -------------------------
(***************************************************************************)
(* The inductive invariant of X402Exchange, for any calls, agents and      *)
(* amounts.                                                                *)
(***************************************************************************)
EXTENDS X402Exchange, FiniteSetTheorems, TLAPS

\* the peer has served the call, against what the call signed
Earned(c) ==
  IF price[c] = NoPayment
  THEN <<c, None>> \in served
  ELSE /\ Signature(c, price[c]) \in settled
       /\ <<c, Signature(c, price[c])>> \in served

\* what a call has signed, and what the peer and the answer know of it
MoneyInv(c) ==
  /\ \A p \in signed : p.call = c => price[c] # NoPayment /\ p = Signature(c, price[c])
  /\ price[c] # NoPayment => Signature(c, price[c]) \in signed
  /\ stage[c] \in {"idle", "run", "asked"} => price[c] = NoPayment
  /\ outcome[c] = "local" => price[c] = NoPayment
  /\ work[c] # None /\ work[c].type = "request" => price[c] = NoPayment
  /\ work[c] # None /\ work[c].type = "paid_request" =>
       price[c] # NoPayment /\ work[c].amount = price[c]
  /\ reply[c] # None => Waits(c)
  /\ reply[c] # None /\ reply[c].type = "response" => Earned(c)
  /\ outcome[c] = "remote" => Earned(c)
  /\ outcome[c] = "none" <=> stage[c] \in {"idle", "run", "asked", "paid"}
  /\ stage[c] \in {"load", "save"} => outcome[c] \in {"local", "remote"}
  /\ feedback[c] # "none" => price[c] # NoPayment /\ outcome[c] = "remote"

\* the exchange is that of a call which has returned, and s its session
Real(x, s) ==
  /\ stage[x.call] = "done" /\ outcome[x.call] \in {"local", "remote"}
  /\ x = Record(x.call) /\ s = KeyOf(x.call)

\* a record no race has undone is there, and in every copy about to be written
Kept(c) ==
  stage[c] = "done" /\ outcome[c] \in {"local", "remote"} /\ c \notin raced \cup unsaved =>
    /\ Record(c) \in session[KeyOf(c)]
    /\ \A d \in Call : stage[d] = "save" /\ KeyOf(d) = KeyOf(c) => Record(c) \in copy[d]

StoreInv ==
  /\ \A s \in Sessions : \A x \in session[s] : Real(x, s)
  /\ \A c \in Call : \A x \in copy[c] : Real(x, KeyOf(c))
  /\ \A c \in Call : copy[c] # {} => stage[c] = "save"
  /\ \A c \in Call : Kept(c)

IInv ==
  /\ TypeOK
  /\ \A c \in Call : MoneyInv(c)
  /\ StoreInv

-----------------------------------------------------------------------------
USE ExchangeAssumption

\* A transfer that is signed for a call is one.
LEMMA Signatures ==
  /\ \A c \in Call, a \in Amounts :
       /\ Signature(c, a) \in Auth
       /\ Signature(c, a).call = c /\ Signature(c, a).amount = a
  /\ \A p \in Auth : p.call \in Call /\ p.amount \in Amounts /\ p = Signature(p.call, p.amount)
  /\ None \notin Auth
BY NoneIsNoFrame DEF Signature, Auth

\* The frames of the protocol tell requests from paid requests.
LEMMA Frames ==
  /\ Frame("request", NoPayment) \in Requests /\ Frame("request", NoPayment) # None
  /\ Frame("request", NoPayment).type = "request"
  /\ \A a \in Amounts : /\ Frame("paid_request", a) \in Requests
                        /\ Frame("paid_request", a).type = "paid_request"
                        /\ Frame("paid_request", a).amount = a
  /\ \A f \in Requests : f.type = "paid_request" => f.amount \in Amounts
  /\ Frame("response", NoPayment) \in Replies
  /\ Frame("response", NoPayment).type = "response"
  /\ \A f \in Replies : f.type = "payment_required" => f.amount \in Amounts
<1>1. /\ Frame("request", NoPayment) \in Requests
      /\ \A a \in Amounts : Frame("paid_request", a) \in Requests
      /\ Frame("response", NoPayment) \in Replies
  BY DEF Requests, Replies
<1>2. \A t, a : Frame(t, a).type = t /\ Frame(t, a).amount = a
  BY DEF Frame
<1>3. ASSUME NEW f \in Requests, f.type = "paid_request"
      PROVE  f.amount \in Amounts
  <2>1. f # Frame("request", NoPayment)
    BY <1>2, <1>3
  <2>2. PICK a \in Amounts : f = Frame("paid_request", a)
    BY <2>1 DEF Requests
  <2> QED BY <1>2, <2>2
<1>4. ASSUME NEW f \in Replies, f.type = "payment_required"
      PROVE  f.amount \in Amounts
  <2>1. \A t \in {"response", "error"} : f # Frame(t, NoPayment)
    BY <1>2, <1>4
  <2>2. PICK a \in Amounts : f = Frame("payment_required", a)
    BY <2>1 DEF Replies
  <2> QED BY <1>2, <2>2
<1>5. Frame("request", NoPayment) # None
  BY <1>1, NoneIsNoFrame
<1> QED BY <1>1, <1>2, <1>3, <1>4, <1>5

\* The record of a call is an exchange, and its session one of the store's.
LEMMA Records ==
  ASSUME TypeOK, NEW c \in Call
  PROVE  Record(c) \in Exchange /\ Record(c).call = c /\ Record(c).paid = price[c]
         /\ KeyOf(c) \in Sessions
BY DEF TypeOK, Record, Exchange, KeyOf, Sessions

-----------------------------------------------------------------------------
(* Types *)

\* A step of ExecuteTask, before a peer is asked, keeps the types.
LEMMA ExecuteTypes ==
  ASSUME TypeOK, NEW c \in Call, Execute(c)
  PROVE  TypeOK'
BY Frames DEF Execute, Unreachable, ExecuteLocally, Request, Goes, Becomes, TypeOK, peer, store

\* A step of the buyer keeps the types (manager.go 239-328, 811-944).
LEMMA BuyerTypes ==
  ASSUME IInv, NEW c \in Call, Buyer(c) \/ GiveFeedback(c)
  PROVE  TypeOK'
<1>i. TypeOK
  BY DEF IInv
<1>1. CASE LocalEnds(c)
  <2>1. unsaved' \subseteq Call
    BY <1>1, <1>i DEF LocalEnds, TypeOK
  <2> QED BY <1>1, <1>i, <2>1 DEF LocalEnds, Goes, Becomes, TypeOK, peer
<1>2. CASE Pay(c)
  <2>1. reply[c].amount \in Amounts
    BY <1>2, <1>i, Frames DEF Pay, Received, TypeOK
  <2>2. signed' \subseteq Auth /\ settled' \subseteq signed'
    BY <1>2, <1>i, <2>1, Signatures DEF Pay, Signs, TypeOK
  <2>3. work' \in [Call -> Requests \cup {None}]
    BY <1>2, <1>i, <2>1, Frames DEF Pay, Signs, TypeOK
  <2> QED BY <1>2, <1>i, <2>1, <2>2, <2>3 DEF Pay, Signs, Goes, TypeOK, store
<1>3. CASE TakeOutput(c)
  BY <1>3, <1>i DEF TakeOutput, Goes, Becomes, TypeOK, store
<1>4. CASE Fail(c) \/ GiveUp(c)
  BY <1>4, <1>i DEF Fail, GiveUp, Goes, Becomes, TypeOK, store
<1>5. CASE LoadSession(c)
  <2>1. session[KeyOf(c)] \subseteq Exchange
    BY <1>i, Records DEF TypeOK
  <2> QED BY <1>5, <1>i, <2>1 DEF LoadSession, Goes, TypeOK, peer
<1>6. CASE SaveSession(c)
  <2>1. session' \in [Sessions -> SUBSET Exchange]
    BY <1>6, <1>i, Records DEF SaveSession, Appends, TypeOK
  <2>2. feedback' \in [Call -> {"none", "due", "given", "failed"}]
    BY <1>6, <1>i DEF SaveSession, Return, TypeOK
  <2>3. raced' \subseteq Call
    BY <1>6, <1>i DEF SaveSession, TypeOK
  <2> QED BY <1>6, <1>i, <2>1, <2>2, <2>3 DEF SaveSession, Return, Goes, TypeOK, peer
<1>7. CASE NotSaved(c)
  <2>1. feedback' \in [Call -> {"none", "due", "given", "failed"}]
    BY <1>7, <1>i DEF NotSaved, Return, TypeOK
  <2> QED BY <1>7, <1>i, <2>1 DEF NotSaved, Return, Goes, TypeOK, peer
<1>8. CASE GiveFeedback(c)
  BY <1>8, <1>i DEF GiveFeedback, TypeOK, peer, store
<1> QED
  BY <1>1, <1>2, <1>3, <1>4, <1>5, <1>6, <1>7, <1>8 DEF Buyer

\* A step of the peer keeps the types: what it settles has been signed.
LEMMA PeerTypes ==
  ASSUME IInv, NEW c \in Call, Peer(c)
  PROVE  TypeOK'
<1>i. TypeOK /\ MoneyInv(c)
  BY DEF IInv
<1>1. CASE PeerDeclines(c)
  BY <1>1, <1>i DEF PeerDeclines, Answers, TypeOK, store
<1>2. CASE PeerServesFree(c)
  BY <1>2, <1>i, Frames DEF PeerServesFree, Answers, Seller!ServeFree, TypeOK, store
<1>3. CASE PeerSettles(c)
  <2>1. Signature(c, work[c].amount) \in signed
    BY <1>3, <1>i DEF PeerSettles, MoneyInv
  <2> QED BY <1>3, <1>i, <2>1 DEF PeerSettles, Seller!Settle, TypeOK, store
<1>4. CASE PeerServesPaid(c)
  <2>1. work[c].amount \in Amounts
    BY <1>4, <1>i, Frames DEF PeerServesPaid, TypeOK
  <2>2. Signature(c, work[c].amount) \in Auth
    BY <2>1, Signatures
  <2> QED BY <1>4, <1>i, <2>2, Frames DEF PeerServesPaid, Answers, Seller!ServePaid, TypeOK, store
<1> QED
  BY <1>1, <1>2, <1>3, <1>4 DEF Peer

-----------------------------------------------------------------------------
(* Money *)

\* What is served, or settled, stays.
LEMMA EarnedStays ==
  ASSUME NEW c \in Call, Earned(c), price'[c] = price[c],
         settled \subseteq settled', served \subseteq served'
  PROVE  Earned(c)'
BY DEF Earned

\* A step of a call leaves the money of the others alone.
LEMMA OthersMoney ==
  ASSUME TypeOK, NEW c \in Call, Execute(c) \/ Buyer(c) \/ GiveFeedback(c) \/ Peer(c),
         NEW d \in Call, d # c
  PROVE  /\ stage'[d] = stage[d] /\ outcome'[d] = outcome[d] /\ price'[d] = price[d]
         /\ work'[d] = work[d] /\ reply'[d] = reply[d] /\ feedback'[d] = feedback[d]
         /\ settled \subseteq settled' /\ served \subseteq served'
         /\ \A p \in Auth : p.call = d => (p \in signed' <=> p \in signed)
<1>1. CASE Execute(c)
  BY <1>1 DEF Execute, Unreachable, ExecuteLocally, Request, Goes, Becomes, TypeOK, peer
<1>2. CASE Pay(c)
  BY <1>2, Signatures DEF Pay, Signs, Goes, TypeOK, Signature
<1>3. CASE (Buyer(c) \/ GiveFeedback(c)) /\ ~Pay(c)
  BY <1>3 DEF Buyer, LocalEnds, TakeOutput, Fail, GiveUp, LoadSession, SaveSession, NotSaved,
              Return, GiveFeedback, Goes, Becomes, TypeOK, peer
<1>4. CASE Peer(c)
  BY <1>4 DEF Peer, PeerDeclines, PeerServesFree, PeerSettles, PeerServesPaid, Answers, TypeOK,
              Seller!ServeFree, Seller!Settle, Seller!ServePaid
<1> QED BY <1>1, <1>2, <1>3, <1>4

\* A step keeps what is known of the other calls' money.
LEMMA OthersInv ==
  ASSUME IInv, TypeOK', NEW c \in Call,
         Execute(c) \/ Buyer(c) \/ GiveFeedback(c) \/ Peer(c), NEW d \in Call, d # c
  PROVE  MoneyInv(d)'
<1>i. TypeOK /\ MoneyInv(d)
  BY DEF IInv
<1>o. /\ stage'[d] = stage[d] /\ outcome'[d] = outcome[d] /\ price'[d] = price[d]
      /\ work'[d] = work[d] /\ reply'[d] = reply[d] /\ feedback'[d] = feedback[d]
      /\ settled \subseteq settled' /\ served \subseteq served'
      /\ \A p \in Auth : p.call = d => (p \in signed' <=> p \in signed)
  BY <1>i, OthersMoney
<1>1. Earned(d) => Earned(d)'
  BY <1>o, EarnedStays
<1>2. /\ \A p \in signed' : p.call = d => price'[d] # NoPayment /\ p = Signature(d, price'[d])
      /\ price'[d] # NoPayment => Signature(d, price'[d]) \in signed'
  <2>1. signed' \subseteq Auth /\ price[d] \in Amounts \cup {NoPayment}
    BY <1>i DEF TypeOK
  <2>2. ASSUME NEW p \in signed', p.call = d
        PROVE  price'[d] # NoPayment /\ p = Signature(d, price'[d])
    <3>1. p \in signed
      BY <1>o, <2>1, <2>2
    <3> QED BY <1>i, <1>o, <2>2, <3>1 DEF MoneyInv
  <2>3. ASSUME price'[d] # NoPayment
        PROVE  Signature(d, price'[d]) \in signed'
    <3>1. Signature(d, price[d]) \in signed
      BY <1>i, <1>o, <2>3 DEF MoneyInv
    <3>2. Signature(d, price[d]) \in Auth /\ Signature(d, price[d]).call = d
      BY <1>o, <2>1, <2>3, Signatures
    <3> QED BY <1>o, <3>1, <3>2
  <2> QED BY <2>2, <2>3
<1>3. Waits(d)' <=> Waits(d)
  BY <1>o DEF Waits
<1> QED BY <1>i, <1>o, <1>1, <1>2, <1>3 DEF MoneyInv

\* A step of ExecuteTask, before a peer is asked, moves no money.
LEMMA ExecuteMoney ==
  ASSUME IInv, TypeOK', NEW c \in Call, Execute(c)
  PROVE  MoneyInv(c)'
<1>i. TypeOK /\ MoneyInv(c)
  BY DEF IInv
<1>1. stage[c] = "idle" /\ price' = price /\ signed' = signed /\ reply' = reply
      /\ feedback' = feedback /\ settled' = settled /\ served' = served
  BY DEF Execute, Unreachable, ExecuteLocally, Request, peer
<1>2. price[c] = NoPayment /\ reply[c] = None /\ outcome[c] = "none" /\ feedback[c] = "none"
  BY <1>i, <1>1 DEF MoneyInv, Waits
<1>3. \/ stage'[c] = "done" /\ outcome'[c] = "failed" /\ work' = work
      \/ stage'[c] = "run" /\ outcome' = outcome /\ work' = work
      \/ stage'[c] = "asked" /\ outcome' = outcome /\ work'[c] = Frame("request", NoPayment)
  BY <1>i DEF Execute, Unreachable, ExecuteLocally, Request, Goes, Becomes, TypeOK, peer
<1> QED BY <1>i, <1>1, <1>2, <1>3, Frames DEF MoneyInv

\* A step of the buyer signs one transfer at most, and takes an output only
\* from an answer that was earned (manager.go 811-944).
LEMMA BuyerMoney ==
  ASSUME IInv, TypeOK', NEW c \in Call, Buyer(c) \/ GiveFeedback(c)
  PROVE  MoneyInv(c)'
<1>i. TypeOK /\ MoneyInv(c)
  BY DEF IInv
<1>1. CASE LocalEnds(c)
  <2>1. /\ stage[c] = "run" /\ UNCHANGED <<signed, peer, price, feedback>>
        /\ \/ stage'[c] \in {"load", "done"} /\ outcome'[c] = "local"
           \/ stage'[c] = "done" /\ outcome'[c] = "failed"
    BY <1>1, <1>i DEF LocalEnds, Goes, Becomes, TypeOK
  <2> QED BY <1>i, <2>1 DEF MoneyInv, Waits, peer
<1>2. CASE Pay(c)
  <2> DEFINE a == reply[c].amount
  <2>1. a \in Amounts /\ a # NoPayment /\ price[c] = NoPayment
    BY <1>2, <1>i, Frames DEF Pay, Received, TypeOK, MoneyInv
  <2>2. /\ stage'[c] = "paid" /\ price'[c] = a /\ reply'[c] = None
        /\ work'[c] = Frame("paid_request", a) /\ signed' = signed \cup {Signature(c, a)}
        /\ outcome' = outcome /\ feedback' = feedback /\ stage[c] = "asked"
    BY <1>2, <1>i DEF Pay, Signs, Goes, TypeOK
  <2>3. \A p \in signed : p.call # c
    BY <1>i, <2>1 DEF MoneyInv
  <2> QED BY <1>i, <2>1, <2>2, <2>3, Frames DEF MoneyInv
<1>3. CASE TakeOutput(c)
  <2>1. Earned(c) /\ (Earned(c) => Earned(c)')
    BY <1>3, <1>i, EarnedStays DEF TakeOutput, Received, MoneyInv
  <2>2. /\ stage'[c] = "load" /\ outcome'[c] = "remote" /\ reply'[c] = None
        /\ UNCHANGED <<signed, work, price, feedback>> /\ stage[c] \in {"asked", "paid"}
    BY <1>3, <1>i DEF TakeOutput, Goes, Becomes, TypeOK, Received, Waits
  <2> QED BY <1>i, <2>1, <2>2 DEF MoneyInv
<1>4. CASE Fail(c) \/ GiveUp(c)
  <2>1. /\ stage'[c] = "done" /\ outcome'[c] = "failed" /\ reply'[c] = None
        /\ UNCHANGED <<signed, work, price, feedback>> /\ stage[c] \in {"asked", "paid"}
    BY <1>4, <1>i DEF Fail, GiveUp, Goes, Becomes, TypeOK, Received, Waits
  <2> QED BY <1>i, <2>1 DEF MoneyInv
<1>5. CASE LoadSession(c)
  <2>1. /\ stage[c] = "load" /\ stage'[c] = "save"
        /\ UNCHANGED <<outcome, signed, peer, price, feedback>>
    BY <1>5, <1>i DEF LoadSession, Goes, TypeOK
  <2> QED BY <1>i, <2>1 DEF MoneyInv, Waits, Earned, peer
<1>6. CASE SaveSession(c) \/ NotSaved(c)
  <2>1. /\ stage[c] \in {"load", "save"} /\ stage'[c] = "done"
        /\ UNCHANGED <<outcome, signed, peer, price>>
        /\ feedback'[c] # "none" => feedback[c] # "none" \/ price[c] # NoPayment
    BY <1>6, <1>i DEF SaveSession, NotSaved, Return, Goes, TypeOK
  <2> QED BY <1>i, <2>1 DEF MoneyInv, Waits, Earned, peer
<1>7. CASE GiveFeedback(c)
  <2>1. /\ UNCHANGED <<stage, outcome, signed, peer, price>>
        /\ feedback[c] # "none"
    BY <1>7 DEF GiveFeedback
  <2> QED BY <1>i, <2>1 DEF MoneyInv, Waits, Earned, peer
<1> QED
  BY <1>1, <1>2, <1>3, <1>4, <1>5, <1>6, <1>7 DEF Buyer

\* A step of the peer answers with an output what it has served
\* (PaidService's promise).
LEMMA PeerMoney ==
  ASSUME IInv, TypeOK', NEW c \in Call, Peer(c)
  PROVE  MoneyInv(c)'
<1>i. TypeOK /\ MoneyInv(c)
  BY DEF IInv
<1>u. UNCHANGED <<stage, outcome, signed, price, feedback>>
      /\ settled \subseteq settled' /\ served \subseteq served'
  BY DEF Peer, PeerDeclines, PeerServesFree, PeerSettles, PeerServesPaid,
         Seller!ServeFree, Seller!Settle, Seller!ServePaid
<1>e. Earned(c) => Earned(c)'
  BY <1>u, EarnedStays
<1>w. Waits(c)' <=> Waits(c)
  BY <1>u DEF Waits
<1>1. CASE PeerDeclines(c)
  <2>1. PICK f \in Replies : f.type # "response" /\ Answers(c, f)
    BY <1>1 DEF PeerDeclines
  <2>2. work'[c] = None
    BY <1>i, <2>1 DEF Answers, TypeOK
  <2>3. reply'[c] = reply[c] \/ (Waits(c) /\ reply'[c] = f)
    BY <1>i, <2>1 DEF Answers, TypeOK
  <2> QED BY <1>i, <1>u, <1>e, <1>w, <2>1, <2>2, <2>3 DEF MoneyInv
<1>2. CASE PeerServesFree(c)
  <2>1. work'[c] = None /\ price[c] = NoPayment
    BY <1>2, <1>i, Frames DEF PeerServesFree, Answers, TypeOK, MoneyInv
  <2>2. reply'[c] = reply[c] \/ Waits(c)
    BY <1>2, <1>i DEF PeerServesFree, Answers, TypeOK
  <2>3. Earned(c)'
    BY <1>2, <1>u, <2>1 DEF PeerServesFree, Seller!ServeFree, Earned
  <2> QED BY <1>i, <1>u, <1>w, <2>1, <2>2, <2>3 DEF MoneyInv
<1>3. CASE PeerSettles(c)
  BY <1>3, <1>i, <1>u, <1>e, <1>w DEF PeerSettles, MoneyInv
<1>4. CASE PeerServesPaid(c)
  <2>1. work'[c] = None /\ price[c] # NoPayment /\ work[c].amount = price[c]
    BY <1>4, <1>i DEF PeerServesPaid, Answers, TypeOK, MoneyInv
  <2>2. reply'[c] = reply[c] \/ Waits(c)
    BY <1>4, <1>i DEF PeerServesPaid, Answers, TypeOK
  <2>3. Earned(c)'
    BY <1>4, <1>u, <2>1 DEF PeerServesPaid, Seller!ServePaid, Earned
  <2> QED BY <1>i, <1>u, <1>w, <2>1, <2>2, <2>3 DEF MoneyInv
<1> QED
  BY <1>1, <1>2, <1>3, <1>4 DEF Peer

-----------------------------------------------------------------------------
(* The session store *)

\* A call that has returned an output, or is about to record it, has the record
\* and the session it will have.
LEMMA RecordStays ==
  ASSUME IInv, NEW c \in Call, Execute(c) \/ Buyer(c) \/ GiveFeedback(c) \/ Peer(c),
         NEW d \in Call, stage[d] \in {"load", "save", "done"}
  PROVE  /\ outcome'[d] = outcome[d] /\ price'[d] = price[d]
         /\ Record(d)' = Record(d) /\ KeyOf(d)' = KeyOf(d)
         /\ stage[d] = "done" => stage'[d] = "done"
         /\ d # c => stage'[d] = stage[d]
<1>i. TypeOK
  BY DEF IInv
<1>1. outcome'[d] = outcome[d] /\ price'[d] = price[d]
      /\ (stage[d] = "done" => stage'[d] = "done") /\ (d # c => stage'[d] = stage[d])
  <2>1. CASE d # c
    BY <1>i, <2>1, OthersMoney
  <2>2. CASE d = c /\ Execute(c)
    BY <2>2 DEF Execute, Unreachable, ExecuteLocally, Request
  <2>3. CASE d = c /\ (Buyer(c) \/ GiveFeedback(c))
    BY <1>i, <2>3 DEF Buyer, LocalEnds, Pay, TakeOutput, Fail, GiveUp, Received, Waits,
                LoadSession, SaveSession, NotSaved, Return, GiveFeedback, Goes, TypeOK
  <2>4. CASE d = c /\ Peer(c)
    BY <2>4 DEF Peer, PeerDeclines, PeerServesFree, PeerSettles, PeerServesPaid
  <2> QED BY <2>1, <2>2, <2>3, <2>4
<1> QED BY <1>1 DEF Record, KeyOf

\* A step that leaves the store alone, and neither saves nor fails to, keeps what
\* is known of it.
LEMMA StoreStays ==
  ASSUME IInv, TypeOK', NEW c \in Call, Execute(c) \/ Buyer(c) \/ GiveFeedback(c) \/ Peer(c),
         UNCHANGED <<session, copy, raced>>, unsaved \subseteq unsaved',
         stage[c] \notin {"load", "save"}, stage'[c] # "save",
         stage[c] # "done" /\ stage'[c] = "done" => outcome'[c] = "failed" \/ c \in unsaved'
  PROVE  StoreInv'
<1>i. TypeOK /\ StoreInv
  BY DEF IInv
<1>1. ASSUME NEW x \in Exchange, NEW s, Real(x, s)
      PROVE  Real(x, s)'
  <2>1. x.call \in Call
    BY DEF Exchange
  <2> QED BY <1>1, <2>1, RecordStays DEF Real
<1>2. \A d \in Call : stage'[d] = "save" <=> stage[d] = "save"
  BY <1>i, OthersMoney
<1>3. \A d \in Call : stage[d] = "save" => KeyOf(d)' = KeyOf(d)
  BY RecordStays
<1>4. \A s \in Sessions : \A x \in session'[s] : Real(x, s)'
  <2>1. \A s \in Sessions : \A x \in session[s] : x \in Exchange
    BY <1>i DEF TypeOK
  <2> QED BY <1>i, <1>1, <2>1 DEF StoreInv
<1>5. ASSUME NEW d \in Call, NEW x \in copy'[d]
      PROVE  Real(x, KeyOf(d))'
  <2>1. x \in Exchange /\ Real(x, KeyOf(d)) /\ stage[d] = "save"
    BY <1>i, <1>5 DEF TypeOK, StoreInv
  <2>2. PICK s : s = KeyOf(d)
    OBVIOUS
  <2>3. Real(x, s)' /\ KeyOf(d)' = s
    BY <1>1, <1>3, <2>1, <2>2
  <2> QED BY <2>3 DEF Real
<1>6. \A d \in Call : copy'[d] # {} => stage'[d] = "save"
  BY <1>i, <1>2 DEF StoreInv
<1>7. ASSUME NEW d \in Call
      PROVE  Kept(d)'
  <2>1. SUFFICES ASSUME stage'[d] = "done", outcome'[d] \in {"local", "remote"},
                        d \notin raced \cup unsaved'
                 PROVE  /\ Record(d)' \in (session[KeyOf(d)])'
                        /\ \A e \in Call : stage'[e] = "save" /\ KeyOf(e)' = KeyOf(d)' =>
                             Record(d)' \in copy'[e]
    BY DEF Kept
  <2>2. stage[d] = "done"
    BY <1>i, <2>1, OthersMoney
  <2>3. outcome'[d] = outcome[d] /\ Record(d)' = Record(d) /\ KeyOf(d)' = KeyOf(d)
    BY <2>2, RecordStays
  <2>4. Kept(d) /\ d \notin raced \cup unsaved
    BY <1>i, <2>1 DEF StoreInv
  <2> QED BY <1>2, <1>3, <2>1, <2>2, <2>3, <2>4 DEF Kept
<1> QED BY <1>4, <1>5, <1>6, <1>7 DEF StoreInv

\* A call that reads its session has every record no race has undone
\* (store.go 79).
LEMMA LoadStore ==
  ASSUME IInv, TypeOK', NEW c \in Call, LoadSession(c)
  PROVE  StoreInv'
<1>i. TypeOK /\ StoreInv /\ stage[c] = "load"
  BY DEF IInv, LoadSession
<1>u. /\ UNCHANGED <<outcome, session, raced, unsaved, price>>
      /\ stage' = [stage EXCEPT ![c] = "save"] /\ copy' = [copy EXCEPT ![c] = session[KeyOf(c)]]
  BY DEF LoadSession, Goes
<1>k. \A d \in Call : Record(d)' = Record(d) /\ KeyOf(d)' = KeyOf(d)
  BY <1>u DEF Record, KeyOf
<1>1. ASSUME NEW x \in Exchange, NEW s, Real(x, s)
      PROVE  Real(x, s)'
  <2>1. x.call \in Call /\ x.call # c
    BY <1>1, <1>i DEF Exchange, Real
  <2> QED BY <1>1, <1>i, <1>u, <1>k, <2>1 DEF Real, TypeOK
<1>4. \A s \in Sessions : \A x \in session'[s] : Real(x, s)'
  <2>1. \A s \in Sessions : \A x \in session[s] : x \in Exchange
    BY <1>i DEF TypeOK
  <2> QED BY <1>i, <1>u, <1>1, <2>1 DEF StoreInv
<1>5. ASSUME NEW d \in Call, NEW x \in copy'[d]
      PROVE  Real(x, KeyOf(d))'
  <2>1. x \in Exchange /\ Real(x, KeyOf(d))
    BY <1>i, <1>u, <1>5, Records DEF TypeOK, StoreInv
  <2>2. PICK s : s = KeyOf(d)
    OBVIOUS
  <2>3. Real(x, s)' /\ KeyOf(d)' = s
    BY <1>1, <1>k, <2>1, <2>2
  <2> QED BY <2>3 DEF Real
<1>6. \A d \in Call : copy'[d] # {} => stage'[d] = "save"
  BY <1>i, <1>u DEF StoreInv, TypeOK
<1>7. ASSUME NEW d \in Call
      PROVE  Kept(d)'
  <2>1. SUFFICES ASSUME stage[d] = "done", outcome[d] \in {"local", "remote"},
                        d \notin raced \cup unsaved
                 PROVE  /\ Record(d) \in session[KeyOf(d)]
                        /\ \A e \in Call : stage'[e] = "save" /\ KeyOf(e) = KeyOf(d) =>
                             Record(d) \in copy'[e]
    BY <1>i, <1>u, <1>k DEF Kept, TypeOK
  <2>2. Kept(d)
    BY <1>i DEF StoreInv
  <2> QED BY <1>i, <1>u, <2>1, <2>2 DEF Kept, TypeOK
<1> QED BY <1>4, <1>5, <1>6, <1>7 DEF StoreInv

\* A call that writes its session keeps what its copy has; nobody else is about
\* to write over it, or it has been in a race (store.go 92-99).
LEMMA SaveStore ==
  ASSUME IInv, TypeOK', NEW c \in Call, SaveSession(c)
  PROVE  StoreInv'
<1>i. TypeOK /\ StoreInv /\ MoneyInv(c) /\ stage[c] = "save"
  BY DEF IInv, SaveSession
<1>u. /\ UNCHANGED <<outcome, unsaved, price>>
      /\ stage' = [stage EXCEPT ![c] = "done"]
      /\ session' = [session EXCEPT ![KeyOf(c)] = copy[c] \cup {Record(c)}]
      /\ copy' = [copy EXCEPT ![c] = {}]
      /\ raced' = IF \E d \in Call \ {c} : stage[d] = "save" /\ KeyOf(d) = KeyOf(c)
                  THEN raced \cup {c} ELSE raced
  BY DEF SaveSession, Appends, Return, Goes
<1>k. \A d \in Call : Record(d)' = Record(d) /\ KeyOf(d)' = KeyOf(d)
  BY <1>u DEF Record, KeyOf
<1>c. KeyOf(c) \in Sessions /\ Record(c) \in Exchange /\ Record(c).call = c
  BY <1>i, Records
<1>1. ASSUME NEW x \in Exchange, NEW s, Real(x, s)
      PROVE  Real(x, s)'
  <2>1. x.call \in Call
    BY DEF Exchange
  <2> QED BY <1>1, <1>i, <1>u, <1>k, <2>1 DEF Real, TypeOK
<1>2. Real(Record(c), KeyOf(c))'
  BY <1>i, <1>u, <1>k, <1>c DEF Real, TypeOK, MoneyInv
<1>4. ASSUME NEW s \in Sessions, NEW x \in session'[s]
      PROVE  Real(x, s)'
  <2>1. CASE x \in session[s]
    <3>1. x \in Exchange /\ Real(x, s)
      BY <1>i, <2>1 DEF TypeOK, StoreInv
    <3> QED BY <1>1, <3>1
  <2>2. CASE x \notin session[s]
    <3>1. s = KeyOf(c) /\ (x \in copy[c] \/ x = Record(c))
      BY <1>i, <1>u, <1>4, <2>2 DEF TypeOK
    <3>2. CASE x \in copy[c]
      <4>1. x \in Exchange /\ Real(x, s)
        BY <1>i, <3>1, <3>2 DEF TypeOK, StoreInv
      <4> QED BY <1>1, <4>1
    <3>3. CASE x = Record(c)
      BY <1>2, <1>k, <3>1, <3>3
    <3> QED BY <3>1, <3>2, <3>3
  <2> QED BY <2>1, <2>2
<1>5. ASSUME NEW d \in Call, NEW x \in copy'[d]
      PROVE  Real(x, KeyOf(d))'
  <2>1. x \in Exchange /\ Real(x, KeyOf(d))
    BY <1>i, <1>u, <1>5 DEF TypeOK, StoreInv
  <2>2. PICK s : s = KeyOf(d)
    OBVIOUS
  <2>3. Real(x, s)' /\ KeyOf(d)' = s
    BY <1>1, <1>k, <2>1, <2>2
  <2> QED BY <2>3 DEF Real
<1>6. \A d \in Call : copy'[d] # {} => stage'[d] = "save"
  BY <1>i, <1>u DEF StoreInv, TypeOK
<1>7. ASSUME NEW d \in Call
      PROVE  Kept(d)'
  <2>1. SUFFICES ASSUME stage'[d] = "done", outcome[d] \in {"local", "remote"},
                        d \notin raced' \cup unsaved
                 PROVE  /\ Record(d) \in session'[KeyOf(d)]
                        /\ \A e \in Call : stage'[e] = "save" /\ KeyOf(e) = KeyOf(d) =>
                             Record(d) \in copy'[e]
    BY <1>u, <1>k DEF Kept
  <2>2. \A e \in Call : stage'[e] = "save" => e # c /\ stage[e] = "save" /\ copy'[e] = copy[e]
    BY <1>i, <1>u DEF TypeOK
  <2>3. CASE d = c
    <3>1. \A e \in Call \ {c} : ~(stage[e] = "save" /\ KeyOf(e) = KeyOf(c))
      BY <1>u, <2>1, <2>3
    <3> QED BY <1>i, <1>u, <1>c, <2>2, <2>3, <3>1 DEF TypeOK
  <2>4. CASE d # c
    <3>1. stage[d] = "done" /\ d \notin raced \cup unsaved
      BY <1>i, <1>u, <2>1, <2>4 DEF TypeOK
    <3>2. /\ Record(d) \in session[KeyOf(d)]
          /\ \A e \in Call : stage[e] = "save" /\ KeyOf(e) = KeyOf(d) => Record(d) \in copy[e]
      BY <1>i, <2>1, <3>1 DEF StoreInv, Kept
    <3>3. Record(d) \in session'[KeyOf(d)]
      BY <1>i, <1>u, <1>c, <3>2 DEF TypeOK
    <3> QED BY <2>2, <3>2, <3>3
  <2> QED BY <2>3, <2>4
<1> QED BY <1>4, <1>5, <1>6, <1>7 DEF StoreInv

\* A call whose record is not saved leaves the store to the others (store.go 78, 99).
LEMMA NotSavedStore ==
  ASSUME IInv, TypeOK', NEW c \in Call, NotSaved(c)
  PROVE  StoreInv'
<1>i. TypeOK /\ StoreInv /\ stage[c] \in {"load", "save"}
  BY DEF IInv, NotSaved
<1>u. /\ UNCHANGED <<outcome, session, raced, price>>
      /\ stage' = [stage EXCEPT ![c] = "done"] /\ unsaved' = unsaved \cup {c}
      /\ copy' = [copy EXCEPT ![c] = {}]
  BY DEF NotSaved, Return, Goes
<1>k. \A d \in Call : Record(d)' = Record(d) /\ KeyOf(d)' = KeyOf(d)
  BY <1>u DEF Record, KeyOf
<1>1. ASSUME NEW x \in Exchange, NEW s, Real(x, s)
      PROVE  Real(x, s)'
  <2>1. x.call \in Call
    BY DEF Exchange
  <2> QED BY <1>1, <1>i, <1>u, <1>k, <2>1 DEF Real, TypeOK
<1>2. \A d \in Call : stage'[d] = "save" => stage[d] = "save" /\ d # c /\ copy'[d] = copy[d]
  BY <1>i, <1>u DEF TypeOK
<1>4. \A s \in Sessions : \A x \in session'[s] : Real(x, s)'
  <2>1. \A s \in Sessions : \A x \in session[s] : x \in Exchange
    BY <1>i DEF TypeOK
  <2> QED BY <1>i, <1>u, <1>1, <2>1 DEF StoreInv
<1>5. ASSUME NEW d \in Call, NEW x \in copy'[d]
      PROVE  Real(x, KeyOf(d))'
  <2>1. x \in Exchange /\ Real(x, KeyOf(d))
    BY <1>i, <1>u, <1>5 DEF TypeOK, StoreInv
  <2>2. PICK s : s = KeyOf(d)
    OBVIOUS
  <2>3. Real(x, s)' /\ KeyOf(d)' = s
    BY <1>1, <1>k, <2>1, <2>2
  <2> QED BY <2>3 DEF Real
<1>6. \A d \in Call : copy'[d] # {} => stage'[d] = "save"
  BY <1>i, <1>u DEF StoreInv, TypeOK
<1>7. ASSUME NEW d \in Call
      PROVE  Kept(d)'
  <2>1. SUFFICES ASSUME stage'[d] = "done", outcome[d] \in {"local", "remote"},
                        d \notin raced \cup unsaved'
                 PROVE  /\ Record(d) \in session[KeyOf(d)]
                        /\ \A e \in Call : stage'[e] = "save" /\ KeyOf(e) = KeyOf(d) =>
                             Record(d) \in copy'[e]
    BY <1>u, <1>k DEF Kept
  <2>2. stage[d] = "done" /\ d \notin raced \cup unsaved
    BY <1>i, <1>u, <2>1 DEF TypeOK
  <2>3. Kept(d)
    BY <1>i DEF StoreInv
  <2> QED BY <1>2, <2>1, <2>2, <2>3 DEF Kept
<1> QED BY <1>4, <1>5, <1>6, <1>7 DEF StoreInv

\* A step keeps what is known of the store.
LEMMA NextStore ==
  ASSUME IInv, TypeOK', NEW c \in Call, Execute(c) \/ Buyer(c) \/ GiveFeedback(c) \/ Peer(c)
  PROVE  StoreInv'
<1>i. TypeOK /\ MoneyInv(c)
  BY DEF IInv
<1>1. CASE Execute(c)
  <2>1. UNCHANGED store /\ stage[c] = "idle"
        /\ \/ stage'[c] = "done" /\ outcome'[c] = "failed"
           \/ stage'[c] \in {"run", "asked"}
    BY <1>1, <1>i DEF Execute, Unreachable, ExecuteLocally, Request, Goes, Becomes, TypeOK
  <2> QED BY <1>1, <2>1, StoreStays DEF store
<1>2. CASE LocalEnds(c)
  <2>1. /\ UNCHANGED <<session, copy, raced>> /\ unsaved \subseteq unsaved' /\ stage[c] = "run"
        /\ stage'[c] \in {"load", "done"} /\ (stage'[c] = "done" => c \in unsaved')
    BY <1>2, <1>i DEF LocalEnds, Goes, TypeOK
  <2> QED BY <1>2, <2>1, StoreStays DEF Buyer
<1>3. CASE Pay(c) \/ TakeOutput(c) \/ Fail(c) \/ GiveUp(c)
  <2>1. /\ UNCHANGED store /\ stage[c] \in {"asked", "paid"}
        /\ \/ stage'[c] \in {"paid", "load"}
           \/ stage'[c] = "done" /\ outcome'[c] = "failed"
    BY <1>3, <1>i DEF Pay, Signs, TakeOutput, Fail, GiveUp, Received, Waits, Goes, Becomes, TypeOK
  <2> QED BY <1>3, <2>1, StoreStays DEF Buyer, store
<1>4. CASE LoadSession(c) \/ SaveSession(c) \/ NotSaved(c)
  BY <1>4, LoadStore, SaveStore, NotSavedStore
<1>5. CASE GiveFeedback(c) \/ Peer(c)
  <2>1. UNCHANGED <<stage, outcome, price, store>>
    BY <1>5 DEF GiveFeedback, Peer, PeerDeclines, PeerServesFree, PeerSettles, PeerServesPaid
  <2> QED BY <2>1 DEF IInv, StoreInv, Kept, Real, Record, KeyOf, store
<1> QED
  BY <1>1, <1>2, <1>3, <1>4, <1>5 DEF Buyer

-----------------------------------------------------------------------------
(* The theorems *)

\* The inductive invariant of the exchange.
THEOREM ExchangeInvariant == Spec => []IInv
<1>1. ASSUME Init
      PROVE  IInv
  <2>1. TypeOK
    BY <1>1 DEF Init, TypeOK, Seller!Init
  <2>2. ASSUME NEW c \in Call
        PROVE  MoneyInv(c)
    BY <1>1 DEF Init, MoneyInv, Seller!Init
  <2>3. StoreInv
    BY <1>1, Records DEF Init, StoreInv, Kept, Real, Sessions
  <2> QED BY <2>1, <2>2, <2>3 DEF IInv
<1>2. ASSUME IInv, [Next]_vars
      PROVE  IInv'
  <2>1. CASE UNCHANGED vars
    <3>1. TypeOK'
      BY <1>2, <2>1 DEF IInv, TypeOK, vars, peer, store
    <3>2. ASSUME NEW c \in Call
          PROVE  MoneyInv(c)'
      BY <1>2, <2>1 DEF IInv, MoneyInv, Earned, Waits, vars, peer
    <3>3. StoreInv'
      BY <1>2, <2>1 DEF IInv, StoreInv, Kept, Real, Record, KeyOf, vars, store
    <3> QED BY <3>1, <3>2, <3>3 DEF IInv
  <2>2. CASE Next
    <3>1. PICK c \in Call : Execute(c) \/ Buyer(c) \/ GiveFeedback(c) \/ Peer(c)
      BY <2>2 DEF Next
    <3>2. TypeOK'
      BY <1>2, <3>1, ExecuteTypes, BuyerTypes, PeerTypes DEF IInv
    <3>3. MoneyInv(c)'
      BY <1>2, <3>1, <3>2, ExecuteMoney, BuyerMoney, PeerMoney
    <3>4. \A d \in Call : d # c => MoneyInv(d)'
      BY <1>2, <3>1, <3>2, OthersInv
    <3>5. StoreInv'
      BY <1>2, <3>1, <3>2, NextStore
    <3> QED BY <3>2, <3>3, <3>4, <3>5 DEF IInv
  <2> QED BY <1>2, <2>1, <2>2
<1> QED BY <1>1, <1>2, PTL DEF Spec

\* The types of the exchange; no transfer settles that was not signed.
THEOREM ExchangeTypes == Spec => []TypeOK
<1>1. IInv => TypeOK
  BY DEF IInv
<1> QED BY <1>1, ExchangeInvariant, PTL

\* A call signs one transfer at most, and one at most settles, whatever a peer
\* answers (manager.go 811-944).
THEOREM CallsPayOnce == Spec => []OneTransferPerCall
<1>1. ASSUME IInv
      PROVE  OneTransferPerCall
  <2>1. SUFFICES ASSUME NEW c \in Call
                 PROVE  Cardinality(Paid(c)) <= 1 /\ Cardinality(Paid(c) \cap settled) <= 1
    BY DEF OneTransferPerCall
  <2>2. Paid(c) \subseteq {Signature(c, price[c])}
    BY <1>1 DEF IInv, MoneyInv, Paid
  <2>3. IsFiniteSet({Signature(c, price[c])}) /\ Cardinality({Signature(c, price[c])}) = 1
    BY FS_Singleton
  <2>4. \A S : S \subseteq {Signature(c, price[c])} => Cardinality(S) <= 1
    BY <2>3, FS_Subset
  <2> QED BY <2>2, <2>4
<1> QED BY <1>1, ExchangeInvariant, PTL

\* Outputs of a peer, and feedback about it, follow what it served, against a
\* transfer of the call on chain or for nothing (manager.go 837-905).
THEOREM PaidOutputs == Spec => []OutputsArePaidFor
<1>1. ASSUME IInv
      PROVE  OutputsArePaidFor
  <2>1. SUFFICES ASSUME NEW c \in Call
        PROVE  /\ outcome[c] = "remote" =>
                    \/ <<c, None>> \in served /\ Paid(c) = {}
                    \/ \E p \in Paid(c) \cap settled : <<c, p>> \in served
               /\ feedback[c] # "none" => \E p \in Paid(c) \cap settled : <<c, p>> \in served
    BY DEF OutputsArePaidFor
  <2>2. MoneyInv(c)
    BY <1>1 DEF IInv
  <2>3. price[c] = NoPayment => Paid(c) = {}
    BY <2>2 DEF MoneyInv, Paid
  <2>4. ASSUME price[c] # NoPayment, outcome[c] = "remote"
        PROVE  \E p \in Paid(c) \cap settled : <<c, p>> \in served
    <3>1. /\ Signature(c, price[c]) \in signed \cap settled
          /\ <<c, Signature(c, price[c])>> \in served
      BY <2>2, <2>4 DEF MoneyInv, Earned
    <3>2. Signature(c, price[c]) \in Paid(c)
      BY <3>1 DEF Paid, Signature
    <3> QED BY <3>1, <3>2
  <2> QED BY <2>2, <2>3, <2>4 DEF MoneyInv, Earned
<1> QED BY <1>1, ExchangeInvariant, PTL

\* The session store agrees with the chain (manager.go 841-848, 886-904).
THEOREM HonestRecords == Spec => []RecordsAgreeWithChain
<1>1. ASSUME IInv
      PROVE  RecordsAgreeWithChain
  <2>1. SUFFICES ASSUME NEW s \in Sessions, NEW x \in session[s]
        PROVE  /\ outcome[x.call] \in {"local", "remote"} /\ s = KeyOf(x.call)
               /\ IF x.paid = NoPayment
                  THEN Paid(x.call) = {}
                  ELSE /\ Signature(x.call, x.paid) \in settled
                       /\ <<x.call, Signature(x.call, x.paid)>> \in served
    BY DEF RecordsAgreeWithChain
  <2>2. x.call \in Call /\ Real(x, s)
    BY <1>1 DEF IInv, StoreInv, TypeOK, Exchange
  <2>3. MoneyInv(x.call)
    BY <1>1, <2>2 DEF IInv
  <2>4. x.paid = price[x.call]
    BY <2>2 DEF Real, Record
  <2> QED BY <2>2, <2>3, <2>4 DEF Real, MoneyInv, Earned, Paid
<1> QED BY <1>1, ExchangeInvariant, PTL

\* A record that is saved is lost to a race only (store.go 76-100).
THEOREM KeptRecords == Spec => []OnlyRacesLoseRecords
<1>1. IInv => OnlyRacesLoseRecords
  BY DEF IInv, StoreInv, Kept, OnlyRacesLoseRecords
<1> QED BY <1>1, ExchangeInvariant, PTL

-----------------------------------------------------------------------------
(* The calls implement Purchase. *)

Results == [c \in Call |-> Result(c)]

\* What a call has come to is known by its outcome alone.
LEMMA ResultsOf ==
  ASSUME TypeOK, TypeOK'
  PROVE  /\ outcome' = outcome => Results' = Results
         /\ \A c \in Call : (outcome[c] = "none" <=> Results[c] = "open")
         /\ \A c \in Call : outcome' = [outcome EXCEPT ![c] = "failed"] =>
              Results' = [Results EXCEPT ![c] = "error"]
         /\ \A c \in Call, what \in {"local", "remote"} :
              outcome' = [outcome EXCEPT ![c] = what] =>
                Results' = [Results EXCEPT ![c] = "output"]
<1> USE DEF Results, Result, TypeOK
<1>1. outcome' = outcome => Results' = Results
  OBVIOUS
<1>2. \A c \in Call : (outcome[c] = "none" <=> Results[c] = "open")
  OBVIOUS
<1>3. ASSUME NEW c \in Call, outcome' = [outcome EXCEPT ![c] = "failed"]
      PROVE  Results' = [Results EXCEPT ![c] = "error"]
  BY <1>3
<1>4. ASSUME NEW c \in Call, NEW what \in {"local", "remote"},
             outcome' = [outcome EXCEPT ![c] = what]
      PROVE  Results' = [Results EXCEPT ![c] = "output"]
  BY <1>4
<1> QED BY <1>1, <1>2, <1>3, <1>4

\* A call that is open ends, with an error or with what it paid for.
LEMMA Endings ==
  ASSUME TypeOK, TypeOK', NEW c \in Call, outcome[c] = "none", UNCHANGED <<signed, settled>>,
         \/ Becomes(c, "failed")
         \/ (Becomes(c, "local") \/ Becomes(c, "remote")) /\ Paid(c) \subseteq settled
  PROVE  User!Next
<1>1. Results[c] = "open"
  BY ResultsOf
<1>2. CASE Becomes(c, "failed")
  <2>1. Results' = [Results EXCEPT ![c] = "error"]
    BY <1>2, ResultsOf DEF Becomes
  <2>2. User!End(c)
    BY <1>1, <2>1 DEF User!End, Results
  <2> QED BY <2>2 DEF User!Next
<1>3. CASE (Becomes(c, "local") \/ Becomes(c, "remote")) /\ Paid(c) \subseteq settled
  <2>1. Results' = [Results EXCEPT ![c] = "output"]
    BY <1>3, ResultsOf DEF Becomes
  <2>2. User!End(c)
    BY <1>1, <1>3, <2>1 DEF User!End, User!SpentFor, Paid, Results
  <2> QED BY <2>2 DEF User!Next
<1> QED BY <1>2, <1>3

\* A step of a call is one of Purchase or changes nothing its user sees.
LEMMA PurchaseStep ==
  ASSUME IInv, TypeOK', NEW c \in Call, Execute(c) \/ Buyer(c) \/ GiveFeedback(c) \/ Peer(c)
  PROVE  [User!Next]_<<signed, settled, Results>>
<1>1. TypeOK /\ MoneyInv(c)
  BY DEF IInv
<1>2. price[c] = NoPayment => Paid(c) = {}
  BY <1>1 DEF MoneyInv, Paid
<1>3. CASE Unreachable(c)
  BY <1>1, <1>3, Endings DEF Unreachable, MoneyInv, peer
<1>4. CASE LocalEnds(c)
  <2>1. /\ outcome[c] = "none" /\ Paid(c) = {}
        /\ UNCHANGED <<signed, settled>>
        /\ Becomes(c, "local") \/ Becomes(c, "failed")
    BY <1>1, <1>2, <1>4 DEF LocalEnds, MoneyInv, peer
  <2> QED BY <1>1, <2>1, Endings
<1>5. CASE Pay(c)
  <2> DEFINE p == Signature(c, reply[c].amount)
  <2>1. /\ stage[c] = "asked" /\ reply[c] \in Replies /\ reply[c].type = "payment_required"
        /\ signed' = signed \cup {p}
        /\ outcome' = outcome /\ settled' = settled
    BY <1>1, <1>5 DEF Pay, Received, Signs, TypeOK
  <2>2. p \in Auth /\ p.call = c
    BY <2>1, Frames, Signatures
  <2>3. outcome[c] = "none" /\ Paid(c) = {}
    BY <1>1, <1>2, <2>1 DEF MoneyInv
  <2>4. Results[c] = "open" /\ Results' = Results
    BY <1>1, <2>1, <2>3, ResultsOf
  <2> HIDE DEF p
  <2>5. User!Spend(p)
    BY <2>1, <2>2, <2>3, <2>4 DEF User!Spend, User!SpentFor, Paid, Results
  <2> QED BY <2>2, <2>5 DEF User!Next
<1>6. CASE TakeOutput(c)
  <2>1. /\ Waits(c) /\ Becomes(c, "remote") /\ UNCHANGED <<signed, settled>>
        /\ reply[c] # None /\ reply[c].type = "response"
    BY <1>6 DEF TakeOutput, Received
  <2>2. outcome[c] = "none" /\ Earned(c)
    BY <1>1, <2>1 DEF MoneyInv, Waits
  <2>3. Paid(c) \subseteq settled
    BY <1>1, <2>2 DEF Earned, MoneyInv, Paid
  <2> QED BY <1>1, <2>1, <2>2, <2>3, Endings
<1>7. CASE Fail(c) \/ GiveUp(c)
  <2>1. Waits(c) /\ Becomes(c, "failed") /\ UNCHANGED <<signed, settled>>
    BY <1>7 DEF Fail, GiveUp, Received
  <2>2. outcome[c] = "none"
    BY <1>1, <2>1 DEF MoneyInv, Waits
  <2> QED BY <1>1, <2>1, <2>2, Endings
<1>8. CASE PeerSettles(c)
  <2> DEFINE p == Signature(c, work[c].amount)
  <2>1. /\ work[c] # None /\ work[c].type = "paid_request"
        /\ p \notin settled /\ settled' = settled \cup {p}
        /\ UNCHANGED <<signed, outcome>>
    BY <1>8 DEF PeerSettles, Seller!Settle
  <2>2. p \in signed
    BY <1>1, <2>1 DEF MoneyInv
  <2>3. p \in Auth /\ Results' = Results
    BY <1>1, <2>1, <2>2, ResultsOf DEF TypeOK
  <2> HIDE DEF p
  <2>4. User!Settle(p)
    BY <2>1, <2>2, <2>3 DEF User!Settle, Results
  <2> QED BY <2>3, <2>4 DEF User!Next
<1>9. CASE \/ ExecuteLocally(c) \/ Request(c) \/ LoadSession(c) \/ SaveSession(c) \/ NotSaved(c)
           \/ GiveFeedback(c) \/ PeerDeclines(c) \/ PeerServesFree(c) \/ PeerServesPaid(c)
  <2>1. UNCHANGED <<signed, settled, outcome>>
    BY <1>9 DEF ExecuteLocally, Request, LoadSession, SaveSession, NotSaved, GiveFeedback,
       PeerDeclines, PeerServesFree, PeerServesPaid, Seller!ServeFree, Seller!ServePaid, peer
  <2>2. Results' = Results
    BY <1>1, <2>1, ResultsOf
  <2> QED BY <2>1, <2>2
<1> QED
  BY <1>3, <1>4, <1>5, <1>6, <1>7, <1>8, <1>9 DEF Execute, Buyer, Peer

\* What a user is promised, whatever the peer does: one transfer a call, signed
\* while it is open, and an end that is never undone (manager.go 239-944).
THEOREM CallsImplementPurchase == Spec => ImplementsPurchase
<1>1. ASSUME Init
      PROVE  User!Init
  BY <1>1 DEF Init, User!Init, Seller!Init, Result
<1>2. ASSUME IInv, IInv', [Next]_vars
      PROVE  [User!Next]_<<signed, settled, Results>>
  <2>1. CASE UNCHANGED vars
    <3>1. UNCHANGED <<signed, settled, outcome>>
      BY <2>1 DEF vars, peer
    <3>2. Results' = Results
      BY <1>2, <3>1, ResultsOf DEF IInv
    <3> QED BY <3>1, <3>2
  <2>2. CASE Next
    BY <1>2, <2>2, PurchaseStep DEF Next, IInv
  <2> QED BY <1>2, <2>1, <2>2
<1> QED
  BY <1>1, <1>2, ExchangeInvariant, PTL DEF Spec, ImplementsPurchase, User!Spec, Results

-----------------------------------------------------------------------------
(* What a call costs: the part of CallsReturn that needs no fairness. *)

\* what ReturnsComeNearer says of a step and one call
Nearer(c) ==
  /\ Execute(c) \/ Buyer(c) => StepsLeft(c)' < StepsLeft(c)
  /\ StepsLeft(c)' <= StepsLeft(c)

\* A call takes at most five steps of its own, whatever peers and other calls do
\* meanwhile (manager.go 811-944).
THEOREM CallsCostBoundedSteps == Spec => ReturnsComeNearer
<1>1. ASSUME IInv, IInv', [Next]_vars, NEW c \in Call
      PROVE  Nearer(c)
  <2>1. /\ stage \in [Call -> {"idle", "run", "asked", "paid", "load", "save", "done"}]
        /\ stage' \in [Call -> {"idle", "run", "asked", "paid", "load", "save", "done"}]
    BY <1>1 DEF IInv, TypeOK
  <2>2. StepsLeft(c) \in Nat /\ StepsLeft(c)' \in Nat
    BY <2>1 DEF StepsLeft
  <2>3. CASE Execute(c) \/ Buyer(c)
    <3>1. \/ stage[c] = "idle" /\ stage'[c] \in {"run", "asked", "done"}
          \/ stage[c] = "run" /\ stage'[c] \in {"load", "done"}
          \/ stage[c] = "asked" /\ stage'[c] \in {"paid", "load", "done"}
          \/ stage[c] = "paid" /\ stage'[c] \in {"load", "done"}
          \/ stage[c] = "load" /\ stage'[c] \in {"save", "done"}
          \/ stage[c] = "save" /\ stage'[c] = "done"
      BY <2>1, <2>3 DEF Execute, Unreachable, ExecuteLocally, Request, Buyer, LocalEnds, Pay,
         Signs, TakeOutput, Fail, GiveUp, Received, Waits, LoadSession, SaveSession, NotSaved,
         Return, Goes
    <3>2. StepsLeft(c)' < StepsLeft(c)
      BY <3>1 DEF StepsLeft
    <3> QED BY <2>2, <3>2 DEF Nearer
  <2>4. CASE ~(Execute(c) \/ Buyer(c))
    <3>1. stage'[c] = stage[c]
      <4>1. CASE UNCHANGED vars
        BY <4>1 DEF vars
      <4>2. CASE \E d \in Call \ {c} : Execute(d) \/ Buyer(d)
        BY <1>1, <4>2, OthersMoney DEF IInv
      <4>3. CASE \E d \in Call : GiveFeedback(d) \/ Peer(d)
        BY <4>3 DEF GiveFeedback, Peer, PeerDeclines, PeerServesFree, PeerSettles, PeerServesPaid
      <4> QED BY <1>1, <2>4, <4>1, <4>2, <4>3 DEF Next
    <3>2. StepsLeft(c)' = StepsLeft(c)
      BY <3>1 DEF StepsLeft
    <3> QED BY <2>2, <2>4, <3>2 DEF Nearer
  <2> QED BY <2>3, <2>4
<1>2. IInv /\ IInv' /\ [Next]_vars => [\A c \in Call : Nearer(c)]_vars
  BY <1>1
<1>3. Spec => [][\A c \in Call : Nearer(c)]_vars
  BY <1>2, ExchangeInvariant, PTL DEF Spec
<1> QED
  BY <1>3 DEF ReturnsComeNearer, Nearer
=============================================================================
