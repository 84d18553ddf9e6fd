-------------------------- MODULE X402SellerProofs --------------------------
(***************************************************************************)
(* The inductive invariant of X402Seller, and the proof that it holds for  *)
(* every set of streams, nonces, agents and messages, every number of      *)
(* settle attempts and every number of restarts.                           *)
(***************************************************************************)
EXTENDS X402Seller, FiniteSetTheorems, TLAPS

Unread == {"consume", "price", "quote"}

\* a nonce leaves the challenge store when a request is admitted on it
Admitted(s) ==
  msg[s] # None /\ Standard(s) /\ (quoted[s] # None \/ pc[s] = "price")

ChallengeInv ==
  /\ \A c \in CorrIds : challenges[c] # None => challenges[c].nonce \in issued
  /\ \A c, d \in CorrIds :
       /\ challenges[c] # None /\ challenges[d] # None
       /\ challenges[c].nonce = challenges[d].nonce
       => c = d
  /\ \A s \in Streams : Admitted(s) =>
       /\ msg[s].serverNonce \in issued
       /\ Auth(s) # None /\ Auth(s).nonce # Blank =>
            Auth(s).nonce = msg[s].serverNonce
       /\ \A c \in CorrIds : challenges[c] # None =>
            challenges[c].nonce # msg[s].serverNonce
  /\ \A s, t \in Streams :
       Admitted(s) /\ Admitted(t) /\ msg[s].serverNonce = msg[t].serverNonce
         => s = t

HandlerOK(s) ==
  /\ pc[s] = "idle" => msg[s] = None
  /\ msg[s] = None => pc[s] \in {"idle", "done"}
  /\ pc[s] = "consume" => msg[s].kind = "paid"
  /\ pc[s] = "quote" => ~Paying(s)
  /\ pc[s] \in {"price", "validate", "settle", "backoff", "confirm"} => Paying(s)
  /\ pc[s] \in Unread \cup {"idle"} => quoted[s] = None
  /\ pc[s] \in Busy \ Unread => quoted[s] # None
  /\ pc[s] \in Unread \cup {"idle", "validate"} => attempt[s] = 0
  /\ pc[s] \in {"settle", "backoff", "confirm"} => attempt[s] > 0
  /\ pc[s] = "backoff" => attempt[s] < MaxRetries
  /\ pc[s] = "confirm" => txHash[s] # None
  /\ pc[s] \in Busy \cup {"idle"} => reply[s] = None
  /\ pc[s] \in {"validate", "settle", "backoff"} => service

HandlerInv == \A s \in Streams : HandlerOK(s)

PaymentInv ==
  /\ \A s \in Streams : attempt[s] > 0 =>
       /\ service /\ msg[s] # None /\ quoted[s] # None
       /\ Auth(s) \in Authorization
       /\ Auth(s).defect = "none" /\ Auth(s).amount = quoted[s]
  /\ \A s \in Streams : txHash[s] # None =>
       /\ attempt[s] > 0
       /\ attempt[txHash[s][1]] > 0 /\ Same(Auth(txHash[s][1]), Auth(s))
       /\ FacilitatorIdempotent \/ txHash[s][1] = s
  /\ \A t \in TxRefs : tx[t] # "none" => t[2] <= attempt[t[1]]
  /\ \A t, u \in TxRefs :
       tx[t] = "mined" /\ tx[u] = "mined" /\ Key(Auth(t[1])) = Key(Auth(u[1]))
         => t = u

TaskInv ==
  \A s \in Streams :
    /\ pc[s] \in {"execute", "running", "record", "respond"} \/ s \in ran =>
         /\ Paying(s) => PaidFor(s)
         /\ ~Paying(s) => quoted[s] = 0
    /\ pc[s] \in {"running", "record", "respond"} => s \in ran
    /\ s \in ran => msg[s] # None /\ pc[s] \notin Busy \ {"running", "record", "respond"}
    /\ s \in recorded => s \in ran

ReplyInv ==
  \A s \in Streams :
    /\ reply[s] = "response" => s \in ran
    /\ reply[s] = "EXECUTION_FAILED" /\ Paying(s) => PaidFor(s)
    /\ reply[s] \in {"INVALID_MESSAGE", "PAYMENT_REQUIRED", "PAYMENT_INVALID",
                     "NONCE_MISMATCH", "NONCE_EXPIRED", "payment_required"}
         => attempt[s] = 0 /\ pc[s] = "done"

IInv ==
  /\ TypeOK
  /\ ChallengeInv
  /\ HandlerInv
  /\ PaymentInv
  /\ TaskInv
  /\ OneHandlerPerNonce
  /\ ReplyInv

-----------------------------------------------------------------------------
(* Steps *)

USE MessageAssumption, NumberAssumption, NoneAssumption

\* The initial states satisfy the inductive invariant: a node that has just
\* started serves nothing and holds no challenge (payment.go 70-79).
LEMMA InitIInv == Init => IInv
<1> SUFFICES ASSUME Init PROVE IInv
  OBVIOUS
<1>1. TypeOK
  BY DEF Init, TypeOK
<1>2. ChallengeInv
  BY DEF Init, ChallengeInv, Admitted
<1>3. HandlerInv
  BY DEF Init, HandlerInv, HandlerOK, Unread, Busy
<1>4. PaymentInv
  BY DEF Init, PaymentInv
<1>5. TaskInv
  BY DEF Init, TaskInv
<1>6. OneHandlerPerNonce
  BY DEF Init, OneHandlerPerNonce, Settling
<1>7. ReplyInv
  BY DEF Init, ReplyInv, Frames, Codes
<1> QED
  BY <1>1, <1>2, <1>3, <1>4, <1>5, <1>6, <1>7 DEF IInv

\* The fields of a message that handleStream has decoded (x402.go 42-95).
LEMMA InboundFields ==
  ASSUME NEW m \in Inbound
  PROVE  /\ m.kind \in {"request", "paid"} /\ m.corr \in CorrIds
         /\ m.agent \in Agents \cup {None}
         /\ m.serverNonce \in Nonces \cup {Preemptive}
         /\ m.auth \in Authorization \cup {None}
         /\ m.kind = "request" => m.agent # None
         /\ m # None
BY DEF Message

\* The fields of an authorization (manager.go 971-998).
LEMMA AuthFields ==
  ASSUME NEW a \in Authorization
  PROVE  /\ a.payer \in Payers /\ a.nonce \in Nonces /\ a.amount \in Amounts
         /\ a.spelling \in Spellings
         /\ a.defect \in {"none", "header", "signature"} /\ a # None
BY DEF Authorization

\* agentPrice always finds an amount, 0 for an unknown agent (manager.go 947-960).
LEMMA PriceIsAmount ==
  ASSUME TypeOK, NEW a \in Agents
  PROVE  AgentPrice(a) \in Amounts
BY DEF TypeOK, AgentPrice

\* A request that reaches the price lookup names an agent (manager.go 531-541,
\* 640-647).
LEMMA AskedAgent ==
  ASSUME TypeOK, HandlerInv, NEW s \in Streams, msg[s] # None,
         pc[s] = "quote" \/ msg[s].agent # None
  PROVE  msg[s] \in Inbound /\ msg[s].agent \in Agents
BY InboundFields DEF TypeOK, HandlerInv, HandlerOK, Paying

\* Every variable keeps its range: in particular the loop of settle attempts never
\* counts past its bound (payment.go 539-564).
LEMMA TypeOKStep == IInv /\ [Next]_vars => TypeOK'
<1> SUFFICES ASSUME IInv, [Next]_vars PROVE TypeOK'
  OBVIOUS
<1> USE InboundFields, AuthFields DEF IInv, TypeOK, Goto, Answer, FailPayment,
       locals, tasks, world
<1>1. ASSUME NEW s \in Streams, Receive(s) PROVE TypeOK'
  BY <1>1 DEF Receive, Busy, Frames, Codes
<1>2. ASSUME NEW s \in Streams, ServeFree(s) PROVE TypeOK'
  BY <1>2 DEF ServeFree, Busy, Frames, Codes
<1>3. ASSUME NEW s \in Streams, RefuseUnpaid(s) PROVE TypeOK'
  BY <1>3 DEF RefuseUnpaid, Busy, Frames, Codes
<1>4. ASSUME NEW s \in Streams, IssueChallenge(s) PROVE TypeOK'
  BY <1>4, AskedAgent, PriceIsAmount DEF IssueChallenge, Busy, Frames, Codes,
     HandlerInv, HandlerOK, Challenge
<1>5. ASSUME NEW s \in Streams, SkipChallenge(s) PROVE TypeOK'
  BY <1>5 DEF SkipChallenge, Busy, Frames, Codes
<1>6. ASSUME NEW s \in Streams, ConsumeChallenge(s) PROVE TypeOK'
  BY <1>6 DEF ConsumeChallenge, Busy, Frames, Codes, HandlerInv, HandlerOK
<1>7. ASSUME NEW s \in Streams, RefuseNoResource(s) PROVE TypeOK'
  BY <1>7 DEF RefuseNoResource, Busy, Frames, Codes
<1>8. ASSUME NEW s \in Streams, RefuseNoService(s) PROVE TypeOK'
  BY <1>8 DEF RefuseNoService, Busy, Frames, Codes
<1>9. ASSUME NEW s \in Streams, ReadPrice(s) PROVE TypeOK'
  BY <1>9, AskedAgent, PriceIsAmount DEF ReadPrice, Busy, Frames, Codes,
     HandlerInv, HandlerOK
<1>10. ASSUME NEW s \in Streams, RejectPayment(s) PROVE TypeOK'
  BY <1>10 DEF RejectPayment, Busy, Frames, Codes
<1>11. ASSUME NEW s \in Streams, MarkNonce(s) PROVE TypeOK'
  <2>1. Auth(s) \in Authorization
    BY <1>11 DEF MarkNonce, Acceptable, Auth, HandlerInv, HandlerOK, Busy
  <2>2. Written(Auth(s)) \in Nonces \X Spellings
    BY <2>1 DEF Written
  <2> QED
    BY <1>11, <2>2 DEF MarkNonce, Busy, Frames, Codes
<1>12. ASSUME NEW s \in Streams, SettleAccepted(s) PROVE TypeOK'
  BY <1>12 DEF SettleAccepted, Busy, Frames, Codes, CallTxs
<1>13. ASSUME NEW s \in Streams, SettleFails(s) PROVE TypeOK'
  BY <1>13 DEF SettleFails, Busy, Frames, Codes
<1>14. ASSUME NEW s \in Streams, RetrySettle(s) PROVE TypeOK'
  BY <1>14 DEF RetrySettle, Busy, Frames, Codes, HandlerInv, HandlerOK
<1>15. ASSUME NEW s \in Streams, BackoffCancelled(s) PROVE TypeOK'
  BY <1>15 DEF BackoffCancelled, Busy, Frames, Codes
<1>16. ASSUME NEW s \in Streams, Confirmed(s) PROVE TypeOK'
  BY <1>16 DEF Confirmed, Busy, Frames, Codes
<1>17. ASSUME NEW s \in Streams, Unconfirmed(s) PROVE TypeOK'
  BY <1>17 DEF Unconfirmed, Busy, Frames, Codes
<1>18. ASSUME NEW s \in Streams, StartTask(s) PROVE TypeOK'
  BY <1>18 DEF StartTask, Busy, Frames, Codes
<1>19. ASSUME NEW s \in Streams, AgentMissing(s) PROVE TypeOK'
  BY <1>19 DEF AgentMissing, Busy, Frames, Codes
<1>20. ASSUME NEW s \in Streams, TaskSucceeds(s) PROVE TypeOK'
  BY <1>20 DEF TaskSucceeds, Busy, Frames, Codes
<1>21. ASSUME NEW s \in Streams, TaskFails(s) PROVE TypeOK'
  BY <1>21 DEF TaskFails, Busy, Frames, Codes
<1>22. ASSUME NEW s \in Streams, Record(s) PROVE TypeOK'
  BY <1>22 DEF Record, Busy, Frames, Codes
<1>23. ASSUME NEW s \in Streams, Respond(s) PROVE TypeOK'
  BY <1>23 DEF Respond, Busy, Frames, Codes
<1>24. ASSUME NEW s \in Streams, ContextExpires(s) PROVE TypeOK'
  BY <1>24 DEF ContextExpires, Busy, Frames, Codes
<1>25. ASSUME NEW s \in Streams, PanicNoService(s) PROVE TypeOK'
  BY <1>25 DEF PanicNoService, Busy, Frames, Codes, Die
<1>26. ASSUME NEW c \in CorrIds, ChallengeExpires(c) PROVE TypeOK'
  <2>1. challenges[c] \in Challenge
    BY <1>26 DEF ChallengeExpires
  <2>2. challenges' = [challenges EXCEPT ![c] = [challenges[c] EXCEPT !.expired = TRUE]]
    BY <1>26, <2>1 DEF ChallengeExpires
  <2>3. [challenges[c] EXCEPT !.expired = TRUE] \in Challenge
    BY <2>1 DEF Challenge
  <2> QED
    BY <1>26, <2>2, <2>3 DEF ChallengeExpires
<1>27. ASSUME CleanupExpiredChallenges PROVE TypeOK'
  BY <1>27 DEF CleanupExpiredChallenges, Busy, Frames, Codes
<1>28. ASSUME NEW a \in Agents, SetPrice(a) PROVE TypeOK'
  BY <1>28 DEF SetPrice, Busy, Frames, Codes
<1>29. ASSUME Restart PROVE TypeOK'
  BY <1>29 DEF Restart, Busy, Frames, Codes, Die
<1>30. ASSUME NEW t \in TxRefs, Broadcast(t) PROVE TypeOK'
  BY <1>30 DEF Broadcast, Busy, Frames, Codes
<1>31. ASSUME NEW t \in TxRefs, Mine(t) PROVE TypeOK'
  BY <1>31 DEF Mine, Busy, Frames, Codes
<1>32. ASSUME NEW t \in TxRefs, Revert(t) PROVE TypeOK'
  BY <1>32 DEF Revert, Busy, Frames, Codes
<1>33. ASSUME NEW a \in Received, Lapse(a) PROVE TypeOK'
  BY <1>33 DEF Lapse, Busy, Frames, Codes, Received, HandlerInv, HandlerOK,
     Auth
<1>34. ASSUME UNCHANGED vars PROVE TypeOK'
  BY <1>34 DEF vars, Busy, Frames, Codes
<1> QED
  BY <1>1, <1>2, <1>3, <1>4, <1>5, <1>6, <1>7, <1>8, <1>9, <1>10, <1>11, <1>12,
     <1>13, <1>14, <1>15, <1>16, <1>17, <1>18, <1>19, <1>20, <1>21, <1>22,
     <1>23, <1>24, <1>25, <1>26, <1>27, <1>28, <1>29, <1>30, <1>31, <1>32,
     <1>33, <1>34 DEF Next, Pay, Serve, Environment

\* The challenge store stays consistent with the requests admitted on it: a nonce
\* that admitted a request is gone from the store for good (payment.go 83-133).
LEMMA ChallengeStep == IInv /\ [Next]_vars => ChallengeInv'
<1> SUFFICES ASSUME IInv, [Next]_vars PROVE ChallengeInv'
  OBVIOUS
<1> USE InboundFields, AuthFields DEF IInv, TypeOK, Goto, Answer, FailPayment, locals,
     tasks, world, ChallengeInv, HandlerInv, HandlerOK, Admitted, Standard,
     Auth, Unread, Busy
<1>1. ASSUME NEW s \in Streams, Receive(s) PROVE ChallengeInv'
  BY <1>1 DEF Receive
<1>2. ASSUME NEW s \in Streams, ServeFree(s) PROVE ChallengeInv'
  BY <1>2 DEF ServeFree, Paying
<1>3. ASSUME NEW s \in Streams, RefuseUnpaid(s) PROVE ChallengeInv'
  BY <1>3 DEF RefuseUnpaid
<1>4. ASSUME NEW s \in Streams, IssueChallenge(s) PROVE ChallengeInv'
  BY <1>4, AskedAgent DEF IssueChallenge, Seen, Challenge, Paying
<1>5. ASSUME NEW s \in Streams, SkipChallenge(s) PROVE ChallengeInv'
  BY <1>5 DEF SkipChallenge
<1>6. ASSUME NEW s \in Streams, ConsumeChallenge(s) PROVE ChallengeInv'
  BY <1>6 DEF ConsumeChallenge, Usable, Matches, Challenge
<1>7. ASSUME NEW s \in Streams, RefuseNoResource(s) PROVE ChallengeInv'
  BY <1>7 DEF RefuseNoResource
<1>8. ASSUME NEW s \in Streams, RefuseNoService(s) PROVE ChallengeInv'
  BY <1>8 DEF RefuseNoService
<1>9. ASSUME NEW s \in Streams, ReadPrice(s) PROVE ChallengeInv'
  BY <1>9 DEF ReadPrice
<1>10. ASSUME NEW s \in Streams, RejectPayment(s) PROVE ChallengeInv'
  BY <1>10 DEF RejectPayment
<1>11. ASSUME NEW s \in Streams, MarkNonce(s) PROVE ChallengeInv'
  BY <1>11 DEF MarkNonce
<1>12. ASSUME NEW s \in Streams, SettleAccepted(s) PROVE ChallengeInv'
  BY <1>12 DEF SettleAccepted
<1>13. ASSUME NEW s \in Streams, SettleFails(s) PROVE ChallengeInv'
  BY <1>13 DEF SettleFails
<1>14. ASSUME NEW s \in Streams, RetrySettle(s) PROVE ChallengeInv'
  BY <1>14 DEF RetrySettle
<1>15. ASSUME NEW s \in Streams, BackoffCancelled(s) PROVE ChallengeInv'
  BY <1>15 DEF BackoffCancelled
<1>16. ASSUME NEW s \in Streams, Confirmed(s) PROVE ChallengeInv'
  BY <1>16 DEF Confirmed
<1>17. ASSUME NEW s \in Streams, Unconfirmed(s) PROVE ChallengeInv'
  BY <1>17 DEF Unconfirmed
<1>18. ASSUME NEW s \in Streams, StartTask(s) PROVE ChallengeInv'
  BY <1>18 DEF StartTask
<1>19. ASSUME NEW s \in Streams, AgentMissing(s) PROVE ChallengeInv'
  BY <1>19 DEF AgentMissing
<1>20. ASSUME NEW s \in Streams, TaskSucceeds(s) PROVE ChallengeInv'
  BY <1>20 DEF TaskSucceeds
<1>21. ASSUME NEW s \in Streams, TaskFails(s) PROVE ChallengeInv'
  BY <1>21 DEF TaskFails
<1>22. ASSUME NEW s \in Streams, Record(s) PROVE ChallengeInv'
  BY <1>22 DEF Record
<1>23. ASSUME NEW s \in Streams, Respond(s) PROVE ChallengeInv'
  BY <1>23 DEF Respond
<1>24. ASSUME NEW s \in Streams, ContextExpires(s) PROVE ChallengeInv'
  BY <1>24 DEF ContextExpires
<1>25. ASSUME NEW s \in Streams, PanicNoService(s) PROVE ChallengeInv'
  BY <1>25 DEF PanicNoService, Die
<1>26. ASSUME NEW c \in CorrIds, ChallengeExpires(c) PROVE ChallengeInv'
  BY <1>26 DEF ChallengeExpires
<1>27. ASSUME CleanupExpiredChallenges PROVE ChallengeInv'
  BY <1>27 DEF CleanupExpiredChallenges
<1>28. ASSUME NEW a \in Agents, SetPrice(a) PROVE ChallengeInv'
  BY <1>28 DEF SetPrice
<1>29. ASSUME Restart PROVE ChallengeInv'
  BY <1>29 DEF Restart, Die
<1>30. ASSUME NEW t \in TxRefs, Broadcast(t) PROVE ChallengeInv'
  BY <1>30 DEF Broadcast
<1>31. ASSUME NEW t \in TxRefs, Mine(t) PROVE ChallengeInv'
  BY <1>31 DEF Mine
<1>32. ASSUME NEW t \in TxRefs, Revert(t) PROVE ChallengeInv'
  BY <1>32 DEF Revert
<1>33. ASSUME NEW a \in Received, Lapse(a) PROVE ChallengeInv'
  BY <1>33 DEF Lapse
<1>34. ASSUME UNCHANGED vars PROVE ChallengeInv'
  BY <1>34 DEF vars
<1> QED
  BY <1>1, <1>2, <1>3, <1>4, <1>5, <1>6, <1>7, <1>8, <1>9, <1>10, <1>11, <1>12,
     <1>13, <1>14, <1>15, <1>16, <1>17, <1>18, <1>19, <1>20, <1>21, <1>22,
     <1>23, <1>24, <1>25, <1>26, <1>27, <1>28, <1>29, <1>30, <1>31, <1>32,
     <1>33, <1>34 DEF Next, Pay, Serve, Environment

\* A goroutine's locals agree with the place it stands at (manager.go 531-773).
LEMMA HandlerStep == IInv /\ [Next]_vars => HandlerInv'
<1> SUFFICES ASSUME IInv, [Next]_vars PROVE HandlerInv'
  OBVIOUS
<1> USE InboundFields, AuthFields DEF IInv, TypeOK, Goto, Answer, FailPayment, locals,
     tasks, world, HandlerInv, HandlerOK, Paying, Standard, Auth, Unread, Busy
<1>1. ASSUME NEW s \in Streams, Receive(s) PROVE HandlerInv'
  <2>1. /\ quoted[s] = None /\ attempt[s] = 0 /\ pc[s] = "idle" /\ msg[s] = None
        /\ UNCHANGED <<quoted, attempt, txHash, service>>
    BY <1>1 DEF Receive
  <2>2. ASSUME NEW m \in Inbound,
               /\ msg' = [msg EXCEPT ![s] = m]
               /\ Goto(s, IF m.kind = "paid" THEN "consume"
                          ELSE IF m.auth # None THEN "price" ELSE "quote")
               /\ UNCHANGED reply
        PROVE  HandlerInv'
    <3>1. m.kind \in {"request", "paid"} /\ m # None
      BY InboundFields
    <3>2. /\ msg'[s] = m /\ pc'[s] \in Unread
          /\ \A t \in Streams \ {s} : msg'[t] = msg[t] /\ pc'[t] = pc[t]
      BY <2>2
    <3>3. HandlerOK(s)'
      <4>1. CASE m.kind = "paid"
        BY <2>1, <2>2, <3>1, <3>2, <4>1
      <4>2. CASE m.kind = "request" /\ m.auth # None
        BY <2>1, <2>2, <3>1, <3>2, <4>2
      <4>3. CASE m.kind = "request" /\ m.auth = None
        BY <2>1, <2>2, <3>1, <3>2, <4>3
      <4> QED
        BY <3>1, <4>1, <4>2, <4>3
    <3>4. ASSUME NEW t \in Streams \ {s} PROVE HandlerOK(t)'
      BY <2>1, <2>2, <3>2
    <3> QED
      BY <3>3, <3>4
  <2>3. ASSUME NEW r \in {None, "INVALID_MESSAGE"}, Answer(s, r), UNCHANGED msg
        PROVE  HandlerInv'
    BY <2>1, <2>3
  <2> QED
    BY <1>1, <2>2, <2>3 DEF Receive
<1>2. ASSUME NEW s \in Streams, ServeFree(s) PROVE HandlerInv'
  BY <1>2 DEF ServeFree
<1>3. ASSUME NEW s \in Streams, RefuseUnpaid(s) PROVE HandlerInv'
  BY <1>3 DEF RefuseUnpaid
<1>4. ASSUME NEW s \in Streams, IssueChallenge(s) PROVE HandlerInv'
  BY <1>4, AskedAgent, PriceIsAmount DEF IssueChallenge
<1>5. ASSUME NEW s \in Streams, SkipChallenge(s) PROVE HandlerInv'
  BY <1>5 DEF SkipChallenge
<1>6. ASSUME NEW s \in Streams, ConsumeChallenge(s) PROVE HandlerInv'
  BY <1>6 DEF ConsumeChallenge
<1>7. ASSUME NEW s \in Streams, RefuseNoResource(s) PROVE HandlerInv'
  BY <1>7 DEF RefuseNoResource
<1>8. ASSUME NEW s \in Streams, RefuseNoService(s) PROVE HandlerInv'
  BY <1>8 DEF RefuseNoService
<1>9. ASSUME NEW s \in Streams, ReadPrice(s) PROVE HandlerInv'
  BY <1>9, AskedAgent, PriceIsAmount DEF ReadPrice
<1>10. ASSUME NEW s \in Streams, RejectPayment(s) PROVE HandlerInv'
  BY <1>10 DEF RejectPayment
<1>11. ASSUME NEW s \in Streams, MarkNonce(s) PROVE HandlerInv'
  BY <1>11 DEF MarkNonce
<1>12. ASSUME NEW s \in Streams, SettleAccepted(s) PROVE HandlerInv'
  BY <1>12 DEF SettleAccepted, CallTxs
<1>13. ASSUME NEW s \in Streams, SettleFails(s) PROVE HandlerInv'
  BY <1>13 DEF SettleFails
<1>14. ASSUME NEW s \in Streams, RetrySettle(s) PROVE HandlerInv'
  <2>1. attempt[s] \in Nat /\ attempt'[s] = attempt[s] + 1 /\ pc'[s] = "settle"
    BY <1>14 DEF RetrySettle
  <2>2. attempt'[s] > 0
    BY <2>1
  <2>3. HandlerOK(s)'
    BY <1>14, <2>1, <2>2 DEF RetrySettle
  <2>4. ASSUME NEW t \in Streams \ {s} PROVE HandlerOK(t)'
    BY <1>14 DEF RetrySettle
  <2> QED
    BY <2>3, <2>4
<1>15. ASSUME NEW s \in Streams, BackoffCancelled(s) PROVE HandlerInv'
  BY <1>15 DEF BackoffCancelled
<1>16. ASSUME NEW s \in Streams, Confirmed(s) PROVE HandlerInv'
  BY <1>16 DEF Confirmed
<1>17. ASSUME NEW s \in Streams, Unconfirmed(s) PROVE HandlerInv'
  BY <1>17 DEF Unconfirmed
<1>18. ASSUME NEW s \in Streams, StartTask(s) PROVE HandlerInv'
  BY <1>18 DEF StartTask
<1>19. ASSUME NEW s \in Streams, AgentMissing(s) PROVE HandlerInv'
  BY <1>19 DEF AgentMissing
<1>20. ASSUME NEW s \in Streams, TaskSucceeds(s) PROVE HandlerInv'
  BY <1>20 DEF TaskSucceeds
<1>21. ASSUME NEW s \in Streams, TaskFails(s) PROVE HandlerInv'
  BY <1>21 DEF TaskFails
<1>22. ASSUME NEW s \in Streams, Record(s) PROVE HandlerInv'
  BY <1>22 DEF Record
<1>23. ASSUME NEW s \in Streams, Respond(s) PROVE HandlerInv'
  BY <1>23 DEF Respond
<1>24. ASSUME NEW s \in Streams, ContextExpires(s) PROVE HandlerInv'
  BY <1>24 DEF ContextExpires
<1>25. ASSUME NEW s \in Streams, PanicNoService(s) PROVE HandlerInv'
  BY <1>25 DEF PanicNoService, Die
<1>26. ASSUME NEW c \in CorrIds, ChallengeExpires(c) PROVE HandlerInv'
  BY <1>26 DEF ChallengeExpires
<1>27. ASSUME CleanupExpiredChallenges PROVE HandlerInv'
  BY <1>27 DEF CleanupExpiredChallenges
<1>28. ASSUME NEW a \in Agents, SetPrice(a) PROVE HandlerInv'
  BY <1>28 DEF SetPrice
<1>29. ASSUME Restart PROVE HandlerInv'
  BY <1>29 DEF Restart, Die
<1>30. ASSUME NEW t \in TxRefs, Broadcast(t) PROVE HandlerInv'
  BY <1>30 DEF Broadcast
<1>31. ASSUME NEW t \in TxRefs, Mine(t) PROVE HandlerInv'
  BY <1>31 DEF Mine
<1>32. ASSUME NEW t \in TxRefs, Revert(t) PROVE HandlerInv'
  BY <1>32 DEF Revert
<1>33. ASSUME NEW a \in Received, Lapse(a) PROVE HandlerInv'
  BY <1>33 DEF Lapse
<1>34. ASSUME UNCHANGED vars PROVE HandlerInv'
  BY <1>34 DEF vars
<1> QED
  BY <1>1, <1>2, <1>3, <1>4, <1>5, <1>6, <1>7, <1>8, <1>9, <1>10, <1>11, <1>12,
     <1>13, <1>14, <1>15, <1>16, <1>17, <1>18, <1>19, <1>20, <1>21, <1>22,
     <1>23, <1>24, <1>25, <1>26, <1>27, <1>28, <1>29, <1>30, <1>31, <1>32,
     <1>33, <1>34 DEF Next, Pay, Serve, Environment

\* Every settle call that left carries a checked authorization, and every
\* transaction on chain comes from such a call (payment.go 323-360, 473-564).
LEMMA PaymentStep == IInv /\ [Next]_vars => PaymentInv'
<1> SUFFICES ASSUME IInv, [Next]_vars PROVE PaymentInv'
  OBVIOUS
<1> USE InboundFields, AuthFields DEF IInv, TypeOK, Goto, Answer, FailPayment, locals,
     tasks, world, PaymentInv, HandlerInv, HandlerOK, Auth, Unread, Busy,
     TxRefs, Attempts
<1>1. ASSUME NEW s \in Streams, Receive(s) PROVE PaymentInv'
  <2>1. /\ attempt[s] = 0 /\ UNCHANGED <<attempt, txHash, quoted, service, tx>>
        /\ \A t \in Streams \ {s} : msg'[t] = msg[t]
    BY <1>1 DEF Receive
  <2>2. \A t \in Streams : attempt[t] > 0 => t # s /\ Auth(t)' = Auth(t)
    BY <2>1
  <2> QED
    BY <2>1, <2>2 DEF Same, Key
<1>2. ASSUME NEW s \in Streams, ServeFree(s) PROVE PaymentInv'
  BY <1>2 DEF ServeFree
<1>3. ASSUME NEW s \in Streams, RefuseUnpaid(s) PROVE PaymentInv'
  BY <1>3 DEF RefuseUnpaid
<1>4. ASSUME NEW s \in Streams, IssueChallenge(s) PROVE PaymentInv'
  BY <1>4 DEF IssueChallenge
<1>5. ASSUME NEW s \in Streams, SkipChallenge(s) PROVE PaymentInv'
  BY <1>5 DEF SkipChallenge
<1>6. ASSUME NEW s \in Streams, ConsumeChallenge(s) PROVE PaymentInv'
  BY <1>6 DEF ConsumeChallenge
<1>7. ASSUME NEW s \in Streams, RefuseNoResource(s) PROVE PaymentInv'
  BY <1>7 DEF RefuseNoResource
<1>8. ASSUME NEW s \in Streams, RefuseNoService(s) PROVE PaymentInv'
  BY <1>8 DEF RefuseNoService
<1>9. ASSUME NEW s \in Streams, ReadPrice(s) PROVE PaymentInv'
  BY <1>9 DEF ReadPrice
<1>10. ASSUME NEW s \in Streams, RejectPayment(s) PROVE PaymentInv'
  BY <1>10 DEF RejectPayment
<1>11. ASSUME NEW s \in Streams, MarkNonce(s) PROVE PaymentInv'
  <2>1. UNCHANGED <<msg, quoted, txHash, service, tx>>
    BY <1>11 DEF MarkNonce
  <2>2. CASE attempt' = attempt
    BY <2>1, <2>2 DEF Same, Key
  <2>3. CASE attempt' = [attempt EXCEPT ![s] = 1] /\ Auth(s).defect = "none"
    <3>1. pc[s] = "validate" /\ Auth(s) # None /\ Auth(s).amount = quoted[s]
      BY <1>11 DEF MarkNonce, Acceptable
    <3>2. /\ service /\ attempt[s] = 0 /\ msg[s] # None /\ quoted[s] # None
          /\ Auth(s) \in Authorization
      BY <3>1
    <3>3. \A t \in Streams : attempt[t] <= attempt'[t] /\ (t # s => attempt'[t] = attempt[t])
      BY <2>3, <3>1
    <3> QED
      BY <2>1, <2>3, <3>1, <3>2, <3>3 DEF Same, Key
  <2> QED
    BY <1>11, <2>2, <2>3 DEF MarkNonce
<1>12. ASSUME NEW s \in Streams, SettleAccepted(s) PROVE PaymentInv'
  BY <1>12 DEF SettleAccepted, CallTxs, Same
<1>13. ASSUME NEW s \in Streams, SettleFails(s) PROVE PaymentInv'
  BY <1>13 DEF SettleFails
<1>14. ASSUME NEW s \in Streams, RetrySettle(s) PROVE PaymentInv'
  BY <1>14 DEF RetrySettle
<1>15. ASSUME NEW s \in Streams, BackoffCancelled(s) PROVE PaymentInv'
  BY <1>15 DEF BackoffCancelled
<1>16. ASSUME NEW s \in Streams, Confirmed(s) PROVE PaymentInv'
  BY <1>16 DEF Confirmed
<1>17. ASSUME NEW s \in Streams, Unconfirmed(s) PROVE PaymentInv'
  BY <1>17 DEF Unconfirmed
<1>18. ASSUME NEW s \in Streams, StartTask(s) PROVE PaymentInv'
  BY <1>18 DEF StartTask
<1>19. ASSUME NEW s \in Streams, AgentMissing(s) PROVE PaymentInv'
  BY <1>19 DEF AgentMissing
<1>20. ASSUME NEW s \in Streams, TaskSucceeds(s) PROVE PaymentInv'
  BY <1>20 DEF TaskSucceeds
<1>21. ASSUME NEW s \in Streams, TaskFails(s) PROVE PaymentInv'
  BY <1>21 DEF TaskFails
<1>22. ASSUME NEW s \in Streams, Record(s) PROVE PaymentInv'
  BY <1>22 DEF Record
<1>23. ASSUME NEW s \in Streams, Respond(s) PROVE PaymentInv'
  BY <1>23 DEF Respond
<1>24. ASSUME NEW s \in Streams, ContextExpires(s) PROVE PaymentInv'
  BY <1>24 DEF ContextExpires
<1>25. ASSUME NEW s \in Streams, PanicNoService(s) PROVE PaymentInv'
  BY <1>25 DEF PanicNoService, Die
<1>26. ASSUME NEW c \in CorrIds, ChallengeExpires(c) PROVE PaymentInv'
  BY <1>26 DEF ChallengeExpires
<1>27. ASSUME CleanupExpiredChallenges PROVE PaymentInv'
  BY <1>27 DEF CleanupExpiredChallenges
<1>28. ASSUME NEW a \in Agents, SetPrice(a) PROVE PaymentInv'
  BY <1>28 DEF SetPrice
<1>29. ASSUME Restart PROVE PaymentInv'
  BY <1>29 DEF Restart, Die
<1>30. ASSUME NEW t \in TxRefs, Broadcast(t) PROVE PaymentInv'
  BY <1>30 DEF Broadcast
<1>31. ASSUME NEW t \in TxRefs, Mine(t) PROVE PaymentInv'
  BY <1>31 DEF Mine
<1>32. ASSUME NEW t \in TxRefs, Revert(t) PROVE PaymentInv'
  BY <1>32 DEF Revert
<1>33. ASSUME NEW a \in Received, Lapse(a) PROVE PaymentInv'
  BY <1>33 DEF Lapse
<1>34. ASSUME UNCHANGED vars PROVE PaymentInv'
  BY <1>34 DEF vars
<1> QED
  BY <1>1, <1>2, <1>3, <1>4, <1>5, <1>6, <1>7, <1>8, <1>9, <1>10, <1>11, <1>12,
     <1>13, <1>14, <1>15, <1>16, <1>17, <1>18, <1>19, <1>20, <1>21, <1>22,
     <1>23, <1>24, <1>25, <1>26, <1>27, <1>28, <1>29, <1>30, <1>31, <1>32,
     <1>33, <1>34 DEF Next, Pay, Serve, Environment

\* A handler that is past the payment, and every task that ran, has its transfer
\* mined or was asked at price 0 (manager.go 549-555, 653-663).
LEMMA TaskStep == IInv /\ [Next]_vars => TaskInv'
<1> SUFFICES ASSUME IInv, [Next]_vars PROVE TaskInv'
  OBVIOUS
<1> USE InboundFields, AuthFields DEF IInv, TypeOK, Goto, Answer, FailPayment, locals,
     tasks, world, TaskInv, HandlerInv, HandlerOK, PaidFor, Paying, Auth,
     Unread, Busy
<1>1. ASSUME NEW s \in Streams, Receive(s) PROVE TaskInv'
  BY <1>1 DEF Receive
<1>2. ASSUME NEW s \in Streams, ServeFree(s) PROVE TaskInv'
  BY <1>2 DEF ServeFree
<1>3. ASSUME NEW s \in Streams, RefuseUnpaid(s) PROVE TaskInv'
  BY <1>3 DEF RefuseUnpaid
<1>4. ASSUME NEW s \in Streams, IssueChallenge(s) PROVE TaskInv'
  BY <1>4 DEF IssueChallenge
<1>5. ASSUME NEW s \in Streams, SkipChallenge(s) PROVE TaskInv'
  BY <1>5 DEF SkipChallenge
<1>6. ASSUME NEW s \in Streams, ConsumeChallenge(s) PROVE TaskInv'
  BY <1>6 DEF ConsumeChallenge
<1>7. ASSUME NEW s \in Streams, RefuseNoResource(s) PROVE TaskInv'
  BY <1>7 DEF RefuseNoResource
<1>8. ASSUME NEW s \in Streams, RefuseNoService(s) PROVE TaskInv'
  BY <1>8 DEF RefuseNoService
<1>9. ASSUME NEW s \in Streams, ReadPrice(s) PROVE TaskInv'
  BY <1>9 DEF ReadPrice
<1>10. ASSUME NEW s \in Streams, RejectPayment(s) PROVE TaskInv'
  BY <1>10 DEF RejectPayment
<1>11. ASSUME NEW s \in Streams, MarkNonce(s) PROVE TaskInv'
  BY <1>11 DEF MarkNonce
<1>12. ASSUME NEW s \in Streams, SettleAccepted(s) PROVE TaskInv'
  BY <1>12 DEF SettleAccepted
<1>13. ASSUME NEW s \in Streams, SettleFails(s) PROVE TaskInv'
  BY <1>13 DEF SettleFails
<1>14. ASSUME NEW s \in Streams, RetrySettle(s) PROVE TaskInv'
  BY <1>14 DEF RetrySettle
<1>15. ASSUME NEW s \in Streams, BackoffCancelled(s) PROVE TaskInv'
  BY <1>15 DEF BackoffCancelled
<1>16. ASSUME NEW s \in Streams, Confirmed(s) PROVE TaskInv'
  BY <1>16 DEF Confirmed
<1>17. ASSUME NEW s \in Streams, Unconfirmed(s) PROVE TaskInv'
  BY <1>17 DEF Unconfirmed
<1>18. ASSUME NEW s \in Streams, StartTask(s) PROVE TaskInv'
  BY <1>18 DEF StartTask
<1>19. ASSUME NEW s \in Streams, AgentMissing(s) PROVE TaskInv'
  BY <1>19 DEF AgentMissing
<1>20. ASSUME NEW s \in Streams, TaskSucceeds(s) PROVE TaskInv'
  BY <1>20 DEF TaskSucceeds
<1>21. ASSUME NEW s \in Streams, TaskFails(s) PROVE TaskInv'
  BY <1>21 DEF TaskFails
<1>22. ASSUME NEW s \in Streams, Record(s) PROVE TaskInv'
  BY <1>22 DEF Record
<1>23. ASSUME NEW s \in Streams, Respond(s) PROVE TaskInv'
  BY <1>23 DEF Respond
<1>24. ASSUME NEW s \in Streams, ContextExpires(s) PROVE TaskInv'
  BY <1>24 DEF ContextExpires
<1>25. ASSUME NEW s \in Streams, PanicNoService(s) PROVE TaskInv'
  BY <1>25 DEF PanicNoService, Die
<1>26. ASSUME NEW c \in CorrIds, ChallengeExpires(c) PROVE TaskInv'
  BY <1>26 DEF ChallengeExpires
<1>27. ASSUME CleanupExpiredChallenges PROVE TaskInv'
  BY <1>27 DEF CleanupExpiredChallenges
<1>28. ASSUME NEW a \in Agents, SetPrice(a) PROVE TaskInv'
  BY <1>28 DEF SetPrice
<1>29. ASSUME Restart PROVE TaskInv'
  BY <1>29 DEF Restart, Die
<1>30. ASSUME NEW t \in TxRefs, Broadcast(t) PROVE TaskInv'
  BY <1>30 DEF Broadcast
<1>31. ASSUME NEW t \in TxRefs, Mine(t) PROVE TaskInv'
  BY <1>31 DEF Mine
<1>32. ASSUME NEW t \in TxRefs, Revert(t) PROVE TaskInv'
  BY <1>32 DEF Revert
<1>33. ASSUME NEW a \in Received, Lapse(a) PROVE TaskInv'
  BY <1>33 DEF Lapse
<1>34. ASSUME UNCHANGED vars PROVE TaskInv'
  BY <1>34 DEF vars
<1> QED
  BY <1>1, <1>2, <1>3, <1>4, <1>5, <1>6, <1>7, <1>8, <1>9, <1>10, <1>11, <1>12,
     <1>13, <1>14, <1>15, <1>16, <1>17, <1>18, <1>19, <1>20, <1>21, <1>22,
     <1>23, <1>24, <1>25, <1>26, <1>27, <1>28, <1>29, <1>30, <1>31, <1>32,
     <1>33, <1>34 DEF Next, Pay, Serve, Environment

\* A nonce under settlement stays marked, as it is written, and belongs to one
\* handler (verifier.go 178-189).
LEMMA NonceStep == IInv /\ [Next]_vars => OneHandlerPerNonce'
<1> SUFFICES ASSUME IInv, [Next]_vars PROVE OneHandlerPerNonce'
  OBVIOUS
<1> USE InboundFields, AuthFields DEF IInv, TypeOK, Goto, Answer, FailPayment, locals,
     tasks, world, PaymentInv, HandlerInv, HandlerOK,
     OneHandlerPerNonce, Settling, Paying, Auth, Unread, Busy
<1>1. ASSUME NEW s \in Streams, Receive(s) PROVE OneHandlerPerNonce'
  BY <1>1 DEF Receive
<1>2. ASSUME NEW s \in Streams, ServeFree(s) PROVE OneHandlerPerNonce'
  BY <1>2 DEF ServeFree
<1>3. ASSUME NEW s \in Streams, RefuseUnpaid(s) PROVE OneHandlerPerNonce'
  BY <1>3 DEF RefuseUnpaid
<1>4. ASSUME NEW s \in Streams, IssueChallenge(s) PROVE OneHandlerPerNonce'
  BY <1>4 DEF IssueChallenge
<1>5. ASSUME NEW s \in Streams, SkipChallenge(s) PROVE OneHandlerPerNonce'
  BY <1>5 DEF SkipChallenge
<1>6. ASSUME NEW s \in Streams, ConsumeChallenge(s) PROVE OneHandlerPerNonce'
  BY <1>6 DEF ConsumeChallenge
<1>7. ASSUME NEW s \in Streams, RefuseNoResource(s) PROVE OneHandlerPerNonce'
  BY <1>7 DEF RefuseNoResource
<1>8. ASSUME NEW s \in Streams, RefuseNoService(s) PROVE OneHandlerPerNonce'
  BY <1>8 DEF RefuseNoService
<1>9. ASSUME NEW s \in Streams, ReadPrice(s) PROVE OneHandlerPerNonce'
  BY <1>9 DEF ReadPrice
<1>10. ASSUME NEW s \in Streams, RejectPayment(s) PROVE OneHandlerPerNonce'
  BY <1>10 DEF RejectPayment
<1>11. ASSUME NEW s \in Streams, MarkNonce(s) PROVE OneHandlerPerNonce'
  <2>1. /\ Written(Auth(s)) \notin usedNonces
        /\ usedNonces' = usedNonces \cup {Written(Auth(s))}
        /\ Paying(s) /\ UNCHANGED msg
        /\ \A t \in Streams \ {s} : pc'[t] = pc[t]
    BY <1>11 DEF MarkNonce, Acceptable
  <2>2. \A t \in Streams : Paying(t)' = Paying(t) /\ Written(Auth(t))' = Written(Auth(t))
    BY <2>1 DEF Written
  <2> QED
    BY <2>1, <2>2
<1>12. ASSUME NEW s \in Streams, SettleAccepted(s) PROVE OneHandlerPerNonce'
  BY <1>12 DEF SettleAccepted
<1>13. ASSUME NEW s \in Streams, SettleFails(s) PROVE OneHandlerPerNonce'
  BY <1>13 DEF SettleFails
<1>14. ASSUME NEW s \in Streams, RetrySettle(s) PROVE OneHandlerPerNonce'
  BY <1>14 DEF RetrySettle
<1>15. ASSUME NEW s \in Streams, BackoffCancelled(s) PROVE OneHandlerPerNonce'
  BY <1>15 DEF BackoffCancelled
<1>16. ASSUME NEW s \in Streams, Confirmed(s) PROVE OneHandlerPerNonce'
  BY <1>16 DEF Confirmed
<1>17. ASSUME NEW s \in Streams, Unconfirmed(s) PROVE OneHandlerPerNonce'
  BY <1>17 DEF Unconfirmed
<1>18. ASSUME NEW s \in Streams, StartTask(s) PROVE OneHandlerPerNonce'
  BY <1>18 DEF StartTask
<1>19. ASSUME NEW s \in Streams, AgentMissing(s) PROVE OneHandlerPerNonce'
  BY <1>19 DEF AgentMissing
<1>20. ASSUME NEW s \in Streams, TaskSucceeds(s) PROVE OneHandlerPerNonce'
  BY <1>20 DEF TaskSucceeds
<1>21. ASSUME NEW s \in Streams, TaskFails(s) PROVE OneHandlerPerNonce'
  BY <1>21 DEF TaskFails
<1>22. ASSUME NEW s \in Streams, Record(s) PROVE OneHandlerPerNonce'
  BY <1>22 DEF Record
<1>23. ASSUME NEW s \in Streams, Respond(s) PROVE OneHandlerPerNonce'
  BY <1>23 DEF Respond
<1>24. ASSUME NEW s \in Streams, ContextExpires(s) PROVE OneHandlerPerNonce'
  BY <1>24 DEF ContextExpires
<1>25. ASSUME NEW s \in Streams, PanicNoService(s) PROVE OneHandlerPerNonce'
  BY <1>25 DEF PanicNoService, Die
<1>26. ASSUME NEW c \in CorrIds, ChallengeExpires(c) PROVE OneHandlerPerNonce'
  BY <1>26 DEF ChallengeExpires
<1>27. ASSUME CleanupExpiredChallenges PROVE OneHandlerPerNonce'
  BY <1>27 DEF CleanupExpiredChallenges
<1>28. ASSUME NEW a \in Agents, SetPrice(a) PROVE OneHandlerPerNonce'
  BY <1>28 DEF SetPrice
<1>29. ASSUME Restart PROVE OneHandlerPerNonce'
  BY <1>29 DEF Restart, Die
<1>30. ASSUME NEW t \in TxRefs, Broadcast(t) PROVE OneHandlerPerNonce'
  BY <1>30 DEF Broadcast
<1>31. ASSUME NEW t \in TxRefs, Mine(t) PROVE OneHandlerPerNonce'
  BY <1>31 DEF Mine
<1>32. ASSUME NEW t \in TxRefs, Revert(t) PROVE OneHandlerPerNonce'
  BY <1>32 DEF Revert
<1>33. ASSUME NEW a \in Received, Lapse(a) PROVE OneHandlerPerNonce'
  BY <1>33 DEF Lapse
<1>34. ASSUME UNCHANGED vars PROVE OneHandlerPerNonce'
  BY <1>34 DEF vars
<1> QED
  BY <1>1, <1>2, <1>3, <1>4, <1>5, <1>6, <1>7, <1>8, <1>9, <1>10, <1>11, <1>12,
     <1>13, <1>14, <1>15, <1>16, <1>17, <1>18, <1>19, <1>20, <1>21, <1>22,
     <1>23, <1>24, <1>25, <1>26, <1>27, <1>28, <1>29, <1>30, <1>31, <1>32,
     <1>33, <1>34 DEF Next, Pay, Serve, Environment

\* The answer written agrees with what had happened by then (manager.go 594-806).
LEMMA ReplyStep == IInv /\ [Next]_vars => ReplyInv'
<1> SUFFICES ASSUME IInv, [Next]_vars PROVE ReplyInv'
  OBVIOUS
<1> USE InboundFields, AuthFields DEF IInv, TypeOK, Goto, Answer, FailPayment, locals,
     tasks, world, ReplyInv, TaskInv, HandlerInv, HandlerOK, PaidFor, Paying,
     Auth, Unread, Busy, Frames, Codes
<1>1. ASSUME NEW s \in Streams, Receive(s) PROVE ReplyInv'
  BY <1>1 DEF Receive
<1>2. ASSUME NEW s \in Streams, ServeFree(s) PROVE ReplyInv'
  BY <1>2 DEF ServeFree
<1>3. ASSUME NEW s \in Streams, RefuseUnpaid(s) PROVE ReplyInv'
  BY <1>3 DEF RefuseUnpaid
<1>4. ASSUME NEW s \in Streams, IssueChallenge(s) PROVE ReplyInv'
  BY <1>4 DEF IssueChallenge
<1>5. ASSUME NEW s \in Streams, SkipChallenge(s) PROVE ReplyInv'
  BY <1>5 DEF SkipChallenge
<1>6. ASSUME NEW s \in Streams, ConsumeChallenge(s) PROVE ReplyInv'
  BY <1>6 DEF ConsumeChallenge
<1>7. ASSUME NEW s \in Streams, RefuseNoResource(s) PROVE ReplyInv'
  BY <1>7 DEF RefuseNoResource
<1>8. ASSUME NEW s \in Streams, RefuseNoService(s) PROVE ReplyInv'
  BY <1>8 DEF RefuseNoService
<1>9. ASSUME NEW s \in Streams, ReadPrice(s) PROVE ReplyInv'
  BY <1>9 DEF ReadPrice
<1>10. ASSUME NEW s \in Streams, RejectPayment(s) PROVE ReplyInv'
  BY <1>10 DEF RejectPayment
<1>11. ASSUME NEW s \in Streams, MarkNonce(s) PROVE ReplyInv'
  BY <1>11 DEF MarkNonce
<1>12. ASSUME NEW s \in Streams, SettleAccepted(s) PROVE ReplyInv'
  BY <1>12 DEF SettleAccepted
<1>13. ASSUME NEW s \in Streams, SettleFails(s) PROVE ReplyInv'
  BY <1>13 DEF SettleFails
<1>14. ASSUME NEW s \in Streams, RetrySettle(s) PROVE ReplyInv'
  BY <1>14 DEF RetrySettle
<1>15. ASSUME NEW s \in Streams, BackoffCancelled(s) PROVE ReplyInv'
  BY <1>15 DEF BackoffCancelled
<1>16. ASSUME NEW s \in Streams, Confirmed(s) PROVE ReplyInv'
  BY <1>16 DEF Confirmed
<1>17. ASSUME NEW s \in Streams, Unconfirmed(s) PROVE ReplyInv'
  BY <1>17 DEF Unconfirmed
<1>18. ASSUME NEW s \in Streams, StartTask(s) PROVE ReplyInv'
  BY <1>18 DEF StartTask
<1>19. ASSUME NEW s \in Streams, AgentMissing(s) PROVE ReplyInv'
  BY <1>19 DEF AgentMissing
<1>20. ASSUME NEW s \in Streams, TaskSucceeds(s) PROVE ReplyInv'
  BY <1>20 DEF TaskSucceeds
<1>21. ASSUME NEW s \in Streams, TaskFails(s) PROVE ReplyInv'
  BY <1>21 DEF TaskFails
<1>22. ASSUME NEW s \in Streams, Record(s) PROVE ReplyInv'
  BY <1>22 DEF Record
<1>23. ASSUME NEW s \in Streams, Respond(s) PROVE ReplyInv'
  BY <1>23 DEF Respond
<1>24. ASSUME NEW s \in Streams, ContextExpires(s) PROVE ReplyInv'
  BY <1>24 DEF ContextExpires
<1>25. ASSUME NEW s \in Streams, PanicNoService(s) PROVE ReplyInv'
  BY <1>25 DEF PanicNoService, Die
<1>26. ASSUME NEW c \in CorrIds, ChallengeExpires(c) PROVE ReplyInv'
  BY <1>26 DEF ChallengeExpires
<1>27. ASSUME CleanupExpiredChallenges PROVE ReplyInv'
  BY <1>27 DEF CleanupExpiredChallenges
<1>28. ASSUME NEW a \in Agents, SetPrice(a) PROVE ReplyInv'
  BY <1>28 DEF SetPrice
<1>29. ASSUME Restart PROVE ReplyInv'
  BY <1>29 DEF Restart, Die
<1>30. ASSUME NEW t \in TxRefs, Broadcast(t) PROVE ReplyInv'
  BY <1>30 DEF Broadcast
<1>31. ASSUME NEW t \in TxRefs, Mine(t) PROVE ReplyInv'
  BY <1>31 DEF Mine
<1>32. ASSUME NEW t \in TxRefs, Revert(t) PROVE ReplyInv'
  BY <1>32 DEF Revert
<1>33. ASSUME NEW a \in Received, Lapse(a) PROVE ReplyInv'
  BY <1>33 DEF Lapse
<1>34. ASSUME UNCHANGED vars PROVE ReplyInv'
  BY <1>34 DEF vars
<1> QED
  BY <1>1, <1>2, <1>3, <1>4, <1>5, <1>6, <1>7, <1>8, <1>9, <1>10, <1>11, <1>12,
     <1>13, <1>14, <1>15, <1>16, <1>17, <1>18, <1>19, <1>20, <1>21, <1>22,
     <1>23, <1>24, <1>25, <1>26, <1>27, <1>28, <1>29, <1>30, <1>31, <1>32,
     <1>33, <1>34 DEF Next, Pay, Serve, Environment

-----------------------------------------------------------------------------
(* The invariant and what follows from it *)

\* The inductive invariant holds in every reachable state, for every instance of
\* the seller: any messages, any number of streams, retries and restarts.
THEOREM InductiveInvariant == Spec => []IInv
<1>1. IInv /\ [Next]_vars => IInv'
  BY TypeOKStep, ChallengeStep, HandlerStep, PaymentStep, TaskStep, NonceStep,
     ReplyStep DEF IInv
<1> QED
  BY InitIInv, <1>1, PTL DEF Spec

\* Type correctness, with settle calls never counted past the bound of
\* settleWithFacilitatorWithRetry (payment.go 539-564).
THEOREM TypeCorrect == Spec => []TypeOK
<1>1. IInv => TypeOK
  BY DEF IInv
<1> QED
  BY InductiveInvariant, <1>1, PTL

\* No paid task starts before a transfer of exactly the quoted amount, signed for
\* this very request, is mined (manager.go 594-663).
THEOREM PaymentComesFirst == Spec => []SettlementBeforeExecution
<1>1. IInv => SettlementBeforeExecution
  <2> SUFFICES ASSUME IInv, NEW s \in Streams, s \in ran
               PROVE  IF Paying(s)
                        THEN /\ PaidFor(s)
                             /\ Same(Auth(txHash[s][1]), Auth(s))
                             /\ Auth(s).amount = quoted[s]
                        ELSE quoted[s] = 0
    BY DEF SettlementBeforeExecution, IInv, TypeOK
  <2>1. IF Paying(s) THEN PaidFor(s) ELSE quoted[s] = 0
    BY DEF IInv, TaskInv
  <2>2. PaidFor(s) => attempt[s] > 0 /\ Same(Auth(txHash[s][1]), Auth(s))
    BY DEF IInv, PaymentInv, PaidFor
  <2>3. attempt[s] > 0 => Auth(s).amount = quoted[s]
    BY DEF IInv, PaymentInv
  <2> QED
    BY <2>1, <2>2, <2>3
<1> QED
  BY InductiveInvariant, <1>1, PTL

\* A challenge admits at most one paid request, through overwriting, expiry,
\* cleanup and restarts (payment.go 83-133, manager.go 609-629).
THEOREM ChallengesAreSingleUse == Spec => []ChallengeAdmitsOnce
<1>1. IInv => ChallengeAdmitsOnce
  BY DEF IInv, ChallengeInv, ChallengeAdmitsOnce, Admitted
<1> QED
  BY InductiveInvariant, <1>1, PTL

\* Only genuine authorizations for the quoted amount, and in the challenge flow
\* only for the issued nonce, reach the facilitator (manager.go 609-659).
THEOREM PaymentsAreChecked == Spec => []OnlyCheckedPaymentsLeave
<1>1. IInv => OnlyCheckedPaymentsLeave
  <2> SUFFICES ASSUME IInv, NEW s \in Streams, attempt[s] > 0
               PROVE  /\ Auth(s).defect = "none"
                      /\ Auth(s).amount = quoted[s]
                      /\ Standard(s) => /\ Auth(s).nonce = msg[s].serverNonce
                                        /\ Auth(s).nonce \in issued
    BY DEF OnlyCheckedPaymentsLeave
  <2>1. /\ Auth(s).defect = "none" /\ Auth(s).amount = quoted[s]
        /\ msg[s] \in Inbound /\ quoted[s] # None /\ Auth(s) # None
    BY AuthFields DEF IInv, TypeOK, PaymentInv
  <2>2. Standard(s) => Admitted(s)
    BY <2>1, InboundFields DEF Admitted
  <2>3. Auth(s).nonce # Blank
    BY <2>1, MessageAssumption DEF Auth
  <2> QED
    BY <2>1, <2>2, <2>3 DEF IInv, ChallengeInv
<1> QED
  BY InductiveInvariant, <1>1, PTL

\* No two live handlers settle or serve a nonce written the same way, and its
\* mark outlives them; nothing is said of two spellings (verifier.go 178-189).
THEOREM NoncesAreExclusive == Spec => []OneHandlerPerNonce
<1>1. IInv => OneHandlerPerNonce
  BY DEF IInv
<1> QED
  BY InductiveInvariant, <1>1, PTL

\* What the buyer is told agrees with the chain (manager.go 594-806).
THEOREM AnswersAreTrue == Spec => []AnswerAgreesWithChain
<1>1. IInv => AnswerAgreesWithChain
  <2> SUFFICES ASSUME IInv, NEW s \in Streams
               PROVE  /\ reply[s] = "response" =>
                           s \in ran /\ (Paying(s) => PaidFor(s))
                      /\ reply[s] = "EXECUTION_FAILED" /\ Paying(s) => PaidFor(s)
                      /\ attempt[s] = 0 => Untouched(s)
    BY DEF AnswerAgreesWithChain, IInv, ReplyInv
  <2>1. attempt[s] = 0 => Untouched(s)
    BY DEF IInv, TypeOK, PaymentInv, Untouched, TxRefs, Attempts
  <2>2. s \in ran => (Paying(s) => PaidFor(s))
    BY DEF IInv, TaskInv
  <2> QED
    BY <2>1, <2>2 DEF IInv, ReplyInv
<1> QED
  BY InductiveInvariant, <1>1, PTL

\* The session store names only exchanges that ran and were paid for
\* (manager.go 673-689).
THEOREM RecordsAreReal == Spec => []RecordedExchangesAreReal
<1>1. IInv => RecordedExchangesAreReal
  BY DEF IInv, TypeOK, TaskInv, RecordedExchangesAreReal
<1> QED
  BY InductiveInvariant, <1>1, PTL

-----------------------------------------------------------------------------
(* One execution per transfer, and the promise of PaidService.  The nonce       *)
(* tracker gives neither, for it forgets at a restart and takes two spellings   *)
(* for two nonces: both rest on a facilitator that does not name an earlier     *)
(* transfer of the same authorization again.                                    *)

\* With a facilitator that answers each call with that call's transaction, the
\* invariant leaves one execution to a transfer.
LEMMA OneExecution == IInv /\ ~FacilitatorIdempotent => OneExecutionPerSettlement
<1> SUFFICES ASSUME IInv, ~FacilitatorIdempotent, NEW s \in ran, NEW t \in ran,
                    Paying(s), Paying(t), Key(Auth(s)) = Key(Auth(t))
             PROVE  s = t
  BY DEF OneExecutionPerSettlement
<1>1. /\ s \in Streams /\ t \in Streams
      /\ PaidFor(s) /\ PaidFor(t)
  BY DEF IInv, TypeOK, TaskInv
<1>2. /\ txHash[s] \in TxRefs /\ txHash[s][1] = s
      /\ txHash[t] \in TxRefs /\ txHash[t][1] = t
  BY <1>1 DEF IInv, TypeOK, PaymentInv, PaidFor
<1>3. txHash[s] = txHash[t]
  BY <1>1, <1>2 DEF IInv, PaymentInv, PaidFor
<1> QED
  BY <1>2, <1>3

\* One transfer pays for at most one execution, whatever spellings the payments
\* come in and whatever a restart forgets (payment.go 323-360).
THEOREM TransfersPayOnce ==
  ASSUME ~FacilitatorIdempotent
  PROVE  Spec => []OneExecutionPerSettlement
<1>1. IInv => OneExecutionPerSettlement
  BY OneExecution
<1> QED
  BY InductiveInvariant, <1>1, PTL

-----------------------------------------------------------------------------
(* The seller implements PaidService *)

Settled == {Key(Auth(t[1])) : t \in {u \in TxRefs : tx[u] = "mined"}}
Served  == {<<s, IF Paying(s) THEN Key(Auth(s)) ELSE None>> : s \in ran}

\* A message that carries a transaction or a task is not read again, so neither
\* refinement set changes but by Mine and StartTask.
LEMMA RefinementFrame ==
  ASSUME IInv, \/ UNCHANGED msg
               \/ \E s \in Streams : Receive(s)
  PROVE  /\ \A t \in TxRefs : tx[t] # "none" => Auth(t[1])' = Auth(t[1])
         /\ \A s \in ran : Paying(s)' = Paying(s) /\ Auth(s)' = Auth(s)
<1>1. ASSUME NEW s \in Streams, msg[s] # None
      PROVE  msg'[s] = msg[s]
  BY <1>1 DEF Receive, IInv, TypeOK, HandlerInv, HandlerOK
<1>2. ASSUME NEW t \in TxRefs, tx[t] # "none"
      PROVE  t[1] \in Streams /\ msg[t[1]] # None
  BY <1>2 DEF IInv, TypeOK, PaymentInv, TxRefs, Attempts
<1>3. ASSUME NEW s \in ran
      PROVE  s \in Streams /\ msg[s] # None
  BY <1>3 DEF IInv, TypeOK, TaskInv
<1> QED
  BY <1>1, <1>2, <1>3 DEF Auth, Paying

\* Every step but StartTask and Mine leaves the tasks and the transfers alone.
LEMMA OtherSteps ==
  ASSUME IInv, [Next]_vars,
         \A s \in Streams : ~StartTask(s),
         \A t \in TxRefs : ~Mine(t)
  PROVE  /\ ran' = ran
         /\ \A t \in TxRefs : tx'[t] = "mined" <=> tx[t] = "mined"
         /\ UNCHANGED msg \/ \E s \in Streams : Receive(s)
<1> USE DEF locals, tasks, world
<1>1. ASSUME NEW s \in Streams, Pay(s)
      PROVE  UNCHANGED <<ran, tx, msg>>
  BY <1>1 DEF Pay, SkipChallenge, ConsumeChallenge, PanicNoService, Die,
     RefuseNoResource, RefuseNoService, ReadPrice, RejectPayment, MarkNonce,
     SettleAccepted, SettleFails, RetrySettle, BackoffCancelled, Confirmed,
     Unconfirmed
<1>2. ASSUME NEW s \in Streams, Serve(s)
      PROVE  UNCHANGED <<ran, tx, msg>>
  BY <1>2 DEF Serve, ServeFree, RefuseUnpaid, IssueChallenge, AgentMissing,
     TaskSucceeds, TaskFails, Record, Respond
<1>3. CASE \E s \in Streams : Receive(s)
  BY <1>3 DEF Receive
<1>4. CASE \E t \in TxRefs : Broadcast(t) \/ Revert(t)
  BY <1>4 DEF Broadcast, Revert, IInv, TypeOK
<1>5. CASE \/ \E s \in Streams : ContextExpires(s)
           \/ \E c \in CorrIds : ChallengeExpires(c)
           \/ CleanupExpiredChallenges
           \/ \E a \in Agents : SetPrice(a)
           \/ Restart
           \/ \E a \in Received : Lapse(a)
  BY <1>5 DEF ContextExpires, ChallengeExpires, CleanupExpiredChallenges,
     SetPrice, Restart, Die, Lapse
<1>6. CASE UNCHANGED vars
  BY <1>6 DEF vars
<1> QED
  BY <1>1, <1>2, <1>3, <1>4, <1>5, <1>6 DEF Next, Environment

\* Every step of the seller is a step of PaidService or leaves it unchanged: a
\* transfer mined is Settle, a task started is ServePaid or ServeFree.
LEMMA RefinementStep ==
  IInv /\ OneExecutionPerSettlement' /\ [Next]_vars => [Ideal!Next]_<<Settled, Served>>
<1> SUFFICES ASSUME IInv, OneExecutionPerSettlement', [Next]_vars
             PROVE  [Ideal!Next]_<<Settled, Served>>
  OBVIOUS
<1> DEFINE Paid(s) == IF Paying(s) THEN Key(Auth(s)) ELSE None
<1>1. ASSUME NEW s \in Streams, StartTask(s)
      PROVE  Ideal!Next
  <2>1. /\ ran' = ran \cup {s} /\ s \notin ran
        /\ pc[s] = "execute"
        /\ UNCHANGED <<msg, tx>>
    BY <1>1 DEF StartTask, locals, world, IInv, TaskInv, Busy
  <2>2. Settled' = Settled
    BY <2>1 DEF Settled, Auth, Key
  <2>3. Served' = Served \cup {<<s, Paid(s)>>}
    BY <2>1 DEF Served, Auth, Paying, Key
  <2>4. \A x \in Served : x[1] # s
    BY <2>1 DEF Served
  <2>5. CASE Paying(s)
    <3>1. /\ txHash[s] \in TxRefs /\ tx[txHash[s]] = "mined"
          /\ Key(Auth(txHash[s][1])) = Key(Auth(s)) /\ Auth(s) \in Authorization
      BY <2>1, <2>5 DEF IInv, TypeOK, TaskInv, PaymentInv, PaidFor, Same
    <3>2. Key(Auth(s)) \in Settled
      BY <3>1 DEF Settled
    <3>3. Key(Auth(s)) \in Payers \X Nonces
      BY <3>1, AuthFields DEF Key
    <3>4. ASSUME NEW u \in ran PROVE Paid(u) # Key(Auth(s))
      <4>1. CASE Paying(u)
        <5>1. Paying(u)' /\ Paying(s)' /\ Auth(u)' = Auth(u) /\ Auth(s)' = Auth(s)
          BY <2>1, <2>5, <4>1 DEF Paying, Auth
        <5>2. u \in ran' /\ s \in ran' /\ u # s
          BY <2>1
        <5> QED
          BY <4>1, <5>1, <5>2 DEF OneExecutionPerSettlement, Key
      <4>2. CASE ~Paying(u)
        BY <3>3, <4>2, NoneAssumption
      <4> QED
        BY <4>1, <4>2
    <3>5. \A x \in Served : x[2] # Key(Auth(s))
      BY <3>4 DEF Served
    <3>6. PICK p \in Payers \X Nonces : p = Key(Auth(s))
      BY <3>3
    <3>7. Ideal!ServePaid(s, p)
      BY <2>2, <2>3, <2>4, <2>5, <3>2, <3>5, <3>6
         DEF Ideal!ServePaid, Ideal!Unserved, Settled, Served
    <3> QED
      BY <3>7 DEF Ideal!Next
  <2>6. CASE ~Paying(s)
    <3>1. Ideal!ServeFree(s)
      BY <2>2, <2>3, <2>4, <2>6
         DEF Ideal!ServeFree, Ideal!Unserved, Settled, Served
    <3> QED
      BY <3>1 DEF Ideal!Next
  <2> QED
    BY <2>5, <2>6
<1>2. ASSUME NEW t \in TxRefs, Mine(t)
      PROVE  Ideal!Next
  <2>1. /\ tx' = [tx EXCEPT ![t] = "mined"] /\ tx[t] = "pending"
        /\ UNCHANGED <<msg, ran>>
        /\ \A u \in TxRefs : tx[u] = "mined" => Key(Auth(u[1])) # Key(Auth(t[1]))
    BY <1>2 DEF Mine, locals, tasks
  <2>2. Served' = Served
    BY <2>1 DEF Served, Auth, Paying, Key
  <2>3. /\ Key(Auth(t[1])) \notin Settled
        /\ Settled' = Settled \cup {Key(Auth(t[1]))}
    BY <2>1 DEF Settled, Auth, Key, IInv, TypeOK
  <2>4. t[1] \in Streams /\ attempt[t[1]] > 0
    BY <2>1 DEF IInv, TypeOK, PaymentInv, TxRefs, Attempts
  <2>5. Key(Auth(t[1])) \in Payers \X Nonces
    BY <2>4, AuthFields DEF IInv, PaymentInv, Key
  <2>6. PICK p \in Payers \X Nonces : p = Key(Auth(t[1]))
    BY <2>5
  <2>7. Ideal!Settle(p)
    BY <2>2, <2>3, <2>6 DEF Ideal!Settle, Settled, Served
  <2> QED
    BY <2>7 DEF Ideal!Next
<1>3. ASSUME \A s \in Streams : ~StartTask(s), \A t \in TxRefs : ~Mine(t)
      PROVE  UNCHANGED <<Settled, Served>>
  <2>1. /\ ran' = ran
        /\ \A t \in TxRefs : tx'[t] = "mined" <=> tx[t] = "mined"
        /\ UNCHANGED msg \/ \E s \in Streams : Receive(s)
    BY <1>3, OtherSteps
  <2>2. /\ \A t \in TxRefs : tx[t] # "none" => Auth(t[1])' = Auth(t[1])
        /\ \A s \in ran : Paying(s)' = Paying(s) /\ Auth(s)' = Auth(s)
    BY <2>1, RefinementFrame
  <2> QED
    BY <2>1, <2>2 DEF Settled, Served, Key
<1> QED
  BY <1>1, <1>2, <1>3

\* The seller implements PaidService: each paid task is served against a mined
\* transfer that has paid for nothing else (manager.go 594-663).
THEOREM SellerImplementsPaidService ==
  ASSUME ~FacilitatorIdempotent
  PROVE  Spec => ImplementsPaidService
<1>1. Init => Ideal!Init
  BY DEF Init, Ideal!Init
<1>2. IInv /\ OneExecutionPerSettlement' /\ [Next]_vars
        => [Ideal!Next]_<<Settled, Served>>
  BY RefinementStep
<1> QED
  BY InductiveInvariant, TransfersPayOnce, <1>1, <1>2, PTL
     DEF Spec, ImplementsPaidService, Ideal!Spec, Settled, Served

-----------------------------------------------------------------------------
(* One execution of a nonce as it is written in each life of the process: what  *)
(* the nonce tracker gives by itself, for any facilitator.                      *)

\* a written nonce that is unmarked, or carried by a handler before its task,
\* has run in earlier lives only
LifeInv ==
  \A k \in Nonces \X Spellings :
    /\ IsFiniteSet(Executions(k))
    /\ Cardinality(Executions(k)) <= restarts + 1
    /\ k \notin usedNonces => Cardinality(Executions(k)) <= restarts
    /\ \A s \in Streams \ ran :
         pc[s] \in Settling /\ Paying(s) /\ Written(Auth(s)) = k
           => Cardinality(Executions(k)) <= restarts

\* What most steps leave as it is: marks, lives, tasks, and who carries what.
LEMMA QuietSteps ==
  ASSUME IInv, [Next]_vars, ~Restart,
         \A s \in Streams : ~StartTask(s) /\ ~MarkNonce(s) /\ ~PanicNoService(s)
  PROVE  /\ UNCHANGED <<usedNonces, restarts, ran>>
         /\ UNCHANGED msg \/ \E s \in Streams : Receive(s)
         /\ \A s \in Streams : pc'[s] \in Settling /\ Paying(s)'
              => pc[s] \in Settling /\ msg'[s] = msg[s]
<1> USE DEF locals, tasks, world, Goto, Answer, FailPayment, Settling
<1>t. /\ pc \in [Streams -> Busy \cup {"idle", "done", "dead"}]
      /\ msg \in [Streams -> Inbound \cup {None}]
      /\ \A s \in Streams : pc[s] = "quote" => ~Paying(s)
  BY DEF IInv, TypeOK, HandlerInv, HandlerOK
<1>1. ASSUME NEW s \in Streams, Pay(s)
      PROVE  /\ UNCHANGED <<usedNonces, restarts, ran, msg>>
             /\ \A t \in Streams : pc'[t] \in Settling => pc[t] \in Settling
  BY <1>t, <1>1 DEF Pay, SkipChallenge, ConsumeChallenge, RefuseNoResource, RefuseNoService,
     ReadPrice, RejectPayment, SettleAccepted, SettleFails, RetrySettle, BackoffCancelled,
     Confirmed, Unconfirmed
<1>2. ASSUME NEW s \in Streams, Serve(s)
      PROVE  /\ UNCHANGED <<usedNonces, restarts, ran, msg>>
             /\ \A t \in Streams : pc'[t] \in Settling => pc[t] \in Settling \/ ~Paying(t)
  BY <1>t, <1>2 DEF Serve, ServeFree, RefuseUnpaid, IssueChallenge, AgentMissing,
     TaskSucceeds, TaskFails, Record, Respond
<1>3. ASSUME NEW s \in Streams, Receive(s)
      PROVE  /\ UNCHANGED <<usedNonces, restarts, ran>>
             /\ \A t \in Streams : pc'[t] \in Settling =>
                  pc[t] \in Settling /\ msg'[t] = msg[t]
  BY <1>t, <1>3 DEF Receive
<1>4. CASE \/ \E s \in Streams : ContextExpires(s)
           \/ \E c \in CorrIds : ChallengeExpires(c)
           \/ CleanupExpiredChallenges
           \/ \E a \in Agents : SetPrice(a)
           \/ \E t \in TxRefs : Broadcast(t) \/ Mine(t) \/ Revert(t)
           \/ \E a \in Received : Lapse(a)
           \/ UNCHANGED vars
  BY <1>4 DEF ContextExpires, ChallengeExpires, CleanupExpiredChallenges, SetPrice,
     Broadcast, Mine, Revert, Lapse, vars
<1> QED
  BY <1>1, <1>2, <1>3, <1>4 DEF Next, Environment, Paying, Auth

\* A task that was started keeps its authorization.
LEMMA ExecutionsKeep ==
  ASSUME IInv, [Next]_vars, UNCHANGED ran,
         UNCHANGED msg \/ \E s \in Streams : Receive(s), NEW k
  PROVE  Executions(k)' = Executions(k)
<1>1. \A s \in ran : Paying(s)' = Paying(s) /\ Auth(s)' = Auth(s)
  BY RefinementFrame
<1> QED
  BY <1>1 DEF Executions, Written

\* Marking a nonce is the only way to a task, and starting the task the only
\* execution: no life of the process sees two.
LEMMA LifeStep ==
  ASSUME IInv, LifeInv, [Next]_vars
  PROVE  LifeInv'
<1> SUFFICES ASSUME NEW k \in Nonces \X Spellings
             PROVE  /\ IsFiniteSet(Executions(k))'
                    /\ (Cardinality(Executions(k)) <= restarts + 1)'
                    /\ (k \notin usedNonces => Cardinality(Executions(k)) <= restarts)'
                    /\ \A s \in Streams \ ran' :
                         (pc[s] \in Settling /\ Paying(s) /\ Written(Auth(s)) = k
                           => Cardinality(Executions(k)) <= restarts)'
  BY DEF LifeInv
<1> DEFINE E == Executions(k)
<1>t. /\ restarts \in Nat /\ IsFiniteSet(E) /\ Cardinality(E) \in Nat
      /\ Cardinality(E) <= restarts + 1
      /\ k \notin usedNonces => Cardinality(E) <= restarts
      /\ \A s \in Streams \ ran : pc[s] \in Settling /\ Paying(s) /\ Written(Auth(s)) = k
           => Cardinality(E) <= restarts
  BY FS_CardinalityType DEF LifeInv, IInv, TypeOK
<1>1. CASE Restart
  <2>1. /\ restarts' = restarts + 1 /\ UNCHANGED <<ran, msg>>
        /\ \A s \in Streams : pc'[s] \notin Settling
    BY <1>1 DEF Restart, Die, locals, tasks, IInv, TypeOK, Busy, Settling
  <2>2. Executions(k)' = E
    BY <2>1, ExecutionsKeep
  <2> QED
    BY <1>t, <2>1, <2>2
<1>2. ASSUME NEW u \in Streams, PanicNoService(u)
      PROVE  LifeInv'
  <2>1. /\ ~service /\ UNCHANGED <<ran, msg, restarts>>
        /\ \A s \in Streams : pc'[s] \notin Settling
    BY <1>2 DEF PanicNoService, Die, locals, tasks, IInv, TypeOK, Busy, Settling
  <2>2. ASSUME NEW j \in Nonces \X Spellings
        PROVE  Executions(j)' = {}
    <3>1. Executions(j) = {}
      BY <2>1 DEF Executions, IInv, TypeOK, TaskInv, PaymentInv, PaidFor
    <3> QED
      BY <2>1, <3>1, ExecutionsKeep
  <2>3. \A j \in Nonces \X Spellings :
          IsFiniteSet(Executions(j)') /\ Cardinality(Executions(j)') = 0
    BY <2>2, FS_EmptySet
  <2>4. LifeInv'
    BY <1>t, <2>1, <2>3 DEF LifeInv
  <2> QED
    BY <2>4
<1>3. ASSUME NEW u \in Streams, MarkNonce(u)
      PROVE  LifeInv'
  <2>1. /\ UNCHANGED <<ran, msg, restarts>>
        /\ Written(Auth(u)) \notin usedNonces /\ usedNonces' = usedNonces \cup {Written(Auth(u))}
        /\ \A s \in Streams \ {u} : pc'[s] = pc[s]
    BY <1>3 DEF MarkNonce, Goto, Answer, FailPayment, tasks, world, IInv, TypeOK
  <2>2. \A j \in Nonces \X Spellings : Executions(j)' = Executions(j)
    BY <2>1, ExecutionsKeep
  <2>3. \A s \in Streams : Paying(s)' = Paying(s) /\ Written(Auth(s))' = Written(Auth(s))
    BY <2>1 DEF Paying, Auth, Written
  <2> QED
    BY <1>t, <2>1, <2>2, <2>3 DEF LifeInv
<1>4. ASSUME NEW u \in Streams, StartTask(u)
      PROVE  LifeInv'
  <2>1. /\ ran' = ran \cup {u} /\ u \notin ran /\ pc[u] = "execute"
        /\ UNCHANGED <<msg, restarts, usedNonces>>
        /\ \A s \in Streams \ {u} : pc'[s] = pc[s]
    BY <1>4 DEF StartTask, Goto, locals, world, IInv, TypeOK, TaskInv, Busy
  <2>2. \A s \in Streams : Paying(s)' = Paying(s) /\ Written(Auth(s))' = Written(Auth(s))
    BY <2>1 DEF Paying, Auth, Written
  <2>3. ASSUME NEW j \in Nonces \X Spellings, ~(Paying(u) /\ Written(Auth(u)) = j)
        PROVE  Executions(j)' = Executions(j)
    BY <2>1, <2>2, <2>3 DEF Executions, IInv, TypeOK
  <2>4. ASSUME NEW j \in Nonces \X Spellings, Paying(u), Written(Auth(u)) = j
        PROVE  /\ IsFiniteSet(Executions(j))'
               /\ (Cardinality(Executions(j)) <= restarts + 1)'
               /\ j \in usedNonces'
               /\ \A s \in Streams \ ran' : ~(pc[s] \in Settling /\ Paying(s) /\ Written(Auth(s)) = j)'
    <3>1. Executions(j)' = Executions(j) \cup {u} /\ u \notin Executions(j)
      BY <2>1, <2>2, <2>4 DEF Executions, IInv, TypeOK
    <3>2. IsFiniteSet(Executions(j)) /\ Cardinality(Executions(j)) <= restarts
      BY <2>1, <2>4 DEF LifeInv, Settling
    <3>3. /\ IsFiniteSet(Executions(j)') /\ Cardinality(Executions(j)') = Cardinality(Executions(j)) + 1
          /\ Cardinality(Executions(j)) \in Nat
      BY <3>1, <3>2, FS_AddElement, FS_CardinalityType
    <3>4. /\ Written(Auth(u)) \in usedNonces
          /\ \A s \in Streams \ {u} :
               pc[s] \in Settling /\ Paying(s) => Written(Auth(s)) # Written(Auth(u))
      BY <2>1, <2>4 DEF IInv, OneHandlerPerNonce, Settling
    <3> QED
      BY <1>t, <2>1, <2>2, <2>4, <3>2, <3>3, <3>4
  <2> QED
    BY <1>t, <2>1, <2>2, <2>3, <2>4 DEF LifeInv
<1>5. CASE ~Restart /\ \A s \in Streams : ~StartTask(s) /\ ~MarkNonce(s) /\ ~PanicNoService(s)
  <2>1. /\ UNCHANGED <<usedNonces, restarts, ran>>
        /\ \A s \in Streams : pc'[s] \in Settling /\ Paying(s)'
             => pc[s] \in Settling /\ Paying(s) /\ Written(Auth(s))' = Written(Auth(s))
    BY <1>5, QuietSteps DEF Paying, Auth, Written
  <2>2. Executions(k)' = E
    BY <1>5, <2>1, QuietSteps, ExecutionsKeep
  <2> QED
    BY <1>t, <2>1, <2>2
<1> QED
  BY <1>1, <1>2, <1>3, <1>4, <1>5 DEF LifeInv

\* A nonce as it is written buys at most one execution in each life of the
\* process, for any facilitator (verifier.go 178-189).
THEOREM LivesExecuteOnce == Spec => []OneExecutionPerLife
<1>1. Init => LifeInv
  <2> SUFFICES ASSUME Init PROVE LifeInv
    OBVIOUS
  <2>1. \A k \in Nonces \X Spellings : Executions(k) = {}
    BY DEF Init, Executions
  <2>2. \A k \in Nonces \X Spellings : IsFiniteSet(Executions(k)) /\ Cardinality(Executions(k)) = 0
    BY <2>1, FS_EmptySet
  <2>3. restarts = 0
    BY DEF Init
  <2> QED
    BY <2>2, <2>3 DEF LifeInv
<1>2. IInv /\ LifeInv /\ [Next]_vars => LifeInv'
  BY LifeStep
<1>3. LifeInv => OneExecutionPerLife
  BY DEF LifeInv, OneExecutionPerLife
<1> QED
  BY <1>1, <1>2, <1>3, InductiveInvariant, PTL DEF Spec

-----------------------------------------------------------------------------
(* What a stream costs: the part of EveryRequestAnswered that needs no fairness. *)

\* what a goroutine does in one step: it goes on, or counts a settle call
Move(s) ==
  \/ pc[s] = "idle" /\ pc'[s] \in Unread \cup {"done"}
  \/ pc[s] = "quote" /\ pc'[s] \in {"execute", "done"}
  \/ pc[s] = "consume" /\ pc'[s] \in {"price", "done"}
  \/ pc[s] = "price" /\ pc'[s] \in {"validate", "done"}
  \/ pc[s] = "validate" /\ pc'[s] = "settle" /\ attempt'[s] = 1
  \/ pc[s] = "settle" /\ pc'[s] = "backoff" /\ attempt'[s] = attempt[s]
  \/ pc[s] = "backoff" /\ pc'[s] = "settle" /\ attempt'[s] = attempt[s] + 1
  \/ pc[s] = "settle" /\ pc'[s] = "confirm"
  \/ pc[s] \in {"validate", "settle", "backoff"} /\ pc'[s] = "done"
  \/ pc[s] = "confirm" /\ pc'[s] \in {"execute", "done"}
  \/ pc[s] = "execute" /\ pc'[s] \in {"running", "done"}
  \/ pc[s] = "running" /\ pc'[s] \in {"record", "done"}
  \/ pc[s] = "record" /\ pc'[s] = "respond"
  \/ pc[s] = "respond" /\ pc'[s] = "done"

\* A step of one goroutine moves that one and leaves the others where they are.
LEMMA Moves ==
  ASSUME IInv, NEW s \in Streams, Receive(s) \/ (Pay(s) /\ ~PanicNoService(s)) \/ Serve(s)
  PROVE  /\ Move(s)
         /\ \A t \in Streams \ {s} : pc'[t] = pc[t] /\ attempt'[t] = attempt[t]
<1>t. /\ pc \in [Streams -> Busy \cup {"idle", "done", "dead"}]
      /\ attempt \in [Streams -> 0..MaxRetries]
  BY DEF IInv, TypeOK
<1> HIDE MessageAssumption, NumberAssumption, NoneAssumption
<1> USE DEF Goto, Answer, FailPayment, locals, Move, Unread
<1> DEFINE Moved == /\ Move(s)
                    /\ \A t \in Streams \ {s} : pc'[t] = pc[t] /\ attempt'[t] = attempt[t]
<1>1. ASSUME Receive(s) PROVE Moved
  BY <1>t, <1>1 DEF Receive
<1>2. ASSUME ServeFree(s) PROVE Moved
  BY <1>t, <1>2 DEF ServeFree
<1>3. ASSUME RefuseUnpaid(s) PROVE Moved
  BY <1>t, <1>3 DEF RefuseUnpaid
<1>4. ASSUME IssueChallenge(s) PROVE Moved
  BY <1>t, <1>4 DEF IssueChallenge
<1>5. ASSUME SkipChallenge(s) PROVE Moved
  BY <1>t, <1>5 DEF SkipChallenge
<1>6. ASSUME ConsumeChallenge(s) PROVE Moved
  BY <1>t, <1>6 DEF ConsumeChallenge
<1>7. ASSUME RefuseNoResource(s) PROVE Moved
  BY <1>t, <1>7 DEF RefuseNoResource
<1>8. ASSUME RefuseNoService(s) PROVE Moved
  BY <1>t, <1>8 DEF RefuseNoService
<1>9. ASSUME ReadPrice(s) PROVE Moved
  BY <1>t, <1>9 DEF ReadPrice
<1>10. ASSUME RejectPayment(s) PROVE Moved
  BY <1>t, <1>10 DEF RejectPayment
<1>11. ASSUME MarkNonce(s) PROVE Moved
  BY <1>t, <1>11 DEF MarkNonce
<1>12. ASSUME SettleAccepted(s) PROVE Moved
  BY <1>t, <1>12 DEF SettleAccepted
<1>13. ASSUME SettleFails(s) PROVE Moved
  BY <1>t, <1>13 DEF SettleFails
<1>14. ASSUME RetrySettle(s) PROVE Moved
  BY <1>t, <1>14 DEF RetrySettle
<1>15. ASSUME BackoffCancelled(s) PROVE Moved
  BY <1>t, <1>15 DEF BackoffCancelled
<1>16. ASSUME Confirmed(s) PROVE Moved
  BY <1>t, <1>16 DEF Confirmed
<1>17. ASSUME Unconfirmed(s) PROVE Moved
  BY <1>t, <1>17 DEF Unconfirmed
<1>18. ASSUME StartTask(s) PROVE Moved
  BY <1>t, <1>18 DEF StartTask
<1>19. ASSUME AgentMissing(s) PROVE Moved
  BY <1>t, <1>19 DEF AgentMissing
<1>20. ASSUME TaskSucceeds(s) PROVE Moved
  BY <1>t, <1>20 DEF TaskSucceeds
<1>21. ASSUME TaskFails(s) PROVE Moved
  BY <1>t, <1>21 DEF TaskFails
<1>22. ASSUME Record(s) PROVE Moved
  BY <1>t, <1>22 DEF Record
<1>23. ASSUME Respond(s) PROVE Moved
  BY <1>t, <1>23 DEF Respond
<1> QED
  BY <1>1, <1>2, <1>3, <1>4, <1>5, <1>6, <1>7, <1>8, <1>9, <1>10, <1>11,
     <1>12, <1>13, <1>14, <1>15, <1>16, <1>17, <1>18, <1>19, <1>20, <1>21,
     <1>22, <1>23 DEF Pay, Serve

\* Nobody but a stream's goroutine moves it, unless the node goes down.
LEMMA OthersWait ==
  ASSUME IInv, [Next]_vars,
         \A s \in Streams : ~Receive(s) /\ ~Pay(s) /\ ~Serve(s),
         ~Restart
  PROVE  UNCHANGED <<pc, attempt>>
BY DEF Next, Environment, ContextExpires, ChallengeExpires, CleanupExpiredChallenges,
   SetPrice, Broadcast, Mine, Revert, Lapse, vars, locals

\* The node's key and the count of its restarts change with nothing a stream does.
LEMMA ServiceStays ==
  ASSUME [Next]_vars
  PROVE  service' = service /\ (restarts' = restarts \/ Restart)
<1> USE DEF tasks, world
<1>1. ASSUME NEW s \in Streams, Pay(s)
      PROVE  UNCHANGED <<service, restarts>>
  BY <1>1 DEF Pay, SkipChallenge, ConsumeChallenge, PanicNoService, Die,
     RefuseNoResource, RefuseNoService, ReadPrice, RejectPayment, MarkNonce,
     SettleAccepted, SettleFails, RetrySettle, BackoffCancelled, Confirmed,
     Unconfirmed
<1>2. ASSUME NEW s \in Streams, Serve(s)
      PROVE  UNCHANGED <<service, restarts>>
  BY <1>2 DEF Serve, ServeFree, RefuseUnpaid, IssueChallenge, StartTask, AgentMissing,
     TaskSucceeds, TaskFails, Record, Respond
<1>3. CASE Environment
  BY <1>3 DEF Environment, Receive, ContextExpires, ChallengeExpires,
     CleanupExpiredChallenges, SetPrice, Restart, Die, Broadcast, Mine, Revert, Lapse
<1>4. CASE UNCHANGED vars
  BY <1>4 DEF vars
<1> QED
  BY <1>1, <1>2, <1>3, <1>4 DEF Next

\* The number of steps left is a natural number, and a step of the goroutine
\* makes it smaller.
LEMMA StepsLeftFalls ==
  ASSUME IInv, TypeOK', NEW s \in Streams
  PROVE  /\ StepsLeft(s) \in Nat /\ StepsLeft(s)' \in Nat
         /\ Move(s) => StepsLeft(s)' < StepsLeft(s)
         /\ pc'[s] = pc[s] /\ attempt'[s] = attempt[s] => StepsLeft(s)' = StepsLeft(s)
         /\ pc'[s] = "dead" => StepsLeft(s)' = 0
         /\ pc[s] \in Busy \cup {"idle"} => StepsLeft(s) > 0
<1>1. /\ pc[s] \in Busy \cup {"idle", "done", "dead"} /\ pc'[s] \in Busy \cup {"idle", "done", "dead"}
      /\ attempt[s] \in 0..MaxRetries /\ attempt'[s] \in 0..MaxRetries
      /\ MaxRetries \in Nat \ {0}
  BY DEF IInv, TypeOK
<1> USE DEF Busy, StepsLeft
<1>2. StepsLeft(s) \in Nat /\ StepsLeft(s)' \in Nat
  BY <1>1
<1>3. ASSUME Move(s) PROVE StepsLeft(s)' < StepsLeft(s)
  BY <1>1, <1>3 DEF Move, Unread
<1>4. pc'[s] = pc[s] /\ attempt'[s] = attempt[s] => StepsLeft(s)' = StepsLeft(s)
  BY <1>1
<1>5. pc'[s] = "dead" => StepsLeft(s)' = 0
  BY <1>1
<1>6. pc[s] \in Busy \cup {"idle"} => StepsLeft(s) > 0
  BY <1>1
<1> QED
  BY <1>2, <1>3, <1>4, <1>5, <1>6

\* what AnswersComeNearer says of a step and one stream
Nearer(s) ==
  /\ Receive(s) \/ Pay(s) \/ Serve(s) => StepsLeft(s)' < StepsLeft(s)
  /\ StepsLeft(s)' <= StepsLeft(s)

\* Every stream is served in at most 2 * MaxRetries + 8 steps of its goroutine,
\* whatever the other streams and the world do meanwhile (payment.go 539-564).
THEOREM StreamsCostBoundedSteps == Spec => AnswersComeNearer
<1>1. ASSUME IInv, TypeOK', [Next]_vars, NEW s \in Streams
      PROVE  Nearer(s)
  <2> USE DEF Nearer
  <2>1. CASE Receive(s) \/ (Pay(s) /\ ~PanicNoService(s)) \/ Serve(s)
    <3>1. Move(s)
      BY <1>1, <2>1, Moves
    <3> QED
      BY <1>1, <3>1, StepsLeftFalls
  <2>2. CASE /\ ~(Receive(s) \/ (Pay(s) /\ ~PanicNoService(s)) \/ Serve(s))
             /\ Restart \/ \E u \in Streams : PanicNoService(u)
    <3>1. Die
      BY <2>2 DEF Restart, PanicNoService
    <3>2. /\ pc'[s] = pc[s] \/ pc'[s] = "dead"
          /\ attempt'[s] = attempt[s]
          /\ pc[s] \in Busy => pc'[s] = "dead"
      BY <1>1, <3>1 DEF Die, locals, IInv, TypeOK
    <3>3. Receive(s) \/ Pay(s) \/ Serve(s) => pc[s] \in Busy
      BY <2>2 DEF PanicNoService, Busy
    <3> QED
      BY <1>1, <3>2, <3>3, StepsLeftFalls
  <2>4. CASE /\ ~(Receive(s) \/ Pay(s) \/ Serve(s)) /\ ~Restart
             /\ \E u \in Streams \ {s} : Receive(u) \/ (Pay(u) /\ ~PanicNoService(u)) \/ Serve(u)
    <3>1. pc'[s] = pc[s] /\ attempt'[s] = attempt[s]
      BY <1>1, <2>4, Moves
    <3> QED
      BY <1>1, <2>4, <3>1, StepsLeftFalls
  <2>3. CASE ~Restart /\ \A u \in Streams : ~Receive(u) /\ ~Pay(u) /\ ~Serve(u)
    <3>1. UNCHANGED <<pc, attempt>>
      BY <1>1, <2>3, OthersWait
    <3> QED
      BY <1>1, <2>3, <3>1, StepsLeftFalls
  <2> QED
    BY <2>1, <2>2, <2>3, <2>4
<1>2. IInv /\ TypeOK' /\ [Next]_vars => [\A s \in Streams : Nearer(s)]_vars
  BY <1>1 DEF Nearer
<1>3. Spec => [][\A s \in Streams : Nearer(s)]_vars
  BY <1>2, InductiveInvariant, TypeCorrect, PTL DEF Spec
<1> QED
  BY <1>3 DEF AnswersComeNearer, Nearer

-----------------------------------------------------------------------------
\* With a wallet no request brings the node down (manager.go 609-651).
THEOREM WalletsHold == Spec => []WalletsKeepTheNodeUp
<1> DEFINE Up == service /\ restarts = 0 => \A s \in Streams : pc[s] # "dead"
<1>1. Init => Up
  BY DEF Init
<1>2. ASSUME IInv, Up, [Next]_vars PROVE Up'
  <2> SUFFICES ASSUME service', restarts' = 0 PROVE \A s \in Streams : pc'[s] # "dead"
    OBVIOUS
  <2>1. service /\ restarts = 0 /\ ~Restart
    <3>1. service
      BY <1>2, ServiceStays
    <3>2. restarts \in Nat
      BY <1>2 DEF IInv, TypeOK
    <3>3. ~Restart
      BY <3>2 DEF Restart
    <3>4. restarts = 0
      BY <1>2, <3>3, ServiceStays
    <3> QED
      BY <3>1, <3>3, <3>4
  <2>2. \A s \in Streams : pc[s] # "dead" /\ ~PanicNoService(s)
    BY <1>2, <2>1 DEF PanicNoService
  <2>3. CASE \E s \in Streams : Receive(s) \/ (Pay(s) /\ ~PanicNoService(s)) \/ Serve(s)
    BY <1>2, <2>2, <2>3, Moves DEF Move, Unread
  <2>4. CASE \A s \in Streams : ~Receive(s) /\ ~Pay(s) /\ ~Serve(s)
    BY <1>2, <2>1, <2>2, <2>4, OthersWait
  <2> QED
    BY <2>2, <2>3, <2>4
<1>3. Up => WalletsKeepTheNodeUp
  BY DEF WalletsKeepTheNodeUp, NoRequestStopsTheNode
<1> QED
  BY <1>1, <1>2, <1>3, InductiveInvariant, PTL DEF Spec
=============================================================================
