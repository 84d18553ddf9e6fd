----------------------------- MODULE X402Seller -----------------------------
(***************************************************************************)
(* The seller node of a paid call, /x402/libp2p/1.0.0: the two stream      *)
(* handlers of internal/agent/manager.go, the challenge store and          *)
(* VerifyAndSettle of internal/marketplace/payment.go, the nonce tracker   *)
(* of internal/marketplace/verifier.go, and the goroutine that serves each *)
(* inbound stream (internal/p2p/x402stream.go).                            *)
(*                                                                         *)
(* A stream carries one request and is served by one goroutine, so a       *)
(* handler is named by its stream.  Handlers interleave wherever the code  *)
(* takes and releases a lock, calls the facilitator, polls the chain or    *)
(* runs the agent.  Clients, the facilitator and the USDC contract are the *)
(* environment.                                                            *)
(***************************************************************************)
EXTENDS Naturals, FiniteSets

CONSTANTS
  Streams,               \* inbound streams, one request each
  CorrIds,               \* correlation ids chosen by the clients
  Nonces,                \* 32-byte nonces, drawn by the seller or a client
  Blank,                 \* the empty string in the place of a nonce
  Spellings,             \* ways to write a nonce in hex: prefix, case of a digit
  Plain,                 \* those equal to the challenge but for the prefix
  Agents,                \* resources that may be asked for
  Payers,                \* wallets that sign authorizations
  Amounts,               \* prices and authorization values, in USDC units
  Prices,                \* the prices an agent goes through; None: not hosted
  Inbound,               \* the messages the clients may send
  MaxRetries,            \* facilitator calls per payment (5 in the code)
  MaxRestarts,           \* bound on the restarts of the seller
  FacilitatorIdempotent, \* TRUE: a repeated settle may name an earlier tx
  Preemptive,            \* the server_nonce of a payment without challenge
  None                   \* Go's nil and absent map entries

Authorization == [payer: Payers, nonce: Nonces, spelling: Spellings,
                  amount: Amounts, defect: {"none", "header", "signature"}]

Message == [kind: {"request", "paid"}, corr: CorrIds,
            agent: Agents \cup {None},
            serverNonce: Nonces \cup {Preemptive},
            auth: Authorization \cup {None}]

Codes == {"INVALID_MESSAGE", "PAYMENT_REQUIRED", "PAYMENT_INVALID",
          "NONCE_MISMATCH", "NONCE_EXPIRED", "SETTLEMENT_FAILED",
          "EXECUTION_FAILED"}
Frames == Codes \cup {"payment_required", "response"}

Attempts == 1..MaxRetries
TxRefs   == Streams \X Attempts

ASSUME MessageAssumption ==
  /\ Inbound \subseteq Message
  /\ \A m \in Inbound : m.kind = "request" => m.agent # None
  \* an empty nonce is not 32 bytes, and no digest signs it
  /\ \A m \in Inbound :
       m.auth # None /\ m.auth.nonce = Blank => m.auth.defect # "none"
  /\ Plain \subseteq Spellings

ASSUME NumberAssumption ==
  /\ Amounts \subseteq Nat /\ 0 \in Amounts
  /\ Prices \subseteq Amounts \cup {None}
  /\ MaxRetries \in Nat \ {0} /\ MaxRestarts \in Nat
  /\ FacilitatorIdempotent \in BOOLEAN

ASSUME NoneAssumption ==
  /\ None \notin Authorization /\ None \notin Agents /\ None \notin Amounts
  /\ None \notin Nonces /\ None \notin Payers \X Nonces
  /\ None \notin TxRefs /\ None \notin Inbound
  /\ None \notin Frames
  /\ Preemptive \notin Nonces

VARIABLES
  \* the seller's memory, lost by a restart
  challenges,  \* ChallengeStore.challenges, by correlation id
  usedNonces,  \* PaymentVerifier.usedNonces, by the string received
  pc,          \* where the goroutine of each stream stands
  timedOut,    \* streams whose 30 s context has expired
  \* the goroutine's locals and its answer, kept after it ends
  msg,         \* the decoded request
  drawn,       \* the nonce of the challenge it issued
  quoted,      \* the price read by agentPrice
  attempt,     \* settle calls sent so far
  txHash,      \* the transaction the facilitator named
  reply,       \* the frame written back
  \* the node's configuration and agents, and what outlives a restart
  service,     \* FALSE: no Ethereum key, Manager.paymentService is nil
  price,       \* what agentPrice finds for each agent; None: unknown
  ran,         \* streams whose task was started
  recorded,    \* streams whose exchange is in the session store
  \* the rest of the world
  issued,      \* every nonce GenerateChallenge has drawn
  lapsed,      \* authorizations past validBefore
  tx,          \* what became of each settle call's transaction
  restarts

locals == <<msg, drawn, quoted, attempt, txHash, reply>>
tasks  == <<service, ran, recorded>>
world  == <<issued, lapsed, tx, restarts>>
vars   == <<challenges, usedNonces, pc, timedOut, locals, price, tasks, world>>

Challenge == [nonce: Nonces, expired: BOOLEAN]
Busy  == {"consume", "price", "quote", "validate", "settle", "backoff",
          "confirm", "execute", "running", "record", "respond"}

TypeOK ==
  /\ challenges \in [CorrIds -> Challenge \cup {None}]
  /\ usedNonces \subseteq Nonces \X Spellings
  /\ pc \in [Streams -> Busy \cup {"idle", "done", "dead"}]
  /\ timedOut \subseteq Streams
  /\ msg \in [Streams -> Inbound \cup {None}]
  /\ drawn \in [Streams -> Nonces \cup {None}]
  /\ quoted \in [Streams -> Amounts \cup {None}]
  /\ attempt \in [Streams -> 0..MaxRetries]
  /\ txHash \in [Streams -> TxRefs \cup {None}]
  /\ reply \in [Streams -> Frames \cup {None}]
  /\ service \in BOOLEAN
  /\ price \in [Agents -> Prices]
  /\ ran \subseteq Streams
  /\ recorded \subseteq Streams
  /\ issued \subseteq Nonces
  /\ lapsed \subseteq Authorization
  /\ tx \in [TxRefs -> {"none", "pending", "mined", "reverted"}]
  /\ restarts \in 0..MaxRestarts

Init ==
  /\ challenges = [c \in CorrIds |-> None]
  /\ usedNonces = {}
  /\ pc = [s \in Streams |-> "idle"]
  /\ timedOut = {}
  /\ msg = [s \in Streams |-> None]
  /\ drawn = [s \in Streams |-> None]
  /\ quoted = [s \in Streams |-> None]
  /\ attempt = [s \in Streams |-> 0]
  /\ txHash = [s \in Streams |-> None]
  /\ reply = [s \in Streams |-> None]
  /\ service \in BOOLEAN
  /\ price \in [Agents -> Prices]
  /\ ran = {}
  /\ recorded = {}
  /\ issued = {}
  /\ lapsed = {}
  /\ tx = [t \in TxRefs |-> "none"]
  /\ restarts = 0

-----------------------------------------------------------------------------
(* Vocabulary *)

Auth(s) == msg[s].auth

\* EIP-3009 consumes a nonce per payer
Key(a) == <<a.payer, a.nonce>>

\* the seller's tracker knows a nonce by the string it came as
Written(a) == <<a.nonce, a.spelling>>

\* the digest and the contract see the bytes: two spellings are one authorization
Same(a, b) == Key(a) = Key(b) /\ a.amount = b.amount

\* the handler of s carries a payment: x402.paid_request, or an x402.request
\* with one attached
Paying(s) == msg[s].kind = "paid" \/ Auth(s) # None

\* the payment answers a challenge
Standard(s) == msg[s].kind = "paid" /\ msg[s].serverNonce # Preemptive

\* agentPrice: the local agent's price, else the listing's, else 0
AgentPrice(a) == IF price[a] = None THEN 0 ELSE price[a]

\* nonces some message or challenge has already used; a fresh draw of 32
\* random bytes avoids them
Seen == issued \cup {Blank} \cup {msg[s].serverNonce : s \in {t \in Streams : msg[t] # None}}
               \cup {Auth(s).nonce : s \in {t \in Streams : msg[t] # None /\ Auth(t) # None}}

Goto(s, step) == pc' = [pc EXCEPT ![s] = step]

\* write the response frame and end the goroutine
Answer(s, frame) == Goto(s, "done") /\ reply' = [reply EXCEPT ![s] = frame]

-----------------------------------------------------------------------------
(* Serving a stream *)

\* handleStream decodes the frame and dispatches on its type.  A frame that
\* cannot be read is left without an answer; an unknown type or a payload that
\* is no message is answered with an error frame
Receive(s) ==
  /\ pc[s] = "idle"
  /\ \/ \E m \in Inbound :
          /\ msg' = [msg EXCEPT ![s] = m]
          /\ Goto(s, IF m.kind = "paid" THEN "consume"
                     ELSE IF m.auth # None THEN "price" ELSE "quote")
          /\ UNCHANGED reply
     \/ /\ \E r \in {None, "INVALID_MESSAGE"} : Answer(s, r)
        /\ UNCHANGED msg
  /\ UNCHANGED <<challenges, usedNonces, timedOut, drawn, quoted, attempt,
                 txHash, price, tasks, world>>

\* handleX402Request without payment: a free agent runs at once
ServeFree(s) ==
  /\ pc[s] = "quote" /\ AgentPrice(msg[s].agent) = 0
  /\ quoted' = [quoted EXCEPT ![s] = 0]
  /\ Goto(s, "execute")
  /\ UNCHANGED <<challenges, usedNonces, timedOut, msg, drawn, attempt, txHash,
                 reply, price, tasks, world>>

RefuseUnpaid(s) ==
  /\ pc[s] = "quote" /\ AgentPrice(msg[s].agent) # 0
  /\ ~service
  /\ Answer(s, "PAYMENT_REQUIRED")
  /\ UNCHANGED <<challenges, usedNonces, timedOut, msg, drawn, quoted, attempt,
                 txHash, price, tasks, world>>

\* GenerateChallenge overwrites the challenge of the correlation id, if any
IssueChallenge(s) ==
  /\ pc[s] = "quote" /\ AgentPrice(msg[s].agent) # 0
  /\ service
  /\ \E n \in Nonces \ Seen :
       /\ challenges' = [challenges EXCEPT ![msg[s].corr] =
                           [nonce |-> n, expired |-> FALSE]]
       /\ issued' = issued \cup {n}
       /\ drawn' = [drawn EXCEPT ![s] = n]
  /\ quoted' = [quoted EXCEPT ![s] = AgentPrice(msg[s].agent)]
  /\ Answer(s, "payment_required")
  /\ UNCHANGED <<usedNonces, timedOut, msg, attempt, txHash, price, tasks,
                 lapsed, tx, restarts>>

\* handleX402PaidRequest with "preemptive" looks up no challenge
SkipChallenge(s) ==
  /\ pc[s] = "consume" /\ ~Standard(s)
  /\ Goto(s, "price")
  /\ UNCHANGED <<challenges, usedNonces, timedOut, locals, price, tasks, world>>

Usable(c) == c # None /\ ~c.expired

\* mutant: the signed nonce is not compared
MatchesEnvelopeOnly(s, c) == c.nonce = msg[s].serverNonce

\* the envelope's nonce and, when there is a payload that names one, the signed
\* nonce: as strings, but for the prefix
Matches(s, c) ==
  /\ c.nonce = msg[s].serverNonce
  /\ Auth(s) # None /\ Auth(s).nonce # Blank =>
       Auth(s).nonce = c.nonce /\ Auth(s).spelling \in Plain

\* mutant: the challenge stays in the store when it is found good
ConsumeKeepsChallenge(s) ==
  LET c == challenges[msg[s].corr] IN
  /\ pc[s] = "consume" /\ Standard(s) /\ service
  /\ Usable(c) /\ Matches(s, c)
  /\ Goto(s, "price")
  /\ UNCHANGED <<challenges, usedNonces, timedOut, locals, price, tasks, world>>

\* ConsumeChallenge: a found challenge is deleted before its expiry is looked at
ConsumeChallenge(s) ==
  LET c == challenges[msg[s].corr] IN
  /\ pc[s] = "consume" /\ Standard(s) /\ service
  /\ challenges' = [challenges EXCEPT ![msg[s].corr] = None]
  /\ \/ ~Usable(c) /\ Answer(s, "NONCE_EXPIRED")
     \/ Usable(c) /\ ~Matches(s, c) /\ Answer(s, "NONCE_MISMATCH")
     \/ Usable(c) /\ Matches(s, c) /\ Goto(s, "price") /\ UNCHANGED reply
  /\ UNCHANGED <<usedNonces, timedOut, msg, drawn, quoted, attempt, txHash,
                 price, tasks, world>>

\* the body names no resource
RefuseNoResource(s) ==
  /\ pc[s] = "price" /\ msg[s].agent = None
  /\ Answer(s, "INVALID_MESSAGE")
  /\ UNCHANGED <<challenges, usedNonces, timedOut, msg, drawn, quoted, attempt,
                 txHash, price, tasks, world>>

RefuseNoService(s) ==
  /\ pc[s] = "price" /\ msg[s].agent # None /\ ~service
  /\ Answer(s, "PAYMENT_INVALID")
  /\ UNCHANGED <<challenges, usedNonces, timedOut, msg, drawn, quoted, attempt,
                 txHash, price, tasks, world>>

\* the price is read again for the resource of the paid request
ReadPrice(s) ==
  /\ pc[s] = "price" /\ msg[s].agent # None /\ service
  /\ quoted' = [quoted EXCEPT ![s] = AgentPrice(msg[s].agent)]
  /\ Goto(s, "validate")
  /\ UNCHANGED <<challenges, usedNonces, timedOut, msg, drawn, attempt, txHash,
                 reply, price, tasks, world>>

-----------------------------------------------------------------------------
(* VerifyAndSettle *)

\* mutant: a failed settlement is reported as a failed execution
FailAsExecution(s) == Answer(s, "EXECUTION_FAILED")

\* every failure of VerifyAndSettle becomes this one error code
FailPayment(s) == Answer(s, "SETTLEMENT_FAILED")

\* ValidatePaymentHeader, ValidatePayerConsistency and ValidateTimestamps
Acceptable(s) ==
  /\ Auth(s) # None
  /\ Auth(s).defect # "header"
  /\ Auth(s).amount = quoted[s]
  /\ Auth(s) \notin lapsed

RejectPayment(s) ==
  /\ pc[s] = "validate"
  /\ Acceptable(s) => Written(Auth(s)) \in usedNonces
  /\ FailPayment(s)
  /\ UNCHANGED <<challenges, usedNonces, timedOut, msg, drawn, quoted, attempt,
                 txHash, price, tasks, world>>

\* mutant: the nonce is tested and not marked
TestNonceOnly(s) ==
  /\ pc[s] = "validate" /\ Acceptable(s)
  /\ Written(Auth(s)) \notin usedNonces /\ Auth(s).defect = "none"
  /\ s \notin timedOut
  /\ Goto(s, "settle") /\ attempt' = [attempt EXCEPT ![s] = 1]
  /\ UNCHANGED <<challenges, usedNonces, timedOut, msg, drawn, quoted, txHash,
                 reply, price, tasks, world>>

\* CheckAndMarkNonce tests and marks the string received under one lock; the
\* signature is looked at afterwards, so a bad one burns the string.  With the
\* context already over, no settle call leaves the node
MarkNonce(s) ==
  /\ pc[s] = "validate" /\ Acceptable(s)
  /\ Written(Auth(s)) \notin usedNonces
  /\ usedNonces' = usedNonces \cup {Written(Auth(s))}
  /\ \/ /\ Auth(s).defect = "signature" \/ s \in timedOut
        /\ FailPayment(s) /\ UNCHANGED attempt
     \/ /\ Auth(s).defect = "none" /\ s \notin timedOut
        /\ Goto(s, "settle") /\ attempt' = [attempt EXCEPT ![s] = 1]
        /\ UNCHANGED reply
  /\ UNCHANGED <<challenges, timedOut, msg, drawn, quoted, txHash, price, tasks,
                 world>>

\* the facilitator answers with a transaction: the one of this call, or, if it
\* recognises the authorization, the one of an earlier call
CallTxs(s) ==
  {t \in TxRefs : /\ tx[t] # "none"
                  /\ \/ t = <<s, attempt[s]>>
                     \/ FacilitatorIdempotent /\ Same(Auth(t[1]), Auth(s))}

\* mutant: the facilitator's word is taken for the receipt
AcceptedWithoutReceipt(s) ==
  /\ pc[s] = "settle" /\ s \notin timedOut
  /\ \E t \in CallTxs(s) : txHash' = [txHash EXCEPT ![s] = t]
  /\ Goto(s, "execute")
  /\ UNCHANGED <<challenges, usedNonces, timedOut, msg, drawn, quoted, attempt,
                 reply, price, tasks, world>>

\* mutant: the payment is recorded as soon as the facilitator names it
AcceptedAndRecorded(s) ==
  /\ pc[s] = "settle" /\ s \notin timedOut
  /\ \E t \in CallTxs(s) : txHash' = [txHash EXCEPT ![s] = t]
  /\ recorded' = recorded \cup {s}
  /\ Goto(s, "confirm")
  /\ UNCHANGED <<challenges, usedNonces, timedOut, msg, drawn, quoted, attempt,
                 reply, price, service, ran, world>>

SettleAccepted(s) ==
  /\ pc[s] = "settle" /\ s \notin timedOut
  /\ \E t \in CallTxs(s) : txHash' = [txHash EXCEPT ![s] = t]
  /\ Goto(s, "confirm")
  /\ UNCHANGED <<challenges, usedNonces, timedOut, msg, drawn, quoted, attempt,
                 reply, price, tasks, world>>

\* mutant: no attempt is the last
SettleNeverGivesUp(s) ==
  /\ pc[s] = "settle"
  /\ Goto(s, "backoff")
  /\ UNCHANGED <<challenges, usedNonces, timedOut, locals, price, tasks, world>>

\* refused, unreachable, or the answer never arrived; the last attempt gives up
SettleFails(s) ==
  /\ pc[s] = "settle"
  /\ IF attempt[s] = MaxRetries
       THEN FailPayment(s)
       ELSE Goto(s, "backoff") /\ UNCHANGED reply
  /\ UNCHANGED <<challenges, usedNonces, timedOut, msg, drawn, quoted, attempt,
                 txHash, price, tasks, world>>

RetrySettle(s) ==
  /\ pc[s] = "backoff" /\ s \notin timedOut
  /\ Goto(s, "settle") /\ attempt' = [attempt EXCEPT ![s] = @ + 1]
  /\ UNCHANGED <<challenges, usedNonces, timedOut, msg, drawn, quoted, txHash,
                 reply, price, tasks, world>>

BackoffCancelled(s) ==
  /\ pc[s] = "backoff" /\ s \in timedOut
  /\ FailPayment(s)
  /\ UNCHANGED <<challenges, usedNonces, timedOut, msg, drawn, quoted, attempt,
                 txHash, price, tasks, world>>

\* mutant: any receipt will do
ConfirmedByAnyReceipt(s) ==
  /\ pc[s] = "confirm" /\ s \notin timedOut
  /\ tx[txHash[s]] \in {"mined", "reverted"}
  /\ Goto(s, "execute")
  /\ UNCHANGED <<challenges, usedNonces, timedOut, locals, price, tasks, world>>

\* WaitForTransaction returns a receipt with status 1
Confirmed(s) ==
  /\ pc[s] = "confirm" /\ s \notin timedOut
  /\ tx[txHash[s]] = "mined"
  /\ Goto(s, "execute")
  /\ UNCHANGED <<challenges, usedNonces, timedOut, locals, price, tasks, world>>

\* mutant: the wait for a receipt ignores the context
UnconfirmedByReceiptOnly(s) ==
  /\ pc[s] = "confirm" /\ tx[txHash[s]] = "reverted"
  /\ FailPayment(s)
  /\ UNCHANGED <<challenges, usedNonces, timedOut, msg, drawn, quoted, attempt,
                 txHash, price, tasks, world>>

\* the receipt has status 0, or the context ended before there was one
Unconfirmed(s) ==
  /\ pc[s] = "confirm"
  /\ tx[txHash[s]] = "reverted" \/ s \in timedOut
  /\ FailPayment(s)
  /\ UNCHANGED <<challenges, usedNonces, timedOut, msg, drawn, quoted, attempt,
                 txHash, price, tasks, world>>

-----------------------------------------------------------------------------
(* Execution and response *)

\* ExecuteTask finds the agent and hands the input to its runtime
StartTask(s) ==
  /\ pc[s] = "execute" /\ price[msg[s].agent] # None
  /\ ran' = ran \cup {s}
  /\ Goto(s, "running")
  /\ UNCHANGED <<challenges, usedNonces, timedOut, locals, price, service, recorded,
                 world>>

\* no such agent, here or in the listings
AgentMissing(s) ==
  /\ pc[s] = "execute" /\ price[msg[s].agent] = None
  /\ Answer(s, "EXECUTION_FAILED")
  /\ UNCHANGED <<challenges, usedNonces, timedOut, msg, drawn, quoted, attempt,
                 txHash, price, tasks, world>>

TaskSucceeds(s) ==
  /\ pc[s] = "running"
  /\ Goto(s, "record")
  /\ UNCHANGED <<challenges, usedNonces, timedOut, locals, price, tasks, world>>

TaskFails(s) ==
  /\ pc[s] = "running"
  /\ Answer(s, "EXECUTION_FAILED")
  /\ UNCHANGED <<challenges, usedNonces, timedOut, msg, drawn, quoted, attempt,
                 txHash, price, tasks, world>>

\* AddExchange; its error is dropped
Record(s) ==
  /\ pc[s] = "record"
  /\ recorded' \in {recorded, recorded \cup {s}}
  /\ Goto(s, "respond")
  /\ UNCHANGED <<challenges, usedNonces, timedOut, locals, price, service, ran, world>>

Respond(s) ==
  /\ pc[s] = "respond"
  /\ Answer(s, "response")
  /\ UNCHANGED <<challenges, usedNonces, timedOut, msg, drawn, quoted, attempt,
                 txHash, price, tasks, world>>

\* the 30 s context of handleStream ends
ContextExpires(s) ==
  /\ pc[s] \in Busy /\ s \notin timedOut
  /\ timedOut' = timedOut \cup {s}
  /\ UNCHANGED <<challenges, usedNonces, pc, locals, price, tasks, world>>

-----------------------------------------------------------------------------
(* The node's other work *)

\* five minutes pass
ChallengeExpires(c) ==
  /\ challenges[c] # None /\ ~challenges[c].expired
  /\ challenges' = [challenges EXCEPT ![c].expired = TRUE]
  /\ UNCHANGED <<usedNonces, pc, timedOut, locals, price, tasks, world>>

CleanupExpiredChallenges ==
  /\ \E c \in CorrIds : challenges[c] # None /\ challenges[c].expired
  /\ challenges' = [c \in CorrIds |->
       IF challenges[c] # None /\ challenges[c].expired THEN None
                                                        ELSE challenges[c]]
  /\ UNCHANGED <<usedNonces, pc, timedOut, locals, price, tasks, world>>

\* RegisterAgent under a known name replaces the entry, DeregisterAgent
\* deletes it
SetPrice(a) ==
  /\ \E p \in Prices : p # price[a] /\ price' = [price EXCEPT ![a] = p]
  /\ UNCHANGED <<challenges, usedNonces, pc, timedOut, locals, tasks, world>>

\* the process ends and starts again: its goroutines and both stores are gone
Die ==
  /\ challenges' = [c \in CorrIds |-> None]
  /\ usedNonces' = {}
  /\ pc' = [s \in Streams |-> IF pc[s] \in Busy THEN "dead" ELSE pc[s]]
  /\ UNCHANGED <<timedOut, locals, price, tasks, issued, lapsed, tx>>

Restart ==
  /\ restarts < MaxRestarts
  /\ restarts' = restarts + 1
  /\ Die

\* ConsumeChallenge is called before the nil check of the payment service: the
\* nil dereference in the goroutine takes the process down
PanicNoService(s) ==
  /\ pc[s] = "consume" /\ Standard(s) /\ ~service
  /\ Die
  /\ UNCHANGED restarts

-----------------------------------------------------------------------------
(* The facilitator and the USDC contract *)

\* a settle request that was sent is acted on while the seller waits, or later
Broadcast(t) ==
  /\ t[2] <= attempt[t[1]] /\ tx[t] = "none"
  /\ tx' = [tx EXCEPT ![t] = "pending"]
  /\ UNCHANGED <<challenges, usedNonces, pc, timedOut, locals, price, tasks,
                 issued, lapsed, restarts>>

\* transferWithAuthorization succeeds inside the validity window and once per
\* payer and nonce
Mine(t) ==
  /\ tx[t] = "pending" /\ Auth(t[1]) \notin lapsed
  /\ \A u \in TxRefs : tx[u] = "mined" => Key(Auth(u[1])) # Key(Auth(t[1]))
  /\ tx' = [tx EXCEPT ![t] = "mined"]
  /\ UNCHANGED <<challenges, usedNonces, pc, timedOut, locals, price, tasks,
                 issued, lapsed, restarts>>

\* out of balance, out of the window, or the nonce is spent
Revert(t) ==
  /\ tx[t] = "pending"
  /\ tx' = [tx EXCEPT ![t] = "reverted"]
  /\ UNCHANGED <<challenges, usedNonces, pc, timedOut, locals, price, tasks,
                 issued, lapsed, restarts>>

\* validBefore passes, in every spelling; nothing looks at an authorization
\* before it has arrived
Lapse(a) ==
  /\ a \notin lapsed
  /\ lapsed' = lapsed \cup {b \in Authorization : Same(a, b)}
  /\ UNCHANGED <<challenges, usedNonces, pc, timedOut, locals, price, tasks,
                 issued, tx, restarts>>

Received == {Auth(s) : s \in {t \in Streams : msg[t] # None}} \ {None}

-----------------------------------------------------------------------------
Pay(s) ==
  \/ SkipChallenge(s) \/ ConsumeChallenge(s) \/ PanicNoService(s)
  \/ RefuseNoResource(s) \/ RefuseNoService(s) \/ ReadPrice(s)
  \/ RejectPayment(s) \/ MarkNonce(s)
  \/ SettleAccepted(s) \/ SettleFails(s) \/ RetrySettle(s) \/ BackoffCancelled(s)
  \/ Confirmed(s) \/ Unconfirmed(s)

Serve(s) ==
  \/ ServeFree(s) \/ RefuseUnpaid(s) \/ IssueChallenge(s)
  \/ StartTask(s) \/ AgentMissing(s) \/ TaskSucceeds(s) \/ TaskFails(s)
  \/ Record(s) \/ Respond(s)

Environment ==
  \/ \E s \in Streams : Receive(s) \/ ContextExpires(s)
  \/ \E c \in CorrIds : ChallengeExpires(c)
  \/ CleanupExpiredChallenges
  \/ \E a \in Agents : SetPrice(a)
  \/ Restart
  \/ \E t \in TxRefs : Broadcast(t) \/ Mine(t) \/ Revert(t)
  \/ \E a \in Received : Lapse(a)

Next == (\E s \in Streams : Pay(s) \/ Serve(s)) \/ Environment

Spec == Init /\ [][Next]_vars

\* what the node does by itself once a request is in: a call of the facilitator,
\* a wait for a receipt and a task end at the latest with the context
Progress(s) ==
  \/ Pay(s) /\ ~SettleFails(s)
  \/ SettleFails(s) /\ s \in timedOut
  \/ ServeFree(s) \/ RefuseUnpaid(s) \/ IssueChallenge(s)
  \/ StartTask(s) \/ AgentMissing(s)
  \/ TaskFails(s) /\ s \in timedOut
  \/ Record(s) \/ Respond(s)

FairSpec ==
  Spec /\ \A s \in Streams : WF_vars(Progress(s)) /\ WF_vars(ContextExpires(s))

-----------------------------------------------------------------------------
(* Properties *)

PaidFor(s) == txHash[s] # None /\ tx[txHash[s]] = "mined"

\* A paid task starts only after a transfer of exactly the quoted amount, signed
\* for this request's payer and nonce, has been mined; an unpaid task starts
\* only for an agent that was free when asked (manager.go 654-662, 545-552).
SettlementBeforeExecution ==
  \A s \in ran :
    IF Paying(s)
      THEN /\ PaidFor(s)
           /\ Same(Auth(txHash[s][1]), Auth(s))
           /\ Auth(s).amount = quoted[s]
      ELSE quoted[s] = 0

\* One transfer on chain pays for at most one execution, across concurrent
\* handlers, replays in any spelling and restarts (verifier.go 178-189).
OneExecutionPerSettlement ==
  \A s, t \in ran :
    Paying(s) /\ Paying(t) /\ Key(Auth(s)) = Key(Auth(t)) => s = t

\* Whatever the facilitator answers, a nonce as it is written buys at most one
\* execution in each life of the process, whoever signed it: the tracker holds
\* until a restart empties it (specs/x402-libp2p.md 300, verifier.go 178-189).
\* Another spelling of the same bytes is another entry of the tracker.
Executions(k) == {s \in ran : Paying(s) /\ Written(Auth(s)) = k}
OneExecutionPerLife ==
  \A k \in Nonces \X Spellings : Cardinality(Executions(k)) <= restarts + 1

\* A challenge admits at most one paid request, whatever happens to the store in
\* between: overwriting, expiry, cleanup, restart (payment.go 105-120).
ChallengeAdmitsOnce ==
  \A s, t \in Streams :
    /\ quoted[s] # None /\ quoted[t] # None
    /\ msg[s] # None /\ msg[t] # None
    /\ Standard(s) /\ Standard(t)
    /\ msg[s].serverNonce = msg[t].serverNonce
    => s = t

\* The facilitator is asked only about a genuine authorization for the quoted
\* amount, and in the challenge flow only about one signed for the very nonce
\* the seller issued (manager.go 609-629, verifier.go 367-389).
OnlyCheckedPaymentsLeave ==
  \A s \in Streams : attempt[s] > 0 =>
    /\ Auth(s).defect = "none"
    /\ Auth(s).amount = quoted[s]
    /\ Standard(s) => Auth(s).nonce = msg[s].serverNonce /\ Auth(s).nonce \in issued

\* While a handler has a payment under way no other live handler works on a nonce
\* written the same way, and the string stays marked (verifier.go 178-189).
Settling == {"settle", "backoff", "confirm", "execute", "running", "record", "respond"}
OneHandlerPerNonce ==
  \A s \in Streams : pc[s] \in Settling /\ Paying(s) =>
    /\ Written(Auth(s)) \in usedNonces
    /\ \A t \in Streams \ {s} :
         pc[t] \in Settling /\ Paying(t) => Written(Auth(t)) # Written(Auth(s))

\* What the buyer is told agrees with the chain: a response means the task ran
\* and was paid, EXECUTION_FAILED to a paying buyer means the money moved, and
\* every refusal before settlement leaves the buyer's money alone.
Untouched(s) == \A k \in Attempts : tx[<<s, k>>] = "none"
AnswerAgreesWithChain ==
  \A s \in Streams :
    /\ reply[s] = "response" => s \in ran /\ (Paying(s) => PaidFor(s))
    /\ reply[s] = "EXECUTION_FAILED" /\ Paying(s) => PaidFor(s)
    /\ reply[s] \in {"INVALID_MESSAGE", "PAYMENT_REQUIRED", "PAYMENT_INVALID",
                     "NONCE_MISMATCH", "NONCE_EXPIRED", "payment_required"}
         => Untouched(s)

\* The session store, which outlives the process, names only exchanges whose
\* task ran and, if it was a paid one, whose payment is on chain.
RecordedExchangesAreReal ==
  \A s \in recorded : s \in ran /\ (Paying(s) => PaidFor(s))

\* SETTLEMENT_FAILED tells the buyer that a retry is safe
\* (specs/x402-libp2p.md 194): its money has not moved.
SettlementFailedIsSafeToRetry ==
  \A s \in Streams : reply[s] = "SETTLEMENT_FAILED" =>
    \A k \in Attempts : tx[<<s, k>>] # "mined"

\* A node without payment service answers a paid request with PAYMENT_INVALID,
\* as the nil check of handleX402PaidRequest says (manager.go 649-651): no
\* request stops the node.
NoRequestStopsTheNode == \A s \in Streams : restarts = 0 => pc[s] # "dead"

\* The node implements the promise of PaidService: transfers settle once and
\* each paid task is served against one that paid for nothing else.
Ideal == INSTANCE PaidService WITH
  Requests <- Streams, Payments <- Payers \X Nonces, Free <- None,
  settled  <- {Key(Auth(t[1])) : t \in {u \in TxRefs : tx[u] = "mined"}},
  served   <- {<<s, IF Paying(s) THEN Key(Auth(s)) ELSE None>> : s \in ran}
ImplementsPaidService == Ideal!Spec

\* The payment service is the one thing a request can stop the node over: with a
\* wallet it stays up until somebody restarts it (manager.go 609-651).
WalletsKeepTheNodeUp == service => NoRequestStopsTheNode

\* The steps a goroutine has left at most, the retries of a settle call included.
StepsLeft(s) ==
  CASE pc[s] = "idle" -> 2 * MaxRetries + 8
    [] pc[s] = "consume" -> 2 * MaxRetries + 7
    [] pc[s] = "price" -> 2 * MaxRetries + 6
    [] pc[s] = "validate" -> 2 * MaxRetries + 5
    [] pc[s] = "settle" -> 2 * (MaxRetries - attempt[s]) + 6
    [] pc[s] = "backoff" -> 2 * (MaxRetries - attempt[s]) + 5
    [] pc[s] \in {"quote", "confirm"} -> 5
    [] pc[s] = "execute" -> 4
    [] pc[s] = "running" -> 3
    [] pc[s] = "record" -> 2
    [] pc[s] = "respond" -> 1
    [] pc[s] \in {"done", "dead"} -> 0

\* A stream costs its seller a bounded number of steps: each step of its goroutine
\* brings the answer nearer, and nothing another stream, the facilitator, the
\* chain or a restart does takes it away again (payment.go 539-564).
AnswersComeNearer ==
  [][\A s \in Streams :
       /\ Receive(s) \/ Pay(s) \/ Serve(s) => StepsLeft(s)' < StepsLeft(s)
       /\ StepsLeft(s)' <= StepsLeft(s)]_vars

\* Every request that was read is answered, unless the node goes down: the task
\* runs under the stream's own 30 s (x402stream.go 89-110).
EveryRequestAnswered ==
  \A s \in Streams : pc[s] \in Busy ~> pc[s] \in {"done", "dead"}
=============================================================================
