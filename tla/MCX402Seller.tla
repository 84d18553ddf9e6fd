---------------------------- MODULE MCX402Seller ----------------------------
(***************************************************************************)
(* Instances of X402Seller for TLC.  Each set of messages below keeps the  *)
(* shapes the run is about and drops the rest.                             *)
(***************************************************************************)
EXTENDS X402Seller, TLC

CONSTANTS a1, p1, n1, n2, c1, lower, upper

Sign(p, n, amt, d) == [payer |-> p, nonce |-> n, spelling |-> lower,
                       amount |-> amt, defect |-> d]
Ask(c, a)          == [kind |-> "request", corr |-> c, agent |-> a,
                       serverNonce |-> Preemptive, auth |-> None]
AskPaid(c, a, u)   == [kind |-> "request", corr |-> c, agent |-> a,
                       serverNonce |-> Preemptive, auth |-> u]
Paid(c, a, n, u)   == [kind |-> "paid", corr |-> c, agent |-> a,
                       serverNonce |-> n, auth |-> u]

Genuine(n) == Sign(p1, n, 1, "none")

\* the same bytes, written with another digit in upper case
Respelled(n) == [Genuine(n) EXCEPT !.spelling = upper]

\* one signed payment sent again and again by every route and in two spellings,
\* and payments that are missing or badly signed
RestartMessages ==
  {Ask(c1, a1), Paid(c1, a1, n1, Genuine(n1)),
   AskPaid(c1, a1, Respelled(n1))}
    \cup {Paid(c1, a1, Preemptive, u) :
            u \in {None, Genuine(n1), Sign(p1, n1, 1, "signature")}}

\* the two-trip flow, with payments signed for another nonce or for nothing, and
\* one that writes the same nonce another way and goes past the challenge
ChallengeMessages ==
  {Ask(c1, a1), Paid(c1, a1, n1, Genuine(n1)), Paid(c1, a1, n1, Genuine(n2)),
   Paid(c1, a1, Preemptive, Respelled(n1)),
   Paid(c1, a1, n1, Sign(p1, n1, 0, "none"))}

\* a smaller choice with every way a request can be refused early: another
\* challenge, another spelling, no nonce, no agent, a header that does not match;
\* one payment arrives with the request
LiveMessages ==
  {Ask(c1, a1), Paid(c1, a1, n1, Genuine(n1)), Paid(c1, a1, n2, Genuine(n2)),
   Paid(c1, a1, n1, Respelled(n1)),
   AskPaid(c1, a1, Respelled(n1)),
   Paid(c1, a1, Preemptive, Sign(p1, n1, 1, "header")),
   Paid(c1, a1, n1, Sign(p1, Blank, 1, "signature")),
   Paid(c1, None, Preemptive, Genuine(n1))}

Symmetry == Permutations(Streams)
=============================================================================
