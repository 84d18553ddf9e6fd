--------------------------- MODULE MCX402Exchange ---------------------------
(* Calls for the same agent, on this node or at a peer's.                    *)
EXTENDS X402Exchange

MCAgentOf(c) == "agent"
=============================================================================
