---------------------------- MODULE MCListings ----------------------------
(* Instances of Listings for TLC: an old listing wins a tie. *)
EXTENDS Listings

MCBytes(v) == MaxTerms - v
=============================================================================
