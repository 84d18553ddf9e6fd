------------------------------ MODULE MCOrders ------------------------------
(* An order, three changes of its status and two waiters.                     *)
EXTENDS Orders, TLC

Symmetry == Permutations(Update) \cup Permutations(Waiter)
=============================================================================
