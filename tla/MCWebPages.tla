----------------------------- MODULE MCWebPages -----------------------------
EXTENDS WebPages, TLC

Symmetry == Permutations(Item)
=============================================================================
