------------------------------ MODULE MCLowio ------------------------------
EXTENDS Lowio, TLC

Symmetry == Permutations(Threads) \cup Permutations(Handles)
=============================================================================
