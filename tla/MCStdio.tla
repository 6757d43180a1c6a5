------------------------------- MODULE MCStdio -------------------------------
EXTENDS Stdio, TLC

Symmetry == Permutations(Threads)
=============================================================================
