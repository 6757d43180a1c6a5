----------------------------- MODULE MCStlMutex -----------------------------
(* StlMutex for TLC: the threads are interchangeable. *)
EXTENDS StlMutex, TLC

ThreadSymmetry == Permutations(Threads)
=============================================================================
