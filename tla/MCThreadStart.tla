--------------------------- MODULE MCThreadStart ---------------------------
(* Two threads of the system, two threads created by the driver. *)
EXTENDS ThreadStart, TLC

Symmetry == Permutations(Foreign) \cup Permutations(Created)
=============================================================================
