---------------------------- MODULE MCStdThread ----------------------------
(* Two workers, two states; the names of the model values. *)
EXTENDS StdThread

CONSTANTS w1, w2, s1, s2
=============================================================================
