---------------------------- MODULE MCTextMode ----------------------------
(* Two letters stand for all the others; y is one of LowLF. *)
EXTENDS TextMode

CONSTANTS x, y
=============================================================================
