--------------------------- MODULE MCOnexitTable ---------------------------
(* Two threads; a table that starts with two cells and is grown twice. *)
EXTENDS OnexitTable
=============================================================================
