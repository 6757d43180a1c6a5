------------------------- MODULE MCDriverLifecycle -------------------------
(* Both flavours of a module, up to three callbacks registered with atexit. *)
EXTENDS DriverLifecycle
=============================================================================
