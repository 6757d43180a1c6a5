---------------------------- MODULE MCKernelHeap ----------------------------
(* Sizes of 3 bits and two blocks: every operand, every wrapped product. *)
EXTENDS KernelHeap

CONSTANTS b1, b2
=============================================================================
