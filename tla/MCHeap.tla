------------------------------- MODULE MCHeap -------------------------------
(***************************************************************************)
(* A heap of nine blocks.  The sizes ask for two, three and four blocks,   *)
(* two of them with a remainder, or wrap around with their header: a       *)
(* size_t has 128 values here.                                             *)
(***************************************************************************)
EXTENDS Heap

MCSizes == {4, 11, 13, 127}
=============================================================================
