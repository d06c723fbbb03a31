------------------------- MODULE MCSegmentAllocator -------------------------
(***************************************************************************)
(* A region of five blocks.  Two in its middle, its last block and the     *)
(* block after the region start with headers of an earlier life.           *)
(***************************************************************************)
EXTENDS SegmentAllocator

MCN     == 5
MCStale == {2, 3, 5, 6}
=============================================================================
