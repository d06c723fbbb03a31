-------------------------- MODULE MCBlockAllocator --------------------------
(***************************************************************************)
(* A region of five blocks.  One in its middle, its last block and the     *)
(* block after the region start with headers of an earlier life.           *)
(***************************************************************************)
EXTENDS BlockAllocator

MCN     == 5
MCStale == {2, 5, 6}
=============================================================================
