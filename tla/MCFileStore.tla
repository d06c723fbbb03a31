---------------------------- MODULE MCFileStore ----------------------------
(***************************************************************************)
(* Pointer blocks of two pointers, so that the second level starts at      *)
(* three blocks and is full at seven.  Two files that compete for seven    *)
(* blocks, all of which one of them needs to reach the second level.  The  *)
(* lengths let a file lose blocks that its size calls for.  The files are  *)
(* interchangeable.                                                        *)
(***************************************************************************)
EXTENDS FileStore

Symmetry    == Permutations(MetaIds)

MCBlocks    == 1 .. 7
MCLengths   == {2, 3}
MCTargets   == {0, 4}
=============================================================================
