----------------------------- MODULE MCDirectory -----------------------------
(***************************************************************************)
(* Two entries to a block and three blocks.  Two names sort before the     *)
(* mark of a deletion, the others behind the empty name.                   *)
(***************************************************************************)
EXTENDS Directory

MCNames == {-3, -2, 1, 2, 3, 4}
=============================================================================
