--------------------------- MODULE MCRedBlackTree ---------------------------
(***************************************************************************)
(* Six values and a second node for the third one, so that a duplicate is  *)
(* offered to the tree.                                                    *)
(***************************************************************************)
EXTENDS RedBlackTree

MCNodes   == 1 .. 7
MCValueOf == [n \in MCNodes |-> IF n = 7 THEN 3 ELSE n]
=============================================================================
