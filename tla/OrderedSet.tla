----------------------------- MODULE OrderedSet -----------------------------
(***************************************************************************)
(* What the allocator needs of its search tree: a set of nodes with        *)
(* distinct values, in which the node with the smallest value that is not  *)
(* below a given one can be found.  The set may refuse a removal; it then  *)
(* keeps the node and says so.                                             *)
(***************************************************************************)
EXTENDS Naturals

CONSTANTS Nodes,        \* node addresses
          ValueOf       \* the value each node carries

VARIABLES members,      \* the nodes of the set
          result        \* <<operation, node, what it returned>>

osVars == <<members, result>>

Init == /\ members = {}
        /\ result = <<"none", "none", "0">>

(* A node joins unless a member has its value.                             *)
Add(n) ==
    /\ n \notin members
    /\ IF \E m \in members : ValueOf[m] = ValueOf[n]
       THEN /\ result' = <<"add", n, "-2">>
            /\ UNCHANGED members
       ELSE /\ result' = <<"add", n, "0">>
            /\ members' = members \cup {n}

(* A node leaves, or nothing changes and the caller is told.               *)
Delete(n) ==
    /\ n \in members
    /\ \/ /\ result' = <<"delete", n, "0">>
          /\ members' = members \ {n}
       \/ /\ result' = <<"delete", n, "-1">>
          /\ UNCHANGED members

Next == \E n \in Nodes : Add(n) \/ Delete(n)

Spec == Init /\ [][Next]_osVars
=============================================================================
