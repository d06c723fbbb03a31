---------------------------- MODULE RedBlackTree ----------------------------
(***************************************************************************)
(* The allocator's search tree as a state machine: any sequence of         *)
(* rbt_insertNode and rbt_removeNode calls on a fixed set of nodes.        *)
(*                                                                         *)
(* The node a caller inserts is prepared as                                *)
(* nvmos_dl_alloc_deallocateBlocks prepares it: no links, red.  The memory *)
(* of a node that has left the tree goes back to the caller, who forgets   *)
(* what it held.                                                           *)
(***************************************************************************)
EXTENDS RbtOps

CONSTANTS Nodes,        \* node addresses
          ValueOf       \* the value each node carries

ASSUME NodesAssumption   == IsFiniteSet(Nodes) /\ NULL \notin Nodes
ASSUME ValueOfAssumption == ValueOf \in [Nodes -> Nat]

VARIABLES tree,         \* the tree, see RbtOps
          result        \* <<operation, node, what it returned>>

vars == <<tree, result>>

Fresh(T, n) == [T EXCEPT !.parent[n] = NULL, !.left[n] = NULL, !.right[n] = NULL,
                         !.color[n] = "RED"]

(* The nodes reached from n, n among them.                                 *)
Under(T) ==
    LET under[n \in Nodes] ==
          {n} \cup UNION {under[c] : c \in {T.left[n], T.right[n]} \ {NULL}}
    IN  under

Subtree(T, n) == IF n = NULL THEN {} ELSE Under(T)[n]

Members(T) == Subtree(T, T.head)

-----------------------------------------------------------------------------

Init ==
    /\ tree = [head |-> NULL,
               parent |-> [n \in Nodes |-> NULL],
               left   |-> [n \in Nodes |-> NULL],
               right  |-> [n \in Nodes |-> NULL],
               color  |-> [n \in Nodes |-> "RED"],
               value  |-> ValueOf]
    /\ result = <<"none", "none", "0">>

Insert(n) ==
    /\ n \notin Members(tree)
    /\ LET done == InsertNode(Fresh(tree, n), n)
       IN  /\ tree' = IF done.ret = "0" THEN done.tree ELSE Fresh(done.tree, n)
           /\ result' = <<"add", n, done.ret>>

Remove(n) ==
    /\ n \in Members(tree)
    /\ LET done == RemoveNode(tree, n)
       IN  /\ tree' = IF done.ret = "0" THEN Fresh(done.tree, n) ELSE done.tree
           /\ result' = <<"delete", n, done.ret>>

Next == \E n \in Nodes : Insert(n) \/ Remove(n)

Spec == Init /\ [][Next]_vars

-----------------------------------------------------------------------------

(* Type invariant: every link is null or a node, every node has a colour   *)
(* and the value it was given.                                             *)
TypeOK ==
    /\ tree.head \in Nodes \cup {NULL}
    /\ \A f \in {"parent", "left", "right"} : tree[f] \in [Nodes -> Nodes \cup {NULL}]
    /\ tree.color \in [Nodes -> {"RED", "BLACK"}]
    /\ tree.value = ValueOf

(* The links describe one binary tree: two nodes share no child, a child's *)
(* parent link names its parent, the root has none, and a node outside the *)
(* tree is linked to nothing.  rbt_getNodeProperty, on which every         *)
(* operation decides, is only right when this holds; rotations and         *)
(* swapNode rewrite up to eight links each.                                *)
LinksConsistent ==
    LET inside   == Members(tree)
        Kids(n)  == {<<s, tree[s][n]>> : s \in {"left", "right"}} \cap
                    ({"left", "right"} \X Nodes)
    IN  /\ tree.head # NULL => tree.parent[tree.head] = NULL
        /\ \A n \in inside : \A k \in Kids(n) : /\ tree.parent[k[2]] = n
                                                /\ NodeProperty(tree, k[2]) = k[1]
        /\ \A n \in Nodes \ inside : Kids(n) = {} /\ tree.parent[n] = NULL

(* Search order: what hangs left of a node is below it and what hangs      *)
(* right of it is above it, whatever sequence of insertions, removals and  *)
(* refused removals built the tree.                                        *)
SearchOrder ==
    \A n \in Members(tree) :
        /\ \A m \in Subtree(tree, tree.left[n])  : ValueOf[m] < ValueOf[n]
        /\ \A m \in Subtree(tree, tree.right[n]) : ValueOf[m] > ValueOf[n]

(* The tree is a search tree at all times.                                 *)
IsSearchTree == TypeOK /\ LinksConsistent /\ SearchOrder

(* rbt_findNode finds the smallest value that is large enough, for every   *)
(* value asked: the allocator's best fit rests on it.                      *)
FindIsCeiling ==
    \A v \in 0 .. 1 + Cardinality(Nodes) :
        LET enough == {m \in Members(tree) : ValueOf[m] >= v}
            found  == FindUpperNearest(tree, v)
        IN  IF enough = {} THEN found = NULL
            ELSE found \in enough /\ \A m \in enough : ValueOf[found] <= ValueOf[m]

(* The root is black, also in the trees that removals have left without    *)
(* their balance (rbt.c:437): under a red root an insertion would leave    *)
(* two red nodes in a row, since rbt_insertBalance rotates and repaints    *)
(* only where there is a grandparent.                                      *)
RootIsBlack == tree.head # NULL => tree.color[tree.head] = "BLACK"

(* The numbers of black nodes on the ways down from each node.             *)
BlackHeights(T) ==
    LET heights[n \in Nodes] ==
          LET below(c) == IF c = NULL THEN {0} ELSE heights[c]
          IN  {h + (IF T.color[n] = "BLACK" THEN 1 ELSE 0) :
                  h \in below(T.left[n]) \cup below(T.right[n])}
    IN  heights

RedBlack(T) ==
    /\ \A n \in Members(T) : T.color[n] = "RED" /\ n # T.head => ColorOf(T, T.parent[n]) = "BLACK"
    /\ T.head # NULL => /\ Cardinality(BlackHeights(T)[T.head]) = 1
                        /\ T.color[T.head] = "BLACK"

(* An insertion into a red-black tree leaves a red-black tree: no red node *)
(* under a red one, the same number of black nodes on every path.          *)
InsertKeepsRedBlack ==
    [][RedBlack(tree) /\ result'[1] = "add" => RedBlack(tree')]_vars

HalfRoot(T, n) ==
    T.head = n /\ Cardinality({T.left[n], T.right[n]} \ {NULL}) = 1

(* A removal is refused exactly when its node is the root and has one      *)
(* child; the refused call moves no node.                                  *)
RefusesOnlyHalfRoot ==
    [][\A n \in Nodes :
         result' # result /\ result'[1] = "delete" /\ result'[2] = n =>
            /\ (result'[3] = "-1") <=> HalfRoot(tree, n)
            /\ result'[3] = "-1" => \A f \in {"parent", "left", "right"} : tree'[f] = tree[f]]_vars

Abstract == INSTANCE OrderedSet WITH members <- Members(tree)

(* The tree implements the set of OrderedSet: each call adds its node,     *)
(* takes it out, or changes nothing and says so in what it returns.        *)
ImplementsOrderedSet == Abstract!Spec
=============================================================================
