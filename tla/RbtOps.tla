------------------------------- MODULE RbtOps -------------------------------
(***************************************************************************)
(* The red-black tree of the block allocator, operation by operation       *)
(* (allocator/redBlackTree/rbt.c and rbtHelper.c).                         *)
(*                                                                         *)
(* A tree is a record T: T.head is the root pointer and T.parent, T.left,  *)
(* T.right, T.color and T.value are functions on node addresses, one per   *)
(* field of rbt_node_t.  The C functions write through pointers; here each *)
(* returns the tree it leaves.  T may have more fields: the allocator      *)
(* keeps the rest of its block headers in the same record.                 *)
(*                                                                         *)
(* The code has a left and a right version of most steps; they are one     *)
(* operator here, with the side ("left" or "right") as a parameter.        *)
(***************************************************************************)
EXTENDS Naturals, FiniteSets

CONSTANT NULL       \* the null pointer

Opposite(side) == IF side = "left" THEN "right" ELSE "left"

(* A write through a pointer the code has just tested against NULL.        *)
Set(f, n, v) == IF n = NULL THEN f ELSE [f EXCEPT ![n] = v]

(* What a node is to the tree, found from its links alone: the root, the   *)
(* child of its parent on one side, or a node whose links do not fit.      *)
NodeProperty(T, n) ==
    IF T.head = NULL \/ n = NULL THEN "ERROR"
    ELSE IF T.head = n THEN IF T.parent[n] = NULL THEN "ROOT" ELSE "CORRUPTED"
    ELSE IF T.parent[n] = NULL THEN "CORRUPTED"
    ELSE IF T.left[T.parent[n]] = n THEN "left"
    ELSE IF T.right[T.parent[n]] = n THEN "right" ELSE "CORRUPTED"

Broken(property) == property \in {"ERROR", "CORRUPTED"}

ColorOf(T, n) == IF n = NULL THEN "BLACK" ELSE T.color[n]

Paint(T, n, c) == [T EXCEPT !.color[n] = c]

(* Mutant: the exchange without the saved colour.                          *)
CopyColor(T, a, b) == [T EXCEPT !.color[b] = T.color[a]]

SwapColor(T, a, b) ==
    [T EXCEPT !.color[a] = T.color[b], !.color[b] = T.color[a]]

Sibling(T, n) ==
    LET property == NodeProperty(T, n)
    IN  IF property \in {"left", "right"}
        THEN T[Opposite(property)][T.parent[n]]
        ELSE NULL

(* Mutant: takes the sibling for the uncle.                                *)
UncleIsSibling(T, n) == Sibling(T, n)

Uncle(T, n) ==
    IF NodeProperty(T, n) \in {"left", "right"} THEN Sibling(T, T.parent[n]) ELSE NULL

(* Mutant: the child that changes sides keeps its parent link.             *)
RotateKeepsInner(T, n, side) ==
    LET other    == Opposite(side)
        property == NodeProperty(T, n)
        c        == T[other][n]
        linked   == IF property = "ROOT" THEN [T EXCEPT !.head = c]
                                         ELSE [T EXCEPT ![property][T.parent[n]] = c]
    IN  IF Broken(property) \/ c = NULL
        THEN T
        ELSE [linked EXCEPT !.parent[c] = T.parent[n], !.parent[n] = c,
                            ![other][n] = T[side][c], ![side][c] = n]

(* leftRotateNode and rightRotateNode: n goes down on the given side, its  *)
(* child on the other side takes its place.                                *)
Rotate(T, n, side) ==
    LET other    == Opposite(side)
        property == NodeProperty(T, n)
        c        == T[other][n]
        inner    == T[side][c]
        up       == T.parent[n]
        linked   == IF property = "ROOT" THEN [T EXCEPT !.head = c]
                                         ELSE [T EXCEPT ![property][up] = c]
    IN  IF Broken(property) \/ c = NULL
        THEN T
        ELSE [linked EXCEPT !.parent = Set([@ EXCEPT ![c] = up, ![n] = c], inner, n),
                            ![other][n] = inner,
                            ![side][c]  = n]

(* n is entered where a node with the given property and the parent link   *)
(* that n now has was found.                                               *)
Enter(T, property, n) ==
    IF property = "ROOT" THEN [T EXCEPT !.head = n]
                         ELSE [T EXCEPT ![property][T.parent[n]] = n]

(* a and b exchange their children on one side.                            *)
SwapChildren(T, a, b, side) ==
    LET ca == T[side][a]
        cb == T[side][b]
    IN  [T EXCEPT ![side] = [@ EXCEPT ![a] = cb, ![b] = ca],
                  !.parent = Set(Set(@, cb, a), ca, b)]

(* swapNode: a and b exchange their places.  The removal calls it with b   *)
(* the in-order successor of a, which may be a child of a.                 *)
SwapNode(T, a, b) ==
    LET pa      == NodeProperty(T, a)
        pb      == NodeProperty(T, b)
        parents == [T EXCEPT !.parent[a] = T.parent[b], !.parent[b] = T.parent[a]]
        entered == Enter(Enter(parents, pa, b), pb, a)
    IN  IF Broken(pa) \/ Broken(pb) \/ (pa = "ROOT" /\ pb = "ROOT")
        THEN T
        ELSE SwapChildren(SwapChildren(entered, a, b, "left"), a, b, "right")

(* Where the walk from a node ends that goes on to what next says, until   *)
(* that is NULL.                                                           *)
Ends(next) ==
    LET end[m \in DOMAIN next] == IF next[m] = NULL THEN m ELSE end[next[m]]
    IN  end

(* The node the walk ends at when it goes to one side until it cannot.     *)
Farthest(T, n, side) == Ends(T[side])[n]

(* The climb of rbt_findUpperNearestNode: from a node with no right child  *)
(* up to the first ancestor it is left of.                                 *)
Climb(T) ==
    [m \in DOMAIN T.parent |-> IF NodeProperty(T, m) = "right" THEN T.parent[m] ELSE NULL]

AncestorRightOf(T, n) ==
    LET top == Ends(Climb(T))[n]
    IN  IF NodeProperty(T, top) = "left" THEN T.parent[top] ELSE NULL

(* Its descent, to a node of value v or one that is above or below it and  *)
(* has no child on the side where v would be.                              *)
Descent(T, v) ==
    [m \in DOMAIN T.parent |->
        IF Broken(NodeProperty(T, m)) \/ T.value[m] = v THEN NULL
        ELSE IF T.value[m] > v THEN T.left[m] ELSE T.right[m]]

UpperNearestFrom(T, n, v) ==
    LET last == Ends(Descent(T, v))[n]
    IN  CASE Broken(NodeProperty(T, last))                          -> NULL
          [] ~Broken(NodeProperty(T, last)) /\ T.value[last] >= v -> last
          [] OTHER                                                  -> AncestorRightOf(T, last)

(* Mutant: an equal value is passed over.                                  *)
FindNextLarger(T, v) ==
    IF NodeProperty(T, T.head) = "ROOT" THEN UpperNearestFrom(T, T.head, v + 1) ELSE NULL

(* rbt_findNode with findUpperNearest set, the only way it is called.      *)
FindUpperNearest(T, v) ==
    IF NodeProperty(T, T.head) = "ROOT" THEN UpperNearestFrom(T, T.head, v) ELSE NULL

(* ... and with exactMatch set.  The code reads result->value even when    *)
(* result is NULL (rbt.c:213); whatever it finds there it returns NULL.    *)
FindExact(T, v) ==
    LET n == FindUpperNearest(T, v)
    IN  IF n # NULL /\ T.value[n] = v THEN n ELSE NULL

-----------------------------------------------------------------------------

(* The balancing functions call themselves at most once, as the last thing *)
(* they do: they are loops, whose rounds hand the next one a tree and a    *)
(* node or are done.  No node is passed more than twice.                   *)
Again(T, n) == [tree |-> T, node |-> n, done |-> FALSE]

Done(T, n) == [tree |-> T, node |-> n, done |-> TRUE]

Rounds(T) == 2 * Cardinality(DOMAIN T.parent)

(* One call of rbt_insertBalance: n is painted red; a red parent is        *)
(* repaired by a recolouring that moves up, or by one or two rotations.    *)
InsertRound(T, n) ==
    LET property == NodeProperty(T, n)
        red      == Paint(T, n, "RED")
        p        == T.parent[n]
        side     == NodeProperty(T, p)
        grand    == T.parent[p]
        uncle    == Uncle(T, n)
        outer    == IF property = side THEN red ELSE Rotate(red, p, side)
        top      == IF property = side THEN p ELSE n
    IN  CASE Broken(property)            -> Done(T, n)
          [] property = "ROOT"           -> Done(Paint(T, n, "BLACK"), n)
          [] property \in {"left", "right"} ->
             CASE side \notin {"left", "right"} \/ T.color[p] = "BLACK" -> Done(red, n)
               [] side \in {"left", "right"} /\ T.color[p] = "RED" /\ ColorOf(T, uncle) = "RED" ->
                  Again([red EXCEPT !.color[p] = "BLACK", !.color[uncle] = "BLACK",
                                    !.color[grand] = "RED"], grand)
               [] OTHER ->
                  Done(Rotate(SwapColor(outer, top, grand), grand, Opposite(side)), n)

InsertRun(T, n) ==
    LET run[k \in 0 .. Rounds(T)] ==
          IF k = 0 THEN Again(T, n)
          ELSE LET S == run[k - 1] IN IF S.done THEN S ELSE InsertRound(S.tree, S.node)
    IN  run

InsertBalance(T, n) == InsertRun(T, n)[Rounds(T)].tree

(* rbt_insertNode, with the value it returns: -2 for a value the tree      *)
(* already holds, -1 for a node that is not a leaf or a broken root.       *)
InsertNode(T, n) ==
    LET near == FindUpperNearest(T, T.value[n])
        Leaf(p, side) ==
            InsertBalance([T EXCEPT ![side][p] = n, !.parent[n] = p], n)
    IN  CASE T.left[n] # NULL \/ T.right[n] # NULL -> [tree |-> T, ret |-> "-1"]
          [] OTHER ->
             CASE T.head = NULL ->
                  [tree |-> [T EXCEPT !.head = n, !.parent[n] = NULL, !.color[n] = "BLACK"],
                   ret |-> "0"]
               [] T.head # NULL /\ NodeProperty(T, T.head) # "ROOT" ->
                  [tree |-> T, ret |-> "-1"]
               [] OTHER ->
                  CASE near = NULL -> [tree |-> Leaf(Farthest(T, T.head, "right"), "right"),
                                       ret |-> "0"]
                    [] near # NULL /\ T.value[near] = T.value[n] -> [tree |-> T, ret |-> "-2"]
                    [] OTHER ->
                       [tree |-> IF T.left[near] = NULL THEN Leaf(near, "left")
                                 ELSE Leaf(Farthest(T, T.left[near], "right"), "right"),
                        ret |-> "0"]

-----------------------------------------------------------------------------

(* One call of rbt_removeNodeBalance: repaint and rotate before n is       *)
(* unlinked.  A black node under a black parent with a black sibling hands *)
(* over to the parent after painting the sibling red.  For a node without  *)
(* a sibling the code reads the parent of the null pointer first           *)
(* (rbt.c:456), before it asks whether there is one; what it finds there   *)
(* is not used then, and the links stay as they are.                       *)
RemoveRound(T, n) ==
    LET l       == T.left[n]
        r       == T.right[n]
        reds    == {m \in {n, l, r} : ColorOf(T, m) = "RED"}
        sibling == Sibling(T, n)
        p       == T.parent[n]
        side    == NodeProperty(T, sibling)
        near    == T[side][sibling]                \* the sibling's outer child
        far     == T[Opposite(side)][sibling]      \* the one on n's side
        raised  == Rotate(SwapColor(T, sibling, p), p, Opposite(side))
        paler   == Paint(T, sibling, "RED")
    IN  CASE reds # {} ->
             CASE l = NULL /\ r # NULL -> Done(Paint(T, r, "BLACK"), n)
               [] l # NULL /\ r = NULL -> Done(Paint(T, l, "RED"), n)
               [] OTHER                -> Done(T, n)
          [] reds = {} /\ (NodeProperty(T, n) = "ROOT" \/ sibling = NULL) -> Done(T, n)
          [] OTHER ->
             CASE ColorOf(T, sibling) = "RED" -> Again(raised, n)
               [] ColorOf(T, sibling) = "BLACK" /\ ColorOf(T, near) = "RED" ->
                  Done(Paint(raised, near, "BLACK"), n)
               [] ColorOf(T, sibling) = "BLACK" /\ ColorOf(T, near) = "BLACK"
                                               /\ ColorOf(T, far) = "RED" ->
                  Again(Rotate(SwapColor(T, sibling, far), sibling, side), n)
               [] OTHER ->
                  IF T.color[p] = "RED" THEN Done(Paint(paler, p, "BLACK"), n)
                                        ELSE Again(paler, p)

RemoveRun(T, n) ==
    LET run[k \in 0 .. Rounds(T)] ==
          IF k = 0 THEN Again(T, n)
          ELSE LET S == run[k - 1] IN IF S.done THEN S ELSE RemoveRound(S.tree, S.node)
    IN  run

RemoveBalance(T, n) == RemoveRun(T, n)[Rounds(T)].tree

(* Mutant: the child of the removed node is not taken over.                *)
UnlinkSubtree(T, n) ==
    LET property == NodeProperty(T, n)
    IN  CASE property = "ROOT" /\ T.left[n] = NULL /\ T.right[n] = NULL ->
             [tree |-> [T EXCEPT !.head = NULL], ret |-> "0"]
          [] property \in {"left", "right"} /\ (T.left[n] = NULL \/ T.right[n] = NULL) ->
             [tree |-> [T EXCEPT ![property][T.parent[n]] = NULL], ret |-> "0"]
          [] OTHER -> [tree |-> T, ret |-> "-1"]

(* A balanced node n, which had the given property, is cut out of B.  Only *)
(* a root with exactly one child is refused.                               *)
CutOut(B, n, property) ==
    LET children == {B.left[n], B.right[n]} \ {NULL}
        only     == IF children = {} THEN NULL ELSE CHOOSE c \in children : TRUE
    IN  CASE property = "ROOT" /\ children = {} ->
             [tree |-> [B EXCEPT !.head = NULL], ret |-> "0"]
          [] property \in {"left", "right"} /\ (B.left[n] = NULL \/ B.right[n] = NULL) ->
             [tree |-> [B EXCEPT ![property][B.parent[n]] = only,
                                 !.parent = Set(@, only, B.parent[n])],
              ret |-> "0"]
          [] OTHER -> [tree |-> B, ret |-> "-1"]

(* The end of rbt_removeNode, with the value it returns: the balancing and *)
(* the unlinking of a node with at most one child.  It is refused after    *)
(* the balancing, which has already painted the root's child.              *)
Unlink(T, n) ==
    IF Broken(NodeProperty(T, n)) THEN [tree |-> T, ret |-> "-1"]
    ELSE CutOut(RemoveBalance(T, n), n, NodeProperty(T, n))

(* Mutant: no exchange with the successor.                                 *)
RemoveInPlace(T, n) ==
    IF Broken(NodeProperty(T, n)) THEN [tree |-> T, ret |-> "-1"] ELSE Unlink(T, n)

(* The tree in which n is balanced and cut out: a node with two children   *)
(* first exchanges its place and its colour with its successor.            *)
Prepared(T, n) ==
    LET inside    == T.left[n] # NULL /\ T.right[n] # NULL
        successor == Farthest(T, T.right[n], "left")
    IN  IF inside THEN SwapNode(SwapColor(T, n, successor), n, successor) ELSE T

(* rbt_removeNode.                                                         *)
RemoveNode(T, n) ==
    IF Broken(NodeProperty(T, n)) THEN [tree |-> T, ret |-> "-1"]
    ELSE Unlink(Prepared(T, n), n)
=============================================================================
