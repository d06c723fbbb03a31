------------------------- MODULE RedBlackTreeProofs -------------------------
(***************************************************************************)
(* Theorems about RedBlackTree.                                            *)
(***************************************************************************)
EXTENDS RedBlackTree, FiniteSetTheorems, NaturalsInduction, WellFoundedInduction, TLAPS

Sides == {"left", "right"}

Link == Nodes \cup {NULL}

Trees == [head : Link, parent : [Nodes -> Link], left : [Nodes -> Link],
          right : [Nodes -> Link], color : [Nodes -> {"RED", "BLACK"}], value : {ValueOf}]

Weights == [Nodes -> Nat]

(* Value a belongs on side s of value b.                                   *)
Beside(s, a, b) == IF s = "left" THEN a < b ELSE b < a

(* The links of T are one tree of the nodes in I, sub[n] being what hangs  *)
(* under n, n included.                                                    *)
Linked(T, I, sub) ==
    /\ T \in Trees /\ I \subseteq Nodes
    /\ sub \in [Link -> SUBSET I] /\ sub[NULL] = {} /\ sub[T.head] = I
    /\ T.head \in I \cup {NULL}
    /\ T.head # NULL => T.parent[T.head] = NULL
    /\ \A n \in I : sub[n] = {n} \cup sub[T.left[n]] \cup sub[T.right[n]]
    /\ \A n \in I : n # T.head => T.parent[n] \in I /\ \E s \in Sides : T[s][T.parent[n]] = n
    /\ \A n \in I, s \in Sides :
          /\ T[s][n] \in I \cup {NULL}
          /\ T[s][n] # NULL => T.parent[T[s][n]] = n
    /\ \A n \in Nodes \ I : T.parent[n] = NULL /\ \A s \in Sides : T[s][n] = NULL

(* It is in search order for the weights w.                                *)
InOrder(T, I, sub, w) ==
    \A n \in I, s \in Sides : \A m \in sub[T[s][n]] : Beside(s, w[m], w[n])

Shaped(T, I, sub, w) == Linked(T, I, sub) /\ InOrder(T, I, sub, w)

-----------------------------------------------------------------------------
(* Links.                                                                  *)

LEMMA Members1 ==
    ASSUME NEW T, NEW I, NEW sub, NEW w \in Weights, Shaped(T, I, sub, w), NEW n \in I
    PROVE  /\ n \in Nodes /\ n # NULL /\ n \in sub[n] /\ sub[n] \subseteq I
           /\ T.head \in I
           /\ \A s \in Sides : /\ T[s][n] \in I \cup {NULL}
                               /\ n \notin sub[T[s][n]]
                               /\ sub[T[s][n]] \subseteq sub[n]
                               /\ T[s][n] # n
           /\ sub[T.left[n]] \cap sub[T.right[n]] = {}
           /\ T.left[n] # NULL => T.left[n] # T.right[n]
<1>1. n \in Nodes /\ n # NULL /\ n \in sub[n] /\ sub[n] \subseteq I
  BY NodesAssumption DEF Shaped, Linked, Link
<1>2. T.head \in I
  BY <1>1 DEF Shaped, Linked
<1>3. T.left[n] \in I \cup {NULL} /\ T.right[n] \in I \cup {NULL}
  BY DEF Shaped, Linked, Sides
<1>4. /\ \A m \in sub[T.left[n]] : w[m] < w[n]
      /\ \A m \in sub[T.right[n]] : w[n] < w[m]
  BY DEF Shaped, InOrder, Sides, Beside
<1>5. sub[T.left[n]] \subseteq Nodes /\ sub[T.right[n]] \subseteq Nodes
  BY <1>3 DEF Shaped, Linked, Link
<1>6. n \notin sub[T.left[n]] /\ n \notin sub[T.right[n]]
  BY <1>4, <1>1 DEF Weights
<1>7. sub[T.left[n]] \cap sub[T.right[n]] = {}
  BY <1>4, <1>5, <1>1 DEF Weights
<1>8. sub[T.left[n]] \subseteq sub[n] /\ sub[T.right[n]] \subseteq sub[n]
  BY DEF Shaped, Linked
<1>9. \A m \in I : m \in sub[m]
  BY DEF Shaped, Linked
<1>10. QED
  BY <1>1, <1>2, <1>3, <1>6, <1>7, <1>8, <1>9 DEF Sides

LEMMA PropertyIs ==
    ASSUME NEW T, NEW n, T.head # NULL, n # NULL, n # T.head, T.parent[n] # NULL
    PROVE  NodeProperty(T, n) = IF T.left[T.parent[n]] = n THEN "left"
                                ELSE IF T.right[T.parent[n]] = n THEN "right" ELSE "CORRUPTED"
<1>1. CASE T.left[T.parent[n]] = n
  BY <1>1 DEF NodeProperty
<1>2. CASE T.left[T.parent[n]] # n /\ T.right[T.parent[n]] = n
  BY <1>2 DEF NodeProperty
<1>3. CASE T.left[T.parent[n]] # n /\ T.right[T.parent[n]] # n
  BY <1>3 DEF NodeProperty
<1>4. QED
  BY <1>1, <1>2, <1>3

LEMMA PropertyOf ==
    ASSUME NEW T, NEW I, NEW sub, NEW w \in Weights, Shaped(T, I, sub, w), NEW n \in I
    PROVE  /\ n = T.head => NodeProperty(T, n) = "ROOT" /\ T.parent[n] = NULL
           /\ n # T.head => /\ T.parent[n] \in I
                            /\ NodeProperty(T, n) \in Sides
                            /\ T[NodeProperty(T, n)][T.parent[n]] = n
           /\ \A s \in Sides, p \in I :
                 T[s][p] = n => /\ n # T.head /\ T.parent[n] = p
                                /\ NodeProperty(T, n) = s
                                /\ T[Opposite(s)][p] # n
<1>1. n \in Nodes /\ n # NULL /\ T.head \in I /\ T.head # NULL
  BY Members1
<1>2. n = T.head => NodeProperty(T, n) = "ROOT" /\ T.parent[n] = NULL
  BY <1>1 DEF NodeProperty, Shaped, Linked
<1>3. ASSUME n # T.head
      PROVE  /\ T.parent[n] \in I
             /\ NodeProperty(T, n) \in Sides
             /\ T[NodeProperty(T, n)][T.parent[n]] = n
  <2>1. T.parent[n] \in I /\ \E s \in Sides : T[s][T.parent[n]] = n
    BY <1>3 DEF Shaped, Linked
  <2>2. T.parent[n] # NULL
    BY <2>1, Members1
  <2>3. T.left[T.parent[n]] = n \/ T.right[T.parent[n]] = n
    BY <2>1 DEF Sides
  <2>4. NodeProperty(T, n) = IF T.left[T.parent[n]] = n THEN "left" ELSE "right"
    BY <1>1, <1>3, <2>2, <2>3, PropertyIs
  <2>5. QED
    BY <2>1, <2>3, <2>4 DEF Sides
<1>4. ASSUME NEW s \in Sides, NEW p \in I, T[s][p] = n
      PROVE  n # T.head /\ T.parent[n] = p /\ NodeProperty(T, n) = s /\ T[Opposite(s)][p] # n
  <2>1. T.parent[n] = p
    BY <1>4, <1>1 DEF Shaped, Linked
  <2>2. n # T.head
    BY <2>1, <1>2, Members1
  <2>3. T[Opposite(s)][p] # n
    BY <1>1, <1>4, Members1 DEF Sides, Opposite
  <2>4. QED
    BY <1>3, <1>4, <2>1, <2>2, <2>3 DEF Sides, Opposite
<1>5. QED
  BY <1>2, <1>3, <1>4

(* What a rotation writes.                                                 *)
LEMMA RotateWrites ==
    ASSUME NEW T \in Trees, NEW s \in Sides, NEW n \in Nodes,
           NodeProperty(T, n) \in Sides \cup {"ROOT"},
           NodeProperty(T, n) \in Sides => T.parent[n] \in Nodes,
           NEW o, o = Opposite(s), NEW c \in Nodes, c = T[o][n], c # n,
           T[s][c] # c
    PROVE  LET R == Rotate(T, n, s)
               up == T.parent[n]
           IN  /\ R \in Trees
               /\ R.color = T.color /\ R.value = T.value
               /\ R.head = IF NodeProperty(T, n) = "ROOT" THEN c ELSE T.head
               /\ R.parent[c] = IF T[s][c] = c THEN n ELSE up
               /\ \A m \in Nodes : m # c =>
                     R.parent[m] = IF m = T[s][c] THEN n
                                   ELSE IF m = n THEN c ELSE T.parent[m]
               /\ \A m \in Nodes : R[o][m] = IF m = n THEN T[s][c]
                                             ELSE IF NodeProperty(T, n) = o /\ m = up THEN c
                                             ELSE T[o][m]
               /\ \A m \in Nodes : R[s][m] = IF m = c THEN n
                                             ELSE IF NodeProperty(T, n) = s /\ m = up THEN c
                                             ELSE T[s][m]
<1>1. o \in Sides /\ s # o
  BY DEF Sides, Opposite
<1>2. ~Broken(NodeProperty(T, n)) /\ c # NULL
  BY NodesAssumption DEF Broken, Sides
<1> DEFINE p == NodeProperty(T, n)
           up == T.parent[n]
           inner == T[s][c]
           linked == IF p = "ROOT" THEN [T EXCEPT !.head = c] ELSE [T EXCEPT ![p][up] = c]
           par == Set([T.parent EXCEPT ![c] = up, ![n] = c], inner, n)
<1>3. inner \in Link /\ up \in Link
  BY DEF Trees, Sides, Link
<1>4. par \in [Nodes -> Link]
  BY <1>3 DEF Trees, Set, Link
<1>5. /\ linked \in Trees /\ linked.parent = T.parent
      /\ linked.color = T.color /\ linked.value = T.value
      /\ linked.head = IF p = "ROOT" THEN c ELSE T.head
      /\ \A m \in Nodes : linked[o][m] = IF p = o /\ m = up THEN c ELSE T[o][m]
      /\ \A m \in Nodes : linked[s][m] = IF p = s /\ m = up THEN c ELSE T[s][m]
  BY <1>1, <1>3 DEF Trees, Sides, Link
<1>6. Rotate(T, n, s) = [linked EXCEPT !.parent = par, ![o][n] = inner, ![s][c] = n]
  BY <1>1, <1>2, <1>5 DEF Rotate
<1>7. \A m \in Nodes : par[m] = IF m = inner THEN n ELSE IF m = n THEN c
                                ELSE IF m = c THEN up ELSE T.parent[m]
  BY <1>3, NodesAssumption DEF Set, Link, Trees
<1> HIDE DEF linked, par, p, up, inner
<1>8. LET R == Rotate(T, n, s)
      IN  /\ R \in Trees /\ R.parent = par /\ R.color = T.color /\ R.value = T.value
          /\ R.head = linked.head
          /\ \A m \in Nodes : R[o][m] = IF m = n THEN inner ELSE linked[o][m]
          /\ \A m \in Nodes : R[s][m] = IF m = c THEN n ELSE linked[s][m]
  <2>1. CASE s = "left"
    <3>1. o = "right"
      BY <2>1, <1>1 DEF Sides
    <3>2. Rotate(T, n, s) = [linked EXCEPT !.parent = par, !.right[n] = inner, !.left[c] = n]
      BY <1>6, <2>1, <3>1
    <3> DEFINE R == [linked EXCEPT !.parent = par, !.right[n] = inner, !.left[c] = n]
    <3>3. /\ R.parent = par /\ R.color = linked.color /\ R.value = linked.value
          /\ R.head = linked.head
          /\ R.right = [linked.right EXCEPT ![n] = inner]
          /\ R.left = [linked.left EXCEPT ![c] = n]
          /\ R \in Trees
      BY <1>3, <1>4, <1>5 DEF Trees, Link
    <3> HIDE DEF R
    <3>4. R = Rotate(T, n, s)
      BY <3>2 DEF R
    <3>5. QED
      BY <1>5, <2>1, <3>1, <3>3, <3>4 DEF Trees
  <2>2. CASE s = "right"
    <3>1. o = "left"
      BY <2>2, <1>1 DEF Sides
    <3>2. Rotate(T, n, s) = [linked EXCEPT !.parent = par, !.left[n] = inner, !.right[c] = n]
      BY <1>6, <2>2, <3>1
    <3> DEFINE R == [linked EXCEPT !.parent = par, !.left[n] = inner, !.right[c] = n]
    <3>3. /\ R.parent = par /\ R.color = linked.color /\ R.value = linked.value
          /\ R.head = linked.head
          /\ R.left = [linked.left EXCEPT ![n] = inner]
          /\ R.right = [linked.right EXCEPT ![c] = n]
          /\ R \in Trees
      BY <1>3, <1>4, <1>5 DEF Trees, Link
    <3> HIDE DEF R
    <3>4. R = Rotate(T, n, s)
      BY <3>2 DEF R
    <3>5. QED
      BY <1>5, <2>2, <3>1, <3>3, <3>4 DEF Trees
  <2>3. QED
    BY <2>1, <2>2 DEF Sides
<1>9. QED
  BY <1>5, <1>7, <1>8 DEF p, up, inner

LEMMA BesideFlips ==
    ASSUME NEW s \in Sides, NEW a \in Nat, NEW b \in Nat
    PROVE  /\ Beside(s, a, b) <=> Beside(Opposite(s), b, a)
           /\ \A c \in Nat : Beside(s, a, b) /\ Beside(s, b, c) => Beside(s, a, c)
           /\ ~(Beside(s, a, b) /\ Beside(Opposite(s), a, b))
           /\ ~Beside(s, a, a)
BY DEF Sides, Beside, Opposite

(* A rotation keeps the tree and its order: what hung under n hangs under  *)
(* c, and n keeps what hung on its other side and between the two.         *)
LEMMA RotateShaped ==
    ASSUME NEW T, NEW I, NEW sub, NEW w \in Weights, Shaped(T, I, sub, w),
           NEW n \in I, NEW s \in Sides, T[Opposite(s)][n] # NULL
    PROVE  LET R    == Rotate(T, n, s)
               c    == T[Opposite(s)][n]
               sub2 == [sub EXCEPT ![c] = sub[n],
                                   ![n] = {n} \cup sub[T[s][n]] \cup sub[T[s][c]]]
           IN  /\ Shaped(R, I, sub2, w)
               /\ R.color = T.color
               /\ R.head = IF n = T.head THEN c ELSE T.head
               /\ R.parent[n] = c /\ R[s][c] = n /\ c \in I /\ c # n
               /\ R[s][n] = T[s][n] /\ R[Opposite(s)][n] = T[s][c]
               /\ R[Opposite(s)][c] = T[Opposite(s)][c]
               /\ R.parent[c] = T.parent[n]
               /\ \A m \in I : m \notin {n, c} /\ m # T[s][c] => R.parent[m] = T.parent[m]
               /\ \A q \in Sides, m \in I :
                     m \notin {n, c} => R[q][m] = IF T[q][m] = n THEN c ELSE T[q][m]
<1> DEFINE o     == Opposite(s)
           c     == T[o][n]
           x     == T[s][n]
           inner == T[s][c]
           y     == T[o][c]
           up    == T.parent[n]
           p     == NodeProperty(T, n)
           R     == Rotate(T, n, s)
           sub2  == [sub EXCEPT ![c] = sub[n], ![n] = {n} \cup sub[x] \cup sub[inner]]
<1>1. o \in Sides /\ s # o /\ Sides = {s, o}
  BY DEF Sides, Opposite
<1>2. c \in I /\ c # n /\ T.parent[c] = n /\ n \in Nodes /\ c \in Nodes
  BY <1>1, Members1 DEF Shaped, Linked
<1>3. /\ x \in I \cup {NULL} /\ inner \in I \cup {NULL} /\ y \in I \cup {NULL}
      /\ x # n /\ inner # c /\ y # c
  BY <1>1, <1>2, Members1
<1>4. /\ sub[n] = {n} \cup sub[x] \cup sub[c]
      /\ sub[c] = {c} \cup sub[inner] \cup sub[y]
  BY <1>1, <1>2 DEF Shaped, Linked, Sides
<1>5. n \notin sub[c] /\ n \notin sub[x] /\ sub[NULL] = {} /\ (\A m \in I : m \in sub[m])
  BY <1>1, <1>2, Members1 DEF Shaped, Linked
<1>6. inner # n /\ y # n
  BY <1>3, <1>4, <1>5
<1>7. /\ x # NULL => T.parent[x] = n
      /\ inner # NULL => T.parent[inner] = c
      /\ y # NULL => T.parent[y] = c
  BY <1>1, <1>2 DEF Shaped, Linked
<1>8. x # c /\ (inner # NULL => inner # y /\ inner # x) /\ (x # NULL => y # x)
  <2>1. x # c /\ (inner # NULL => inner # x) /\ (x # NULL => y # x)
    BY <1>7, <1>2, PropertyOf, <1>1
  <2>2. inner # NULL => inner # y
    BY <1>1, <1>2, Members1 DEF Sides
  <2>3. QED
    BY <2>1, <2>2
<1>9. n # T.head => up \in I /\ p \in Sides /\ T[p][up] = n /\ up # n /\ up # c
  <2>1. n # T.head => up \in I /\ p \in Sides /\ T[p][up] = n
    BY PropertyOf
  <2>2. \A m \in I, q \in Sides : T[q][m] # m
    BY Members1
  <2>3. \A q \in Sides : T[q][c] # n
    BY <1>1, <1>6
  <2>4. QED
    BY <2>1, <2>2, <2>3
<1>10. n = T.head => p = "ROOT" /\ up = NULL
  BY PropertyOf
<1>11. p = "ROOT" <=> n = T.head
  BY <1>9, <1>10 DEF Sides
<1>12. /\ R \in Trees /\ R.color = T.color /\ R.value = T.value
       /\ R.head = IF n = T.head THEN c ELSE T.head
       /\ R.parent[c] = up
       /\ \A m \in Nodes : m # c => R.parent[m] = IF m = inner THEN n
                                                  ELSE IF m = n THEN c ELSE T.parent[m]
       /\ \A m \in Nodes : R[o][m] = IF m = n THEN inner
                                     ELSE IF p = o /\ m = up THEN c ELSE T[o][m]
       /\ \A m \in Nodes : R[s][m] = IF m = c THEN n
                                     ELSE IF p = s /\ m = up THEN c ELSE T[s][m]
  <2>1. T \in Trees /\ up \in I \cup {NULL} /\ I \subseteq Nodes
    BY <1>9, <1>10 DEF Shaped, Linked
  <2>2. p \in Sides \cup {"ROOT"} /\ (p \in Sides => up \in Nodes)
    BY <1>9, <1>10, <2>1 DEF Sides
  <2> HIDE DEF R, p, up, inner
  <2>3. QED
    BY <1>1, <1>2, <1>3, <1>11, <2>1, <2>2, RotateWrites DEF R, p, up, inner
<1>13. I \subseteq Nodes /\ T \in Trees /\ sub \in [Link -> SUBSET I] /\ NULL \notin Nodes
  BY NodesAssumption DEF Shaped, Linked
<1>14. \A m \in I, q \in Sides :
          /\ T[q][m] \in I \cup {NULL}
          /\ T[q][m] # NULL => T.parent[T[q][m]] = m
  BY DEF Shaped, Linked
<1>15. \A q \in Sides : n # T.head /\ T[q][up] = n => q = p
  BY <1>9, PropertyOf
<1>16. c \in sub[n] /\ n \in Link /\ c \in Link
  BY <1>2, <1>4, <1>5 DEF Link
<1> HIDE DEF o, c, x, inner, y, up, p, R
<1>17. /\ sub2 \in [Link -> SUBSET I]
       /\ sub2[c] = sub[n] /\ sub2[n] = {n} \cup sub[x] \cup sub[inner]
       /\ \A m \in Link : m \notin {n, c} => sub2[m] = sub[m]
  BY <1>2, <1>3, <1>13, <1>16 DEF Link
<1> HIDE DEF sub2
<1>20. /\ R[s][n] = x /\ R[o][n] = inner /\ R[s][c] = n /\ R[o][c] = y
  BY <1>1, <1>2, <1>9, <1>10, <1>11, <1>12, <1>13 DEF x, y, Sides
<1>21. ASSUME NEW m \in I, NEW q \in Sides, m \notin {n, c}
       PROVE  /\ T[q][m] = n => n # T.head /\ m = up /\ q = p /\ R[q][m] = c
              /\ T[q][m] # n => R[q][m] = T[q][m] /\ R[q][m] \notin {n, c}
                                /\ (R[q][m] # inner \/ inner = NULL)
  <2>1. CASE T[q][m] = n
    <3>1. n # T.head /\ up = m
      BY <2>1, <1>2, PropertyOf DEF up
    <3>2. q = p
      BY <3>1, <2>1, <1>15
    <3>3. QED
      BY <2>1, <3>1, <3>2, <1>1, <1>12, <1>13, <1>21
  <2>2. CASE T[q][m] # n
    <3>1. ~(p = q /\ m = up) \/ n = T.head
      BY <2>2, <1>9
    <3>2. p \notin Sides \/ n # T.head
      BY <1>10 DEF Sides
    <3>3. R[q][m] = T[q][m]
      BY <3>1, <3>2, <1>1, <1>12, <1>13, <1>21
    <3>4. T[q][m] # c /\ (T[q][m] # inner \/ inner = NULL)
      BY <1>2, <1>7, <1>14, <1>21, <1>3, <1>13
    <3>5. QED
      BY <2>2, <3>3, <3>4
  <2>3. QED
    BY <2>1, <2>2
<1>22. ASSUME NEW m \in I, NEW q \in Sides
       PROVE  R[q][m] \in I \cup {NULL} /\ (R[q][m] # NULL => R.parent[R[q][m]] = m)
  <2>1. CASE m = n
    <3>1. x # NULL => R.parent[x] = n
      BY <1>3, <1>7, <1>8, <1>12, <1>13
    <3>2. inner # NULL => R.parent[inner] = n
      BY <1>3, <1>12, <1>13
    <3>3. QED
      BY <2>1, <3>1, <3>2, <1>1, <1>3, <1>20
  <2>2. CASE m = c
    <3>1. R.parent[n] = c
      BY <1>2, <1>6, <1>12
    <3>2. y # NULL => R.parent[y] = c
      BY <1>3, <1>6, <1>7, <1>8, <1>12, <1>13
    <3>3. QED
      BY <2>2, <3>1, <3>2, <1>1, <1>3, <1>20
  <2>3. CASE m \notin {n, c} /\ T[q][m] = n
    BY <2>3, <1>2, <1>12, <1>21
  <2>4. CASE m \notin {n, c} /\ T[q][m] # n
    <3>1. R[q][m] = T[q][m] /\ R[q][m] \notin {n, c} /\ (R[q][m] # inner \/ inner = NULL)
      BY <2>4, <1>21
    <3>2. R[q][m] # NULL => R[q][m] \in Nodes /\ R.parent[R[q][m]] = T.parent[R[q][m]]
      BY <3>1, <1>12, <1>13, <1>14
    <3>3. QED
      BY <3>1, <3>2, <1>14
  <2>5. QED
    BY <2>1, <2>2, <2>3, <2>4
<1>23. \A m \in I : sub2[m] = {m} \cup sub2[R.left[m]] \cup sub2[R.right[m]]
  <2>1. SUFFICES ASSUME NEW m \in I
                 PROVE  sub2[m] = {m} \cup sub2[R[s][m]] \cup sub2[R[o][m]]
    BY <1>1 DEF Sides
  <2>2. sub[m] = {m} \cup sub[T[s][m]] \cup sub[T[o][m]]
    BY <1>1 DEF Shaped, Linked, Sides
  <2>3. I \cup {NULL} \subseteq Link
    BY <1>13 DEF Link
  <2>4. CASE m = n
    <3>1. x \notin {n, c} /\ inner \notin {n, c}
      BY <1>3, <1>6, <1>8
    <3>2. sub2[x] = sub[x] /\ sub2[inner] = sub[inner]
      BY <3>1, <1>3, <1>17, <2>3
    <3>3. QED
      BY <2>4, <3>2, <1>17, <1>20
  <2>5. CASE m = c
    <3>1. sub2[y] = sub[y]
      BY <1>3, <1>6, <1>17, <2>3
    <3>2. QED
      BY <2>5, <3>1, <1>4, <1>17, <1>20
  <2>6. CASE m \notin {n, c}
    <3>1. sub2[m] = sub[m]
      BY <2>6, <2>3, <1>17
    <3>2. ASSUME NEW q \in Sides PROVE sub2[R[q][m]] = sub[T[q][m]]
      <4>1. CASE T[q][m] = n
        BY <4>1, <2>6, <1>17, <1>21
      <4>2. CASE T[q][m] # n
        BY <4>2, <2>3, <2>6, <1>14, <1>17, <1>21
      <4>3. QED
        BY <4>1, <4>2
    <3>3. QED
      BY <3>1, <3>2, <2>2, <1>1
  <2>7. QED
    BY <2>4, <2>5, <2>6
<1>24. InOrder(R, I, sub2, w)
  <2>1. SUFFICES ASSUME NEW m \in I, NEW q \in Sides, NEW k \in sub2[R[q][m]]
                 PROVE  Beside(q, w[k], w[m])
    BY DEF InOrder
  <2>2. \A i \in I, r \in Sides : \A j \in sub[T[r][i]] : Beside(r, w[j], w[i])
    BY DEF Shaped, InOrder
  <2>3. I \cup {NULL} \subseteq Link
    BY <1>13 DEF Link
  <2>4. \A j \in I : w[j] \in Nat
    BY <1>13 DEF Weights
  <2>5. sub[c] \subseteq I /\ sub[x] \subseteq I /\ sub[inner] \subseteq I
    BY <1>2, <1>3, <1>13, <2>3
  <2>6. CASE m = n /\ q = s
    <3>1. sub2[x] = sub[x]
      BY <1>3, <1>8, <1>17, <2>3
    <3>2. QED
      BY <2>1, <2>2, <2>6, <3>1, <1>20 DEF x
  <2>7. CASE m = n /\ q = o
    <3>1. sub2[inner] = sub[inner]
      BY <1>3, <1>6, <1>17, <2>3
    <3>2. k \in sub[c]
      BY <2>1, <2>7, <3>1, <1>4, <1>20
    <3>3. QED
      BY <3>2, <2>2, <2>7 DEF c
  <2>8. CASE m = c /\ q = s
    <3>1. k \in {n} \cup sub[x] \cup sub[inner]
      BY <2>1, <2>8, <1>17, <1>20
    <3>2. Beside(o, w[c], w[n])
      BY <1>1, <2>2, <1>2, <1>5 DEF c
    <3>3. Beside(s, w[n], w[c])
      BY <3>2, <2>4, <1>2, BesideFlips DEF o
    <3>4. CASE k \in sub[x]
      <4>1. Beside(s, w[k], w[n])
        BY <3>4, <2>2 DEF x
      <4>2. QED
        BY <4>1, <3>3, <3>4, <2>4, <2>5, <2>8, <1>2, BesideFlips
    <3>5. CASE k \in sub[inner]
      BY <3>5, <2>2, <2>8, <1>2 DEF inner
    <3>6. QED
      BY <3>1, <3>3, <3>4, <3>5, <2>8
  <2>9. CASE m = c /\ q = o
    <3>1. sub2[y] = sub[y]
      BY <1>3, <1>6, <1>17, <2>3
    <3>2. QED
      BY <2>1, <2>2, <2>9, <3>1, <1>2, <1>20 DEF y
  <2>10. CASE m \notin {n, c} /\ T[q][m] = n
    <3>1. k \in sub[n]
      BY <2>1, <2>10, <1>17, <1>21
    <3>2. QED
      BY <3>1, <2>2, <2>10
  <2>11. CASE m \notin {n, c} /\ T[q][m] # n
    <3>1. sub2[R[q][m]] = sub[T[q][m]]
      BY <2>3, <2>11, <1>14, <1>17, <1>21
    <3>2. QED
      BY <3>1, <2>1, <2>2
  <2>12. QED
    BY <1>1, <2>6, <2>7, <2>8, <2>9, <2>10, <2>11
<1>25. \A m \in I : m # R.head => R.parent[m] \in I /\ \E q \in Sides : R[q][R.parent[m]] = m
  <2>1. SUFFICES ASSUME NEW m \in I, m # R.head
                 PROVE  R.parent[m] \in I /\ \E q \in Sides : R[q][R.parent[m]] = m
    OBVIOUS
  <2>2. CASE m = n
    <3>1. R.parent[n] = c
      BY <1>2, <1>6, <1>12
    <3>2. QED
      BY <3>1, <2>2, <1>2, <1>20
  <2>3. CASE m = c
    <3>1. n # T.head
      BY <2>1, <2>3, <1>12
    <3>2. R[p][up] = c
      BY <3>1, <1>9, <1>21
    <3>3. QED
      BY <3>1, <3>2, <2>3, <1>9, <1>12
  <2>4. CASE m \notin {n, c} /\ m = inner
    <3>1. R.parent[m] = n
      BY <2>4, <1>12, <1>13
    <3>2. QED
      BY <3>1, <2>4, <1>1, <1>20
  <2>5. CASE m \notin {n, c} /\ m # inner
    <3>1. R.parent[m] = T.parent[m]
      BY <2>5, <1>12, <1>13
    <3>2. m # T.head
      BY <2>1, <2>5, <1>12
    <3>3. PICK q \in Sides : T.parent[m] \in I /\ T[q][T.parent[m]] = m
      BY <3>2 DEF Shaped, Linked
    <3>4. CASE T.parent[m] = n
      <4>1. m = x
        BY <3>3, <3>4, <2>5, <1>1 DEF x, c
      <4>2. QED
        BY <4>1, <3>1, <3>4, <1>20
    <3>5. CASE T.parent[m] = c
      <4>1. m = y
        BY <3>3, <3>5, <2>5, <1>1 DEF y, inner
      <4>2. QED
        BY <4>1, <3>1, <3>5, <1>1, <1>2, <1>20
    <3>6. CASE T.parent[m] \notin {n, c}
      <4>1. R[q][T.parent[m]] = m
        BY <3>3, <3>6, <2>5, <1>21
      <4>2. QED
        BY <4>1, <3>1, <3>3
    <3>7. QED
      BY <3>4, <3>5, <3>6
  <2>6. QED
    BY <2>2, <2>3, <2>4, <2>5
<1>26. \A m \in Nodes \ I : R.parent[m] = NULL /\ \A q \in Sides : R[q][m] = NULL
  <2>1. SUFFICES ASSUME NEW m \in Nodes \ I
                 PROVE  R.parent[m] = NULL /\ \A q \in Sides : R[q][m] = NULL
    OBVIOUS
  <2>2. T.parent[m] = NULL /\ \A q \in Sides : T[q][m] = NULL
    BY DEF Shaped, Linked
  <2>3. m # n /\ m # c /\ m # inner /\ m # up
    BY <1>2, <1>3, <1>9, <1>10, <1>13
  <2>4. QED
    BY <2>2, <2>3, <1>1, <1>12
<1>27. /\ sub2[NULL] = {} /\ sub2[R.head] = I /\ R.head \in I \cup {NULL}
       /\ R.head # NULL => R.parent[R.head] = NULL
  <2>1. /\ sub[T.head] = I /\ T.head \in I
        /\ T.parent[T.head] = NULL
    <3>1. T.head \in I /\ T.head # NULL
      BY Members1
    <3>2. QED
      BY <3>1 DEF Shaped, Linked
  <2>2. sub2[NULL] = {}
    BY <1>2, <1>5, <1>13, <1>17 DEF Link
  <2>3. CASE n = T.head
    BY <2>1, <2>2, <2>3, <1>2, <1>10, <1>12, <1>17
  <2>4. CASE n # T.head
    <3>1. T.head # c
      BY <2>1, <1>2, <1>13
    <3>2. T.head # inner
      BY <2>1, <1>2, <1>7, <1>13
    <3>3. sub2[T.head] = I
      BY <2>1, <2>4, <3>1, <1>13, <1>17 DEF Link
    <3>4. R.parent[T.head] = NULL
      BY <2>1, <2>4, <3>1, <3>2, <1>12, <1>13
    <3>5. QED
      BY <2>1, <2>2, <2>4, <3>3, <3>4, <1>12
  <2>5. QED
    BY <2>3, <2>4
<1>28. Linked(R, I, sub2)
  BY <1>12, <1>13, <1>17, <1>22, <1>23, <1>25, <1>26, <1>27 DEF Linked
<1>29. R.parent[n] = c
  BY <1>2, <1>6, <1>12
<1>30. \A m \in I : m \notin {n, c} /\ m # inner => R.parent[m] = T.parent[m]
  BY <1>12, <1>13
<1>31. \A q \in Sides, m \in I :
          m \notin {n, c} => R[q][m] = IF T[q][m] = n THEN c ELSE T[q][m]
  BY <1>21
<1>32. Shaped(R, I, sub2, w) /\ R.parent[c] = up
  BY <1>12, <1>24, <1>28 DEF Shaped
<1>33. QED
  BY <1>2, <1>12, <1>20, <1>29, <1>30, <1>31, <1>32
     DEF R, c, o, x, inner, y, sub2, up

(* Where the links of R lead when it is T after a rotation at n.           *)
Turned(T, I, n, s, R) ==
    LET c == T[Opposite(s)][n]
    IN  /\ R.color = T.color
        /\ R.head = IF n = T.head THEN c ELSE T.head
        /\ R.parent[n] = c /\ R[s][c] = n /\ c \in I /\ c # n
        /\ R[s][n] = T[s][n] /\ R[Opposite(s)][n] = T[s][c]
        /\ R[Opposite(s)][c] = T[Opposite(s)][c]
        /\ R.parent[c] = T.parent[n]
        /\ \A m \in I : m \notin {n, c} /\ m # T[s][c] => R.parent[m] = T.parent[m]
        /\ \A q \in Sides, m \in I :
              m \notin {n, c} => R[q][m] = IF T[q][m] = n THEN c ELSE T[q][m]

LEMMA RotateTurns ==
    ASSUME NEW T, NEW I, NEW sub, NEW w \in Weights, Shaped(T, I, sub, w),
           NEW n \in I, NEW s \in Sides, T[Opposite(s)][n] # NULL
    PROVE  /\ \E sub2 : Shaped(Rotate(T, n, s), I, sub2, w)
           /\ Turned(T, I, n, s, Rotate(T, n, s))
<1> DEFINE R    == Rotate(T, n, s)
           c    == T[Opposite(s)][n]
           sub2 == [sub EXCEPT ![c] = sub[n],
                               ![n] = {n} \cup sub[T[s][n]] \cup sub[T[s][c]]]
<1>1. /\ Shaped(R, I, sub2, w)
      /\ R.color = T.color
      /\ R.head = IF n = T.head THEN c ELSE T.head
      /\ R.parent[n] = c /\ R[s][c] = n /\ c \in I /\ c # n
      /\ R[s][n] = T[s][n] /\ R[Opposite(s)][n] = T[s][c]
      /\ R[Opposite(s)][c] = T[Opposite(s)][c]
      /\ R.parent[c] = T.parent[n]
      /\ \A m \in I : m \notin {n, c} /\ m # T[s][c] => R.parent[m] = T.parent[m]
      /\ \A q \in Sides, m \in I :
            m \notin {n, c} => R[q][m] = IF T[q][m] = n THEN c ELSE T[q][m]
  BY RotateShaped
<1> HIDE DEF R, sub2
<1>2. Turned(T, I, n, s, R)
  BY <1>1 DEF Turned
<1>3. QED
  BY <1>1, <1>2 DEF R

-----------------------------------------------------------------------------
(* Sizes and walks.                                                        *)

(* A set of numbers has a least one.                                       *)
LEMMA LeastNumber ==
    ASSUME NEW S \in SUBSET Nat, S # {}
    PROVE  \E x \in S : \A y \in S : x <= y
<1>1. \E x \in S : \A y \in S : ~(<<y, x>> \in OpToRel(<, Nat))
  BY NatLessThanWellFounded, WFMin
<1>2. \A x, y \in S : ~(<<y, x>> \in OpToRel(<, Nat)) => x <= y
  BY DEF OpToRel
<1>3. QED
  BY <1>1, <1>2

(* Of a set of nodes with ranks one has the least rank.                    *)
LEMMA LeastRanked ==
    ASSUME NEW B, B # {}, NEW rank, \A m \in B : rank[m] \in Nat
    PROVE  \E m \in B : \A k \in B : rank[m] <= rank[k]
<1> DEFINE S == {rank[m] : m \in B}
<1>1. S \in SUBSET Nat /\ S # {}
  OBVIOUS
<1>2. PICK i \in S : \A j \in S : i <= j
  BY <1>1, LeastNumber
<1>3. QED
  BY <1>2

(* The number of nodes under a node: it grows towards the root.            *)
Size(sub) == [m \in Nodes |-> Cardinality(sub[m])]

LEMMA SizesGrow ==
    ASSUME NEW T, NEW I, NEW sub, NEW w \in Weights, Shaped(T, I, sub, w)
    PROVE  /\ Cardinality(Nodes) \in Nat
           /\ \A m \in Nodes : Size(sub)[m] \in Nat /\ Size(sub)[m] <= Cardinality(Nodes)
           /\ \A m \in I : 1 <= Size(sub)[m]
           /\ \A m \in I, s \in Sides :
                 T[s][m] # NULL => Size(sub)[T[s][m]] < Size(sub)[m]
           /\ \A m \in I : m # T.head => Size(sub)[m] < Size(sub)[T.parent[m]]
<1>1. /\ IsFiniteSet(Nodes) /\ I \subseteq Nodes /\ NULL \notin Nodes
      /\ \A m \in Nodes : sub[m] \subseteq Nodes
  BY NodesAssumption DEF Shaped, Linked, Link
<1>2. Cardinality(Nodes) \in Nat
  BY <1>1, FS_CardinalityType
<1>3. \A m \in Nodes : IsFiniteSet(sub[m]) /\ Cardinality(sub[m]) <= Cardinality(Nodes)
  BY <1>1, FS_Subset
<1>4. \A m \in Nodes : Cardinality(sub[m]) \in Nat
  BY <1>3, FS_CardinalityType
<1>5. ASSUME NEW m \in I PROVE 1 <= Cardinality(sub[m])
  <2>1. m \in sub[m] /\ m \in Nodes
    BY <1>1, Members1
  <2>2. Cardinality(sub[m]) # 0
    BY <2>1, <1>3, FS_EmptySet
  <2>3. QED
    BY <2>1, <2>2, <1>4
<1>6. ASSUME NEW m \in I, NEW s \in Sides, T[s][m] # NULL
      PROVE  Cardinality(sub[T[s][m]]) < Cardinality(sub[m])
  <2>1. /\ T[s][m] \in Nodes /\ m \in Nodes /\ sub[T[s][m]] \subseteq sub[m]
        /\ m \in sub[m] /\ m \notin sub[T[s][m]]
    BY <1>1, <1>6, Members1
  <2>2. /\ Cardinality(sub[T[s][m]]) <= Cardinality(sub[m])
        /\ Cardinality(sub[T[s][m]]) # Cardinality(sub[m])
    BY <2>1, <1>3, FS_Subset
  <2>3. QED
    BY <2>1, <2>2, <1>4
<1>7. ASSUME NEW m \in I, m # T.head
      PROVE  Cardinality(sub[m]) < Cardinality(sub[T.parent[m]]) /\ T.parent[m] \in Nodes
  <2>1. T.parent[m] \in I /\ NodeProperty(T, m) \in Sides
        /\ T[NodeProperty(T, m)][T.parent[m]] = m
    BY <1>7, PropertyOf
  <2>2. QED
    BY <2>1, <1>1, <1>6
<1>8. QED
  BY <1>1, <1>2, <1>3, <1>4, <1>5, <1>6, <1>7, Members1 DEF Size

(* The recursive definition of a walk has the meaning it shows when every  *)
(* step goes down in rank.                                                 *)
LEMMA EndsExist ==
    ASSUME NEW next \in [Nodes -> Link], NEW rank \in [Nodes -> Nat],
           \A m \in Nodes : next[m] # NULL => rank[next[m]] < rank[m],
           NEW k \in Nat
    PROVE  \E g \in [Nodes -> Nodes] :
              \A m \in Nodes : rank[m] < k => g[m] = IF next[m] = NULL THEN m ELSE g[next[m]]
<1> DEFINE Fits(g, i) == \A m \in Nodes :
              rank[m] < i => g[m] = IF next[m] = NULL THEN m ELSE g[next[m]]
           Bad == {i \in Nat : ~\E g \in [Nodes -> Nodes] : Fits(g, i)}
<1>1. SUFFICES ASSUME Bad # {} PROVE FALSE
  OBVIOUS
<1>2. PICK i \in Bad : \A j \in Bad : i <= j
  <2>1. Bad \in SUBSET Nat
    OBVIOUS
  <2>2. QED
    BY <1>1, <2>1, LeastNumber
<1>3. CASE i = 0
  <2> DEFINE g == [m \in Nodes |-> m]
  <2>1. g \in [Nodes -> Nodes] /\ Fits(g, 0)
    OBVIOUS
  <2>2. QED
    BY <2>1, <1>2, <1>3
<1>4. CASE i # 0
  <2>1. i - 1 \in Nat /\ i - 1 \notin Bad
    <3>1. i \in Nat
      OBVIOUS
    <3> HIDE DEF Bad
    <3>2. QED
      BY <3>1, <1>2, <1>4
  <2>2. PICK g \in [Nodes -> Nodes] : Fits(g, i - 1)
    BY <2>1
  <2> DEFINE h == [m \in Nodes |-> IF next[m] = NULL THEN m ELSE g[next[m]]]
  <2>3. h \in [Nodes -> Nodes]
    BY DEF Link
  <2>4. ASSUME NEW m \in Nodes, rank[m] < i
        PROVE  h[m] = IF next[m] = NULL THEN m ELSE h[next[m]]
    <3>1. CASE next[m] = NULL
      BY <3>1
    <3>2. CASE next[m] # NULL
      <4>1. next[m] \in Nodes /\ rank[next[m]] < i - 1
        BY <3>2, <2>4, <1>2 DEF Link
      <4>2. g[next[m]] = IF next[next[m]] = NULL THEN next[m] ELSE g[next[next[m]]]
        BY <4>1, <2>2
      <4>3. h[next[m]] = g[next[m]]
        BY <4>1, <4>2
      <4>4. QED
        BY <3>2, <4>3
    <3>3. QED
      BY <3>1, <3>2
  <2> HIDE DEF h
  <2>5. Fits(h, i)
    BY <2>4
  <2>6. QED
    BY <2>3, <2>5, <1>2
<1>5. QED
  BY <1>3, <1>4

LEMMA EndsStep ==
    ASSUME NEW next \in [Nodes -> Link], NEW rank \in [Nodes -> Nat],
           \A m \in Nodes : next[m] # NULL => rank[next[m]] < rank[m],
           NEW top \in Nat, \A m \in Nodes : rank[m] <= top
    PROVE  \A m \in Nodes :
              Ends(next)[m] = IF next[m] = NULL THEN m ELSE Ends(next)[next[m]]
<1> DEFINE Body(g) == [m \in Nodes |-> IF next[m] = NULL THEN m ELSE g[next[m]]]
           e == Ends(next)
<1>1. PICK g \in [Nodes -> Nodes] :
         \A m \in Nodes : rank[m] < top + 1 => g[m] = IF next[m] = NULL THEN m ELSE g[next[m]]
  <2>1. top + 1 \in Nat
    OBVIOUS
  <2> HIDE DEF Body, e
  <2>2. QED
    BY <2>1, EndsExist
<1>2. g = Body(g)
  BY <1>1
<1>3. e = CHOOSE f : f = Body(f)
  BY DEF Ends
<1> HIDE DEF e
<1>4. e = Body(e)
  BY <1>2, <1>3
<1>5. ASSUME NEW m \in Nodes
      PROVE  e[m] = IF next[m] = NULL THEN m ELSE e[next[m]]
  BY <1>4
<1>6. QED
  BY <1>5 DEF e

(* What relates every node to itself where a walk ends, and is handed on   *)
(* backwards, relates every node to the end of its walk.                   *)
LEMMA EndsReached ==
    ASSUME NEW next \in [Nodes -> Link], NEW rank \in [Nodes -> Nat],
           \A m \in Nodes : next[m] # NULL => rank[next[m]] < rank[m],
           NEW top \in Nat, \A m \in Nodes : rank[m] <= top,
           NEW A \in SUBSET Nodes, \A m \in A : next[m] \in A \cup {NULL},
           NEW Q,
           \A m \in A : next[m] = NULL => <<m, m>> \in Q,
           \A m \in A, x \in A :
              next[m] # NULL /\ <<next[m], x>> \in Q => <<m, x>> \in Q
    PROVE  \A m \in A : /\ Ends(next)[m] \in A /\ next[Ends(next)[m]] = NULL
                        /\ <<m, Ends(next)[m]>> \in Q
<1> DEFINE e == Ends(next)
           Bad == {m \in A : ~(e[m] \in A /\ next[e[m]] = NULL /\ <<m, e[m]>> \in Q)}
<1>1. \A m \in Nodes : e[m] = IF next[m] = NULL THEN m ELSE e[next[m]]
  BY EndsStep
<1> HIDE DEF e
<1>2. SUFFICES ASSUME Bad # {} PROVE FALSE
  BY DEF e
<1>3. PICK m \in Bad : \A k \in Bad : rank[m] <= rank[k]
  BY <1>2, LeastRanked
<1>4. CASE next[m] = NULL
  BY <1>1, <1>3, <1>4
<1>5. CASE next[m] # NULL
  <2>1. next[m] \in A /\ e[m] = e[next[m]] /\ rank[next[m]] < rank[m]
    BY <1>1, <1>3, <1>5
  <2>2. next[m] \notin Bad
    <3>1. rank[m] \in Nat /\ rank[next[m]] \in Nat
      BY <2>1, <1>3
    <3>2. QED
      BY <2>1, <3>1, <1>3
  <2>3. QED
    BY <2>1, <2>2, <1>3, <1>5
<1>6. QED
  BY <1>4, <1>5

-----------------------------------------------------------------------------
(* Searching.                                                              *)

LEMMA UnderParent ==
    ASSUME NEW T, NEW I, NEW sub, NEW w \in Weights, Shaped(T, I, sub, w),
           NEW n \in I, NEW s \in Sides
    PROVE  /\ sub[n] = {n} \cup sub[T[s][n]] \cup sub[T[Opposite(s)][n]]
           /\ \A k \in sub[T[s][n]] : k \in I /\ Beside(s, w[k], w[n])
                                      /\ Beside(Opposite(s), w[n], w[k])
           /\ Opposite(s) \in Sides /\ Opposite(Opposite(s)) = s
           /\ \A k \in sub[n] : w[k] \in Nat
<1>1. Opposite(s) \in Sides /\ Opposite(Opposite(s)) = s /\ Sides = {s, Opposite(s)}
  BY DEF Sides, Opposite
<1>2. sub[n] = {n} \cup sub[T[s][n]] \cup sub[T[Opposite(s)][n]]
  <2>1. sub[n] = {n} \cup sub[T.left[n]] \cup sub[T.right[n]]
    BY DEF Shaped, Linked
  <2>2. CASE s = "left"
    BY <2>1, <2>2 DEF Opposite
  <2>3. CASE s = "right"
    BY <2>1, <2>3 DEF Opposite
  <2>4. QED
    BY <2>2, <2>3 DEF Sides
<1>3. I \subseteq Nodes /\ \A k \in I : w[k] \in Nat
  BY DEF Shaped, Linked, Weights
<1>4. ASSUME NEW k \in sub[T[s][n]]
      PROVE  k \in I /\ Beside(s, w[k], w[n]) /\ Beside(Opposite(s), w[n], w[k])
  <2>1. k \in I /\ Beside(s, w[k], w[n])
    BY <1>2, Members1 DEF Shaped, InOrder
  <2>2. QED
    BY <2>1, <1>3, BesideFlips
<1>5. QED
  BY <1>1, <1>2, <1>3, <1>4, Members1

(* Values of nodes that are not under x are all on one side of it.         *)
LEMMA Intervals ==
    ASSUME NEW T, NEW I, NEW sub, NEW w \in Weights, Shaped(T, I, sub, w)
    PROVE  \A x \in I, m \in I : m \notin sub[x] =>
              \/ \A k \in sub[x] : w[k] < w[m]
              \/ \A k \in sub[x] : w[m] < w[k]
<1> DEFINE Fine(x, m) == \/ \A k \in sub[x] : w[k] < w[m]
                         \/ \A k \in sub[x] : w[m] < w[k]
           Bad == {x \in I : \E m \in I : m \notin sub[x] /\ ~Fine(x, m)}
           rank == [x \in Nodes |-> Cardinality(Nodes) - Size(sub)[x]]
<1>1. SUFFICES ASSUME Bad # {} PROVE FALSE
  OBVIOUS
<1>2. I \subseteq Nodes /\ \A x \in I : sub[x] \subseteq I
  BY Members1 DEF Shaped, Linked
<1>3. \A x \in Nodes : rank[x] \in Nat
  BY SizesGrow
<1>4. PICK x \in Bad : \A y \in Bad : rank[x] <= rank[y]
  BY <1>1, <1>2, <1>3, LeastRanked
<1>5. PICK m \in I : m \notin sub[x] /\ ~Fine(x, m)
  BY <1>4
<1>6. x \in I /\ x # T.head
  BY <1>4, <1>5, <1>2 DEF Shaped, Linked
<1> DEFINE p == T.parent[x]
           s == NodeProperty(T, x)
<1>7. p \in I /\ s \in Sides /\ T[s][p] = x
  BY <1>6, PropertyOf
<1>8. rank[p] < rank[x]
  BY <1>2, <1>6, <1>7, SizesGrow
<1>9. p \notin Bad
  BY <1>2, <1>3, <1>4, <1>6, <1>7, <1>8
<1> HIDE DEF rank, p, s
<1>10. /\ sub[p] = {p} \cup sub[x] \cup sub[T[Opposite(s)][p]]
       /\ \A k \in sub[x] : Beside(s, w[k], w[p])
       /\ \A k \in sub[T[Opposite(s)][p]] : Beside(Opposite(s), w[k], w[p])
  BY <1>7, UnderParent
<1>11. \A k \in I : w[k] \in Nat
  BY <1>2 DEF Weights
<1>12. CASE m \notin sub[p]
  <2>1. Fine(p, m)
    BY <1>5, <1>7, <1>9, <1>12
  <2>2. QED
    BY <2>1, <1>5, <1>10
<1>13. CASE m \in sub[p]
  <2>1. m = p \/ m \in sub[T[Opposite(s)][p]]
    BY <1>5, <1>10, <1>13
  <2>2. \A k \in sub[x] : k \in I
    BY <1>2, <1>6
  <2>3. \A k \in sub[x] : Beside(s, w[k], w[m])
    <3>1. CASE m = p
      BY <3>1, <1>10
    <3>2. CASE m \in sub[T[Opposite(s)][p]]
      <4>1. Beside(s, w[p], w[m])
        BY <3>2, <1>10, <1>7, <1>11, <1>5, BesideFlips DEF Sides, Opposite, Beside
      <4>2. QED
        BY <4>1, <2>2, <1>5, <1>7, <1>10, <1>11, BesideFlips
    <3>3. QED
      BY <2>1, <3>1, <3>2
  <2>4. QED
    BY <2>3, <1>5, <1>7 DEF Beside, Sides
<1>14. QED
  BY <1>12, <1>13

LEMMA Distinct ==
    ASSUME NEW T, NEW I, NEW sub, NEW w \in Weights, Shaped(T, I, sub, w),
           NEW m \in I, NEW k \in I, m # k
    PROVE  w[m] # w[k]
<1>1. m \in sub[m] /\ k \in sub[k] /\ w[m] \in Nat /\ w[k] \in Nat
  BY Members1 DEF Weights
<1>2. CASE m \notin sub[k]
  BY <1>1, <1>2, Intervals
<1>3. CASE m \in sub[k]
  <2>1. PICK s \in Sides : m \in sub[T[s][k]]
    BY <1>3 DEF Shaped, Linked, Sides
  <2>2. Beside(s, w[m], w[k])
    BY <2>1 DEF Shaped, InOrder
  <2>3. QED
    BY <2>2, <1>1 DEF Beside
<1>4. QED
  BY <1>2, <1>3

(* The node farthest on one side under n has the others on its other side. *)
LEMMA FarthestIs ==
    ASSUME NEW T, NEW I, NEW sub, NEW w \in Weights, Shaped(T, I, sub, w),
           NEW n \in I, NEW s \in Sides
    PROVE  LET e == Farthest(T, n, s)
           IN  /\ e \in sub[n] /\ e \in I /\ T[s][e] = NULL
               /\ \A k \in sub[n] : k # e => Beside(Opposite(s), w[k], w[e])
<1> DEFINE next == T[s]
           Q == {q \in I \X I : /\ q[2] \in sub[q[1]]
                                /\ \A k \in sub[q[1]] :
                                      k # q[2] => Beside(Opposite(s), w[k], w[q[2]])}
<1>1. next \in [Nodes -> Link] /\ I \in SUBSET Nodes /\ NULL \notin Nodes
  BY NodesAssumption DEF Shaped, Linked, Trees, Sides
<1>2. \A m \in Nodes \ I : next[m] = NULL
  BY DEF Shaped, Linked
<1>3. \A m \in I : next[m] \in I \cup {NULL}
  BY Members1
<1>4. \A m \in Nodes : next[m] # NULL => Size(sub)[next[m]] < Size(sub)[m]
  BY <1>2, SizesGrow
<1>5. /\ Size(sub) \in [Nodes -> Nat] /\ Cardinality(Nodes) \in Nat
      /\ \A m \in Nodes : Size(sub)[m] <= Cardinality(Nodes)
  BY SizesGrow DEF Size
<1>6. \A m \in I : w[m] \in Nat
  BY <1>1 DEF Weights
<1>7. \A m \in I : m \in sub[m] /\ sub[m] \subseteq I
  BY Members1
<1>8. sub[NULL] = {}
  BY DEF Shaped, Linked
<1>9. ASSUME NEW m \in I, next[m] = NULL PROVE <<m, m>> \in Q
  <2>1. sub[m] = {m} \cup sub[T[Opposite(s)][m]]
    BY <1>8, <1>9, UnderParent
  <2>2. \A k \in sub[T[Opposite(s)][m]] : Beside(Opposite(s), w[k], w[m])
    BY UnderParent
  <2>3. QED
    BY <1>7, <2>1, <2>2
<1>10. ASSUME NEW m \in I, NEW x \in I, next[m] # NULL, <<next[m], x>> \in Q
       PROVE  <<m, x>> \in Q
  <2> DEFINE c == next[m]
  <2>1. c \in I /\ x \in sub[c] /\ \A k \in sub[c] : k # x => Beside(Opposite(s), w[k], w[x])
    BY <1>3, <1>10
  <2>2. /\ sub[m] = {m} \cup sub[c] \cup sub[T[Opposite(s)][m]]
        /\ Beside(Opposite(s), w[m], w[x])
        /\ \A k \in sub[T[Opposite(s)][m]] : k \in I /\ Beside(Opposite(s), w[k], w[m])
    <3>1. Opposite(s) \in Sides
      BY UnderParent
    <3>2. QED
      BY <2>1, <3>1, UnderParent
  <2> HIDE DEF c
  <2>3. \A k \in sub[T[Opposite(s)][m]] : Beside(Opposite(s), w[k], w[x])
    BY <2>2, <1>6, UnderParent, BesideFlips
  <2>4. QED
    BY <2>1, <2>2, <2>3
<1> HIDE DEF Q, next
<1>11. /\ Ends(next)[n] \in I /\ next[Ends(next)[n]] = NULL
       /\ <<n, Ends(next)[n]>> \in Q
  BY <1>1, <1>3, <1>4, <1>5, <1>9, <1>10, EndsReached
<1>12. QED
  BY <1>11 DEF Farthest, next, Q

(* The first ancestor a node without right child is left of is the next    *)
(* one in order.                                                           *)
LEMMA AncestorIsNext ==
    ASSUME NEW T, NEW I, NEW sub, NEW w \in Weights, Shaped(T, I, sub, w),
           NEW e \in I, T.right[e] = NULL
    PROVE  LET a == AncestorRightOf(T, e)
           IN  \/ a = NULL /\ \A x \in I : w[x] <= w[e]
               \/ a \in I /\ w[e] < w[a] /\ \A x \in I : w[e] < w[x] => w[a] <= w[x]
<1> DEFINE next == Climb(T)
           rank == [x \in Nodes |-> Cardinality(Nodes) - Size(sub)[x]]
           Q == {q \in I \X I : /\ sub[q[1]] \subseteq sub[q[2]]
                                /\ \A x \in sub[q[2]] \ sub[q[1]], k \in sub[q[1]] : w[x] < w[k]}
           top == Ends(next)[e]
<1>1. /\ I \in SUBSET Nodes /\ NULL \notin Nodes /\ T.parent \in [Nodes -> Link]
      /\ sub[NULL] = {} /\ sub[T.head] = I
  BY NodesAssumption DEF Shaped, Linked, Trees
<1>2. next = [m \in Nodes |-> IF NodeProperty(T, m) = "right" THEN T.parent[m] ELSE NULL]
  BY <1>1 DEF Climb
<1> HIDE DEF next
<1>3. next \in [Nodes -> Link]
  BY <1>1, <1>2 DEF Link
<1>4. \A m \in I : next[m] # NULL => /\ m # T.head /\ next[m] = T.parent[m]
                                     /\ next[m] \in I /\ T.right[next[m]] = m
  <2>1. \A m \in I : NodeProperty(T, m) = "right" => m # T.head
    BY PropertyOf
  <2>2. \A m \in I : NodeProperty(T, m) = "right" => T.parent[m] \in I /\ T.right[T.parent[m]] = m
    BY <2>1, PropertyOf
  <2>3. QED
    BY <1>1, <1>2, <2>1, <2>2
<1>5. \A m \in Nodes \ I : next[m] = NULL
  BY <1>2 DEF Shaped, Linked
<1>6. \A m \in I : w[m] \in Nat /\ m \in sub[m] /\ sub[m] \subseteq I
  BY <1>1, Members1 DEF Weights
<1>7. /\ rank \in [Nodes -> Nat] /\ Cardinality(Nodes) \in Nat
      /\ \A m \in Nodes : rank[m] <= Cardinality(Nodes)
  BY SizesGrow
<1>8. \A m \in Nodes : next[m] # NULL => rank[next[m]] < rank[m]
  BY <1>1, <1>4, <1>5, SizesGrow
<1> HIDE DEF rank
<1>9. \A m \in I : next[m] = NULL => <<m, m>> \in Q
  OBVIOUS
<1>10. ASSUME NEW m \in I, NEW t \in I, next[m] # NULL, <<next[m], t>> \in Q
       PROVE  <<m, t>> \in Q
  <2> DEFINE p == next[m]
  <2>1. p \in I /\ T.right[p] = m
    BY <1>4, <1>10
  <2>2. sub[p] \subseteq sub[t] /\ \A x \in sub[t] \ sub[p], k \in sub[p] : w[x] < w[k]
    BY <1>10
  <2>3. /\ sub[p] = {p} \cup sub[T.left[p]] \cup sub[m]
        /\ \A k \in sub[m] : w[p] < w[k]
        /\ \A x \in sub[T.left[p]] : x \in I /\ w[x] < w[p]
    <3>1. sub[p] = {p} \cup sub[T.left[p]] \cup sub[m]
      BY <2>1 DEF Shaped, Linked
    <3>2. \A k \in sub[T["right"][p]] : Beside("right", w[k], w[p])
      BY <2>1 DEF Shaped, InOrder, Sides
    <3>3. \A x \in sub[T["left"][p]] : Beside("left", w[x], w[p])
      BY <2>1 DEF Shaped, InOrder, Sides
    <3>4. QED
      BY <2>1, <3>1, <3>2, <3>3, <1>6 DEF Beside
  <2> HIDE DEF p
  <2>4. \A x \in sub[p] \ sub[m], k \in sub[m] : w[x] < w[k]
    BY <2>1, <2>3, <1>6, <1>10
  <2>5. QED
    BY <2>2, <2>3, <2>4
<1>11. top \in I /\ next[top] = NULL /\ <<e, top>> \in Q
  <2> HIDE DEF Q
  <2>1. \A m \in I : next[m] \in I \cup {NULL}
    BY <1>4
  <2>2. I \in SUBSET Nodes
    BY <1>1
  <2>3. /\ Ends(next)[e] \in I /\ next[Ends(next)[e]] = NULL
        /\ <<e, Ends(next)[e]>> \in Q
    BY <2>1, <2>2, <1>3, <1>7, <1>8, <1>9, <1>10, EndsReached
  <2>4. QED
    BY <2>3
<1>12. AncestorRightOf(T, e) = IF NodeProperty(T, top) = "left" THEN T.parent[top] ELSE NULL
  BY DEF AncestorRightOf, next
<1> HIDE DEF top
<1>13. \A x \in sub[top] : w[x] <= w[e]
  <2>1. \A x \in sub[e] : x = e \/ w[x] < w[e]
    <3>1. sub[e] = {e} \cup sub[T.left[e]]
      BY <1>1 DEF Shaped, Linked
    <3>2. \A x \in sub[T["left"][e]] : Beside("left", w[x], w[e])
      BY DEF Shaped, InOrder, Sides
    <3>3. QED
      BY <3>1, <3>2 DEF Beside
  <2>2. \A x \in sub[top] : x \in sub[e] \/ w[x] < w[e]
    BY <1>6, <1>11
  <2>3. \A x \in sub[top] : w[x] \in Nat /\ w[e] \in Nat
    BY <1>6, <1>11
  <2>4. QED
    BY <2>1, <2>2, <2>3
<1>14. CASE top = T.head
  <2>1. NodeProperty(T, top) = "ROOT"
    BY <1>11, <1>14, PropertyOf
  <2>2. QED
    BY <2>1, <1>1, <1>12, <1>13, <1>14
<1>15. CASE top # T.head
  <2> DEFINE a == T.parent[top]
  <2>1. a \in I /\ NodeProperty(T, top) \in Sides /\ T[NodeProperty(T, top)][a] = top
    BY <1>11, <1>15, PropertyOf
  <2>2. NodeProperty(T, top) # "right"
    BY <2>1, <1>1, <1>2, <1>11
  <2>3. NodeProperty(T, top) = "left" /\ T.left[a] = top
    BY <2>1, <2>2 DEF Sides
  <2>4. AncestorRightOf(T, e) = a
    BY <2>3, <1>12
  <2> HIDE DEF a
  <2>5. e \in sub[top]
    BY <1>6, <1>11
  <2>6. /\ sub[a] = {a} \cup sub[top] \cup sub[T.right[a]]
        /\ \A k \in sub[top] : w[k] < w[a]
        /\ \A x \in sub[T.right[a]] : w[a] < w[x]
    <3>1. sub[a] = {a} \cup sub[top] \cup sub[T.right[a]]
      BY <2>1, <2>3 DEF Shaped, Linked
    <3>2. \A k \in sub[T["right"][a]] : Beside("right", w[k], w[a])
      BY <2>1 DEF Shaped, InOrder, Sides
    <3>3. \A x \in sub[T["left"][a]] : Beside("left", w[x], w[a])
      BY <2>1 DEF Shaped, InOrder, Sides
    <3>4. QED
      BY <2>3, <3>1, <3>2, <3>3 DEF Beside
  <2>7. ASSUME NEW x \in I, w[e] < w[x] PROVE w[a] <= w[x]
    <3>1. w[x] \in Nat /\ w[e] \in Nat /\ w[a] \in Nat
      BY <1>6, <2>1
    <3>2. x \notin sub[top]
      BY <3>1, <2>7, <1>13
    <3>3. CASE x \in sub[a]
      BY <3>1, <3>2, <3>3, <2>6
    <3>4. CASE x \notin sub[a]
      <4>1. e \in sub[a] /\ a \in sub[a]
        BY <2>5, <2>6
      <4>2. \/ \A k \in sub[a] : w[k] < w[x]
            \/ \A k \in sub[a] : w[x] < w[k]
        BY <3>4, <2>1, Intervals
      <4>3. QED
        BY <4>1, <4>2, <3>1, <2>7
    <3>5. QED
      BY <3>3, <3>4
  <2>8. QED
    BY <2>1, <2>4, <2>5, <2>6, <2>7
<1>16. QED
  BY <1>14, <1>15

LEMMA ValuesAreWeights == ValueOf \in Weights
BY ValueOfAssumption DEF Weights

LEMMA BothSides ==
    ASSUME NEW T, NEW I, NEW sub, NEW w \in Weights, Shaped(T, I, sub, w), NEW m \in I
    PROVE  /\ sub[m] = {m} \cup sub[T.left[m]] \cup sub[T.right[m]]
           /\ \A k \in sub[T.left[m]] : w[k] < w[m]
           /\ \A k \in sub[T.right[m]] : w[m] < w[k]
           /\ \A k \in sub[m] : k \in I /\ w[k] \in Nat
           /\ m \in sub[m]
<1>1. \A k \in sub[T["right"][m]] : Beside("right", w[k], w[m])
  BY DEF Shaped, InOrder, Sides
<1>2. \A k \in sub[T["left"][m]] : Beside("left", w[k], w[m])
  BY DEF Shaped, InOrder, Sides
<1>3. sub[m] = {m} \cup sub[T.left[m]] \cup sub[T.right[m]]
  BY DEF Shaped, Linked
<1>4. sub[m] \subseteq I /\ I \subseteq Nodes
  BY Members1 DEF Shaped, Linked
<1>5. QED
  BY <1>1, <1>2, <1>3, <1>4 DEF Beside, Weights

(* The descent ends at the smallest sufficient value under its start or,   *)
(* with nothing to its right, at the largest one that is not.              *)
LEMMA DescentEnds ==
    ASSUME NEW T, NEW I, NEW sub, Shaped(T, I, sub, ValueOf), NEW v \in Nat, NEW n \in I
    PROVE  LET e == Ends(Descent(T, v))[n]
           IN  /\ e \in sub[n]
               /\ v <= ValueOf[e] =>
                     \A k \in sub[n] : v <= ValueOf[k] => ValueOf[e] <= ValueOf[k]
               /\ ValueOf[e] < v =>
                     /\ T.right[e] = NULL
                     /\ \A k \in sub[n] : ValueOf[k] < v => ValueOf[k] <= ValueOf[e]
<1> DEFINE V == ValueOf
           next == Descent(T, v)
           Q == {q \in I \X I :
                   /\ q[2] \in sub[q[1]]
                   /\ v <= V[q[2]] => \A k \in sub[q[1]] : v <= V[k] => V[q[2]] <= V[k]
                   /\ V[q[2]] < v  => \A k \in sub[q[1]] : V[k] < v => V[k] <= V[q[2]]}
           e == Ends(next)[n]
<1>1. /\ I \in SUBSET Nodes /\ NULL \notin Nodes /\ DOMAIN T.parent = Nodes
      /\ T.value = ValueOf /\ sub[NULL] = {} /\ T \in Trees
  BY NodesAssumption DEF Shaped, Linked, Trees
<1>2. \A m \in I : V[m] \in Nat /\ ~Broken(NodeProperty(T, m))
  <2>1. \A m \in I : NodeProperty(T, m) \in Sides \cup {"ROOT"}
    BY ValuesAreWeights, PropertyOf
  <2>2. QED
    BY <2>1, <1>1, ValuesAreWeights DEF Broken, Sides, Weights
<1>3. ASSUME NEW m \in Nodes \ I
      PROVE  T.left[m] = NULL /\ T.right[m] = NULL
  BY DEF Shaped, Linked, Sides
<1>4. \A m \in I : next[m] = IF V[m] = v THEN NULL ELSE IF v < V[m] THEN T.left[m] ELSE T.right[m]
  <2>1. SUFFICES ASSUME NEW m \in I
                 PROVE  next[m] = IF V[m] = v THEN NULL
                                  ELSE IF v < V[m] THEN T.left[m] ELSE T.right[m]
    OBVIOUS
  <2>2. CASE V[m] = v
    BY <1>1, <1>2, <2>2 DEF Descent
  <2>3. CASE v < V[m]
    BY <1>1, <1>2, <2>3 DEF Descent
  <2>4. CASE V[m] < v
    BY <1>1, <1>2, <2>4 DEF Descent
  <2>5. QED
    BY <1>2, <2>2, <2>3, <2>4
<1>5. \A m \in Nodes \ I : next[m] = NULL
  <2>1. SUFFICES ASSUME NEW m \in Nodes \ I PROVE next[m] = NULL
    OBVIOUS
  <2>2. NodeProperty(T, m) \in {"ERROR", "CORRUPTED"}
    <3>1. T.parent[m] = NULL /\ m # T.head
      <4>1. T.head \in I \cup {NULL}
        BY DEF Shaped, Linked
      <4>2. QED
        BY <4>1, <1>1 DEF Shaped, Linked
    <3>2. QED
      BY <3>1, <1>1 DEF NodeProperty
  <2>3. QED
    BY <2>2, <1>1 DEF Descent, Broken
<1>6. \A m \in I : next[m] \in I \cup {NULL}
  BY <1>4, Members1, ValuesAreWeights DEF Sides
<1>7. next \in [Nodes -> Link]
  <2>1. next = [m \in Nodes |-> next[m]]
    <3>1. DOMAIN T.parent = Nodes
      BY <1>1
    <3>2. QED
      BY <3>1 DEF Descent
  <2> HIDE DEF next
  <2>2. QED
    BY <2>1, <1>1, <1>5, <1>6 DEF Link
<1> HIDE DEF next
<1>8. \A m \in Nodes : next[m] # NULL => Size(sub)[next[m]] < Size(sub)[m]
  <2>1. \A m \in I, s \in Sides : T[s][m] # NULL => Size(sub)[T[s][m]] < Size(sub)[m]
    BY SizesGrow, ValuesAreWeights
  <2>2. QED
    BY <2>1, <1>4, <1>5 DEF Sides
<1>9. /\ Size(sub) \in [Nodes -> Nat] /\ Cardinality(Nodes) \in Nat
      /\ \A m \in Nodes : Size(sub)[m] <= Cardinality(Nodes)
  BY SizesGrow, ValuesAreWeights DEF Size
<1>10. ASSUME NEW m \in I
       PROVE  /\ sub[m] = {m} \cup sub[T.left[m]] \cup sub[T.right[m]]
              /\ \A k \in sub[T.left[m]] : V[k] < V[m]
              /\ \A k \in sub[T.right[m]] : V[m] < V[k]
              /\ \A k \in sub[m] : k \in I /\ V[k] \in Nat
              /\ m \in sub[m]
  BY ValuesAreWeights, BothSides
<1> HIDE DEF V
<1>11. ASSUME NEW m \in I, next[m] = NULL
       PROVE  <<m, m>> \in Q /\ (V[m] < v => T.right[m] = NULL)
  <2>1. V[m] \in Nat /\ sub[m] \subseteq I
    BY <1>2, <1>10
  <2>2. CASE V[m] = v
    BY <2>1, <2>2, <1>10
  <2>3. CASE v < V[m]
    <3>1. sub[m] = {m} \cup sub[T.right[m]]
      BY <2>3, <2>1, <1>1, <1>4, <1>10, <1>11
    <3>2. QED
      BY <2>1, <2>3, <3>1, <1>10
  <2>4. CASE V[m] < v
    <3>1. sub[m] = {m} \cup sub[T.left[m]] /\ T.right[m] = NULL
      BY <2>4, <2>1, <1>1, <1>4, <1>10, <1>11
    <3>2. QED
      BY <2>1, <2>4, <3>1, <1>10
  <2>5. QED
    BY <2>1, <2>2, <2>3, <2>4
<1>12. ASSUME NEW m \in I, NEW x \in I, next[m] # NULL, <<next[m], x>> \in Q
       PROVE  <<m, x>> \in Q
  <2> DEFINE c == next[m]
  <2>1. /\ c \in I /\ x \in sub[c] /\ V[x] \in Nat /\ V[m] \in Nat
        /\ v <= V[x] => \A k \in sub[c] : v <= V[k] => V[x] <= V[k]
        /\ V[x] < v  => \A k \in sub[c] : V[k] < v => V[k] <= V[x]
    BY <1>2, <1>6, <1>12
  <2>2. CASE v < V[m]
    <3>1. c = T.left[m]
      BY <2>1, <2>2, <1>4
    <3>2. V[x] < V[m] /\ \A k \in sub[T.right[m]] : V[m] < V[k] /\ V[k] \in Nat
      BY <2>1, <3>1, <1>10
    <3> HIDE DEF c
    <3>3. QED
      BY <2>1, <2>2, <3>1, <3>2, <1>10
  <2>3. CASE V[m] < v
    <3>1. c = T.right[m]
      BY <2>1, <2>3, <1>4
    <3>2. V[m] < V[x] /\ \A k \in sub[T.left[m]] : V[k] < V[m] /\ V[k] \in Nat
      BY <2>1, <3>1, <1>10
    <3> HIDE DEF c
    <3>3. QED
      BY <2>1, <2>3, <3>1, <3>2, <1>10
  <2>4. V[m] # v
    BY <1>4, <1>12
  <2>5. QED
    BY <2>1, <2>2, <2>3, <2>4
<1>13. e \in I /\ next[e] = NULL /\ <<n, e>> \in Q
  <2> HIDE DEF Q
  <2>1. I \in SUBSET Nodes
    BY <1>1
  <2>2. /\ Ends(next)[n] \in I /\ next[Ends(next)[n]] = NULL
        /\ <<n, Ends(next)[n]>> \in Q
    BY <2>1, <1>6, <1>7, <1>8, <1>9, <1>11, <1>12, EndsReached
  <2>3. QED
    BY <2>2
<1>14. V[e] < v => T.right[e] = NULL
  BY <1>11, <1>13
<1>15. QED
  BY <1>13, <1>14 DEF V, next

(* rbt_findNode returns the smallest sufficient value.                     *)
LEMMA FindIs ==
    ASSUME NEW T, NEW I, NEW sub, Shaped(T, I, sub, ValueOf), NEW v \in Nat
    PROVE  LET f == FindUpperNearest(T, v)
           IN  \/ f = NULL /\ \A x \in I : ValueOf[x] < v
               \/ /\ f \in I /\ v <= ValueOf[f]
                  /\ \A x \in I : v <= ValueOf[x] => ValueOf[f] <= ValueOf[x]
<1> DEFINE V == ValueOf
<1>1. I \subseteq Nodes /\ sub[NULL] = {} /\ sub[T.head] = I /\ T.value = V
      /\ T.head \in I \cup {NULL}
  BY DEF Shaped, Linked, Trees
<1>2. \A m \in I : V[m] \in Nat
  BY <1>1, ValuesAreWeights DEF Weights
<1>3. CASE T.head = NULL
  <2>1. FindUpperNearest(T, v) = NULL
    BY <1>3 DEF FindUpperNearest, NodeProperty
  <2>2. QED
    BY <2>1, <1>1, <1>3
<1>4. CASE T.head # NULL
  <2> DEFINE e == Ends(Descent(T, v))[T.head]
  <2>1. T.head \in I /\ NodeProperty(T, T.head) = "ROOT"
    BY <1>1, <1>4, ValuesAreWeights, PropertyOf
  <2>2. /\ e \in I
        /\ v <= V[e] => \A k \in I : v <= V[k] => V[e] <= V[k]
        /\ V[e] < v => T.right[e] = NULL /\ \A k \in I : V[k] < v => V[k] <= V[e]
    BY <2>1, <1>1, DescentEnds
  <2>3. ~Broken(NodeProperty(T, e))
    BY <2>2, ValuesAreWeights, PropertyOf DEF Broken, Sides
  <2>4. FindUpperNearest(T, v) = IF v <= V[e] THEN e ELSE AncestorRightOf(T, e)
    <3>1. FindUpperNearest(T, v) = UpperNearestFrom(T, T.head, v)
      BY <2>1 DEF FindUpperNearest
    <3>2. CASE v <= V[e]
      BY <3>1, <3>2, <2>3, <1>1 DEF UpperNearestFrom
    <3>3. CASE ~(v <= V[e])
      <4>1. ~(V[e] >= v)
        BY <3>3, <2>2, <1>2
      <4>2. QED
        BY <3>1, <3>3, <4>1, <2>3, <1>1 DEF UpperNearestFrom
    <3>4. QED
      BY <3>2, <3>3
  <2> HIDE DEF e
  <2>5. CASE v <= V[e]
    BY <2>2, <2>4, <2>5
  <2>6. CASE V[e] < v
    <3> DEFINE a == AncestorRightOf(T, e)
    <3>1. \/ a = NULL /\ \A x \in I : V[x] <= V[e]
          \/ a \in I /\ V[e] < V[a] /\ \A x \in I : V[e] < V[x] => V[a] <= V[x]
      BY <2>2, <2>6, ValuesAreWeights, AncestorIsNext
    <3>2. FindUpperNearest(T, v) = a
      BY <2>2, <2>4, <2>6, <1>2
    <3> HIDE DEF a
    <3>3. CASE a = NULL /\ \A x \in I : V[x] <= V[e]
      <4>1. \A x \in I : V[x] < v
        BY <3>3, <2>2, <2>6, <1>2
      <4>2. QED
        BY <3>2, <3>3, <4>1
    <3>4. CASE a \in I /\ V[e] < V[a] /\ \A x \in I : V[e] < V[x] => V[a] <= V[x]
      <4>1. v <= V[a]
        BY <3>4, <2>2, <2>6, <1>2
      <4>2. \A x \in I : v <= V[x] => V[a] <= V[x]
        BY <3>4, <2>2, <2>6, <1>2
      <4>3. QED
        BY <3>2, <3>4, <4>1, <4>2
    <3>5. QED
      BY <3>1, <3>3, <3>4
  <2>7. QED
    BY <2>2, <2>5, <2>6, <1>2
<1>5. QED
  BY <1>3, <1>4

-----------------------------------------------------------------------------
(* Loops.                                                                  *)

LEMMA CountingUp ==
    ASSUME NEW n \in Nat, NEW S, 0 \in S, \A k \in 1 .. n : k - 1 \in S => k \in S
    PROVE  \A k \in 0 .. n : k \in S
<1> DEFINE Bad == {k \in 0 .. n : k \notin S}
<1>1. SUFFICES ASSUME Bad # {} PROVE FALSE
  OBVIOUS
<1>2. PICK k \in Bad : \A y \in Bad : k <= y
  <2>1. Bad \in SUBSET Nat
    OBVIOUS
  <2>2. QED
    BY <1>1, <2>1, LeastNumber
<1>3. k \in 1 .. n /\ k - 1 \in 0 .. n
  BY <1>2
<1>4. k - 1 \in S
  BY <1>2, <1>3
<1>5. QED
  BY <1>2, <1>3, <1>4

(* The results when G is applied again and again to what begins as s0.     *)
Repeats(K, S, G, s0, f) ==
    /\ f \in [0 .. K -> S] /\ f[0] = s0
    /\ \A k \in 1 .. K : f[k] = G[f[k - 1]]

StaysIn(S, G) == \A s \in S : G[s] \in S

LEMMA RunExists ==
    ASSUME NEW K \in Nat, NEW S, NEW G, StaysIn(S, G), NEW s0 \in S
    PROVE  \E f : Repeats(K, S, G, s0, f)
<1> DEFINE Fits(f, n) == f[0] = s0 /\ \A k \in 1 .. n : f[k] = G[f[k - 1]]
           Works == {n \in 0 .. K : \E f \in [0 .. K -> S] : Fits(f, n)}
<1>1. 0 \in Works
  <2> DEFINE f == [k \in 0 .. K |-> s0]
  <2>1. f \in [0 .. K -> S] /\ Fits(f, 0)
    OBVIOUS
  <2> HIDE DEF f
  <2>2. 0 \in 0 .. K
    OBVIOUS
  <2>3. QED
    BY <2>1, <2>2
<1>2. ASSUME NEW n \in 1 .. K, n - 1 \in Works PROVE n \in Works
  <2>1. PICK f \in [0 .. K -> S] : Fits(f, n - 1)
    BY <1>2
  <2> DEFINE g == [k \in 0 .. K |-> IF k = n THEN G[f[n - 1]] ELSE f[k]]
  <2>2. n - 1 \in 0 .. K /\ f[n - 1] \in S
    OBVIOUS
  <2>3. g \in [0 .. K -> S]
    BY <2>2 DEF StaysIn
  <2>4. g[0] = s0
    <3>1. 0 \in 0 .. K /\ n # 0
      OBVIOUS
    <3>2. QED
      BY <2>1, <3>1
  <2>5. ASSUME NEW k \in 1 .. n PROVE g[k] = G[g[k - 1]]
    <3>1. k \in 0 .. K /\ k - 1 \in 0 .. K /\ k - 1 # n
      OBVIOUS
    <3>2. g[k - 1] = f[k - 1]
      BY <3>1
    <3>3. CASE k = n
      BY <3>1, <3>2, <3>3
    <3>4. CASE k # n
      <4>1. k \in 1 .. n - 1
        BY <3>4
      <4>2. g[k] = f[k] /\ f[k] = G[f[k - 1]]
        BY <3>1, <3>4, <4>1, <2>1
      <4>3. QED
        BY <3>2, <4>2
    <3>5. QED
      BY <3>3, <3>4
  <2> HIDE DEF g
  <2>6. Fits(g, n)
    BY <2>4, <2>5
  <2>7. QED
    BY <2>3, <2>6, <1>2
<1> HIDE DEF Works
<1>3. K \in Works
  BY <1>1, <1>2, CountingUp
<1>4. QED
  BY <1>3 DEF Works, Repeats

(* The balancing loops go through states of a set their rounds stay in.    *)
LEMMA InsertRunIs ==
    ASSUME NEW T \in Trees, NEW n, NEW S, Again(T, n) \in S,
           \A s \in S : ~s.done => InsertRound(s.tree, s.node) \in S
    PROVE  /\ Rounds(T) = 2 * Cardinality(Nodes) /\ Rounds(T) \in Nat
           /\ \A k \in 0 .. Rounds(T) : InsertRun(T, n)[k] \in S
           /\ InsertRun(T, n)[0] = Again(T, n)
           /\ \A k \in 1 .. Rounds(T) :
                 InsertRun(T, n)[k] = IF InsertRun(T, n)[k - 1].done THEN InsertRun(T, n)[k - 1]
                                      ELSE InsertRound(InsertRun(T, n)[k - 1].tree,
                                                       InsertRun(T, n)[k - 1].node)
<1> DEFINE K == Rounds(T)
           Step(s) == IF s.done THEN s ELSE InsertRound(s.tree, s.node)
           Body(f) == [k \in 0 .. K |-> IF k = 0 THEN Again(T, n) ELSE Step(f[k - 1])]
           G == [s \in S |-> Step(s)]
           run == InsertRun(T, n)
<1>1. K = 2 * Cardinality(Nodes) /\ K \in Nat
  <2>1. Cardinality(Nodes) \in Nat
    BY NodesAssumption, FS_CardinalityType
  <2>2. QED
    BY <2>1 DEF Rounds, Trees
<1>2. run = CHOOSE f : f = Body(f)
  BY DEF InsertRun
<1>3. StaysIn(S, G)
  BY DEF StaysIn
<1> HIDE DEF K, run, Step
<1>4. PICK f \in [0 .. K -> S] : f[0] = Again(T, n) /\ \A k \in 1 .. K : f[k] = G[f[k - 1]]
  <2> DEFINE s0 == Again(T, n)
  <2>1. s0 \in S
    OBVIOUS
  <2> HIDE DEF G, s0
  <2>2. \E f : Repeats(K, S, G, s0, f)
    <3>1. K \in Nat
      BY <1>1
    <3>2. QED
      BY ONLY <2>1, <3>1, <1>3, RunExists
  <2>3. QED
    BY <2>2 DEF s0, Repeats
<1>5. f = Body(f)
  <2>1. ASSUME NEW k \in 0 .. K PROVE f[k] = Body(f)[k]
    <3>1. CASE k = 0
      BY <3>1, <1>4
    <3>2. CASE k # 0
      <4>1. k \in 1 .. K /\ k - 1 \in 0 .. K
        BY <3>2, <1>1
      <4>2. f[k] = Step(f[k - 1])
        BY <4>1, <1>4
      <4>3. QED
        BY <3>2, <4>2
    <3>3. QED
      BY <3>1, <3>2
  <2>2. QED
    BY <2>1
<1>6. run = Body(run)
  BY <1>2, <1>5
<1>7. run[0] = Again(T, n) /\ \A k \in 1 .. K : run[k] = Step(run[k - 1])
  <2> HIDE DEF G
  <2>1. \A k \in 0 .. K : run[k] = IF k = 0 THEN Again(T, n) ELSE Step(run[k - 1])
    BY <1>6
  <2>2. QED
    BY <2>1, <1>1
<1>8. \A k \in 0 .. K : run[k] \in S
  <2> DEFINE Good == {k \in 0 .. K : run[k] \in S}
  <2>1. 0 \in Good
    BY <1>1, <1>7
  <2>2. \A k \in 1 .. K : k - 1 \in Good => k \in Good
    BY <1>1, <1>7 DEF Step
  <2> HIDE DEF Good
  <2>3. \A k \in 0 .. K : k \in Good
    BY <2>1, <2>2, <1>1, CountingUp
  <2>4. QED
    BY <2>3 DEF Good
<1>9. QED
  BY <1>1, <1>7, <1>8 DEF K, run, Step

LEMMA RemoveRunIs ==
    ASSUME NEW T \in Trees, NEW n, NEW S, Again(T, n) \in S,
           \A s \in S : ~s.done => RemoveRound(s.tree, s.node) \in S
    PROVE  /\ Rounds(T) = 2 * Cardinality(Nodes) /\ Rounds(T) \in Nat
           /\ \A k \in 0 .. Rounds(T) : RemoveRun(T, n)[k] \in S
           /\ RemoveRun(T, n)[0] = Again(T, n)
           /\ \A k \in 1 .. Rounds(T) :
                 RemoveRun(T, n)[k] = IF RemoveRun(T, n)[k - 1].done THEN RemoveRun(T, n)[k - 1]
                                      ELSE RemoveRound(RemoveRun(T, n)[k - 1].tree,
                                                       RemoveRun(T, n)[k - 1].node)
<1> DEFINE K == Rounds(T)
           Step(s) == IF s.done THEN s ELSE RemoveRound(s.tree, s.node)
           Body(f) == [k \in 0 .. K |-> IF k = 0 THEN Again(T, n) ELSE Step(f[k - 1])]
           G == [s \in S |-> Step(s)]
           run == RemoveRun(T, n)
<1>1. K = 2 * Cardinality(Nodes) /\ K \in Nat
  <2>1. Cardinality(Nodes) \in Nat
    BY NodesAssumption, FS_CardinalityType
  <2>2. QED
    BY <2>1 DEF Rounds, Trees
<1>2. run = CHOOSE f : f = Body(f)
  BY DEF RemoveRun
<1>3. StaysIn(S, G)
  BY DEF StaysIn
<1> HIDE DEF K, run, Step
<1>4. PICK f \in [0 .. K -> S] : f[0] = Again(T, n) /\ \A k \in 1 .. K : f[k] = G[f[k - 1]]
  <2> DEFINE s0 == Again(T, n)
  <2>1. s0 \in S
    OBVIOUS
  <2> HIDE DEF G, s0
  <2>2. \E f : Repeats(K, S, G, s0, f)
    <3>1. K \in Nat
      BY <1>1
    <3>2. QED
      BY ONLY <2>1, <3>1, <1>3, RunExists
  <2>3. QED
    BY <2>2 DEF s0, Repeats
<1>5. f = Body(f)
  <2>1. ASSUME NEW k \in 0 .. K PROVE f[k] = Body(f)[k]
    <3>1. CASE k = 0
      BY <3>1, <1>4
    <3>2. CASE k # 0
      <4>1. k \in 1 .. K /\ k - 1 \in 0 .. K
        BY <3>2, <1>1
      <4>2. f[k] = Step(f[k - 1])
        BY <4>1, <1>4
      <4>3. QED
        BY <3>2, <4>2
    <3>3. QED
      BY <3>1, <3>2
  <2>2. QED
    BY <2>1
<1>6. run = Body(run)
  BY <1>2, <1>5
<1>7. run[0] = Again(T, n) /\ \A k \in 1 .. K : run[k] = Step(run[k - 1])
  <2> HIDE DEF G
  <2>1. \A k \in 0 .. K : run[k] = IF k = 0 THEN Again(T, n) ELSE Step(run[k - 1])
    BY <1>6
  <2>2. QED
    BY <2>1, <1>1
<1>8. \A k \in 0 .. K : run[k] \in S
  <2> DEFINE Good == {k \in 0 .. K : run[k] \in S}
  <2>1. 0 \in Good
    BY <1>1, <1>7
  <2>2. \A k \in 1 .. K : k - 1 \in Good => k \in Good
    BY <1>1, <1>7 DEF Step
  <2> HIDE DEF Good
  <2>3. \A k \in 0 .. K : k \in Good
    BY <2>1, <2>2, <1>1, CountingUp
  <2>4. QED
    BY <2>3 DEF Good
<1>9. QED
  BY <1>1, <1>7, <1>8 DEF K, run, Step

-----------------------------------------------------------------------------
(* Balancing after an insertion.                                           *)

Colors == {"RED", "BLACK"}

LEMMA SameLinks ==
    ASSUME NEW T, NEW I, NEW sub, NEW w \in Weights, Shaped(T, I, sub, w),
           NEW R \in Trees, R.head = T.head, R.parent = T.parent,
           R.left = T.left, R.right = T.right
    PROVE  Shaped(R, I, sub, w)
<1>1. \A q \in Sides, m \in Nodes : R[q][m] = T[q][m]
  BY DEF Sides
<1>2. T.head \in I \cup {NULL} /\ I \subseteq Nodes
  BY DEF Shaped, Linked
<1>3. InOrder(R, I, sub, w)
  BY <1>1, <1>2 DEF Shaped, InOrder
<1>4. Linked(R, I, sub)
  <2>1. T.parent[T.head] = R.parent[R.head]
    OBVIOUS
  <2>2. \A n \in I : n # R.head => R.parent[n] \in I /\ \E s \in Sides : R[s][R.parent[n]] = n
    BY <1>1, <1>2 DEF Shaped, Linked
  <2>3. \A n \in I, s \in Sides :
          /\ R[s][n] \in I \cup {NULL}
          /\ R[s][n] # NULL => R.parent[R[s][n]] = n
    BY <1>1, <1>2 DEF Shaped, Linked
  <2>4. \A n \in Nodes \ I : R.parent[n] = NULL /\ \A s \in Sides : R[s][n] = NULL
    BY <1>1 DEF Shaped, Linked
  <2>5. QED
    BY <2>1, <2>2, <2>3, <2>4 DEF Shaped, Linked
<1>5. QED
  BY <1>3, <1>4 DEF Shaped

LEMMA PaintShaped ==
    ASSUME NEW T, NEW I, NEW sub, NEW w \in Weights, Shaped(T, I, sub, w),
           NEW n \in Nodes, NEW c \in Colors
    PROVE  LET R == Paint(T, n, c)
           IN  /\ Shaped(R, I, sub, w) /\ R \in Trees /\ R.head = T.head /\ R.parent = T.parent
               /\ R.left = T.left /\ R.right = T.right
               /\ \A m \in Nodes : R.color[m] = IF m = n THEN c ELSE T.color[m]
<1> DEFINE R == Paint(T, n, c)
<1>1. T \in Trees
  BY DEF Shaped, Linked
<1>2. /\ R \in Trees /\ R.head = T.head /\ R.parent = T.parent
      /\ R.left = T.left /\ R.right = T.right
      /\ \A m \in Nodes : R.color[m] = IF m = n THEN c ELSE T.color[m]
  BY <1>1 DEF Trees, Paint, Colors
<1> HIDE DEF R
<1>3. Shaped(R, I, sub, w)
  BY <1>2, SameLinks
<1>4. QED
  BY <1>2, <1>3 DEF R

LEMMA SwapColorShaped ==
    ASSUME NEW T, NEW I, NEW sub, NEW w \in Weights, Shaped(T, I, sub, w),
           NEW a \in Nodes, NEW b \in Nodes, a # b
    PROVE  LET R == SwapColor(T, a, b)
           IN  /\ Shaped(R, I, sub, w) /\ R \in Trees /\ R.head = T.head /\ R.parent = T.parent
               /\ R.left = T.left /\ R.right = T.right
               /\ \A m \in Nodes : R.color[m] = IF m = a THEN T.color[b]
                                                ELSE IF m = b THEN T.color[a] ELSE T.color[m]
<1> DEFINE R == SwapColor(T, a, b)
<1>1. T \in Trees
  BY DEF Shaped, Linked
<1>2. /\ R \in Trees /\ R.head = T.head /\ R.parent = T.parent
      /\ R.left = T.left /\ R.right = T.right
      /\ \A m \in Nodes : R.color[m] = IF m = a THEN T.color[b]
                                       ELSE IF m = b THEN T.color[a] ELSE T.color[m]
  BY <1>1 DEF Trees, SwapColor
<1> HIDE DEF R
<1>3. Shaped(R, I, sub, w)
  BY <1>2, SameLinks
<1>4. QED
  BY <1>2, <1>3 DEF R

(* The tree after the first, inner rotation of an insertion, if there is   *)
(* one, and the node that then is below the grandparent.                   *)
Outer(T, n) ==
    LET red == Paint(T, n, "RED")
        p   == T.parent[n]
    IN  IF NodeProperty(T, n) = NodeProperty(T, p) THEN red
        ELSE Rotate(red, p, NodeProperty(T, p))

Upper(T, n) ==
    IF NodeProperty(T, n) = NodeProperty(T, T.parent[n]) THEN T.parent[n] ELSE n

(* What one round of the balancing does.                                   *)
InsertStep(T, I, n, S) ==
    LET p     == T.parent[n]
        g     == T.parent[p]
        side  == NodeProperty(T, p)
        u     == T[Opposite(side)][g]
        red   == Paint(T, n, "RED")
    IN  \/ n = T.head /\ S = Done(Paint(T, n, "BLACK"), n)
        \/ /\ n # T.head /\ p \in I /\ (p = T.head \/ T.color[p] = "BLACK")
           /\ S = Done(red, n)
        \/ /\ n # T.head /\ p \in I /\ p # T.head /\ g \in I /\ side \in Sides
           /\ NodeProperty(T, n) \in Sides
           /\ T.color[p] = "RED"
           /\ \/ /\ ColorOf(T, u) = "RED"
                 /\ S = Again([red EXCEPT !.color[p] = "BLACK", !.color[u] = "BLACK",
                                          !.color[g] = "RED"], g)
              \/ /\ ColorOf(T, u) # "RED"
                 /\ S = Done(Rotate(SwapColor(Outer(T, n), Upper(T, n), g), g,
                                    Opposite(side)), n)

LEMMA InsertCases ==
    ASSUME NEW T, NEW I, NEW sub, NEW w \in Weights, Shaped(T, I, sub, w), NEW n \in I
    PROVE  InsertStep(T, I, n, InsertRound(T, n))
<1> DEFINE p     == T.parent[n]
           g     == T.parent[p]
           side  == NodeProperty(T, p)
           u     == T[Opposite(side)][g]
           red   == Paint(T, n, "RED")
           S     == InsertRound(T, n)
           q     == NodeProperty(T, n)
<1>1. CASE n = T.head
  <2>1. q = "ROOT" /\ ~Broken(q)
    BY <1>1, PropertyOf DEF Broken
  <2>2. QED
    BY <1>1, <2>1 DEF InsertRound, InsertStep
<1>2. CASE n # T.head
  <2>1. p \in I /\ q \in Sides /\ ~Broken(q) /\ q # "ROOT"
    BY <1>2, PropertyOf DEF Broken, Sides
  <2>2. CASE p = T.head
    <3>1. side = "ROOT"
      BY <2>1, <2>2, PropertyOf
    <3>2. S = Done(red, n)
      BY <2>1, <3>1 DEF InsertRound, Sides
    <3>3. QED
      BY <1>2, <2>1, <2>2, <3>2 DEF InsertStep
  <2>3. CASE T.color[p] = "BLACK"
    <3>1. S = Done(red, n)
      BY <2>1, <2>3 DEF InsertRound, Sides
    <3>2. QED
      BY <1>2, <2>1, <2>3, <3>1 DEF InsertStep
  <2>4. CASE p # T.head /\ T.color[p] # "BLACK"
    <3>1. g \in I /\ side \in Sides
      BY <2>1, <2>4, PropertyOf
    <3>2. T.color[p] = "RED"
      <4>1. T \in Trees /\ p \in Nodes
        BY <2>1 DEF Shaped, Linked
      <4>2. QED
        BY <4>1, <2>4 DEF Trees
    <3>3. Uncle(T, n) = u
      BY <2>1, <3>1 DEF Uncle, Sibling, Sides
    <3> HIDE DEF p, g, side, u, q
    <3>4. CASE ColorOf(T, u) = "RED"
      <4>1. S = Again([red EXCEPT !.color[p] = "BLACK", !.color[u] = "BLACK",
                                  !.color[g] = "RED"], g)
        BY <2>1, <2>4, <3>1, <3>2, <3>3, <3>4 DEF InsertRound, Sides, p, g, side, q
      <4>2. QED
        BY <1>2, <2>1, <2>4, <3>1, <3>2, <3>4, <4>1 DEF p, g, side, u, q, InsertStep
    <3>5. CASE ColorOf(T, u) # "RED"
      <4>1. S = Done(Rotate(SwapColor(Outer(T, n), Upper(T, n), g), g, Opposite(side)), n)
        BY <2>1, <2>4, <3>1, <3>2, <3>3, <3>5
           DEF InsertRound, Sides, p, g, side, q, Outer, Upper
      <4>2. QED
        BY <1>2, <2>1, <2>4, <3>1, <3>2, <3>5, <4>1 DEF p, g, side, u, q, InsertStep
    <3>6. QED
      BY <3>4, <3>5
  <2>5. QED
    BY <2>2, <2>3, <2>4
<1>3. QED
  BY <1>1, <1>2

(* The inner rotation brings the red pair to the grandparent's outer side. *)
LEMMA OuterShaped ==
    ASSUME NEW T, NEW I, NEW sub, NEW w \in Weights, Shaped(T, I, sub, w), NEW n \in I,
           n # T.head, T.parent[n] # T.head
    PROVE  LET p    == T.parent[n]
               g    == T.parent[p]
               side == NodeProperty(T, p)
               U    == Outer(T, n)
               top  == Upper(T, n)
           IN  /\ \E sub2 : Shaped(U, I, sub2, w)
               /\ top \in {n, p} /\ top # g /\ n # p /\ n # g /\ p # g
               /\ p \in I /\ g \in I /\ side \in Sides
               /\ U.head = T.head /\ U[side][g] = top
               /\ \A m \in Nodes : U.color[m] = IF m = n THEN "RED" ELSE T.color[m]
<1> DEFINE p    == T.parent[n]
           g    == T.parent[p]
           side == NodeProperty(T, p)
           q    == NodeProperty(T, n)
           red  == Paint(T, n, "RED")
           U    == Outer(T, n)
           top  == Upper(T, n)
<1>1. /\ p \in I /\ q \in Sides /\ T[q][p] = n
      /\ g \in I /\ side \in Sides /\ T[side][g] = p
  BY PropertyOf
<1>2. n # p /\ n # g /\ p # g
  <2>1. Size(sub)[n] < Size(sub)[p] /\ Size(sub)[p] < Size(sub)[g]
    BY <1>1, SizesGrow
  <2>2. Size(sub)[n] \in Nat /\ Size(sub)[p] \in Nat /\ Size(sub)[g] \in Nat
    BY <1>1, SizesGrow, Members1
  <2>3. QED
    BY <2>1, <2>2
<1>3. n \in Nodes /\ "RED" \in Colors
  BY Members1 DEF Colors
<1>4. /\ Shaped(red, I, sub, w) /\ red.head = T.head /\ red.parent = T.parent
      /\ red.left = T.left /\ red.right = T.right
      /\ \A m \in Nodes : red.color[m] = IF m = n THEN "RED" ELSE T.color[m]
  BY <1>3, PaintShaped
<1>5. \A s \in Sides : red[s] = T[s]
  BY <1>4 DEF Sides
<1> HIDE DEF p, g, side, q, red
<1>6. CASE q = side
  <2>1. U = red /\ top = p
    BY <1>6 DEF Outer, Upper, red, p, q, side
  <2>2. QED
    BY <2>1, <1>1, <1>2, <1>4, <1>5 DEF p, g, side
<1>7. CASE q # side
  <2>1. U = Rotate(red, p, side) /\ top = n
    BY <1>7 DEF Outer, Upper, red, p, q, side
  <2>2. q = Opposite(side)
    BY <1>1, <1>7 DEF Sides, Opposite
  <2>3. red[Opposite(side)][p] = n /\ n # NULL
    BY <2>2, <1>1, <1>5, Members1
  <2> DEFINE sub2 == [sub EXCEPT ![n] = sub[p],
                                 ![p] = {p} \cup sub[red[side][p]] \cup sub[red[side][n]]]
             R == Rotate(red, p, side)
  <2>4. /\ Shaped(R, I, sub2, w) /\ R.color = red.color
        /\ R.head = IF p = red.head THEN n ELSE red.head
        /\ \A m \in I : m \notin {p, n} =>
              R[side][m] = IF red[side][m] = p THEN n ELSE red[side][m]
    BY <2>3, <1>1, <1>4, RotateShaped
  <2> HIDE DEF sub2, R
  <2>5. R[side][g] = n
    BY <2>4, <1>1, <1>2, <1>5
  <2>6. p # T.head
    BY DEF p
  <2>7. QED
    BY <2>1, <2>4, <2>5, <2>6, <1>1, <1>2, <1>4 DEF p, g, side, R
<1>8. QED
  BY <1>6, <1>7

RootBlack(T) == T.head # NULL => T.color[T.head] = "BLACK"

-----------------------------------------------------------------------------
(* Colours.                                                                *)

Shade(T, m) == IF T.color[m] = "BLACK" THEN 1 ELSE 0

(* Every way down from m passes h[m] black nodes.                          *)
Even(T, I, h) ==
    /\ h \in [Link -> Nat] /\ h[NULL] = 0
    /\ \A m \in I, q \in Sides : h[m] = h[T[q][m]] + Shade(T, m)

(* No red node is under a red one, except for x.                           *)
NoRedPair(T, I, x) ==
    \A m \in I : m # x /\ m # T.head /\ T.color[m] = "RED" => T.color[T.parent[m]] = "BLACK"

Balanced(T, I) == NoRedPair(T, I, NULL) /\ \E h : Even(T, I, h)

(* What an insertion leaves to be done is at n.                            *)
Pending(T, I, n) == /\ T.color[n] = "RED" /\ NoRedPair(T, I, n)
                    /\ \E h : Even(T, I, h)

(* A rotation that moves a red node up and exchanges the colours keeps the *)
(* numbers of black nodes.                                                 *)
LEMMA RotateEven ==
    ASSUME NEW T, NEW I, NEW sub, NEW w \in Weights, Shaped(T, I, sub, w),
           NEW n \in I, NEW s \in Sides, T[Opposite(s)][n] # NULL,
           NEW h, NEW U, U \in Trees, Even(U, I, h),
           U.left = T.left, U.right = T.right,
           U.color[T[Opposite(s)][n]] = "RED",
           T.color[n] = "RED", T.color[T[Opposite(s)][n]] = U.color[n],
           \A m \in I : m \notin {n, T[Opposite(s)][n]} => T.color[m] = U.color[m]
    PROVE  \E h2 : Even(Rotate(T, n, s), I, h2)
<1> DEFINE o  == Opposite(s)
           c  == T[o][n]
           R  == Rotate(T, n, s)
           h2 == [h EXCEPT ![c] = h[n], ![n] = h[c]]
<1>1. /\ R.color = T.color
      /\ R[s][c] = n /\ c \in I /\ c # n
      /\ R[s][n] = T[s][n] /\ R[o][n] = T[s][c] /\ R[o][c] = T[o][c]
      /\ \A q \in Sides, m \in I :
            m \notin {n, c} => R[q][m] = IF T[q][m] = n THEN c ELSE T[q][m]
  <2>1. Turned(T, I, n, s, R)
    BY RotateTurns
  <2> HIDE DEF R
  <2>2. QED
    BY <2>1 DEF Turned
<1>2. o \in Sides /\ s # o /\ Sides = {s, o}
  BY DEF Sides, Opposite
<1>3. /\ \A m \in I, q \in Sides : T[q][m] \in I \cup {NULL}
      /\ \A m \in I, q \in Sides : T[q][m] # NULL => T.parent[T[q][m]] = m
      /\ \A m \in I, q \in Sides : U[q][m] = T[q][m]
      /\ I \subseteq Nodes /\ NULL \notin Nodes
  BY NodesAssumption DEF Shaped, Linked, Sides
<1> HIDE DEF o, c, R
<1>4. /\ h \in [Link -> Nat] /\ h[NULL] = 0 /\ n \in Link /\ c \in Link /\ NULL \in Link
      /\ n # NULL /\ c # NULL
      /\ \A m \in I, q \in Sides : h[m] = h[T[q][m]] + Shade(U, m)
  BY <1>1, <1>3 DEF Even, Link
<1>5. /\ h2 \in [Link -> Nat] /\ h2[NULL] = 0 /\ h2[c] = h[n] /\ h2[n] = h[c]
      /\ \A m \in Link : m \notin {n, c} => h2[m] = h[m]
  BY <1>1, <1>4
<1> HIDE DEF h2
<1>6. U.color[c] = "RED" /\ T.color[c] = U.color[n] /\ T.color[n] = "RED"
  BY DEF c, o
<1>7. T[o][n] = c /\ T.parent[c] = n
  BY <1>2, <1>3, <1>4 DEF c
<1>8. ASSUME NEW m \in I, NEW q \in Sides, m \notin {n, c}
      PROVE  h2[m] = h2[R[q][m]] + Shade(R, m)
  <2>1. Shade(R, m) = Shade(U, m)
    BY <1>1, <1>8 DEF Shade, c, o
  <2>2. T[q][m] # c /\ T[q][m] \in Link
    BY <1>3, <1>4, <1>7, <1>8 DEF Link
  <2>3. h2[R[q][m]] = h[T[q][m]]
    BY <1>1, <1>5, <1>8, <2>2
  <2>4. h2[m] = h[m]
    BY <1>3, <1>5, <1>8 DEF Link
  <2>5. QED
    BY <2>1, <2>3, <2>4, <1>4
<1>9. ASSUME NEW q \in Sides
      PROVE  h2[c] = h2[R[q][c]] + Shade(R, c)
  <2>1. Shade(R, c) = Shade(U, n)
    BY <1>1, <1>6 DEF Shade
  <2>2. h[n] = h[c] + Shade(U, n)
    BY <1>2, <1>4, <1>7
  <2>3. h2[R[s][c]] = h[c]
    BY <1>1, <1>5
  <2>4. T[o][c] # n /\ T[o][c] # c /\ T[o][c] \in Link
    <3>1. T[o][c] # c
      BY <1>1, <1>2, Members1
    <3>2. T[o][c] \in I \cup {NULL}
      BY <1>1, <1>2, <1>3
    <3>3. T[o][c] # n
      <4>1. ASSUME T[o][c] = n PROVE FALSE
        <5>1. n # T.head /\ T.parent[n] = c
          BY <4>1, <1>1, <1>2, PropertyOf
        <5>2. c # T.head
          BY <1>2, <1>7, <1>1, PropertyOf
        <5>3. Size(sub)[n] < Size(sub)[c] /\ Size(sub)[c] < Size(sub)[n]
          BY <5>1, <5>2, <1>1, <1>7, SizesGrow
        <5>4. Size(sub)[n] \in Nat /\ Size(sub)[c] \in Nat
          BY <1>1, <1>3, SizesGrow
        <5>5. QED
          BY <5>3, <5>4
      <4>2. QED
        BY <4>1
    <3>4. QED
      BY <3>1, <3>2, <3>3, <1>3 DEF Link
  <2>5. h2[R[o][c]] = h[c]
    <3>1. h[c] = h[T[o][c]] + Shade(U, c) /\ Shade(U, c) = 0
      BY <1>1, <1>2, <1>4, <1>6 DEF Shade
    <3>2. h[T[o][c]] \in Nat
      BY <2>4, <1>4
    <3>3. QED
      BY <3>1, <3>2, <2>4, <1>1, <1>5
  <2>6. QED
    BY <2>1, <2>2, <2>3, <2>5, <1>2, <1>5
<1>10. ASSUME NEW q \in Sides
       PROVE  h2[n] = h2[R[q][n]] + Shade(R, n)
  <2>1. Shade(R, n) = 0
    BY <1>1, <1>6 DEF Shade
  <2>2. h[T[s][n]] = h[c]
    <3>1. h[n] = h[T[s][n]] + Shade(U, n) /\ h[n] = h[c] + Shade(U, n)
      BY <1>2, <1>4, <1>7
    <3>2. h[T[s][n]] \in Nat /\ h[c] \in Nat /\ Shade(U, n) \in Nat
      BY <1>3, <1>4 DEF Link, Shade
    <3>3. QED
      BY <3>1, <3>2
  <2>3. h[T[s][c]] = h[c]
    <3>1. h[c] = h[T[s][c]] + Shade(U, c) /\ Shade(U, c) = 0
      BY <1>1, <1>4, <1>6 DEF Shade
    <3>2. h[T[s][c]] \in Nat
      BY <1>1, <1>3, <1>4 DEF Link
    <3>3. QED
      BY <3>1, <3>2
  <2>4. T[s][n] # n /\ T[s][n] # c /\ T[s][c] # c
    <3>1. T[s][n] # n /\ T[s][c] # c
      BY <1>1, Members1
    <3>2. T[s][n] # c
      BY <1>1, <1>2, <1>4, <1>7, PropertyOf
    <3>3. QED
      BY <3>1, <3>2
  <2>5. T[s][c] # n
    <3>1. R[o][n] # n
      <4>1. \E sub2 : Shaped(R, I, sub2, w)
        BY RotateTurns DEF R
      <4>2. QED
        BY <4>1, <1>2, Members1
    <3>2. QED
      BY <3>1, <1>1
  <2>6. h2[T[s][n]] = h[c] /\ h2[T[s][c]] = h[c]
    BY <2>2, <2>3, <2>4, <2>5, <1>1, <1>3, <1>5 DEF Link
  <2>7. h[c] \in Nat
    BY <1>4
  <2>8. QED
    BY <2>1, <2>6, <2>7, <1>1, <1>2, <1>5
<1>11. Even(R, I, h2)
  BY <1>5, <1>8, <1>9, <1>10 DEF Even
<1>12. QED
  BY <1>11 DEF R

(* After the inner rotation the red pair is on the outer side, and what is *)
(* between it and the grandparent's other side is black.                   *)
LEMMA OuterEven ==
    ASSUME NEW T, NEW I, NEW sub, NEW w \in Weights, Shaped(T, I, sub, w), NEW n \in I,
           n # T.head, T.parent[n] # T.head, T.color[T.parent[n]] = "RED", Pending(T, I, n)
    PROVE  LET p    == T.parent[n]
               g    == T.parent[p]
               side == NodeProperty(T, p)
               U    == Outer(T, n)
               top  == Upper(T, n)
           IN  /\ \E h : Even(U, I, h)
               /\ U.color = T.color /\ U.color[g] = "BLACK" /\ U.color[top] = "RED"
               /\ U[side][top] # NULL /\ U[side][top] \in I
               /\ NoRedPair(U, I, U[side][top])
               /\ U[Opposite(side)][g] = T[Opposite(side)][g]
<1> DEFINE p    == T.parent[n]
           g    == T.parent[p]
           side == NodeProperty(T, p)
           o    == Opposite(side)
           q    == NodeProperty(T, n)
           red  == Paint(T, n, "RED")
           U    == Outer(T, n)
           top  == Upper(T, n)
<1>1. /\ p \in I /\ q \in Sides /\ T[q][p] = n
      /\ g \in I /\ side \in Sides /\ T[side][g] = p
  BY PropertyOf
<1>2. n # p /\ n # g /\ p # g
  BY OuterShaped
<1>3. n \in Nodes /\ n # NULL /\ "RED" \in Colors /\ I \subseteq Nodes /\ T \in Trees
  BY Members1 DEF Colors, Shaped, Linked
<1>4. /\ Shaped(red, I, sub, w) /\ red.head = T.head /\ red.parent = T.parent
      /\ red.left = T.left /\ red.right = T.right /\ red \in Trees
  BY <1>3, PaintShaped
<1>5. red.color = T.color
  <2>1. \A m \in Nodes : red.color[m] = IF m = n THEN "RED" ELSE T.color[m]
    BY <1>3, PaintShaped
  <2>2. T.color[n] = "RED" /\ T.color \in [Nodes -> Colors] /\ red.color \in [Nodes -> Colors]
    BY <1>3, <1>4 DEF Pending, Trees, Colors
  <2> HIDE DEF red
  <2>3. QED
    BY <2>1, <2>2
<1>6. /\ \A s \in Sides : red[s] = T[s]
      /\ o \in Sides /\ o # side /\ Sides = {side, o}
  BY <1>1, <1>4 DEF Sides, Opposite
<1> HIDE DEF red
<1>7. PICK h : Even(T, I, h)
  BY DEF Pending
<1>8. Even(red, I, h)
  BY <1>5, <1>6, <1>7 DEF Even, Shade
<1>9. T.color[g] = "BLACK" /\ T.color[p] = "RED" /\ T.color[n] = "RED"
  BY <1>1, <1>2 DEF Pending, NoRedPair
<1>10. \A m \in I : m # n /\ m # T.head /\ T.color[m] = "RED" => T.color[T.parent[m]] = "BLACK"
  BY DEF Pending, NoRedPair
<1> DEFINE Fine == /\ \E k : Even(U, I, k)
                   /\ U.color = T.color /\ U.color[g] = "BLACK" /\ U.color[top] = "RED"
                   /\ U[side][top] # NULL /\ U[side][top] \in I
                   /\ NoRedPair(U, I, U[side][top])
                   /\ U[o][g] = T[o][g]
<1>11. SUFFICES Fine
  OBVIOUS
<1>12. CASE q = side
  <2>1. U = red /\ top = p
    BY <1>12 DEF Outer, Upper, red, p, q, side
  <2> HIDE DEF p, g, side, o, q, U, top
  <2>2. U[side][top] = n
    BY <2>1, <1>1, <1>6, <1>12
  <2>3. NoRedPair(U, I, n)
    BY <2>1, <1>4, <1>5, <1>10 DEF NoRedPair
  <2>4. QED
    BY <2>1, <2>2, <2>3, <1>3, <1>5, <1>6, <1>8, <1>9 DEF Fine
<1>13. CASE q # side
  <2>1. U = Rotate(red, p, side) /\ top = n
    BY <1>13 DEF Outer, Upper, red, p, q, side
  <2>2. q = o
    BY <1>1, <1>6, <1>13
  <2>3. red[o][p] = n
    BY <2>2, <1>1, <1>6
  <2> DEFINE R == Rotate(red, p, side)
  <2>4. /\ R.color = red.color
        /\ R.head = IF p = red.head THEN n ELSE red.head
        /\ R[side][n] = p
        /\ R.parent[p] = n /\ R.parent[n] = red.parent[p]
        /\ \A m \in I : m \notin {p, n} /\ m # red[side][n] => R.parent[m] = red.parent[m]
        /\ \A s \in Sides, m \in I : m \notin {p, n} =>
              R[s][m] = IF red[s][m] = p THEN n ELSE red[s][m]
    <3>1. red[Opposite(side)][p] = n /\ n # NULL /\ side \in Sides /\ p \in I
      BY <2>3, <1>1, <1>3
    <3> HIDE DEF p, side
    <3>2. Turned(red, I, p, side, R)
      BY <3>1, <1>4, RotateTurns
    <3> HIDE DEF R
    <3>3. QED
      BY <3>1, <3>2 DEF Turned
  <2> HIDE DEF R
  <2>5. \E k : Even(R, I, k)
    <3>1. red[Opposite(side)][p] # NULL
      BY <2>3, <1>3
    <3>2. /\ red.color[red[Opposite(side)][p]] = "RED" /\ red.color[p] = "RED"
          /\ red.color[red[Opposite(side)][p]] = red.color[p]
      BY <2>3, <1>5, <1>9
    <3> HIDE DEF p, side, o
    <3>3. QED
      BY <3>1, <3>2, <1>1, <1>4, <1>8, RotateEven DEF R
  <2> HIDE DEF p, g, side, o, q, U, top
  <2>6. R[o][g] = T[o][g]
    <3>1. T[o][g] # p
      BY <1>1, <1>2, <1>6, PropertyOf
    <3>2. QED
      BY <3>1, <2>4, <1>1, <1>2, <1>6
  <2>7. ASSUME NEW m \in I, m # p, m # R.head, R.color[m] = "RED"
        PROVE  R.color[R.parent[m]] = "BLACK"
    <3>1. CASE m = n
      BY <3>1, <2>4, <1>4, <1>5, <1>9 DEF g
    <3>2. CASE m # n /\ m = T[side][n]
      <4>1. T.parent[m] = n /\ m # T.head
        BY <3>2, <1>1, PropertyOf
      <4>2. QED
        BY <4>1, <3>2, <2>4, <2>7, <1>5, <1>9, <1>10
    <3>3. CASE m # n /\ m # T[side][n]
      <4>1. R.parent[m] = T.parent[m]
        BY <3>3, <2>4, <2>7, <1>1, <1>4, <1>6
      <4>2. m # T.head
        BY <2>4, <2>7, <1>4, <1>1 DEF p
      <4>3. QED
        BY <4>1, <4>2, <3>3, <2>4, <2>7, <1>5, <1>10
    <3>4. QED
      BY <3>1, <3>2, <3>3
  <2>8. NoRedPair(R, I, p)
    BY <2>7 DEF NoRedPair
  <2>9. p # NULL
    BY <1>1, Members1
  <2>10. QED
    BY <2>1, <2>4, <2>5, <2>6, <2>8, <2>9, <1>1, <1>5, <1>9 DEF Fine, R
<1>14. QED
  BY <1>12, <1>13

(* One round ends with a balanced tree or hands on what is to be done.     *)
LEMMA InsertRoundEven ==
    ASSUME NEW T, NEW I, NEW sub, NEW w \in Weights, Shaped(T, I, sub, w), NEW n \in I,
           n # T.head => RootBlack(T), Pending(T, I, n)
    PROVE  LET S == InsertRound(T, n)
           IN  IF S.done THEN Balanced(S.tree, I) ELSE Pending(S.tree, I, S.node)
<1> DEFINE p     == T.parent[n]
           g     == T.parent[p]
           side  == NodeProperty(T, p)
           o     == Opposite(side)
           u     == T[o][g]
           red   == Paint(T, n, "RED")
           S     == InsertRound(T, n)
           Fine  == IF S.done THEN Balanced(S.tree, I) ELSE Pending(S.tree, I, S.node)
<1>1. /\ n \in Nodes /\ T.head \in I /\ I \subseteq Nodes /\ "RED" \in Colors /\ "BLACK" \in Colors
      /\ NULL \notin Nodes /\ T \in Trees
  BY NodesAssumption, Members1 DEF Colors, Shaped, Linked
<1>2. ASSUME NEW V, Balanced(V, I), S = Done(V, n)
      PROVE  Fine
  BY <1>2 DEF Done
<1>3. /\ red.head = T.head /\ red.parent = T.parent
      /\ red.left = T.left /\ red.right = T.right /\ red \in Trees
  BY <1>1, PaintShaped
<1>4. red.color = T.color
  <2>1. \A m \in Nodes : red.color[m] = IF m = n THEN "RED" ELSE T.color[m]
    BY <1>1, PaintShaped
  <2>2. T.color[n] = "RED" /\ T.color \in [Nodes -> Colors] /\ red.color \in [Nodes -> Colors]
    BY <1>1, <1>3 DEF Pending, Trees, Colors
  <2> HIDE DEF red
  <2>3. QED
    BY <2>1, <2>2
<1>5. PICK h : Even(T, I, h)
  BY DEF Pending
<1>6. /\ \A m \in I : m # n /\ m # T.head /\ T.color[m] = "RED" => T.color[T.parent[m]] = "BLACK"
      /\ T.color[n] = "RED"
  BY DEF Pending, NoRedPair
<1>7. /\ \A m \in I, q \in Sides : T[q][m] \in I \cup {NULL}
      /\ \A m \in I, q \in Sides : T[q][m] # NULL => T.parent[T[q][m]] = m
      /\ T.parent[T.head] = NULL
  <2>1. T.head # NULL
    BY <1>1
  <2>2. QED
    BY <2>1 DEF Shaped, Linked
<1>8. /\ h \in [Link -> Nat] /\ h[NULL] = 0
      /\ \A m \in I, q \in Sides : h[m] = h[T[q][m]] + Shade(T, m)
      /\ I \subseteq Link
  BY <1>1, <1>5 DEF Even, Link
<1>9. InsertStep(T, I, n, S)
  BY InsertCases
<1>10. SUFFICES Fine
  BY DEF Fine
<1> HIDE DEF Fine, red
<1>11. CASE n = T.head /\ S = Done(Paint(T, n, "BLACK"), n)
  <2> DEFINE V  == Paint(T, n, "BLACK")
             h2 == [h EXCEPT ![n] = h[n] + 1]
  <2>1. /\ V.head = T.head /\ V.parent = T.parent /\ V.left = T.left /\ V.right = T.right
        /\ \A m \in Nodes : V.color[m] = IF m = n THEN "BLACK" ELSE T.color[m]
    BY <1>1, PaintShaped
  <2> HIDE DEF V
  <2>2. /\ h2 \in [Link -> Nat] /\ h2[n] = h[n] + 1
        /\ \A m \in Link : m # n => h2[m] = h[m]
    BY <1>1, <1>8 DEF Link
  <2> HIDE DEF h2
  <2>3. ASSUME NEW m \in I, NEW q \in Sides PROVE h2[m] = h2[V[q][m]] + Shade(V, m)
    <3>1. V[q][m] = T[q][m] /\ T[q][m] \in Link
      BY <2>1, <1>7, <1>8 DEF Sides, Link
    <3>2. T[q][m] # n
      BY <1>1, <1>7, <1>11
    <3>3. h2[V[q][m]] = h[T[q][m]] /\ h[T[q][m]] \in Nat
      BY <3>1, <3>2, <2>2, <1>8
    <3>4. CASE m = n
      <4>1. Shade(V, m) = 1 /\ Shade(T, m) = 0
        BY <3>4, <2>1, <1>1, <1>6 DEF Shade
      <4>2. h[m] = h[T[q][m]] + 0
        BY <4>1, <1>8
      <4>3. QED
        BY <3>3, <3>4, <4>1, <4>2, <2>2
    <3>5. CASE m # n
      <4>1. Shade(V, m) = Shade(T, m)
        BY <3>5, <2>1, <1>1 DEF Shade
      <4>2. h[m] = h[T[q][m]] + Shade(T, m)
        BY <1>8
      <4>3. h2[m] = h[m]
        BY <3>5, <2>2, <1>8
      <4>4. QED
        BY <3>3, <4>1, <4>2, <4>3
    <3>6. QED
      BY <3>4, <3>5
  <2>4. Even(V, I, h2)
    BY <2>2, <2>3, <1>1, <1>8 DEF Even, Link
  <2>5. NoRedPair(V, I, NULL)
    <3>1. ASSUME NEW m \in I, m # V.head, V.color[m] = "RED" PROVE V.color[V.parent[m]] = "BLACK"
      <4>1. m # n /\ T.color[m] = "RED" /\ m # T.head
        BY <3>1, <2>1, <1>1, <1>11
      <4>2. T.color[T.parent[m]] = "BLACK" /\ T.parent[m] \in I
        BY <4>1, <1>6, PropertyOf
      <4>3. QED
        BY <4>2, <2>1, <1>1
    <3>2. QED
      BY <3>1 DEF NoRedPair
  <2>6. Balanced(V, I)
    BY <2>4, <2>5 DEF Balanced
  <2>7. QED
    BY <2>6, <1>2, <1>11 DEF V
<1>12. CASE /\ n # T.head /\ p \in I /\ (p = T.head \/ T.color[p] = "BLACK")
            /\ S = Done(red, n)
  <2>1. T.color[p] = "BLACK"
    BY <1>12, <1>1 DEF RootBlack
  <2>2. NoRedPair(red, I, NULL)
    BY <2>1, <1>3, <1>4, <1>6 DEF NoRedPair
  <2>3. Even(red, I, h)
    BY <1>3, <1>4, <1>5 DEF Even, Shade, Sides
  <2>4. Balanced(red, I)
    BY <2>2, <2>3 DEF Balanced
  <2>5. QED
    BY <2>4, <1>2, <1>12
<1>13. CASE /\ n # T.head /\ p \in I /\ p # T.head /\ g \in I /\ side \in Sides
            /\ T.color[p] = "RED" /\ ColorOf(T, u) = "RED"
            /\ S = Again([red EXCEPT !.color[p] = "BLACK", !.color[u] = "BLACK",
                                     !.color[g] = "RED"], g)
  <2> DEFINE V  == [red EXCEPT !.color[p] = "BLACK", !.color[u] = "BLACK", !.color[g] = "RED"]
             h2 == [h EXCEPT ![p] = h[p] + 1, ![u] = h[u] + 1]
  <2>1. o \in Sides /\ o # side /\ Sides = {side, o}
    BY <1>13 DEF Sides, Opposite
  <2>2. u \in I /\ u # NULL /\ T.color[u] = "RED"
    <3>1. u \in I \cup {NULL}
      BY <2>1, <1>7, <1>13
    <3>2. QED
      BY <3>1, <1>13, <1>1 DEF ColorOf
  <2>4. n # p /\ n # g /\ p # g
    BY <1>13, OuterShaped
  <2>6. T.color[g] = "BLACK"
    BY <2>4, <1>6, <1>13
  <2>20. /\ p = T.parent[n] /\ g = T.parent[p] /\ side = NodeProperty(T, p)
         /\ u = T[o][g] /\ o = Opposite(side)
    OBVIOUS
  <2> HIDE DEF p, g, u, o, side
  <2>3. T[side][g] = p /\ T.parent[u] = g
    <3>1. T[side][g] = p
      BY <2>20, <1>13, PropertyOf
    <3>2. T.parent[u] = g
      BY <2>1, <2>2, <2>20, <1>7, <1>13
    <3>3. QED
      BY <3>1, <3>2
  <2>5. u # p /\ u # g
    <3>1. p \in I /\ g \in I /\ side \in Sides /\ T[side][g] = p
      BY <2>3, <1>13
    <3>2. T[Opposite(side)][g] # p
      BY <3>1, PropertyOf
    <3>3. T[o][g] # g
      BY <2>1, <3>1, Members1
    <3>4. QED
      BY <3>2, <3>3, <2>20
  <2>7. u # n
    BY <2>3, <2>4, <2>20
  <2>8. /\ V.head = T.head /\ V.parent = T.parent
        /\ V.left = T.left /\ V.right = T.right
        /\ \A m \in Nodes : V.color[m] = IF m = g THEN "RED"
                                         ELSE IF m = u \/ m = p THEN "BLACK" ELSE T.color[m]
    <3>1. p \in Nodes /\ g \in Nodes /\ u \in Nodes
      BY <2>2, <1>1, <1>13
    <3>2. QED
      BY <3>1, <2>5, <1>3, <1>4 DEF Trees
  <2>9. /\ h2 \in [Link -> Nat] /\ h2[p] = h[p] + 1 /\ h2[u] = h[u] + 1
        /\ \A m \in Link : m # p /\ m # u => h2[m] = h[m]
    <3>1. p \in Link /\ u \in Link
      BY <2>2, <1>8, <1>13
    <3>2. h[p] + 1 \in Nat /\ h[u] + 1 \in Nat
      BY <3>1, <1>8
    <3>3. QED
      BY <3>1, <3>2, <2>5, <1>8
  <2> HIDE DEF V, h2
  <2>10. \A m \in I, q \in Sides : V[q][m] = T[q][m] /\ T[q][m] \in Link /\ h[T[q][m]] \in Nat
    BY <2>8, <1>7, <1>8 DEF Sides, Link
  <2>11. ASSUME NEW m \in I, NEW q \in Sides, m # g PROVE h2[m] = h2[V[q][m]] + Shade(V, m)
    <3>1. T[q][m] # p /\ T[q][m] # u
      <4>1. p # NULL /\ T.parent[p] = g
        BY <1>1, <1>13 DEF g
      <4>2. QED
        BY <4>1, <2>2, <2>3, <2>11, <1>7
    <3>2. h2[V[q][m]] = h[T[q][m]]
      BY <3>1, <2>9, <2>10
    <3>3. h[m] = h[T[q][m]] + Shade(T, m)
      BY <1>8
    <3>4. CASE m = p \/ m = u
      <4>1. Shade(V, m) = 1 /\ Shade(T, m) = 0 /\ h2[m] = h[m] + 1
        BY <3>4, <2>2, <2>8, <2>9, <2>11, <1>1, <1>13 DEF Shade
      <4>2. QED
        BY <3>2, <3>3, <4>1, <2>10
    <3>5. CASE m # p /\ m # u
      <4>1. Shade(V, m) = Shade(T, m) /\ h2[m] = h[m]
        BY <3>5, <2>8, <2>9, <2>11, <1>1, <1>8 DEF Shade
      <4>2. QED
        BY <3>2, <3>3, <4>1
    <3>6. QED
      BY <3>4, <3>5
  <2>12. ASSUME NEW q \in Sides PROVE h2[g] = h2[V[q][g]] + Shade(V, g)
    <3>1. Shade(V, g) = 0 /\ Shade(T, g) = 1
      BY <2>6, <2>8, <1>1, <1>13 DEF Shade
    <3>2. T[q][g] = p \/ T[q][g] = u
      BY <2>1, <2>3 DEF u
    <3>3. h2[T[q][g]] = h[T[q][g]] + 1
      BY <3>2, <2>9
    <3>4. h[g] = h[T[q][g]] + 1
      BY <3>1, <1>8, <1>13
    <3>5. h2[g] = h[g]
      BY <2>4, <2>5, <2>9, <1>8, <1>13
    <3>6. h[T[q][g]] \in Nat /\ V[q][g] = T[q][g]
      BY <2>10, <1>13
    <3>7. QED
      BY <3>1, <3>3, <3>4, <3>5, <3>6
  <2>13. Even(V, I, h2)
    <3>1. h2[NULL] = 0
      BY <2>2, <2>9, <1>1, <1>8, <1>13 DEF Link
    <3>2. QED
      BY <3>1, <2>9, <2>11, <2>12 DEF Even
  <2>14. NoRedPair(V, I, g)
    <3>1. ASSUME NEW m \in I, m # g, m # V.head, V.color[m] = "RED"
          PROVE  V.color[V.parent[m]] = "BLACK"
      <4>1. m # p /\ m # u /\ T.color[m] = "RED" /\ m # T.head
        BY <3>1, <2>8, <1>1
      <4>2. T.parent[m] \in I /\ T.parent[m] # g
        <5>1. T.parent[m] \in I /\ \E s \in Sides : T[s][T.parent[m]] = m
          BY <4>1, PropertyOf
        <5>2. QED
          BY <5>1, <4>1, <2>1, <2>3 DEF u
      <4>3. CASE m = n
        BY <4>3, <2>4, <2>8, <1>1, <1>13 DEF p
      <4>4. CASE m # n
        <5>1. T.color[T.parent[m]] = "BLACK"
          BY <4>1, <4>4, <1>6
        <5>2. QED
          BY <5>1, <4>2, <2>8, <1>1
      <4>5. QED
        BY <4>3, <4>4
    <3>2. QED
      BY <3>1 DEF NoRedPair
  <2>15. V.color[g] = "RED"
    BY <2>8, <1>1, <1>13
  <2>16. Pending(V, I, g)
    BY <2>13, <2>14, <2>15 DEF Pending
  <2>17. S.tree = V /\ S.node = g /\ S.done = FALSE
    <3> HIDE DEF S
    <3>1. QED
      BY <1>13 DEF Again, V
  <2>18. QED
    BY <2>16, <2>17 DEF Fine
<1>14. CASE /\ n # T.head /\ p \in I /\ p # T.head /\ T.color[p] = "RED"
            /\ ColorOf(T, u) # "RED"
            /\ S = Done(Rotate(SwapColor(Outer(T, n), Upper(T, n), g), g, o), n)
  <2> DEFINE top == Upper(T, n)
             U   == Outer(T, n)
             X   == SwapColor(U, top, g)
             V   == Rotate(X, g, o)
             low == U[side][top]
  <2>1. /\ \E sub2 : Shaped(U, I, sub2, w)
        /\ top \in {n, p} /\ top # g /\ n # p /\ n # g /\ p # g
        /\ p \in I /\ g \in I /\ side \in Sides
        /\ U.head = T.head /\ U[side][g] = top
    BY <1>14, OuterShaped
  <2>2. /\ \E k : Even(U, I, k)
        /\ U.color = T.color /\ U.color[g] = "BLACK" /\ U.color[top] = "RED"
        /\ low # NULL /\ low \in I /\ NoRedPair(U, I, low)
        /\ U[o][g] = u
    BY <1>14, OuterEven
  <2>3. o \in Sides /\ o # side /\ Sides = {side, o} /\ Opposite(o) = side
    BY <2>1 DEF Sides, Opposite
  <2> HIDE DEF top, U, V, side, o, g, p, u, S
  <2>4. PICK sub2 : Shaped(U, I, sub2, w)
    BY <2>1
  <2>5. top \in I /\ top # NULL /\ U \in Trees
    <3>1. n \in I
      OBVIOUS
    <3>2. top \in I
      BY <3>1, <2>1
    <3>3. U \in Trees
      BY <2>4 DEF Shaped, Linked
    <3>4. QED
      BY <3>2, <3>3, <1>1
  <2>6. /\ Shaped(X, I, sub2, w) /\ X.head = U.head /\ X.parent = U.parent
        /\ X.left = U.left /\ X.right = U.right
        /\ \A m \in Nodes : X.color[m] = IF m = top THEN U.color[g]
                                         ELSE IF m = g THEN U.color[top] ELSE U.color[m]
    BY <2>1, <2>4, <2>5, <1>1, SwapColorShaped
  <2> HIDE DEF X
  <2>7. /\ X[Opposite(o)][g] = top /\ X[Opposite(o)][g] # NULL
        /\ \A q \in Sides : X[q] = U[q]
    BY <2>1, <2>3, <2>5, <2>6 DEF Sides
  <2>8. /\ V.color = X.color /\ V.head = IF g = X.head THEN top ELSE X.head
        /\ V.parent[g] = top /\ V.parent[top] = X.parent[g]
        /\ \A m \in I : m \notin {g, top} /\ m # X[o][top] => V.parent[m] = X.parent[m]
    <3>1. Turned(X, I, g, o, V)
      BY <2>1, <2>3, <2>6, <2>7, RotateTurns DEF V
    <3>2. QED
      BY <3>1, <2>7 DEF Turned
  <2>9. X.color[top] = "BLACK" /\ X.color[g] = "RED"
        /\ \A m \in I : m \notin {g, top} => X.color[m] = U.color[m]
    BY <2>1, <2>2, <2>5, <2>6, <1>1
  <2>10. \E k : Even(V, I, k)
    <3>1. PICK k : Even(U, I, k)
      BY <2>2
    <3>2. /\ U.color[X[Opposite(o)][g]] = "RED" /\ X.color[g] = "RED"
          /\ X.color[X[Opposite(o)][g]] = U.color[g]
          /\ \A m \in I : m \notin {g, X[Opposite(o)][g]} => X.color[m] = U.color[m]
      BY <2>2, <2>7, <2>9
    <3>3. QED
      BY <3>1, <3>2, <2>1, <2>3, <2>5, <2>6, <2>7, RotateEven DEF V
  <2>11. \A m \in I : m # low /\ m # U.head /\ U.color[m] = "RED" => U.color[U.parent[m]] = "BLACK"
    BY <2>2 DEF NoRedPair
  <2>12. /\ U.parent[top] = g /\ U.parent[low] = top
         /\ \A q \in Sides, m \in I, k \in I : U[q][k] = m => U.parent[m] = k /\ m # U.head
         /\ \A m \in I : m # U.head => U.parent[m] \in I /\ \E q \in Sides : U[q][U.parent[m]] = m
    <3>1. \A q \in Sides, m \in I, k \in I : U[q][k] = m => U.parent[m] = k /\ m # U.head
      BY <2>4, PropertyOf
    <3>2. \A m \in I : m # U.head => U.parent[m] \in I /\ \E q \in Sides : U[q][U.parent[m]] = m
      BY <2>4 DEF Shaped, Linked
    <3>3. U[side][top] = low
      BY DEF low
    <3>4. QED
      BY <3>1, <3>2, <3>3, <2>1, <2>2, <2>5
  <2>13. ASSUME NEW m \in I, m # V.head, V.color[m] = "RED" PROVE V.color[V.parent[m]] = "BLACK"
    <3>1. m # top
      BY <2>13, <2>8, <2>9
    <3>2. CASE m = g
      BY <3>2, <2>8, <2>9
    <3>3. CASE m # g /\ m = U[o][top]
      <4>1. m # low /\ U.parent[m] = top /\ m # U.head
        <5>1. U[o][top] # U[side][top]
          BY <3>3, <2>3, <2>4, <2>5, PropertyOf
        <5>2. QED
          BY <5>1, <3>3, <2>3, <2>5, <2>12 DEF low
      <4>2. U.color[m] = "RED"
        BY <2>13, <2>8, <2>9, <3>1, <3>3
      <4>3. QED
        BY <4>1, <4>2, <2>2, <2>11
    <3>4. CASE m # g /\ m # U[o][top]
      <4>1. V.parent[m] = U.parent[m] /\ U.color[m] = "RED"
        BY <3>1, <3>4, <2>3, <2>6, <2>7, <2>8, <2>9, <2>13
      <4>2. m # U.head
        BY <3>4, <2>6, <2>8, <2>13
      <4>3. CASE m = low
        BY <4>1, <4>3, <2>8, <2>9, <2>12
      <4>4. CASE m # low
        <5>1. U.color[U.parent[m]] = "BLACK" /\ U.parent[m] \in I
          BY <4>1, <4>2, <4>4, <2>11, <2>12
        <5>2. U.parent[m] # top
          BY <5>1, <2>2
        <5>3. U.parent[m] # g
          <6>1. ASSUME U.parent[m] = g PROVE FALSE
            <7>1. m = top \/ m = u
              BY <6>1, <4>2, <2>1, <2>2, <2>3, <2>12
            <7>2. m = u /\ u # NULL
              BY <7>1, <3>1, <1>1
            <7>3. T.color[u] # "RED"
              BY <7>2, <1>14 DEF ColorOf
            <7>4. QED
              BY <7>2, <7>3, <4>1, <2>2
          <6>2. QED
            BY <6>1
        <5>4. QED
          BY <5>1, <5>2, <5>3, <4>1, <2>8, <2>9
      <4>5. QED
        BY <4>3, <4>4
    <3>5. QED
      BY <3>2, <3>3, <3>4
  <2>14. NoRedPair(V, I, NULL)
    BY <2>13 DEF NoRedPair
  <2>15. Balanced(V, I)
    BY <2>10, <2>14 DEF Balanced
  <2>16. S = Done(V, n)
    BY <1>14 DEF V, X, U, top
  <2>17. QED
    BY <2>15, <2>16, <1>2 DEF S
<1>15. QED
  <2> HIDE DEF S
  <2>1. QED
    BY <1>9, <1>11, <1>12, <1>13, <1>14 DEF InsertStep, red

(* One round keeps the tree; it keeps the root black or hands the root on, *)
(* and what it hands on has more nodes under it.                           *)
LEMMA InsertRoundKeeps ==
    ASSUME NEW T, NEW I, NEW sub, NEW w \in Weights, Shaped(T, I, sub, w), NEW n \in I,
           n # T.head => RootBlack(T)
    PROVE  LET S == InsertRound(T, n)
           IN  /\ S \in [tree : Trees, node : Nodes, done : BOOLEAN]
               /\ S.done => RootBlack(S.tree) /\ \E sub2 : Shaped(S.tree, I, sub2, w)
               /\ ~S.done => /\ Shaped(S.tree, I, sub, w)
                             /\ S.node \in I
                             /\ S.node # S.tree.head => RootBlack(S.tree)
                             /\ Size(sub)[n] < Size(sub)[S.node]
<1> DEFINE p     == T.parent[n]
           g     == T.parent[p]
           side  == NodeProperty(T, p)
           u     == T[Opposite(side)][g]
           red   == Paint(T, n, "RED")
           S     == InsertRound(T, n)
           Fine  == /\ S \in [tree : Trees, node : Nodes, done : BOOLEAN]
                    /\ S.done => RootBlack(S.tree) /\ \E sub2 : Shaped(S.tree, I, sub2, w)
                    /\ ~S.done => /\ Shaped(S.tree, I, sub, w)
                                  /\ S.node \in I
                                  /\ S.node # S.tree.head => RootBlack(S.tree)
                                  /\ Size(sub)[n] < Size(sub)[S.node]
<1>1. n \in Nodes /\ T.head \in I /\ I \subseteq Nodes /\ "RED" \in Colors /\ "BLACK" \in Colors
  BY Members1 DEF Colors, Shaped, Linked
<1>2. ASSUME NEW V, NEW sub2, Shaped(V, I, sub2, w), RootBlack(V), S = Done(V, n)
      PROVE  Fine
  <2>1. V \in Trees
    BY <1>2 DEF Shaped, Linked
  <2> HIDE DEF S
  <2>2. S.tree = V /\ S.node = n /\ S.done = TRUE
    BY <1>2 DEF Done
  <2>3. S \in [tree : Trees, node : Nodes, done : BOOLEAN]
    BY <2>1, <1>1, <1>2 DEF Done
  <2>4. QED
    BY <1>2, <2>2, <2>3
<1>3. /\ Shaped(red, I, sub, w) /\ red.head = T.head /\ red.parent = T.parent
      /\ red.left = T.left /\ red.right = T.right /\ red \in Trees
      /\ \A m \in Nodes : red.color[m] = IF m = n THEN "RED" ELSE T.color[m]
  BY <1>1, PaintShaped
<1>9. SUFFICES Fine
  BY DEF Fine
<1> HIDE DEF Fine, red
<1>4. CASE n = T.head /\ S = Done(Paint(T, n, "BLACK"), n)
  <2> DEFINE V == Paint(T, n, "BLACK")
  <2>1. /\ Shaped(V, I, sub, w) /\ V.head = T.head
        /\ \A m \in Nodes : V.color[m] = IF m = n THEN "BLACK" ELSE T.color[m]
    BY <1>1, PaintShaped
  <2> HIDE DEF V
  <2>2. RootBlack(V)
    BY <2>1, <1>1, <1>4 DEF RootBlack
  <2>3. QED
    BY <2>1, <2>2, <1>2, <1>4 DEF V
<1>5. CASE n # T.head /\ S = Done(red, n)
  <2>1. RootBlack(red)
    BY <1>1, <1>3, <1>5 DEF RootBlack
  <2>2. QED
    BY <2>1, <1>2, <1>3, <1>5
<1>6. CASE /\ n # T.head /\ p \in I /\ p # T.head /\ g \in I /\ side \in Sides
           /\ ColorOf(T, u) = "RED"
           /\ S = Again([red EXCEPT !.color[p] = "BLACK", !.color[u] = "BLACK",
                                    !.color[g] = "RED"], g)
  <2> DEFINE V == [red EXCEPT !.color[p] = "BLACK", !.color[u] = "BLACK", !.color[g] = "RED"]
  <2>1. u \in I
    <3>1. u \in I \cup {NULL}
      BY <1>6, Members1 DEF Sides, Opposite
    <3>2. QED
      BY <3>1, <1>6 DEF ColorOf
  <2>2. /\ V \in Trees /\ V.head = red.head /\ V.parent = red.parent
        /\ V.left = red.left /\ V.right = red.right
        /\ \A m \in Nodes : V.color[m] = IF m = g THEN "RED"
                                         ELSE IF m = u THEN "BLACK"
                                         ELSE IF m = p THEN "BLACK" ELSE red.color[m]
    <3> HIDE DEF p, g, u
    <3>1. p \in Nodes /\ g \in Nodes /\ u \in Nodes
      BY <2>1, <1>1, <1>6
    <3>2. QED
      BY <3>1, <1>3 DEF Trees
  <2> HIDE DEF V
  <2>3. Shaped(V, I, sub, w)
    BY <2>2, <1>3, SameLinks
  <2>4. g # V.head => RootBlack(V)
    BY <2>2, <1>1, <1>3, <1>6 DEF RootBlack
  <2>5. Size(sub)[n] < Size(sub)[g]
    <3>1. Size(sub)[n] < Size(sub)[p] /\ Size(sub)[p] < Size(sub)[g]
      BY <1>6, SizesGrow
    <3>2. Size(sub)[n] \in Nat /\ Size(sub)[p] \in Nat /\ Size(sub)[g] \in Nat
      BY <1>1, <1>6, SizesGrow
    <3>3. QED
      BY <3>1, <3>2
  <2>6. S.tree = V /\ S.node = g /\ S.done = FALSE
    <3> HIDE DEF S
    <3>1. QED
      BY <1>6 DEF Again, V
  <2>7. S \in [tree : Trees, node : Nodes, done : BOOLEAN]
    <3> HIDE DEF S
    <3>1. QED
      BY <2>2, <1>1, <1>6 DEF Again, V
  <2> HIDE DEF S, g
  <2>8. g \in I
    BY <1>6
  <2>9. QED
    BY <2>3, <2>4, <2>5, <2>6, <2>7, <2>8 DEF Fine
<1>7. CASE /\ n # T.head /\ p # T.head
           /\ S = Done(Rotate(SwapColor(Outer(T, n), Upper(T, n), g), g, Opposite(side)), n)
  <2> DEFINE top == Upper(T, n)
             U   == Outer(T, n)
             X   == SwapColor(U, top, g)
             V   == Rotate(X, g, Opposite(side))
  <2>1. /\ \E sub2 : Shaped(U, I, sub2, w)
        /\ top \in {n, p} /\ top # g /\ n # p /\ n # g /\ p # g
        /\ p \in I /\ g \in I /\ side \in Sides
        /\ U.head = T.head /\ U[side][g] = top
        /\ \A m \in Nodes : U.color[m] = IF m = n THEN "RED" ELSE T.color[m]
    BY <1>7, OuterShaped
  <2> HIDE DEF top, U, V, side, g, p, S
  <2>2. PICK sub2 : Shaped(U, I, sub2, w)
    BY <2>1
  <2>3. top \in I /\ top # NULL
    BY <2>1, Members1
  <2>4. /\ Shaped(X, I, sub2, w) /\ X.head = U.head
        /\ X.left = U.left /\ X.right = U.right
        /\ \A m \in Nodes : X.color[m] = IF m = top THEN U.color[g]
                                         ELSE IF m = g THEN U.color[top] ELSE U.color[m]
    BY <2>1, <2>2, <2>3, <1>1, SwapColorShaped
  <2> HIDE DEF X
  <2>5. Opposite(side) \in Sides /\ Opposite(Opposite(side)) = side /\ X[side][g] = top
    BY <2>1, <2>4 DEF Sides, Opposite
  <2> DEFINE s == Opposite(side)
             sub3 == [sub2 EXCEPT ![top] = sub2[g],
                                  ![g] = {g} \cup sub2[X[s][g]] \cup sub2[X[s][top]]]
  <2>6. Shaped(V, I, sub3, w) /\ V.color = X.color
        /\ V.head = IF g = X.head THEN top ELSE X.head
    <3> HIDE DEF s
    <3>1. s \in Sides /\ Opposite(s) = side
      BY <2>5 DEF s
    <3>2. X[Opposite(s)][g] = top
      BY <3>1, <2>5
    <3>3. QED
      BY <3>1, <3>2, <2>1, <2>3, <2>4, RotateShaped DEF V, s
  <2>7. RootBlack(V)
    <3>1. T.color[T.head] = "BLACK" /\ T.head \in Nodes /\ g \in Nodes /\ top \in Nodes
      BY <2>1, <2>3, <1>1, <1>7, Members1 DEF RootBlack
    <3>2. CASE g = T.head
      BY <3>1, <3>2, <2>1, <2>4, <2>6 DEF RootBlack
    <3>3. CASE g # T.head
      BY <3>1, <3>3, <2>1, <2>4, <2>6, <1>7 DEF RootBlack
    <3>4. QED
      BY <3>2, <3>3
  <2>8. S = Done(V, n)
    BY <1>7 DEF V, X, U, top
  <2>9. QED
    BY <2>6, <2>7, <2>8, <1>2 DEF S
<1>8. InsertStep(T, I, n, S)
  BY InsertCases
<1>10. QED
  <2> HIDE DEF S
  <2>1. QED
    BY <1>4, <1>5, <1>6, <1>7, <1>8 DEF InsertStep, red

(* The balancing ends, after fewer rounds than there are nodes, with the   *)
(* root black, and leaves nothing to be done.                              *)
LEMMA InsertBalanceKeeps ==
    ASSUME NEW T, NEW I, NEW sub, NEW w \in Weights, Shaped(T, I, sub, w), NEW n \in I,
           n # T.head => RootBlack(T)
    PROVE  LET R == InsertBalance(T, n)
           IN  /\ RootBlack(R) /\ \E sub2 : Shaped(R, I, sub2, w)
               /\ Pending(T, I, n) => Balanced(R, I)
<1> DEFINE Due == Pending(T, I, n)
           Left(s) == IF s.done THEN Balanced(s.tree, I) ELSE Pending(s.tree, I, s.node)
           St == {s \in [tree : Trees, node : Nodes, done : BOOLEAN] :
                    /\ Due => Left(s)
                    /\ s.done => RootBlack(s.tree) /\ \E sub2 : Shaped(s.tree, I, sub2, w)
                    /\ ~s.done => /\ Shaped(s.tree, I, sub, w) /\ s.node \in I
                                  /\ s.node # s.tree.head => RootBlack(s.tree)}
           run == InsertRun(T, n)
           K   == Rounds(T)
           Go  == {k \in 0 .. K : ~run[k].done => k < Size(sub)[run[k].node]}
<1>1. T \in Trees /\ n \in Nodes /\ I \subseteq Nodes
  BY DEF Shaped, Linked
<1>2. Again(T, n) \in St
  BY <1>1 DEF Again
<1>3. ASSUME NEW s \in St, ~s.done
      PROVE  /\ InsertRound(s.tree, s.node) \in St
             /\ ~InsertRound(s.tree, s.node).done =>
                   Size(sub)[s.node] < Size(sub)[InsertRound(s.tree, s.node).node]
  <2> DEFINE V == s.tree
             m == s.node
             S == InsertRound(V, m)
  <2>1. Shaped(V, I, sub, w) /\ m \in I /\ (m # V.head => RootBlack(V))
    BY <1>3
  <2>5. Due => Pending(V, I, m)
    BY <1>3
  <2> HIDE DEF V, m, Due
  <2>2. /\ S \in [tree : Trees, node : Nodes, done : BOOLEAN]
        /\ S.done => RootBlack(S.tree) /\ \E sub2 : Shaped(S.tree, I, sub2, w)
        /\ ~S.done => /\ Shaped(S.tree, I, sub, w)
                      /\ S.node \in I
                      /\ S.node # S.tree.head => RootBlack(S.tree)
                      /\ Size(sub)[m] < Size(sub)[S.node]
    BY <2>1, InsertRoundKeeps
  <2>6. Due => IF S.done THEN Balanced(S.tree, I) ELSE Pending(S.tree, I, S.node)
    BY <2>1, <2>5, InsertRoundEven
  <2> HIDE DEF S
  <2>3. S \in St /\ (~S.done => Size(sub)[m] < Size(sub)[S.node])
    BY <2>2, <2>6
  <2>4. QED
    BY <2>3 DEF S, V, m
<1> HIDE DEF St, run, K
<1>4. /\ K = 2 * Cardinality(Nodes) /\ K \in Nat
      /\ \A k \in 0 .. K : run[k] \in St
      /\ run[0] = Again(T, n)
      /\ \A k \in 1 .. K :
            run[k] = IF run[k - 1].done THEN run[k - 1]
                     ELSE InsertRound(run[k - 1].tree, run[k - 1].node)
  BY <1>1, <1>2, <1>3, InsertRunIs DEF run, K
<1>5. /\ Cardinality(Nodes) \in Nat
      /\ \A m \in Nodes : Size(sub)[m] \in Nat /\ Size(sub)[m] <= Cardinality(Nodes)
      /\ 1 <= Size(sub)[n]
  BY SizesGrow
<1>6. \A k \in 0 .. K : run[k].node \in Nodes
  BY <1>4 DEF St
<1>7. 0 \in Go
  BY <1>4, <1>5, <1>1 DEF Again
<1>8. ASSUME NEW k \in 1 .. K, k - 1 \in Go PROVE k \in Go
  <2>1. k - 1 \in 0 .. K /\ k \in 0 .. K /\ k - 1 \in Nat
    BY <1>4
  <2>2. CASE run[k - 1].done
    BY <2>1, <2>2, <1>4
  <2>3. CASE ~run[k - 1].done
    <3>1. run[k - 1] \in St /\ run[k] = InsertRound(run[k - 1].tree, run[k - 1].node)
      BY <2>1, <2>3, <1>4
    <3>2. ~run[k].done => Size(sub)[run[k - 1].node] < Size(sub)[run[k].node]
      BY <3>1, <2>3, <1>3
    <3>3. k - 1 < Size(sub)[run[k - 1].node]
      BY <1>8, <2>3
    <3>4. /\ Size(sub)[run[k - 1].node] \in Nat
          /\ Size(sub)[run[k].node] \in Nat
      BY <2>1, <1>5, <1>6
    <3>5. ~run[k].done => k < Size(sub)[run[k].node]
      BY <3>2, <3>3, <3>4
    <3>6. QED
      BY <2>1, <3>5
  <2>4. QED
    BY <2>2, <2>3
<1> HIDE DEF Go
<1>9. K \in Go
  BY <1>4, <1>7, <1>8, CountingUp
<1>10. run[K].done
  <2>1. K \in 0 .. K
    BY <1>4
  <2>2. Size(sub)[run[K].node] <= Cardinality(Nodes) /\ Size(sub)[run[K].node] \in Nat
    BY <2>1, <1>5, <1>6
  <2>3. ~(K < Size(sub)[run[K].node])
    BY <2>2, <1>4, <1>5
  <2>4. QED
    BY <2>3, <1>9 DEF Go
<1>11. /\ RootBlack(run[K].tree) /\ \E sub2 : Shaped(run[K].tree, I, sub2, w)
       /\ Due => Balanced(run[K].tree, I)
  BY <1>4, <1>10 DEF St
<1>12. QED
  BY <1>11 DEF InsertBalance, run, K

-----------------------------------------------------------------------------
(* Insertion.                                                              *)

(* The value of n fits next to that of p: no node of the tree but p is     *)
(* between them.                                                           *)
NextTo(I, w, n, p) ==
    \A m \in I : m # p => w[m] # w[n] /\ (w[m] < w[n] <=> w[m] < w[p])

Attached(T, n, p, s) == [T EXCEPT ![s][p] = n, !.parent[n] = p]

(* A new leaf is hung at a free link of the node its value is next to.     *)
LEMMA AttachShaped ==
    ASSUME NEW T, NEW I, NEW sub, NEW w \in Weights, Shaped(T, I, sub, w),
           NEW n \in Nodes \ I, NEW p \in I, NEW s \in Sides, T[s][p] = NULL,
           NextTo(I, w, n, p), Beside(s, w[n], w[p])
    PROVE  LET R == Attached(T, n, p, s)
           IN  /\ \E sub2 : Shaped(R, I \cup {n}, sub2, w)
               /\ R.head = T.head /\ R.color = T.color
<1> DEFINE o    == Opposite(s)
           R    == Attached(T, n, p, s)
           J    == I \cup {n}
           sub2 == [k \in Link |-> IF k = n THEN {n}
                                   ELSE IF p \in sub[k] THEN sub[k] \cup {n} ELSE sub[k]]
<1>1. o \in Sides /\ s # o /\ Sides = {s, o}
  BY DEF Sides, Opposite
<1>2. /\ T \in Trees /\ I \subseteq Nodes /\ NULL \notin Nodes
      /\ n # NULL /\ n \notin I /\ p # n /\ p \in Nodes
      /\ T.head \in I /\ T.head # n /\ T.head # NULL
      /\ sub \in [Link -> SUBSET I] /\ sub[NULL] = {} /\ sub[T.head] = I
      /\ T.parent[T.head] = NULL
  <2>1. T.head \in I
    BY Members1
  <2>2. QED
    BY <2>1, NodesAssumption DEF Shaped, Linked
<1>3. \A m \in Nodes \ I : T.parent[m] = NULL /\ \A q \in Sides : T[q][m] = NULL
  BY DEF Shaped, Linked
<1>4. \A m \in I : /\ m \in sub[m] /\ w[m] \in Nat
                   /\ sub[m] = {m} \cup sub[T[s][m]] \cup sub[T[o][m]]
                   /\ \A q \in Sides : /\ T[q][m] \in I \cup {NULL}
                                       /\ m \notin sub[T[q][m]]
                                       /\ T[q][m] # NULL => T.parent[T[q][m]] = m
                                       /\ \A k \in sub[T[q][m]] : Beside(q, w[k], w[m])
  <2>1. \A m \in I : /\ m \in sub[m] /\ w[m] \in Nat
                     /\ sub[m] = {m} \cup sub[T[s][m]] \cup sub[T[o][m]]
    BY <1>2, Members1, UnderParent DEF Weights
  <2>2. \A m \in I, q \in Sides : T[q][m] \in I \cup {NULL} /\ m \notin sub[T[q][m]]
    BY Members1
  <2>3. \A m \in I, q \in Sides : /\ T[q][m] # NULL => T.parent[T[q][m]] = m
                                  /\ \A k \in sub[T[q][m]] : Beside(q, w[k], w[m])
    BY DEF Shaped, Linked, InOrder
  <2>4. QED
    BY <2>1, <2>2, <2>3
<1>5. /\ R \in Trees /\ R.head = T.head /\ R.color = T.color
      /\ \A m \in Nodes : R.parent[m] = IF m = n THEN p ELSE T.parent[m]
      /\ \A m \in Nodes : R[s][m] = IF m = p THEN n ELSE T[s][m]
      /\ \A m \in Nodes : R[o][m] = T[o][m]
  <2>1. CASE s = "left"
    BY <2>1, <1>2 DEF Trees, Link, Opposite, Attached
  <2>2. CASE s = "right"
    BY <2>2, <1>2 DEF Trees, Link, Opposite, Attached
  <2>3. QED
    BY <2>1, <2>2 DEF Sides
<1>6. /\ sub2 \in [Link -> SUBSET J]
      /\ sub2[n] = {n} /\ sub2[NULL] = {} /\ sub2[T.head] = J
      /\ \A k \in I \cup {NULL} :
            sub2[k] = IF p \in sub[k] THEN sub[k] \cup {n} ELSE sub[k]
  BY <1>2 DEF Link
<1> HIDE DEF R, sub2, o
<1>7. R[s][p] = n /\ R[o][p] = T[o][p] /\ sub[T[s][p]] = {}
  BY <1>2, <1>5
<1>8. ASSUME NEW m \in I, m # p
      PROVE  R[s][m] = T[s][m] /\ R[o][m] = T[o][m]
  BY <1>2, <1>5, <1>8
<1>9. R[s][n] = NULL /\ R[o][n] = NULL
  BY <1>1, <1>2, <1>3, <1>5
<1>10. \A m \in J : sub2[m] = {m} \cup sub2[R.left[m]] \cup sub2[R.right[m]]
  <2>1. SUFFICES ASSUME NEW m \in J
                 PROVE  sub2[m] = {m} \cup sub2[R[s][m]] \cup sub2[R[o][m]]
    BY <1>1 DEF Sides, Opposite, o
  <2>2. CASE m = n
    BY <2>2, <1>6, <1>9
  <2>3. CASE m = p
    <3>1. T[o][p] \in I \cup {NULL} /\ p \notin sub[T[o][p]] /\ sub[p] = {p} \cup sub[T[o][p]]
      BY <1>1, <1>4, <1>7
    <3>2. sub2[T[o][p]] = sub[T[o][p]] /\ sub2[p] = sub[p] \cup {n}
      BY <3>1, <1>4, <1>6
    <3>3. QED
      BY <2>3, <3>1, <3>2, <1>6, <1>7
  <2>4. CASE m \in I /\ m # p
    <3>1. /\ T[s][m] \in I \cup {NULL} /\ T[o][m] \in I \cup {NULL}
          /\ sub[m] = {m} \cup sub[T[s][m]] \cup sub[T[o][m]]
      BY <2>4, <1>1, <1>4
    <3> DEFINE a == T[s][m]
               b == T[o][m]
    <3>2. R[s][m] = a /\ R[o][m] = b
      BY <2>4, <1>8
    <3>3. /\ sub2[m] = IF p \in sub[m] THEN sub[m] \cup {n} ELSE sub[m]
          /\ sub2[a] = IF p \in sub[a] THEN sub[a] \cup {n} ELSE sub[a]
          /\ sub2[b] = IF p \in sub[b] THEN sub[b] \cup {n} ELSE sub[b]
      BY <2>4, <3>1, <1>6
    <3>4. p \in sub[m] <=> p \in sub[a] \/ p \in sub[b]
      BY <2>4, <3>1
    <3> HIDE DEF a, b
    <3>5. sub2[m] = {m} \cup sub2[a] \cup sub2[b]
      <4>1. sub[m] = {m} \cup sub[a] \cup sub[b]
        BY <3>1 DEF a, b
      <4>2. QED
        BY <4>1, <3>3, <3>4
    <3>6. QED
      BY <3>2, <3>5
  <2>5. QED
    BY <2>2, <2>3, <2>4
<1>11. \A m \in J : m # R.head => R.parent[m] \in J /\ \E q \in Sides : R[q][R.parent[m]] = m
  <2>1. SUFFICES ASSUME NEW m \in J, m # R.head
                 PROVE  R.parent[m] \in J /\ \E q \in Sides : R[q][R.parent[m]] = m
    OBVIOUS
  <2>2. CASE m = n
    BY <2>2, <1>5, <1>7
  <2>3. CASE m \in I
    <3>1. PICK q \in Sides : T.parent[m] \in I /\ T[q][T.parent[m]] = m
      BY <2>1, <2>3, <1>5 DEF Shaped, Linked
    <3>2. R.parent[m] = T.parent[m]
      BY <2>3, <1>2, <1>5
    <3>3. m # NULL
      BY <2>3, <1>2
    <3>4. R[q][T.parent[m]] = m
      BY <3>1, <3>3, <1>1, <1>2, <1>5
    <3>5. QED
      BY <3>1, <3>2, <3>4
  <2>4. QED
    BY <2>2, <2>3
<1>12. \A m \in J, q \in Sides : /\ R[q][m] \in J \cup {NULL}
                                 /\ R[q][m] # NULL => R.parent[R[q][m]] = m
  <2>1. SUFFICES ASSUME NEW m \in J, NEW q \in Sides
                 PROVE  R[q][m] \in J \cup {NULL} /\ (R[q][m] # NULL => R.parent[R[q][m]] = m)
    OBVIOUS
  <2>2. CASE m = n
    BY <2>2, <1>1, <1>9
  <2>3. CASE m = p /\ q = s
    BY <2>3, <1>2, <1>5, <1>7
  <2>4. CASE m \in I /\ ~(m = p /\ q = s)
    <3>1. R[q][m] = T[q][m]
      BY <2>4, <1>1, <1>2, <1>5
    <3>2. T[q][m] \in I \cup {NULL} /\ (T[q][m] # NULL => T.parent[T[q][m]] = m)
      BY <2>4, <1>4
    <3>3. QED
      BY <3>1, <3>2, <1>2, <1>5
  <2>5. QED
    BY <2>2, <2>3, <2>4
<1>13. \A m \in Nodes \ J : R.parent[m] = NULL /\ \A q \in Sides : R[q][m] = NULL
  <2>1. ASSUME NEW m \in Nodes \ J
        PROVE  R.parent[m] = NULL /\ R[s][m] = NULL /\ R[o][m] = NULL
    BY <1>1, <1>2, <1>3, <1>5
  <2>2. QED
    BY <2>1, <1>1
<1>14. Linked(R, J, sub2)
  <2>1. R.parent[R.head] = NULL
    BY <1>2, <1>5
  <2>2. J \subseteq Nodes
    BY <1>2
  <2>3. QED
    BY <2>1, <2>2, <1>2, <1>5, <1>6, <1>10, <1>11, <1>12, <1>13 DEF Linked
<1>15. \A m \in J, q \in Sides : \A k \in sub2[R[q][m]] : Beside(q, w[k], w[m])
  <2>1. SUFFICES ASSUME NEW m \in J, NEW q \in Sides, NEW k \in sub2[R[q][m]]
                 PROVE  Beside(q, w[k], w[m])
    OBVIOUS
  <2>2. CASE m = n
    BY <2>1, <2>2, <1>1, <1>6, <1>9
  <2>3. CASE m = p /\ q = s
    BY <2>1, <2>3, <1>6, <1>7
  <2>4. CASE m \in I /\ ~(m = p /\ q = s)
    <3>1. R[q][m] = T[q][m] /\ T[q][m] \in I \cup {NULL}
      BY <2>4, <1>1, <1>2, <1>4, <1>5
    <3>2. CASE k \in sub[T[q][m]]
      BY <3>2, <2>4, <1>4
    <3>3. CASE k = n /\ p \in sub[T[q][m]]
      <4>1. Beside(q, w[p], w[m]) /\ m # p
        BY <3>3, <2>4, <1>4
      <4>2. w[m] # w[n] /\ (w[m] < w[n] <=> w[m] < w[p])
        BY <4>1, <2>4 DEF NextTo
      <4>3. w[m] \in Nat /\ w[n] \in Nat /\ w[p] \in Nat
        BY <2>4, <1>4 DEF Weights
      <4>4. QED
        BY <3>3, <4>1, <4>2, <4>3 DEF Beside
    <3>4. k \in sub[T[q][m]] \/ (k = n /\ p \in sub[T[q][m]])
      <4>1. sub2[R[q][m]] = IF p \in sub[T[q][m]] THEN sub[T[q][m]] \cup {n} ELSE sub[T[q][m]]
        BY <3>1, <1>6
      <4>2. QED
        BY <4>1, <2>1
    <3>5. QED
      BY <3>2, <3>3, <3>4
  <2>5. QED
    BY <2>2, <2>3, <2>4
<1>16. Shaped(R, J, sub2, w)
  BY <1>14, <1>15 DEF Shaped, InOrder
<1>17. QED
  BY <1>5, <1>16 DEF R

(* A new red leaf keeps the numbers of black nodes, and is the only red    *)
(* node that may be under a red one.                                       *)
LEMMA AttachPending ==
    ASSUME NEW T, NEW I, NEW sub, NEW w \in Weights, Shaped(T, I, sub, w),
           NEW n \in Nodes \ I, NEW p \in I, NEW s \in Sides, T[s][p] = NULL,
           Balanced(T, I), T.color[n] = "RED"
    PROVE  Pending(Attached(T, n, p, s), I \cup {n}, n)
<1> DEFINE o == Opposite(s)
           R == Attached(T, n, p, s)
           J == I \cup {n}
<1>1. /\ T \in Trees /\ I \subseteq Nodes /\ n \notin I /\ p # n /\ NULL \notin Nodes
      /\ Sides = {s, o} /\ s # o
      /\ \A q \in Sides : T[q][n] = NULL
      /\ \A m \in I, q \in Sides : T[q][m] \in I \cup {NULL}
      /\ \A m \in I : m # T.head => T.parent[m] \in I
  BY NodesAssumption DEF Shaped, Linked, Sides, Opposite
<1>2. /\ R.head = T.head /\ R.color = T.color
      /\ \A m \in Nodes : m # n => R.parent[m] = T.parent[m]
      /\ \A m \in Nodes : R[s][m] = IF m = p THEN n ELSE T[s][m]
      /\ \A m \in Nodes : R[o][m] = T[o][m]
  <2>1. CASE s = "left"
    BY <2>1, <1>1 DEF Trees, Link, Opposite, Attached
  <2>2. CASE s = "right"
    BY <2>2, <1>1 DEF Trees, Link, Opposite, Attached
  <2>3. QED
    BY <2>1, <2>2 DEF Sides
<1> HIDE DEF R, o
<1>3. PICK h : Even(T, I, h)
  BY DEF Balanced
<1>4. /\ h \in [Link -> Nat] /\ h[NULL] = 0
      /\ \A m \in I, q \in Sides : h[m] = h[T[q][m]] + Shade(T, m)
  BY <1>3 DEF Even
<1> DEFINE h2 == [h EXCEPT ![n] = 0]
<1>5. /\ h2 \in [Link -> Nat] /\ h2[NULL] = 0 /\ h2[n] = 0
      /\ \A m \in I : h2[m] = h[m]
  BY <1>1, <1>4 DEF Link
<1> HIDE DEF h2
<1>6. \A m \in J : Shade(R, m) = Shade(T, m)
  BY <1>2 DEF Shade
<1>7. ASSUME NEW m \in J, NEW q \in Sides
      PROVE  h2[m] = h2[R[q][m]] + Shade(R, m)
  <2>1. CASE m = n
    <3>1. R[q][n] = NULL /\ Shade(T, n) = 0
      BY <1>1, <1>2 DEF Shade
    <3>2. QED
      BY <2>1, <3>1, <1>5, <1>6
  <2>2. CASE m = p /\ q = s
    <3>1. R[q][m] = n /\ h[p] = h[NULL] + Shade(T, p) /\ h2[p] = h[p]
      BY <2>2, <1>1, <1>2, <1>4, <1>5
    <3>2. QED
      BY <2>2, <3>1, <1>4, <1>5, <1>6
  <2>3. CASE m \in I /\ ~(m = p /\ q = s)
    <3>1. R[q][m] = T[q][m] /\ T[q][m] \in I \cup {NULL}
      BY <2>3, <1>1, <1>2
    <3>2. h2[R[q][m]] = h[T[q][m]]
      BY <3>1, <1>4, <1>5
    <3>3. h[m] = h[T[q][m]] + Shade(T, m)
      BY <2>3, <1>4
    <3>4. QED
      BY <2>3, <3>2, <3>3, <1>5, <1>6
  <2>4. QED
    BY <2>1, <2>2, <2>3
<1>8. Even(R, J, h2)
  BY <1>5, <1>7 DEF Even
<1>9. NoRedPair(R, J, n)
  <2>1. SUFFICES ASSUME NEW m \in J, m # n, m # R.head, R.color[m] = "RED"
                 PROVE  R.color[R.parent[m]] = "BLACK"
    BY DEF NoRedPair
  <2>2. m \in I /\ m \in Nodes /\ m # NULL
    BY <2>1, <1>1
  <2>3. T.color[T.parent[m]] = "BLACK"
    BY <2>1, <2>2, <1>2 DEF Balanced, NoRedPair
  <2>4. QED
    BY <2>1, <2>2, <2>3, <1>2
<1>10. QED
  BY <1>2, <1>8, <1>9 DEF Pending, R

(* The first node of a tree.                                               *)
LEMMA FirstShaped ==
    ASSUME NEW T, NEW I, NEW sub, NEW w \in Weights, Shaped(T, I, sub, w), T.head = NULL,
           NEW n \in Nodes
    PROVE  LET R == [T EXCEPT !.head = n, !.parent[n] = NULL, !.color[n] = "BLACK"]
           IN  I = {} /\ RootBlack(R) /\ \E sub2 : Shaped(R, {n}, sub2, w)
<1> DEFINE R    == [T EXCEPT !.head = n, !.parent[n] = NULL, !.color[n] = "BLACK"]
           sub2 == [k \in Link |-> IF k = n THEN {n} ELSE {}]
<1>1. I = {} /\ T \in Trees /\ NULL \notin Nodes
  BY NodesAssumption DEF Shaped, Linked
<1>2. \A m \in Nodes : T.parent[m] = NULL /\ T.left[m] = NULL /\ T.right[m] = NULL
  BY <1>1 DEF Shaped, Linked, Sides
<1>3. /\ R \in Trees /\ R.head = n /\ R.color[n] = "BLACK"
      /\ \A m \in Nodes : R.parent[m] = NULL /\ R.left[m] = NULL /\ R.right[m] = NULL
  BY <1>1, <1>2 DEF Trees, Link
<1>4. /\ sub2 \in [Link -> SUBSET {n}] /\ sub2[n] = {n} /\ sub2[NULL] = {}
  BY <1>1 DEF Link
<1> HIDE DEF R, sub2
<1>5. \A m \in Nodes, q \in Sides : R[q][m] = NULL
  BY <1>3 DEF Sides
<1>6. Linked(R, {n}, sub2)
  BY <1>3, <1>4, <1>5 DEF Linked
<1>7. InOrder(R, {n}, sub2, w)
  BY <1>4, <1>5 DEF InOrder
<1>8. RootBlack(R)
  BY <1>3 DEF RootBlack
<1>9. QED
  BY <1>1, <1>6, <1>7, <1>8 DEF Shaped, R

(* A tree of one black node is balanced.                                   *)
LEMMA FirstBalanced ==
    ASSUME NEW T, NEW I, NEW sub, NEW w \in Weights, Shaped(T, I, sub, w), T.head = NULL,
           NEW n \in Nodes
    PROVE  Balanced([T EXCEPT !.head = n, !.parent[n] = NULL, !.color[n] = "BLACK"], {n})
<1> DEFINE R == [T EXCEPT !.head = n, !.parent[n] = NULL, !.color[n] = "BLACK"]
           h == [k \in Link |-> IF k = n THEN 1 ELSE 0]
<1>1. I = {} /\ T \in Trees /\ NULL \notin Nodes
  BY NodesAssumption DEF Shaped, Linked
<1>2. \A q \in Sides : T[q][n] = NULL
  BY <1>1 DEF Shaped, Linked
<1>3. R.head = n /\ R.color[n] = "BLACK" /\ \A q \in Sides : R[q][n] = NULL
  BY <1>1, <1>2 DEF Trees, Sides
<1>4. h \in [Link -> Nat] /\ h[NULL] = 0 /\ h[n] = 1
  BY <1>1 DEF Link
<1> HIDE DEF R, h
<1>5. Even(R, {n}, h)
  BY <1>3, <1>4 DEF Even, Shade
<1>6. QED
  BY <1>3, <1>5 DEF Balanced, NoRedPair, R

(* A value that is greater than that of p, and not above the values of the *)
(* nodes the search has passed, fits next to p.                            *)
LEMMA PredecessorIs ==
    ASSUME NEW T, NEW I, NEW sub, NEW w \in Weights, Shaped(T, I, sub, w),
           NEW n \in Nodes, NEW near \in I, w[n] < w[near],
           \A x \in I : w[n] <= w[x] => w[near] <= w[x],
           T.left[near] # NULL
    PROVE  LET p == Farthest(T, T.left[near], "right")
           IN  p \in I /\ T.right[p] = NULL /\ NextTo(I, w, n, p) /\ w[p] < w[n]
<1> DEFINE c == T.left[near]
           p == Farthest(T, c, "right")
<1>1. c \in I /\ "right" \in Sides /\ Opposite("right") = "left"
  BY Members1 DEF Sides, Opposite
<1>2. /\ p \in sub[c] /\ p \in I /\ T.right[p] = NULL
      /\ \A k \in sub[c] : k # p => w[k] < w[p]
  <2> HIDE DEF c, p
  <2>1. /\ p \in sub[c] /\ p \in I /\ T["right"][p] = NULL
        /\ \A k \in sub[c] : k # p => Beside("left", w[k], w[p])
    BY <1>1, FarthestIs DEF p
  <2>2. QED
    BY <2>1 DEF Beside
<1>3. /\ sub[near] = {near} \cup sub[c] \cup sub[T.right[near]]
      /\ near \in sub[near]
      /\ \A k \in sub[c] : w[k] < w[near]
      /\ \A k \in sub[T.right[near]] : w[near] < w[k]
  BY BothSides
<1>4. \A k \in I : w[k] \in Nat
  BY DEF Weights, Shaped, Linked
<1>5. w[n] \in Nat /\ sub[c] \subseteq I
  BY <1>1, Members1 DEF Weights
<1> HIDE DEF c, p
<1>6. \A k \in sub[c] : w[k] < w[n]
  BY <1>3, <1>4, <1>5
<1>7. w[p] < w[n]
  BY <1>2, <1>6
<1>8. ASSUME NEW m \in I, m # p PROVE w[m] # w[n] /\ (w[m] < w[n] <=> w[m] < w[p])
  <2>1. w[m] # w[n]
    BY <1>4, <1>5
  <2>2. ASSUME w[m] < w[n] PROVE w[m] < w[p]
    <3>1. CASE m \in sub[c]
      BY <3>1, <1>2, <1>8
    <3>2. CASE m \notin sub[c]
      <4>1. w[m] < w[near]
        BY <2>2, <1>4, <1>5
      <4>2. m \notin sub[near]
        BY <3>2, <4>1, <1>3, <1>4
      <4>3. \/ \A k \in sub[near] : w[k] < w[m]
            \/ \A k \in sub[near] : w[m] < w[k]
        BY <4>2, Intervals
      <4>4. \A k \in sub[near] : w[m] < w[k]
        BY <4>1, <4>3, <1>3, <1>4
      <4>5. QED
        BY <4>4, <1>2, <1>3
    <3>3. QED
      BY <3>1, <3>2
  <2>3. ASSUME w[m] < w[p] PROVE w[m] < w[n]
    BY <2>3, <1>2, <1>4, <1>5, <1>7
  <2>4. QED
    BY <2>1, <2>2, <2>3
<1>9. NextTo(I, w, n, p)
  BY <1>8 DEF NextTo
<1>10. QED
  BY <1>2, <1>7, <1>9 DEF c, p

(* rbt_insertNode adds a node whose value is new and refuses one whose     *)
(* value the tree holds.                                                   *)
LEMMA InsertNodeIs ==
    ASSUME NEW T, NEW I, NEW sub, Shaped(T, I, sub, ValueOf), RootBlack(T),
           NEW n \in Nodes \ I
    PROVE  LET D == InsertNode(T, n)
           IN  \/ D.ret = "-2" /\ D.tree = T /\ \E m \in I : ValueOf[m] = ValueOf[n]
               \/ /\ D.ret = "0" /\ \A m \in I : ValueOf[m] # ValueOf[n]
                  /\ RootBlack(D.tree)
                  /\ \E sub2 : Shaped(D.tree, I \cup {n}, sub2, ValueOf)
                  /\ Balanced(T, I) /\ T.color[n] = "RED" => Balanced(D.tree, I \cup {n})
<1> DEFINE D    == InsertNode(T, n)
           v    == T.value[n]
           near == FindUpperNearest(T, v)
           Leaf(p, side) == InsertBalance([T EXCEPT ![side][p] = n, !.parent[n] = p], n)
           Added(V) == /\ RootBlack(V) /\ \E sub2 : Shaped(V, I \cup {n}, sub2, ValueOf)
                       /\ Balanced(T, I) /\ T.color[n] = "RED" => Balanced(V, I \cup {n})
           Fine == \/ D.ret = "-2" /\ D.tree = T /\ \E m \in I : ValueOf[m] = ValueOf[n]
                   \/ /\ D.ret = "0" /\ \A m \in I : ValueOf[m] # ValueOf[n]
                      /\ Added(D.tree)
<1>1. /\ T \in Trees /\ I \subseteq Nodes /\ ValueOf \in Weights /\ v = ValueOf[n] /\ v \in Nat
      /\ T.left[n] = NULL /\ T.right[n] = NULL
      /\ \A m \in I : ValueOf[m] \in Nat
  <2>1. T \in Trees /\ I \subseteq Nodes /\ T.left[n] = NULL /\ T.right[n] = NULL
    BY DEF Shaped, Linked, Sides
  <2>2. QED
    BY <2>1, ValuesAreWeights DEF Trees, Weights
<1>2. ASSUME NEW p \in I, NEW s \in Sides, T[s][p] = NULL,
             NextTo(I, ValueOf, n, p), Beside(s, ValueOf[n], ValueOf[p])
      PROVE  Added(Leaf(p, s))
  <2> DEFINE R == Attached(T, n, p, s)
  <2>1. /\ \E sub2 : Shaped(R, I \cup {n}, sub2, ValueOf)
        /\ R.head = T.head /\ R.color = T.color
        /\ Balanced(T, I) /\ T.color[n] = "RED" => Pending(R, I \cup {n}, n)
    <3>1. n \in Nodes \ I
      OBVIOUS
    <3>2. ValueOf \in Weights
      BY <1>1
    <3> HIDE DEF Leaf, Added, Fine, D, near, v
    <3>3. /\ \E sub2 : Shaped(R, I \cup {n}, sub2, ValueOf)
          /\ R.head = T.head /\ R.color = T.color
      BY <3>1, <3>2, <1>2, AttachShaped
    <3>4. ASSUME Balanced(T, I), T.color[n] = "RED" PROVE Pending(R, I \cup {n}, n)
      BY <3>1, <3>2, <3>4, <1>2, AttachPending
    <3>5. QED
      BY <3>3, <3>4
  <2> HIDE DEF R
  <2>2. PICK sub2 : Shaped(R, I \cup {n}, sub2, ValueOf)
    BY <2>1
  <2>3. RootBlack(R)
    BY <2>1 DEF RootBlack
  <2>4. n \in I \cup {n}
    OBVIOUS
  <2>5. /\ RootBlack(InsertBalance(R, n))
        /\ \E sub3 : Shaped(InsertBalance(R, n), I \cup {n}, sub3, ValueOf)
        /\ Pending(R, I \cup {n}, n) => Balanced(InsertBalance(R, n), I \cup {n})
    BY <2>2, <2>3, <2>4, <1>1, InsertBalanceKeeps
  <2>6. Leaf(p, s) = InsertBalance(R, n)
    BY DEF R, Attached
  <2> HIDE DEF Leaf
  <2>7. Added(InsertBalance(R, n))
    BY <2>1, <2>5
  <2>8. QED
    BY <2>6, <2>7
<1>3. SUFFICES Fine
  OBVIOUS
<1>4. CASE T.head = NULL
  <2> DEFINE R == [T EXCEPT !.head = n, !.parent[n] = NULL, !.color[n] = "BLACK"]
  <2>1. D.tree = R /\ D.ret = "0"
    BY <1>1, <1>4 DEF InsertNode
  <2>2. I = {} /\ RootBlack(R) /\ \E sub2 : Shaped(R, {n}, sub2, ValueOf)
    BY <1>1, <1>4, FirstShaped
  <2>5. Balanced(R, {n})
    BY <1>1, <1>4, FirstBalanced
  <2> HIDE DEF R, D
  <2>3. {n} = I \cup {n}
    BY <2>2
  <2>4. QED
    BY <2>1, <2>2, <2>3, <2>5
<1>5. CASE T.head # NULL
  <2>1. T.head \in I /\ NodeProperty(T, T.head) = "ROOT"
    <3>1. T.head \in I
      BY <1>5 DEF Shaped, Linked
    <3>2. QED
      BY <3>1, <1>1, PropertyOf
  <2>2. D = CASE near = NULL -> [tree |-> Leaf(Farthest(T, T.head, "right"), "right"),
                                 ret |-> "0"]
              [] near # NULL /\ T.value[near] = T.value[n] -> [tree |-> T, ret |-> "-2"]
              [] OTHER ->
                 [tree |-> IF T.left[near] = NULL THEN Leaf(near, "left")
                           ELSE Leaf(Farthest(T, T.left[near], "right"), "right"),
                  ret |-> "0"]
    BY <1>1, <1>5, <2>1 DEF InsertNode
  <2>3. \/ near = NULL /\ \A x \in I : ValueOf[x] < v
        \/ /\ near \in I /\ v <= ValueOf[near]
           /\ \A x \in I : v <= ValueOf[x] => ValueOf[near] <= ValueOf[x]
    BY <1>1, FindIs
  <2> HIDE DEF D, near, Leaf, Added
  <2>4. CASE near = NULL /\ \A x \in I : ValueOf[x] < v
    <3> DEFINE p == Farthest(T, T.head, "right")
    <3>1. D.tree = Leaf(p, "right") /\ D.ret = "0"
      BY <2>2, <2>4
    <3>2. /\ p \in I /\ T["right"][p] = NULL
          /\ \A k \in sub[T.head] : k # p => Beside("left", ValueOf[k], ValueOf[p])
      BY <2>1, <1>1, FarthestIs DEF Sides, Opposite
    <3>3. sub[T.head] = I
      BY DEF Shaped, Linked
    <3> HIDE DEF p
    <3>4. NextTo(I, ValueOf, n, p) /\ Beside("right", ValueOf[n], ValueOf[p])
      BY <2>4, <3>2, <3>3, <1>1 DEF NextTo, Beside
    <3>5. Added(Leaf(p, "right"))
      BY <3>2, <3>4, <1>2 DEF Sides
    <3>6. \A m \in I : ValueOf[m] # ValueOf[n]
      BY <2>4, <1>1
    <3>7. QED
      BY <3>1, <3>5, <3>6
  <2>5. CASE near \in I /\ ValueOf[near] = v
    <3>1. near # NULL /\ T.value[near] = T.value[n]
      BY <2>5, <1>1, NodesAssumption DEF Trees
    <3>2. D.tree = T /\ D.ret = "-2"
      BY <2>2, <3>1
    <3>3. QED
      BY <3>2, <2>5, <1>1
  <2>6. CASE /\ near \in I /\ v < ValueOf[near]
             /\ \A x \in I : v <= ValueOf[x] => ValueOf[near] <= ValueOf[x]
    <3>1. near # NULL /\ T.value[near] # T.value[n] /\ near \in Nodes
      BY <2>6, <1>1, NodesAssumption DEF Trees
    <3>2. D.ret = "0" /\ D.tree = IF T.left[near] = NULL THEN Leaf(near, "left")
                                  ELSE Leaf(Farthest(T, T.left[near], "right"), "right")
      BY <2>2, <3>1
    <3>3. \A m \in I : ValueOf[m] # ValueOf[n]
      BY <2>6, <1>1
    <3>4. CASE T.left[near] = NULL
      <4>1. NextTo(I, ValueOf, n, near)
        BY <2>6, <1>1 DEF NextTo
      <4>2. Beside("left", ValueOf[n], ValueOf[near]) /\ T["left"][near] = NULL
        BY <2>6, <3>4, <1>1 DEF Beside
      <4>3. Added(Leaf(near, "left"))
        BY <2>6, <4>1, <4>2, <1>2 DEF Sides
      <4>4. QED
        BY <3>2, <3>3, <3>4, <4>3
    <3>5. CASE T.left[near] # NULL
      <4> DEFINE p == Farthest(T, T.left[near], "right")
      <4>1. p \in I /\ T.right[p] = NULL /\ NextTo(I, ValueOf, n, p) /\ ValueOf[p] < ValueOf[n]
        BY <2>6, <3>5, <1>1, PredecessorIs
      <4> HIDE DEF p
      <4>2. Added(Leaf(p, "right"))
        BY <4>1, <1>2 DEF Sides, Beside
      <4>3. QED
        BY <3>2, <3>3, <3>5, <4>2 DEF p
    <3>6. QED
      BY <3>4, <3>5
  <2>7. QED
    BY <2>3, <2>4, <2>5, <2>6, <1>1
<1>6. QED
  BY <1>4, <1>5

-----------------------------------------------------------------------------
(* Balancing before a removal.                                             *)

(* What one round of the balancing does.                                   *)
RemoveStep(T, n, S) ==
    LET sibling == Sibling(T, n)
        p       == T.parent[n]
        side    == NodeProperty(T, sibling)
        near    == T[side][sibling]
        far     == T[Opposite(side)][sibling]
        raised  == Rotate(SwapColor(T, sibling, p), p, Opposite(side))
        paler   == Paint(T, sibling, "RED")
    IN  \/ S = Done(T, n)
        \/ T.right[n] # NULL /\ S = Done(Paint(T, T.right[n], "BLACK"), n)
        \/ T.left[n] # NULL /\ S = Done(Paint(T, T.left[n], "RED"), n)
        \/ /\ NodeProperty(T, n) # "ROOT" /\ sibling # NULL
           /\ \/ S = Again(raised, n)
              \/ near # NULL /\ S = Done(Paint(raised, near, "BLACK"), n)
              \/ far # NULL /\ S = Again(Rotate(SwapColor(T, sibling, far), sibling, side), n)
              \/ S = Done(Paint(paler, p, "BLACK"), n)
              \/ S = Again(paler, p)

LEMMA RemoveCases ==
    ASSUME NEW T, NEW n
    PROVE  RemoveStep(T, n, RemoveRound(T, n))
<1> DEFINE l       == T.left[n]
           r       == T.right[n]
           reds    == {m \in {n, l, r} : ColorOf(T, m) = "RED"}
           sibling == Sibling(T, n)
           p       == T.parent[n]
           side    == NodeProperty(T, sibling)
           near    == T[side][sibling]
           far     == T[Opposite(side)][sibling]
           raised  == Rotate(SwapColor(T, sibling, p), p, Opposite(side))
           paler   == Paint(T, sibling, "RED")
           S       == RemoveRound(T, n)
           First   == CASE l = NULL /\ r # NULL -> Done(Paint(T, r, "BLACK"), n)
                        [] l # NULL /\ r = NULL -> Done(Paint(T, l, "RED"), n)
                        [] OTHER                -> Done(T, n)
           Last    == CASE ColorOf(T, sibling) = "RED" -> Again(raised, n)
                        [] ColorOf(T, sibling) = "BLACK" /\ ColorOf(T, near) = "RED" ->
                           Done(Paint(raised, near, "BLACK"), n)
                        [] ColorOf(T, sibling) = "BLACK" /\ ColorOf(T, near) = "BLACK"
                                                        /\ ColorOf(T, far) = "RED" ->
                           Again(Rotate(SwapColor(T, sibling, far), sibling, side), n)
                        [] OTHER ->
                           IF T.color[p] = "RED" THEN Done(Paint(paler, p, "BLACK"), n)
                                                 ELSE Again(paler, p)
<1>1. S = CASE reds # {} -> First
            [] reds = {} /\ (NodeProperty(T, n) = "ROOT" \/ sibling = NULL) -> Done(T, n)
            [] OTHER -> Last
  BY DEF RemoveRound
<1>2. CASE reds # {}
  <2> HIDE DEF First, Last, reds
  <2>1. S = First
    BY <1>1, <1>2
  <2>2. QED
    BY <2>1 DEF First, RemoveStep
<1>3. CASE reds = {} /\ (NodeProperty(T, n) = "ROOT" \/ sibling = NULL)
  <2> HIDE DEF First, Last, reds, sibling
  <2>1. S = Done(T, n)
    BY <1>1, <1>3
  <2>2. QED
    BY <2>1 DEF RemoveStep
<1>4. CASE reds = {} /\ ~(NodeProperty(T, n) = "ROOT" \/ sibling = NULL)
  <2> HIDE DEF First, Last, reds
  <2>1. S = Last
    BY <1>1, <1>4
  <2> HIDE DEF S, near, far, raised, paler
  <2>2. \/ S = Again(raised, n)
        \/ near # NULL /\ S = Done(Paint(raised, near, "BLACK"), n)
        \/ far # NULL /\ S = Again(Rotate(SwapColor(T, sibling, far), sibling, side), n)
        \/ S = Done(Paint(paler, p, "BLACK"), n)
        \/ S = Again(paler, p)
    BY <2>1 DEF Last, ColorOf
  <2>3. QED
    BY <2>2, <1>4 DEF RemoveStep, S, near, far, raised, paler
<1>5. QED
  BY <1>2, <1>3, <1>4

(* The parents of what hangs under a node hang there too.                  *)
LEMMA ParentUnder ==
    ASSUME NEW T, NEW I, NEW sub, NEW w \in Weights, Shaped(T, I, sub, w)
    PROVE  \A m \in I : \A x \in sub[m] : x # m => T.parent[x] \in sub[m]
<1> DEFINE Bad == {m \in I : \E x \in sub[m] : x # m /\ T.parent[x] \notin sub[m]}
<1>1. SUFFICES ASSUME Bad # {} PROVE FALSE
  OBVIOUS
<1>2. \A m \in I : Size(sub)[m] \in Nat
  BY SizesGrow DEF Shaped, Linked
<1>3. PICK m \in Bad : \A k \in Bad : Size(sub)[m] <= Size(sub)[k]
  <2>1. \A k \in Bad : Size(sub)[k] \in Nat
    BY <1>2
  <2> HIDE DEF Bad
  <2>2. QED
    BY <2>1, <1>1, LeastRanked
<1>4. PICK x \in sub[m] : x # m /\ T.parent[x] \notin sub[m]
  OBVIOUS
<1>5. m \in I /\ m \in sub[m]
  BY Members1
<1>6. PICK s \in Sides : x \in sub[T[s][m]]
  <2>1. sub[m] = {m} \cup sub[T.left[m]] \cup sub[T.right[m]]
    BY <1>5 DEF Shaped, Linked
  <2>2. QED
    BY <2>1, <1>4 DEF Sides
<1> DEFINE c == T[s][m]
<1>7. c \in I /\ T.parent[c] = m /\ sub[c] \subseteq sub[m]
  <2>1. c # NULL
    BY <1>6 DEF Shaped, Linked
  <2>2. QED
    BY <2>1, <1>5, Members1 DEF Shaped, Linked
<1>8. x # c
  BY <1>4, <1>5, <1>7
<1>9. Size(sub)[c] < Size(sub)[m]
  BY <1>5, <1>7, SizesGrow, Members1
<1> HIDE DEF c, Bad
<1>10. c \notin Bad
  BY <1>2, <1>3, <1>5, <1>7, <1>9
<1>11. QED
  BY <1>4, <1>6, <1>7, <1>8, <1>10 DEF Bad, c

(* What hangs under a node hangs under every node it hangs under.          *)
LEMMA UnderNested ==
    ASSUME NEW T, NEW I, NEW sub, NEW w \in Weights, Shaped(T, I, sub, w)
    PROVE  \A m \in I : \A x \in sub[m] : sub[x] \subseteq sub[m]
<1> DEFINE Bad == {m \in I : \E x \in sub[m] : ~(sub[x] \subseteq sub[m])}
<1>1. SUFFICES ASSUME Bad # {} PROVE FALSE
  OBVIOUS
<1>2. \A m \in I : Size(sub)[m] \in Nat
  BY SizesGrow DEF Shaped, Linked
<1>3. PICK m \in Bad : \A k \in Bad : Size(sub)[m] <= Size(sub)[k]
  <2>1. \A k \in Bad : Size(sub)[k] \in Nat
    BY <1>2
  <2> HIDE DEF Bad
  <2>2. QED
    BY <2>1, <1>1, LeastRanked
<1>4. PICK x \in sub[m] : ~(sub[x] \subseteq sub[m])
  OBVIOUS
<1>5. m \in I /\ m \in sub[m]
  BY Members1
<1>6. PICK s \in Sides : x \in sub[T[s][m]]
  <2>1. sub[m] = {m} \cup sub[T.left[m]] \cup sub[T.right[m]]
    BY <1>5 DEF Shaped, Linked
  <2>2. QED
    BY <2>1, <1>4 DEF Sides
<1> DEFINE c == T[s][m]
<1>7. c \in I /\ sub[c] \subseteq sub[m]
  <2>1. c # NULL
    BY <1>6 DEF Shaped, Linked
  <2>2. QED
    BY <2>1, <1>5, Members1
<1>8. Size(sub)[c] < Size(sub)[m]
  BY <1>5, <1>7, SizesGrow, Members1
<1> HIDE DEF c, Bad
<1>9. c \notin Bad
  BY <1>2, <1>3, <1>5, <1>7, <1>8
<1>10. QED
  BY <1>4, <1>6, <1>7, <1>9 DEF Bad, c

(* R has the links of T at the nodes of B, and the same side of their      *)
(* parents.                                                                *)
SameAt(T, R, B) ==
    \A x \in B : /\ \A q \in Sides : R[q][x] = T[q][x]
                 /\ NodeProperty(R, x) = NodeProperty(T, x)

(* A rotation beside a node leaves what hangs under it alone.              *)
LEMMA RotateAside ==
    ASSUME NEW T, NEW I, NEW sub, NEW w \in Weights, Shaped(T, I, sub, w),
           NEW m \in I, m # T.head, NEW y \in I, NEW s \in Sides,
           T[Opposite(s)][y] # NULL, y \notin sub[m],
           T[Opposite(s)][y] \notin sub[m], T[Opposite(s)][y] # T.parent[m]
    PROVE  LET R == Rotate(T, y, s)
               c == T[Opposite(s)][y]
           IN  /\ \E sub2 : Shaped(R, I, sub2, w) /\ sub2[m] = sub[m]
               /\ SameAt(T, R, sub[m])
               /\ R.color = T.color
               /\ R.head = IF y = T.head THEN c ELSE T.head
<1> DEFINE R == Rotate(T, y, s)
           c == T[Opposite(s)][y]
           sub2 == [sub EXCEPT ![c] = sub[y],
                               ![y] = {y} \cup sub[T[s][y]] \cup sub[T[s][c]]]
           p == T.parent[m]
           t == NodeProperty(T, m)
<1>1. /\ Shaped(R, I, sub2, w)
      /\ R.color = T.color
      /\ R.head = IF y = T.head THEN c ELSE T.head
      /\ R[s][y] = T[s][y]
      /\ \A q \in Sides, x \in I :
            x \notin {y, c} => R[q][x] = IF T[q][x] = y THEN c ELSE T[q][x]
  BY RotateShaped
<1>2. m \in sub[m] /\ sub[m] \subseteq I /\ NULL \notin I /\ I \subseteq Nodes /\ c \in I
  <2>1. I \subseteq Nodes /\ c \in I \cup {NULL}
    BY Members1 DEF Shaped, Linked, Sides, Opposite
  <2>2. QED
    BY <2>1, Members1, NodesAssumption
<1>3. sub2[m] = sub[m]
  <2>1. m # c /\ m # y /\ m \in Link
    BY <1>2 DEF Link
  <2>2. sub \in [Link -> SUBSET I]
    BY DEF Shaped, Linked
  <2>3. QED
    BY <2>1, <2>2
<1>4. p \in I /\ t \in Sides /\ T[t][p] = m
  BY PropertyOf
<1> HIDE DEF R, c, sub2, p, t
<1>5. ASSUME NEW x \in sub[m], NEW q \in Sides PROVE R[q][x] = T[q][x]
  <2>1. x \in I /\ x \notin {y, c}
    BY <1>2 DEF c
  <2>2. T[q][x] # y
    <3>1. sub[T[q][x]] \subseteq sub[x] /\ sub[x] \subseteq sub[m]
      <4>1. sub[T[q][x]] \subseteq sub[x]
        BY <2>1, Members1
      <4>2. sub[x] \subseteq sub[m]
        BY UnderNested
      <4>3. QED
        BY <4>1, <4>2
    <3>2. y \in sub[y]
      BY Members1
    <3>3. QED
      BY <3>1, <3>2
  <2>3. QED
    BY <2>1, <2>2, <1>1
<1>6. R[t][p] = m
  <2>1. CASE p = y
    <3>1. t = s
      BY <2>1, <1>2, <1>4 DEF c, Sides, Opposite
    <3>2. QED
      BY <2>1, <3>1, <1>1, <1>4
  <2>2. CASE p # y
    BY <2>2, <1>1, <1>2, <1>4 DEF c, p
  <2>3. QED
    BY <2>1, <2>2
<1>7. ASSUME NEW x \in sub[m] PROVE NodeProperty(R, x) = NodeProperty(T, x)
  <2>1. x \in I
    BY <1>2
  <2>2. CASE x = m
    BY <2>2, <1>1, <1>4, <1>6, PropertyOf DEF t
  <2>3. CASE x # m
    <3> DEFINE u == T.parent[x]
               v == NodeProperty(T, x)
    <3>1. u \in sub[m]
      BY <2>3, ParentUnder
    <3>2. x # T.head
      <4>1. T.parent[T.head] = NULL
        BY Members1 DEF Shaped, Linked
      <4>2. QED
        BY <3>1, <4>1, <1>2
    <3>3. u \in I /\ v \in Sides /\ T[v][u] = x
      BY <2>1, <3>2, PropertyOf
    <3>4. R[v][u] = x
      BY <3>1, <3>3, <1>5
    <3> HIDE DEF u, v
    <3>5. NodeProperty(R, x) = v
      BY <2>1, <3>3, <3>4, <1>1, PropertyOf
    <3>6. QED
      BY <3>5 DEF v
  <2>4. QED
    BY <2>2, <2>3
<1>8. SameAt(T, R, sub[m])
  BY <1>5, <1>7 DEF SameAt
<1>9. QED
  BY <1>1, <1>3, <1>8 DEF R, c

LEMMA SameLinksSameAt ==
    ASSUME NEW T, NEW R, R.head = T.head, R.parent = T.parent,
           R.left = T.left, R.right = T.right, NEW B
    PROVE  SameAt(T, R, B)
<1>1. \A q \in Sides : R[q] = T[q]
  BY DEF Sides
<1>2. \A x \in B : NodeProperty(R, x) = NodeProperty(T, x)
  BY DEF NodeProperty
<1>3. QED
  BY <1>1, <1>2 DEF SameAt

LEMMA SameAtTwice ==
    ASSUME NEW T, NEW R, NEW V, NEW B, NEW C, SameAt(T, R, B), SameAt(R, V, C), B \subseteq C
    PROVE  SameAt(T, V, B)
BY DEF SameAt

(* What a round leaves of the tree T with the node n: a tree V in which    *)
(* what hung under n is as it was, and hangs under the node m.             *)
Keeps(T, I, sub, w, n, V, m) ==
    /\ \E sub2 : Shaped(V, I, sub2, w) /\ sub[n] \subseteq sub2[m]
    /\ m \in I
    /\ SameAt(T, V, sub[n])
    /\ RootBlack(V)

LEMMA PaintKeeps ==
    ASSUME NEW T, NEW I, NEW sub, NEW w \in Weights, Shaped(T, I, sub, w),
           NEW n \in I, RootBlack(T), NEW x \in I, x # T.head, NEW c \in Colors
    PROVE  Keeps(T, I, sub, w, n, Paint(T, x, c), n)
<1> DEFINE V == Paint(T, x, c)
<1>1. x \in Nodes /\ T.head \in Nodes
  BY Members1 DEF Shaped, Linked
<1>2. /\ Shaped(V, I, sub, w) /\ V.head = T.head /\ V.parent = T.parent
      /\ V.left = T.left /\ V.right = T.right
      /\ \A m \in Nodes : V.color[m] = IF m = x THEN c ELSE T.color[m]
  BY <1>1, PaintShaped
<1> HIDE DEF V
<1>3. SameAt(T, V, sub[n])
  BY <1>2, SameLinksSameAt
<1>4. RootBlack(V)
  BY <1>1, <1>2 DEF RootBlack
<1>5. QED
  BY <1>2, <1>3, <1>4 DEF Keeps, V

(* The parent's child that is not n, and what hangs there.                 *)
LEMMA SiblingIs ==
    ASSUME NEW T, NEW I, NEW sub, NEW w \in Weights, Shaped(T, I, sub, w),
           NEW n \in I, n # T.head, Sibling(T, n) # NULL
    PROVE  LET b == Sibling(T, n)
               p == T.parent[n]
               s == NodeProperty(T, b)
           IN  /\ p \in I /\ p \notin sub[n] /\ p # n
               /\ b \in I /\ b \notin sub[n] /\ b # p /\ b # T.head /\ T.parent[b] = p
               /\ s \in Sides /\ T[s][p] = b /\ T[Opposite(s)][p] = n
               /\ \A q \in Sides : /\ T[q][b] \in I \cup {NULL} /\ T[q][b] # b
                                   /\ T[q][b] # p /\ T[q][b] \notin sub[n]
                                   /\ T[q][b] # T.head
<1> DEFINE b == Sibling(T, n)
           p == T.parent[n]
           t == NodeProperty(T, n)
           s == Opposite(t)
<1>1. p \in I /\ t \in Sides /\ T[t][p] = n
  BY PropertyOf
<1>2. s \in Sides /\ Opposite(s) = t /\ s # t
  BY <1>1 DEF Sides, Opposite
<1>3. b = T[s][p]
  BY <1>1 DEF Sibling, Sides
<1> HIDE DEF b, t, s
<1>4. b \in I /\ T.parent[b] = p /\ b # p /\ b # NULL /\ p \notin sub[b]
  <2>1. b # NULL
    BY DEF b
  <2>2. b \in I
    BY <2>1, <1>1, <1>2, <1>3, Members1
  <2>3. T.parent[b] = p
    BY <2>1, <1>1, <1>2, <1>3 DEF Shaped, Linked
  <2>4. b # p /\ p \notin sub[b]
    BY <1>1, <1>2, <1>3, Members1
  <2>5. QED
    BY <2>1, <2>2, <2>3, <2>4
<1>5. b # T.head /\ NodeProperty(T, b) = s
  BY <1>1, <1>2, <1>3, <1>4, PropertyOf
<1>6. p \notin sub[n] /\ p # n /\ sub[b] \cap sub[n] = {}
  <2>1. sub[T.left[p]] \cap sub[T.right[p]] = {}
    BY <1>1, Members1
  <2>2. sub[b] \cap sub[n] = {}
    BY <2>1, <1>1, <1>2, <1>3 DEF Sides
  <2>3. p \notin sub[n] /\ p # n
    BY <1>1, Members1
  <2>4. QED
    BY <2>2, <2>3
<1>7. ASSUME NEW q \in Sides
      PROVE  /\ T[q][b] \in I \cup {NULL} /\ T[q][b] # b
             /\ T[q][b] # p /\ T[q][b] \notin sub[n]
             /\ T[q][b] # T.head
  <2>1. T[q][b] \in I \cup {NULL} /\ T[q][b] # b /\ sub[T[q][b]] \subseteq sub[b]
    BY <1>4, Members1
  <2>2. NULL \notin I /\ T.head \in I /\ sub[n] \subseteq I
    BY Members1
  <2>3. T[q][b] # NULL => T[q][b] \in sub[b]
    BY <2>1, Members1
  <2>4. T[q][b] # T.head
    <3>1. SUFFICES ASSUME T[q][b] = T.head PROVE FALSE
      OBVIOUS
    <3>2. T[q][b] # NULL
      BY <3>1, <2>2
    <3>3. T.parent[T[q][b]] = b
      BY <3>2, <1>4 DEF Shaped, Linked
    <3>4. T.parent[T.head] = NULL
      BY <2>2 DEF Shaped, Linked
    <3>5. QED
      BY <3>1, <3>3, <3>4, <1>4, <2>2
  <2>5. QED
    BY <2>1, <2>2, <2>3, <2>4, <1>1, <1>4, <1>6
<1> DEFINE side == NodeProperty(T, b)
<1>8. side \in Sides /\ T[side][p] = b /\ T[Opposite(side)][p] = n
  BY <1>1, <1>2, <1>3, <1>5
<1> HIDE DEF side
<1>9. b \notin sub[n]
  BY <1>4, <1>6, Members1
<1>10. QED
  BY <1>1, <1>4, <1>5, <1>6, <1>7, <1>8, <1>9 DEF b, side

(* The rotation that raises the sibling.                                   *)
LEMMA RaisedKeeps ==
    ASSUME NEW T, NEW I, NEW sub, NEW w \in Weights, Shaped(T, I, sub, w), RootBlack(T),
           NEW n \in I, n # T.head, Sibling(T, n) # NULL
    PROVE  LET b      == Sibling(T, n)
               p      == T.parent[n]
               raised == Rotate(SwapColor(T, b, p), p, Opposite(NodeProperty(T, b)))
           IN  /\ \E sub2 : Shaped(raised, I, sub2, w) /\ sub2[n] = sub[n]
               /\ SameAt(T, raised, sub[n]) /\ RootBlack(raised)
               /\ raised.head \in {b, T.head}
<1> DEFINE b == Sibling(T, n)
           p == T.parent[n]
           s == NodeProperty(T, b)
           o == Opposite(s)
           X == SwapColor(T, b, p)
           R == Rotate(X, p, o)
<1>1. /\ p \in I /\ p \notin sub[n] /\ p # n
      /\ b \in I /\ b \notin sub[n] /\ b # p /\ b # T.head /\ T.parent[b] = p
      /\ s \in Sides /\ T[s][p] = b /\ T[Opposite(s)][p] = n
  BY SiblingIs
<1>2. p \in Nodes /\ b \in Nodes /\ T.head \in Nodes /\ b # NULL /\ T.head # NULL
  BY <1>1, Members1
<1>3. o \in Sides /\ Opposite(o) = s
  BY <1>1 DEF Sides, Opposite
<1>4. /\ Shaped(X, I, sub, w) /\ X.head = T.head /\ X.parent = T.parent
      /\ X.left = T.left /\ X.right = T.right
      /\ \A m \in Nodes : X.color[m] = IF m = b THEN T.color[p]
                                       ELSE IF m = p THEN T.color[b] ELSE T.color[m]
  <2> HIDE DEF b, p
  <2>1. QED
    BY <1>1, <1>2, SwapColorShaped
<1> HIDE DEF b, p, s, o, X
<1>5. X[Opposite(o)][p] = b /\ X.parent[n] = p
  BY <1>1, <1>3, <1>4 DEF Sides, p
<1>6. /\ \E sub2 : Shaped(R, I, sub2, w) /\ sub2[n] = sub[n]
      /\ SameAt(X, R, sub[n])
      /\ R.color = X.color
      /\ R.head = IF p = X.head THEN b ELSE X.head
  BY <1>1, <1>2, <1>3, <1>4, <1>5, RotateAside
<1>7. SameAt(T, X, sub[n])
  BY <1>4, SameLinksSameAt
<1> HIDE DEF R
<1>8. SameAt(T, R, sub[n])
  BY <1>6, <1>7, SameAtTwice
<1>9. RootBlack(R)
  BY <1>1, <1>2, <1>4, <1>6 DEF RootBlack
<1>10. QED
  BY <1>4, <1>6, <1>8, <1>9 DEF R, X, o, s, p, b

LEMMA RemoveRoundKeeps ==
    ASSUME NEW T, NEW I, NEW sub, NEW w \in Weights, Shaped(T, I, sub, w), RootBlack(T),
           NEW n \in I
    PROVE  LET S == RemoveRound(T, n)
           IN  /\ S \in [tree : Trees, node : Nodes, done : BOOLEAN]
               /\ Keeps(T, I, sub, w, n, S.tree, S.node)
<1> DEFINE S      == RemoveRound(T, n)
           b      == Sibling(T, n)
           p      == T.parent[n]
           s      == NodeProperty(T, b)
           near   == T[s][b]
           far    == T[Opposite(s)][b]
           raised == Rotate(SwapColor(T, b, p), p, Opposite(s))
           paler  == Paint(T, b, "RED")
           Fine   == /\ S \in [tree : Trees, node : Nodes, done : BOOLEAN]
                     /\ Keeps(T, I, sub, w, n, S.tree, S.node)
<1>1. SUFFICES Fine
  OBVIOUS
<1>2. /\ I \subseteq Nodes /\ n \in Nodes /\ T \in Trees /\ NULL \notin I
      /\ "RED" \in Colors /\ "BLACK" \in Colors /\ T.head # NULL /\ T.head \in I
  BY Members1 DEF Shaped, Linked, Colors
<1>3. ASSUME NEW V, NEW m \in I, Keeps(T, I, sub, w, n, V, m),
             S = Done(V, m) \/ S = Again(V, m)
      PROVE  Fine
  <2>1. V \in Trees
    BY <1>3 DEF Keeps, Shaped, Linked
  <2>2. S.tree = V /\ S.node = m /\ S \in [tree : Trees, node : Nodes, done : BOOLEAN]
    <3> HIDE DEF S
    <3>1. QED
      <4>1. m \in Nodes
        BY <1>2
      <4>2. CASE S = Done(V, m)
        BY <4>1, <4>2, <2>1 DEF Done
      <4>3. CASE S = Again(V, m)
        BY <4>1, <4>3, <2>1 DEF Again
      <4>4. QED
        BY <4>2, <4>3, <1>3
  <2>3. QED
    BY <2>2, <1>3
<1>4. CASE S = Done(T, n)
  <2>1. Keeps(T, I, sub, w, n, T, n)
    BY DEF Keeps, SameAt
  <2>2. QED
    BY <2>1, <1>3, <1>4
<1>5. ASSUME NEW q \in Sides, T[q][n] # NULL, NEW c \in Colors, S = Done(Paint(T, T[q][n], c), n)
      PROVE  Fine
  <2>1. T[q][n] \in I /\ T[q][n] # T.head
    <3>1. T[q][n] \in I
      BY <1>5, Members1
    <3>2. QED
      BY <3>1, PropertyOf
  <2>2. Keeps(T, I, sub, w, n, Paint(T, T[q][n], c), n)
    BY <2>1, PaintKeeps
  <2> HIDE DEF Fine, S
  <2>3. QED
    BY <2>2, <1>3, <1>5
<1>6. CASE NodeProperty(T, n) # "ROOT" /\ b # NULL
  <2>1. n # T.head
    BY <1>6, PropertyOf
  <2>2. /\ p \in I /\ p \notin sub[n] /\ p # n
        /\ b \in I /\ b \notin sub[n] /\ b # p /\ b # T.head /\ T.parent[b] = p
        /\ s \in Sides /\ T[s][p] = b /\ T[Opposite(s)][p] = n
        /\ \A q \in Sides : /\ T[q][b] \in I \cup {NULL} /\ T[q][b] # b
                            /\ T[q][b] # p /\ T[q][b] \notin sub[n]
                            /\ T[q][b] # T.head
    BY <2>1, <1>6, SiblingIs
  <2>3. Opposite(s) \in Sides
    BY <2>2 DEF Sides, Opposite
  <2>4. /\ \E sub2 : Shaped(raised, I, sub2, w) /\ sub2[n] = sub[n]
        /\ SameAt(T, raised, sub[n]) /\ RootBlack(raised)
        /\ raised.head \in {b, T.head}
    BY <2>1, <1>6, RaisedKeeps
  <2>5. Keeps(T, I, sub, w, n, raised, n)
    BY <2>4 DEF Keeps
  <2> HIDE DEF S, Fine, b, p, s, raised, paler
  <2>6. CASE S = Again(raised, n)
    BY <2>5, <2>6, <1>3
  <2>7. CASE near # NULL /\ S = Done(Paint(raised, near, "BLACK"), n)
    <3> DEFINE V == Paint(raised, near, "BLACK")
    <3>1. PICK sub2 : Shaped(raised, I, sub2, w) /\ sub2[n] = sub[n]
      BY <2>4
    <3>2. near \in I /\ near # raised.head
      BY <2>2, <2>4, <2>7
    <3> HIDE DEF near
    <3>3. Keeps(raised, I, sub2, w, n, V, n)
      BY <3>1, <3>2, <2>4, <1>2, PaintKeeps
    <3> HIDE DEF V
    <3>4. SameAt(T, V, sub[n])
      BY <3>1, <3>3, <2>4, SameAtTwice DEF Keeps
    <3>5. Keeps(T, I, sub, w, n, V, n)
      BY <3>1, <3>3, <3>4 DEF Keeps
    <3>6. QED
      BY <3>5, <2>7, <1>3 DEF V
  <2>8. CASE far # NULL /\ S = Again(Rotate(SwapColor(T, b, far), b, s), n)
    <3> DEFINE X == SwapColor(T, b, far)
               V == Rotate(X, b, s)
    <3>1. far \in I /\ far # b /\ far # p /\ far \notin sub[n] /\ far # T.head
      BY <2>2, <2>3, <2>8
    <3> HIDE DEF far
    <3>2. b \in Nodes /\ far \in Nodes /\ T.head \in Nodes
      BY <3>1, <2>2, <1>2
    <3>3. /\ Shaped(X, I, sub, w) /\ X.head = T.head /\ X.parent = T.parent
          /\ X.left = T.left /\ X.right = T.right
          /\ \A m \in Nodes : X.color[m] = IF m = b THEN T.color[far]
                                           ELSE IF m = far THEN T.color[b] ELSE T.color[m]
      BY <3>1, <3>2, SwapColorShaped
    <3> HIDE DEF X
    <3>4. X[Opposite(s)][b] = far /\ X.parent[n] = p
      BY <3>3, <2>3 DEF Sides, p, far
    <3>5. /\ \E sub2 : Shaped(V, I, sub2, w) /\ sub2[n] = sub[n]
          /\ SameAt(X, V, sub[n])
          /\ V.color = X.color
          /\ V.head = IF b = X.head THEN far ELSE X.head
      BY <3>1, <3>3, <3>4, <2>1, <2>2, <2>8, RotateAside
    <3>6. SameAt(T, X, sub[n])
      BY <3>3, SameLinksSameAt
    <3> HIDE DEF V
    <3>7. SameAt(T, V, sub[n])
      BY <3>5, <3>6, SameAtTwice
    <3>8. RootBlack(V)
      BY <3>1, <3>2, <3>3, <3>5, <2>2, <1>2 DEF RootBlack
    <3>9. Keeps(T, I, sub, w, n, V, n)
      BY <3>5, <3>7, <3>8 DEF Keeps
    <3>10. QED
      BY <3>9, <2>8, <1>3 DEF V, X
  <2>9. Keeps(T, I, sub, w, n, paler, n)
        /\ Shaped(paler, I, sub, w) /\ paler.head = T.head
        /\ paler.color[T.head] = T.color[T.head]
        /\ paler.parent = T.parent /\ paler.left = T.left /\ paler.right = T.right
    <3>1. b \in Nodes /\ T.head \in Nodes
      BY <2>2, <1>2
    <3>2. Keeps(T, I, sub, w, n, paler, n)
      BY <2>2, <1>2, PaintKeeps DEF paler
    <3>3. /\ Shaped(paler, I, sub, w) /\ paler.head = T.head /\ paler.parent = T.parent
          /\ paler.left = T.left /\ paler.right = T.right
          /\ \A m \in Nodes : paler.color[m] = IF m = b THEN "RED" ELSE T.color[m]
      BY <3>1, <1>2, PaintShaped DEF paler
    <3>4. QED
      BY <3>1, <3>2, <3>3, <2>2
  <2>10. CASE S = Done(Paint(paler, p, "BLACK"), n)
    <3> DEFINE V == Paint(paler, p, "BLACK")
    <3>1. p \in Nodes /\ T.head \in Nodes
      BY <2>2, <1>2
    <3>2. /\ Shaped(V, I, sub, w) /\ V.head = T.head /\ V.parent = T.parent
          /\ V.left = T.left /\ V.right = T.right
          /\ \A m \in Nodes : V.color[m] = IF m = p THEN "BLACK" ELSE paler.color[m]
      BY <3>1, <2>9, <1>2, PaintShaped
    <3> HIDE DEF V
    <3>3. SameAt(T, V, sub[n])
      BY <3>2, SameLinksSameAt
    <3>4. RootBlack(V)
      BY <3>1, <3>2, <2>9 DEF RootBlack
    <3>5. Keeps(T, I, sub, w, n, V, n)
      BY <3>2, <3>3, <3>4 DEF Keeps
    <3>6. QED
      BY <3>5, <2>10, <1>3 DEF V
  <2>11. CASE S = Again(paler, p)
    <3>1. sub[n] \subseteq sub[p]
      <4>1. \A q \in Sides : sub[T[q][p]] \subseteq sub[p]
        BY <2>2, Members1
      <4>2. QED
        BY <4>1, <2>2, <2>3
    <3>2. Keeps(T, I, sub, w, n, paler, p)
      BY <3>1, <2>2, <2>9 DEF Keeps
    <3>3. QED
      BY <3>2, <2>2, <2>11, <1>3
  <2>12. \/ S = Done(T, n)
         \/ T.right[n] # NULL /\ S = Done(Paint(T, T.right[n], "BLACK"), n)
         \/ T.left[n] # NULL /\ S = Done(Paint(T, T.left[n], "RED"), n)
         \/ S = Again(raised, n)
         \/ near # NULL /\ S = Done(Paint(raised, near, "BLACK"), n)
         \/ far # NULL /\ S = Again(Rotate(SwapColor(T, b, far), b, s), n)
         \/ S = Done(Paint(paler, p, "BLACK"), n)
         \/ S = Again(paler, p)
    <3>1. RemoveStep(T, n, S)
      BY RemoveCases DEF S
    <3>2. QED
      BY <3>1 DEF RemoveStep, near, far, raised, paler, b, p, s
  <2>13. ("right" \in Sides /\ "left" \in Sides)
    BY DEF Sides
  <2>14. QED
    BY <2>6, <2>7, <2>8, <2>10, <2>11, <2>12, <2>13, <1>2, <1>4, <1>5
<1>7. CASE ~(NodeProperty(T, n) # "ROOT" /\ b # NULL)
  <2> HIDE DEF Fine, S
  <2>1. RemoveStep(T, n, S)
    BY RemoveCases DEF S
  <2>2. \/ S = Done(T, n)
        \/ T["right"][n] # NULL /\ S = Done(Paint(T, T["right"][n], "BLACK"), n)
        \/ T["left"][n] # NULL /\ S = Done(Paint(T, T["left"][n], "RED"), n)
    BY <2>1, <1>7 DEF RemoveStep
  <2>3. ("right" \in Sides /\ "left" \in Sides)
    BY DEF Sides
  <2>4. QED
    BY <2>2, <2>3, <1>2, <1>4, <1>5
<1>8. QED
  BY <1>6, <1>7

(* The balancing of n keeps the tree, its black root, and the children and *)
(* the side of n.                                                          *)
LEMMA RemoveBalanceKeeps ==
    ASSUME NEW T, NEW I, NEW sub, NEW w \in Weights, Shaped(T, I, sub, w), RootBlack(T),
           NEW n \in I
    PROVE  LET B == RemoveBalance(T, n)
           IN  /\ \E sub2 : Shaped(B, I, sub2, w)
               /\ SameAt(T, B, {n}) /\ RootBlack(B)
<1> DEFINE St == {s \in [tree : Trees, node : Nodes, done : BOOLEAN] :
                    /\ s.node \in I
                    /\ \E sub2 : Shaped(s.tree, I, sub2, w) /\ n \in sub2[s.node]
                    /\ SameAt(T, s.tree, {n}) /\ RootBlack(s.tree)}
           run == RemoveRun(T, n)
           K   == Rounds(T)
<1>1. T \in Trees /\ n \in Nodes /\ I \subseteq Nodes /\ n \in sub[n]
  BY Members1 DEF Shaped, Linked
<1>2. Again(T, n) \in St
  <2>1. SameAt(T, T, {n})
    BY DEF SameAt
  <2>2. QED
    BY <2>1, <1>1 DEF Again
<1>3. ASSUME NEW s \in St, ~s.done
      PROVE  RemoveRound(s.tree, s.node) \in St
  <2> DEFINE V == s.tree
             m == s.node
             S == RemoveRound(V, m)
  <2>1. m \in I /\ SameAt(T, V, {n}) /\ RootBlack(V)
        /\ \E sub2 : Shaped(V, I, sub2, w) /\ n \in sub2[m]
    OBVIOUS
  <2> HIDE DEF V, m
  <2>2. PICK sub2 : Shaped(V, I, sub2, w) /\ n \in sub2[m]
    BY <2>1
  <2>3. /\ S \in [tree : Trees, node : Nodes, done : BOOLEAN]
        /\ Keeps(V, I, sub2, w, m, S.tree, S.node)
    BY <2>1, <2>2, RemoveRoundKeeps
  <2> HIDE DEF S
  <2>4. /\ S.node \in I /\ RootBlack(S.tree) /\ SameAt(V, S.tree, sub2[m])
        /\ \E sub3 : Shaped(S.tree, I, sub3, w) /\ sub2[m] \subseteq sub3[S.node]
    BY <2>3 DEF Keeps
  <2>5. SameAt(T, S.tree, {n})
    <3>1. {n} \subseteq sub2[m]
      BY <2>2
    <3>2. QED
      BY <3>1, <2>1, <2>4, SameAtTwice
  <2>6. S \in St
    BY <2>2, <2>3, <2>4, <2>5
  <2>7. QED
    BY <2>6 DEF S, V, m
<1> HIDE DEF St
<1>4. run[K] \in St
  <2>1. K \in Nat /\ \A k \in 0 .. K : run[k] \in St
    BY <1>1, <1>2, <1>3, RemoveRunIs
  <2> HIDE DEF K, run
  <2>2. QED
    BY <2>1
<1>5. QED
  BY <1>4 DEF RemoveBalance, St

(* When a round leaves more to be done, and what.                          *)
LEMMA RemoveGoesOn ==
    ASSUME NEW T, NEW n, ~RemoveRound(T, n).done
    PROVE  LET S       == RemoveRound(T, n)
               sibling == Sibling(T, n)
               p       == T.parent[n]
               side    == NodeProperty(T, sibling)
               far     == T[Opposite(side)][sibling]
           IN  /\ \A m \in {n, T.left[n], T.right[n]} : ColorOf(T, m) # "RED"
               /\ NodeProperty(T, n) # "ROOT" /\ sibling # NULL
               /\ \/ /\ ColorOf(T, sibling) = "RED"
                     /\ S = Again(Rotate(SwapColor(T, sibling, p), p, Opposite(side)), n)
                  \/ /\ ColorOf(T, sibling) = "BLACK" /\ ColorOf(T, far) = "RED"
                     /\ S = Again(Rotate(SwapColor(T, sibling, far), sibling, side), n)
                  \/ T.color[p] # "RED" /\ S = Again(Paint(T, sibling, "RED"), p)
<1> DEFINE l       == T.left[n]
           r       == T.right[n]
           reds    == {m \in {n, l, r} : ColorOf(T, m) = "RED"}
           sibling == Sibling(T, n)
           p       == T.parent[n]
           side    == NodeProperty(T, sibling)
           near    == T[side][sibling]
           far     == T[Opposite(side)][sibling]
           raised  == Rotate(SwapColor(T, sibling, p), p, Opposite(side))
           turned  == Rotate(SwapColor(T, sibling, far), sibling, side)
           paler   == Paint(T, sibling, "RED")
           S       == RemoveRound(T, n)
           First   == CASE l = NULL /\ r # NULL -> Done(Paint(T, r, "BLACK"), n)
                        [] l # NULL /\ r = NULL -> Done(Paint(T, l, "RED"), n)
                        [] OTHER                -> Done(T, n)
           Last    == CASE ColorOf(T, sibling) = "RED" -> Again(raised, n)
                        [] ColorOf(T, sibling) = "BLACK" /\ ColorOf(T, near) = "RED" ->
                           Done(Paint(raised, near, "BLACK"), n)
                        [] ColorOf(T, sibling) = "BLACK" /\ ColorOf(T, near) = "BLACK"
                                                        /\ ColorOf(T, far) = "RED" ->
                           Again(turned, n)
                        [] OTHER ->
                           IF T.color[p] = "RED" THEN Done(Paint(paler, p, "BLACK"), n)
                                                 ELSE Again(paler, p)
<1>1. S = CASE reds # {} -> First
            [] reds = {} /\ (NodeProperty(T, n) = "ROOT" \/ sibling = NULL) -> Done(T, n)
            [] OTHER -> Last
  BY DEF RemoveRound
<1>2. \A V, m : Done(V, m).done
  BY DEF Done
<1>3. First.done
  BY <1>2
<1> HIDE DEF First, Last, reds, S, sibling
<1>4. ~S.done
  BY DEF S
<1>5. reds = {} /\ ~(NodeProperty(T, n) = "ROOT" \/ sibling = NULL) /\ S = Last
  BY <1>1, <1>2, <1>3, <1>4
<1> HIDE DEF near, far, raised, turned, paler
<1>6. \/ ColorOf(T, sibling) = "RED" /\ S = Again(raised, n)
      \/ ColorOf(T, sibling) = "BLACK" /\ ColorOf(T, far) = "RED" /\ S = Again(turned, n)
      \/ T.color[p] # "RED" /\ S = Again(paler, p)
  BY <1>2, <1>4, <1>5 DEF Last
<1>7. \A m \in {n, T.left[n], T.right[n]} : ColorOf(T, m) # "RED"
  BY <1>5 DEF reds
<1>8. QED
  BY <1>5, <1>6, <1>7 DEF S, sibling, far, raised, turned, paler

(* A round is the last one when the sibling is black and its outer child   *)
(* red.                                                                    *)
LEMMA RemoveEndsHere ==
    ASSUME NEW T, NEW n,
           \A m \in {n, T.left[n], T.right[n]} : ColorOf(T, m) # "RED",
           ColorOf(T, Sibling(T, n)) = "BLACK",
           LET b == Sibling(T, n) IN ColorOf(T, T[NodeProperty(T, b)][b]) = "RED"
    PROVE  RemoveRound(T, n).done
<1>1. ASSUME ~RemoveRound(T, n).done PROVE FALSE
  <2> DEFINE sibling == Sibling(T, n)
             side    == NodeProperty(T, sibling)
             near    == T[side][sibling]
             far     == T[Opposite(side)][sibling]
             p       == T.parent[n]
             l       == T.left[n]
             r       == T.right[n]
             reds    == {m \in {n, l, r} : ColorOf(T, m) = "RED"}
             raised  == Rotate(SwapColor(T, sibling, p), p, Opposite(side))
             turned  == Rotate(SwapColor(T, sibling, far), sibling, side)
             paler   == Paint(T, sibling, "RED")
             S       == RemoveRound(T, n)
             First   == CASE l = NULL /\ r # NULL -> Done(Paint(T, r, "BLACK"), n)
                          [] l # NULL /\ r = NULL -> Done(Paint(T, l, "RED"), n)
                          [] OTHER                -> Done(T, n)
             Last    == CASE ColorOf(T, sibling) = "RED" -> Again(raised, n)
                          [] ColorOf(T, sibling) = "BLACK" /\ ColorOf(T, near) = "RED" ->
                             Done(Paint(raised, near, "BLACK"), n)
                          [] ColorOf(T, sibling) = "BLACK" /\ ColorOf(T, near) = "BLACK"
                                                          /\ ColorOf(T, far) = "RED" ->
                             Again(turned, n)
                          [] OTHER ->
                             IF T.color[p] = "RED" THEN Done(Paint(paler, p, "BLACK"), n)
                                                   ELSE Again(paler, p)
  <2>1. S = CASE reds # {} -> First
              [] reds = {} /\ (NodeProperty(T, n) = "ROOT" \/ sibling = NULL) -> Done(T, n)
              [] OTHER -> Last
    BY DEF RemoveRound
  <2>2. reds = {}
    OBVIOUS
  <2>3. ColorOf(T, sibling) = "BLACK" /\ ColorOf(T, near) = "RED"
    OBVIOUS
  <2> HIDE DEF First, reds, S, sibling, near, far, raised, turned, paler
  <2>4. Last = Done(Paint(raised, near, "BLACK"), n)
    BY <2>3
  <2>5. \A V, m : Done(V, m).done
    BY DEF Done
  <2> HIDE DEF Last
  <2>6. S.done
    BY <2>1, <2>2, <2>4, <2>5
  <2>7. QED
    BY <2>6, <1>1 DEF S
<1>2. QED
  BY <1>1

(* The rounds at T and n can go on r times at most: while they move up,    *)
(* what hangs under the node grows; once the parent is red they do not     *)
(* move up any more, and what hangs under the parent shrinks.              *)
Within(T, I, sub, n, r) ==
    /\ r \in Nat /\ n \in I
    /\ \/ 2 * Cardinality(Nodes) <= r + Size(sub)[n]
       \/ n # T.head /\ T.color[T.parent[n]] = "RED" /\ Size(sub)[T.parent[n]] <= r
       \/ 1 <= r /\ RemoveRound(T, n).done

LEMMA RoundsShrink ==
    ASSUME NEW T, NEW I, NEW sub, NEW w \in Weights, Shaped(T, I, sub, w),
           NEW n, NEW r, Within(T, I, sub, n, r), ~RemoveRound(T, n).done
    PROVE  LET S == RemoveRound(T, n)
           IN  \E sub2 : Shaped(S.tree, I, sub2, w) /\ Within(S.tree, I, sub2, S.node, r - 1)
<1> DEFINE S      == RemoveRound(T, n)
           b      == Sibling(T, n)
           p      == T.parent[n]
           s      == NodeProperty(T, b)
           o      == Opposite(s)
           far    == T[o][b]
           X1     == SwapColor(T, b, p)
           raised == Rotate(X1, p, o)
           X2     == SwapColor(T, b, far)
           turned == Rotate(X2, b, s)
           paler  == Paint(T, b, "RED")
           Sz     == Size(sub)
           N      == Cardinality(Nodes)
           Fine   == \E sub2 : Shaped(S.tree, I, sub2, w) /\ Within(S.tree, I, sub2, S.node, r - 1)
<1>1. /\ \A m \in {n, T.left[n], T.right[n]} : ColorOf(T, m) # "RED"
      /\ NodeProperty(T, n) # "ROOT" /\ b # NULL
      /\ \/ ColorOf(T, b) = "RED" /\ S = Again(raised, n)
         \/ ColorOf(T, b) = "BLACK" /\ ColorOf(T, far) = "RED" /\ S = Again(turned, n)
         \/ T.color[p] # "RED" /\ S = Again(paler, p)
  BY RemoveGoesOn
<1>2. n \in I /\ n # T.head /\ r \in Nat
  BY <1>1, PropertyOf DEF Within
<1>3. /\ p \in I /\ p \notin sub[n] /\ p # n
      /\ b \in I /\ b \notin sub[n] /\ b # p /\ b # T.head /\ T.parent[b] = p
      /\ s \in Sides /\ T[s][p] = b /\ T[o][p] = n
      /\ \A q \in Sides : /\ T[q][b] \in I \cup {NULL} /\ T[q][b] # b
                          /\ T[q][b] # p /\ T[q][b] \notin sub[n]
                          /\ T[q][b] # T.head
  BY <1>1, <1>2, SiblingIs
<1>4. /\ o \in Sides /\ Opposite(o) = s /\ o # s
  BY <1>3 DEF Sides, Opposite
<1>5. /\ I \subseteq Nodes /\ NULL \notin I /\ T \in Trees /\ N \in Nat
      /\ T.head \in I /\ n \in sub[n] /\ sub[n] \subseteq I
      /\ "RED" \in Colors
      /\ \A m \in Nodes : Sz[m] \in Nat /\ Sz[m] <= N
      /\ 1 <= Sz[n] /\ Sz[n] < Sz[p]
  BY <1>2, SizesGrow, Members1 DEF Shaped, Linked, Colors
<1>6. /\ \/ 2 * N <= r + Sz[n]
         \/ T.color[p] = "RED" /\ Sz[p] <= r
      /\ Sz[p] <= r /\ 2 <= r
  <2>1. \/ 2 * N <= r + Sz[n]
        \/ T.color[p] = "RED" /\ Sz[p] <= r
    BY DEF Within
  <2>2. Sz[n] \in Nat /\ Sz[p] \in Nat /\ Sz[p] <= N
    BY <1>2, <1>3, <1>5
  <2> HIDE DEF Sz, N, p
  <2>3. QED
    BY <2>1, <2>2, <1>2, <1>5
<1>7. SUFFICES Fine
  OBVIOUS
<1>8. T.color \in [Nodes -> Colors]
  BY <1>5 DEF Trees, Colors
<1> HIDE DEF Fine, S, N, b, p, s, o, far
<1>9. CASE ColorOf(T, b) = "RED" /\ S = Again(raised, n)
  <2> DEFINE sub2 == [sub EXCEPT ![b] = sub[p], ![p] = {p} \cup sub[X1[o][p]] \cup sub[X1[o][b]]]
  <2>1. p \in Nodes /\ b \in Nodes
    BY <1>3, <1>5
  <2>2. /\ Shaped(X1, I, sub, w) /\ X1.head = T.head
        /\ X1.left = T.left /\ X1.right = T.right
        /\ \A m \in Nodes : X1.color[m] = IF m = b THEN T.color[p]
                                          ELSE IF m = p THEN T.color[b] ELSE T.color[m]
    BY <2>1, <1>3, SwapColorShaped
  <2> HIDE DEF X1
  <2>3. X1[Opposite(o)][p] = b /\ b # NULL /\ X1[o][p] = n
    BY <2>2, <1>3, <1>4, <1>5 DEF Sides
  <2>4. /\ Shaped(raised, I, sub2, w) /\ raised.color = X1.color
        /\ raised[o][p] = n
    <3> DEFINE c == X1[Opposite(o)][p]
    <3>1. p \in I /\ o \in Sides /\ c # NULL /\ Shaped(X1, I, sub, w)
      BY <2>2, <2>3, <1>3, <1>4
    <3>2. /\ Shaped(raised, I, [sub EXCEPT ![c] = sub[p],
                                         ![p] = {p} \cup sub[X1[o][p]] \cup sub[X1[o][c]]], w)
          /\ raised.color = X1.color /\ raised[o][p] = X1[o][p]
      BY <3>1, RotateShaped
    <3> HIDE DEF raised
    <3>3. QED
      BY <3>2, <2>3
  <2>5. raised.color[p] = "RED"
    BY <2>1, <2>2, <2>4, <1>3, <1>5, <1>9 DEF ColorOf
  <2> HIDE DEF sub2, raised
  <2>6. n # raised.head /\ raised.parent[n] = p
    BY <2>4, <1>2, <1>3, <1>4, PropertyOf
  <2>7. Size(sub2)[p] <= Sz[p] - 1 /\ Size(sub2)[p] \in Nat
    <3>1. sub2[p] \subseteq sub[p] /\ b \in sub[p] /\ b \notin sub2[p]
      <4>1. sub2[p] = {p} \cup sub[n] \cup sub[X1[o][b]]
        <5>1. p \in DOMAIN sub
          BY <2>1 DEF Shaped, Linked, Link
        <5>2. QED
          BY <5>1, <2>3, <1>3 DEF sub2
      <4>2. /\ sub[p] = {p} \cup sub[b] \cup sub[n]
        BY <1>3, UnderParent DEF o
      <4>3. /\ b \in sub[b] /\ sub[T[o][b]] \subseteq sub[b] /\ b \notin sub[T[o][b]]
        BY <1>3, <1>4, Members1
      <4>4. X1[o][b] = T[o][b]
        BY <2>2, <1>4 DEF Sides
      <4>5. QED
        BY <4>1, <4>2, <4>3, <4>4, <1>3
    <3>2. IsFiniteSet(sub[p])
      <4>1. sub[p] \subseteq Nodes /\ IsFiniteSet(Nodes)
        BY <1>3, <1>5, Members1, NodesAssumption
      <4>2. QED
        BY <4>1, FS_Subset
    <3>3. /\ Cardinality(sub2[p]) <= Cardinality(sub[p])
          /\ Cardinality(sub2[p]) # Cardinality(sub[p])
          /\ IsFiniteSet(sub2[p])
      BY <3>1, <3>2, FS_Subset
    <3>4. Cardinality(sub2[p]) \in Nat /\ Cardinality(sub[p]) \in Nat
      BY <3>2, <3>3, FS_CardinalityType
    <3>5. Size(sub2)[p] = Cardinality(sub2[p]) /\ Sz[p] = Cardinality(sub[p])
      BY <2>1 DEF Size
    <3>6. QED
      BY <3>3, <3>4, <3>5
  <2>8. Size(sub2)[p] <= r - 1 /\ r - 1 \in Nat
    <3>1. Sz[p] \in Nat
      BY <1>5, <2>1
    <3> HIDE DEF Sz
    <3>2. QED
      BY <3>1, <2>7, <1>2, <1>6
  <2>9. Within(raised, I, sub2, n, r - 1)
    BY <2>5, <2>6, <2>8, <1>2 DEF Within
  <2>10. S.tree = raised /\ S.node = n
    BY <1>9 DEF Again
  <2>11. QED
    BY <2>4, <2>9, <2>10 DEF Fine
<1>10. CASE /\ ColorOf(T, b) = "BLACK" /\ ColorOf(T, far) = "RED"
            /\ S = Again(turned, n)
  <2>1. /\ far \in I /\ far # b /\ far # p /\ far # NULL /\ far \notin sub[n]
    BY <1>3, <1>4, <1>5, <1>10 DEF ColorOf, far
  <2>2. b \in Nodes /\ far \in Nodes /\ n \in Nodes /\ b # NULL
    BY <2>1, <1>2, <1>3, <1>5
  <2>3. /\ Shaped(X2, I, sub, w) /\ X2.head = T.head /\ X2.parent = T.parent
        /\ X2.left = T.left /\ X2.right = T.right
        /\ \A m \in Nodes : X2.color[m] = IF m = b THEN T.color[far]
                                          ELSE IF m = far THEN T.color[b] ELSE T.color[m]
    BY <2>1, <2>2, SwapColorShaped
  <2> HIDE DEF X2
  <2>4. X2[Opposite(s)][b] = far /\ X2[s][p] = b /\ X2[o][p] = n
    BY <2>3, <1>3, <1>4 DEF Sides, o, far
  <2>5. (\E sub2 : Shaped(turned, I, sub2, w)) /\ Turned(X2, I, b, s, turned)
    BY <2>1, <2>3, <2>4, <1>3, RotateTurns
  <2>6. PICK sub2 : Shaped(turned, I, sub2, w)
    BY <2>5
  <2> HIDE DEF turned
  <2>7. /\ turned.color = X2.color /\ turned[s][far] = b
        /\ \A q \in Sides, m \in I :
              m \notin {b, far} => turned[q][m] = IF X2[q][m] = b THEN far ELSE X2[q][m]
    BY <2>4, <2>5 DEF Turned
  <2>8. turned[s][p] = far /\ turned[o][p] = n
    <3>1. p \notin {b, far} /\ n # b
      BY <2>1, <1>3, <1>5
    <3>2. \A q \in Sides : turned[q][p] = IF X2[q][p] = b THEN far ELSE X2[q][p]
      BY <3>1, <2>7, <1>3
    <3>3. QED
      BY <3>1, <3>2, <2>4, <1>3, <1>4
  <2>9. /\ NodeProperty(turned, n) = o /\ turned.parent[n] = p /\ n # turned.head
        /\ NodeProperty(turned, far) = s
    <3>1. NodeProperty(turned, n) = o /\ turned.parent[n] = p /\ n # turned.head
      BY <2>6, <2>8, <1>2, <1>3, <1>4, PropertyOf
    <3>2. NodeProperty(turned, far) = s
      BY <2>1, <2>6, <2>8, <1>3, PropertyOf
    <3>3. QED
      BY <3>1, <3>2
  <2>10. Sibling(turned, n) = far
    BY <2>8, <2>9, <1>4 DEF Sibling, Sides
  <2>11. /\ ColorOf(turned, far) = "BLACK"
         /\ ColorOf(turned, turned[NodeProperty(turned, far)][far]) = "RED"
    <3>1. turned.color[far] = T.color[b] /\ turned.color[b] = T.color[far]
      BY <2>1, <2>2, <2>3, <2>7
    <3>2. T.color[b] = "BLACK" /\ T.color[far] = "RED"
      BY <2>1, <2>2, <1>10 DEF ColorOf
    <3>3. QED
      BY <3>1, <3>2, <2>1, <2>2, <2>7, <2>9 DEF ColorOf
  <2>12. \A m \in {n, turned.left[n], turned.right[n]} : ColorOf(turned, m) # "RED"
    <3>1. turned[o][n] = T[o][n] /\ turned[s][n] = T[s][n]
      <4>1. n \notin {b, far} /\ T[o][n] # b /\ T[s][n] # b
        <5>1. \A q \in Sides : sub[T[q][n]] \subseteq sub[n] /\ (T[q][n] # NULL => T[q][n] \in sub[T[q][n]])
          BY <1>2, Members1
        <5>2. QED
          BY <5>1, <2>1, <2>2, <1>3, <1>4, <1>5
      <4>2. X2[o][n] = T[o][n] /\ X2[s][n] = T[s][n]
        BY <2>3, <1>3, <1>4 DEF Sides
      <4>3. QED
        BY <4>1, <4>2, <2>7, <1>2, <1>3, <1>4
    <3>2. {turned.left[n], turned.right[n]} = {T.left[n], T.right[n]}
      BY <3>1, <1>3, <1>4 DEF Sides
    <3>3. ASSUME NEW m \in {n, T.left[n], T.right[n]} PROVE ColorOf(turned, m) = ColorOf(T, m)
      <4>1. CASE m = NULL
        BY <4>1 DEF ColorOf
      <4>2. CASE m # NULL
        <5>1. m \in sub[n]
          <6>1. \A q \in Sides : sub[T[q][n]] \subseteq sub[n] /\ (T[q][n] # NULL => T[q][n] \in sub[T[q][n]])
            BY <1>2, Members1
          <6>2. QED
            BY <6>1, <4>2, <3>3, <1>5 DEF Sides
        <5>2. m \in Nodes /\ m # b /\ m # far
          BY <5>1, <2>1, <1>3, <1>5
        <5>3. QED
          BY <5>2, <2>3, <2>7 DEF ColorOf
      <4>3. QED
        BY <4>1, <4>2
    <3>4. QED
      BY <3>2, <3>3, <1>1
  <2>13. RemoveRound(turned, n).done
    BY <2>10, <2>11, <2>12, RemoveEndsHere
  <2>14. Within(turned, I, sub2, n, r - 1)
    BY <2>13, <1>2, <1>6 DEF Within
  <2>15. S.tree = turned /\ S.node = n
    BY <1>10 DEF Again
  <2>16. QED
    BY <2>6, <2>14, <2>15 DEF Fine
<1>11. CASE T.color[p] # "RED" /\ S = Again(paler, p)
  <2>1. Shaped(paler, I, sub, w)
    <3>1. b \in Nodes
      BY <1>3, <1>5
    <3>2. QED
      BY <3>1, <1>5, PaintShaped
  <2>2. Sz[n] \in Nat /\ Sz[p] \in Nat
    BY <1>2, <1>3, <1>5
  <2>3. 2 * N <= (r - 1) + Sz[p] /\ r - 1 \in Nat
    <3>1. 2 * N <= r + Sz[n]
      BY <1>6, <1>11
    <3> HIDE DEF Sz
    <3>2. QED
      BY <3>1, <2>2, <1>2, <1>5, <1>6
  <2> HIDE DEF paler
  <2>4. Within(paler, I, sub, p, r - 1)
    BY <2>3, <1>3 DEF Within, N
  <2>5. S.tree = paler /\ S.node = p
    BY <1>11 DEF Again
  <2>6. QED
    BY <2>1, <2>4, <2>5 DEF Fine
<1>12. QED
  BY <1>1, <1>9, <1>10, <1>11

(* The balancing of a removal ends within the rounds the recursion is      *)
(* given here, twice as many as there are nodes: also in a tree whose      *)
(* colours earlier removals have left wrong.                               *)
LEMMA RemovalEnds ==
    ASSUME NEW T, NEW I, NEW sub, NEW w \in Weights, Shaped(T, I, sub, w), RootBlack(T),
           NEW n \in I
    PROVE  RemoveRun(T, n)[Rounds(T)].done
<1> DEFINE St == {s \in [tree : Trees, node : Nodes, done : BOOLEAN] :
                    s.node \in I /\ RootBlack(s.tree) /\ \E sub2 : Shaped(s.tree, I, sub2, w)}
           run == RemoveRun(T, n)
           K   == Rounds(T)
           Left(s, r) == \E sub2 : Shaped(s.tree, I, sub2, w)
                                   /\ Within(s.tree, I, sub2, s.node, r)
           Go  == {k \in 0 .. K : ~run[k].done => Left(run[k], K - 1 - k)}
<1>1. T \in Trees /\ n \in Nodes /\ I \subseteq Nodes
  BY DEF Shaped, Linked
<1>2. Again(T, n) \in St
  BY <1>1 DEF Again
<1>3. ASSUME NEW s \in St, ~s.done
      PROVE  RemoveRound(s.tree, s.node) \in St
  <2> DEFINE V == s.tree
             m == s.node
             S == RemoveRound(V, m)
  <2>1. m \in I /\ RootBlack(V) /\ \E sub2 : Shaped(V, I, sub2, w)
    OBVIOUS
  <2> HIDE DEF V, m
  <2>2. PICK sub2 : Shaped(V, I, sub2, w)
    BY <2>1
  <2>3. /\ S \in [tree : Trees, node : Nodes, done : BOOLEAN]
        /\ Keeps(V, I, sub2, w, m, S.tree, S.node)
    BY <2>1, <2>2, RemoveRoundKeeps
  <2> HIDE DEF S
  <2>4. S \in St
    BY <2>3 DEF Keeps
  <2>5. QED
    BY <2>4 DEF S, V, m
<1> HIDE DEF St, run, K
<1>4. /\ K = 2 * Cardinality(Nodes) /\ K \in Nat
      /\ \A k \in 0 .. K : run[k] \in St
      /\ run[0] = Again(T, n)
      /\ \A k \in 1 .. K :
            run[k] = IF run[k - 1].done THEN run[k - 1]
                     ELSE RemoveRound(run[k - 1].tree, run[k - 1].node)
  BY <1>1, <1>2, <1>3, RemoveRunIs DEF run, K
<1>5. Cardinality(Nodes) \in Nat /\ 1 <= Size(sub)[n] /\ Size(sub)[n] \in Nat
      /\ Size(sub)[n] <= Cardinality(Nodes)
  BY <1>1, SizesGrow
<1>6. 0 \in Go
  <2>1. K - 1 - 0 \in Nat /\ 2 * Cardinality(Nodes) <= (K - 1 - 0) + Size(sub)[n]
    <3> DEFINE z == Size(sub)[n]
    <3>1. z \in Nat /\ 1 <= z /\ z <= Cardinality(Nodes)
      BY <1>5
    <3> HIDE DEF z
    <3>2. K - 1 - 0 \in Nat /\ 2 * Cardinality(Nodes) <= (K - 1 - 0) + z
      BY <3>1, <1>4, <1>5
    <3>3. QED
      BY <3>2 DEF z
  <2>2. Within(T, I, sub, n, K - 1 - 0)
    BY <2>1 DEF Within
  <2>3. run[0].tree = T /\ run[0].node = n
    BY <1>4 DEF Again
  <2>4. Left(run[0], K - 1 - 0)
    BY <2>2, <2>3
  <2>5. 0 \in 0 .. K
    BY <1>4
  <2> HIDE DEF Left
  <2>6. QED
    BY <2>4, <2>5
<1>7. ASSUME NEW k \in 1 .. K, k - 1 \in Go PROVE k \in Go
  <2>1. k - 1 \in 0 .. K /\ k \in 0 .. K /\ (K - 1 - (k - 1)) - 1 = K - 1 - k
    BY <1>4
  <2>2. CASE run[k].done
    BY <2>1, <2>2
  <2>3. CASE ~run[k].done
    <3> DEFINE V == run[k - 1].tree
               m == run[k - 1].node
    <3>1. ~run[k - 1].done /\ run[k] = RemoveRound(V, m)
      BY <2>1, <2>3, <1>4
    <3>2. Left(run[k - 1], K - 1 - (k - 1))
      BY <3>1, <1>7
    <3>3. PICK sub2 : Shaped(V, I, sub2, w) /\ Within(V, I, sub2, m, K - 1 - (k - 1))
      BY <3>2
    <3> HIDE DEF V, m
    <3>4. ~RemoveRound(V, m).done
      BY <3>1, <2>3
    <3>5. \E sub3 : /\ Shaped(RemoveRound(V, m).tree, I, sub3, w)
                    /\ Within(RemoveRound(V, m).tree, I, sub3, RemoveRound(V, m).node,
                              (K - 1 - (k - 1)) - 1)
      BY <3>3, <3>4, RoundsShrink
    <3>6. Left(run[k], K - 1 - k)
      BY <3>1, <3>5, <2>1
    <3> HIDE DEF Left
    <3>7. QED
      BY <3>6, <2>1
  <2>4. QED
    BY <2>2, <2>3
<1> HIDE DEF Go
<1>8. K \in Go
  <2>1. \A k \in 0 .. K : k \in Go
    BY <1>4, <1>6, <1>7, CountingUp
  <2>2. QED
    BY <2>1, <1>4
<1>9. run[K].done
  <2>1. SUFFICES ASSUME Left(run[K], K - 1 - K) PROVE FALSE
    BY <1>8 DEF Go
  <2>2. K - 1 - K \in Nat
    BY <2>1 DEF Within
  <2>3. QED
    BY <2>2, <1>4
<1>10. QED
  BY <1>9 DEF run, K

-----------------------------------------------------------------------------
(* Removal.                                                                *)

(* The only child c a node may have, or NULL.                              *)
IsOnlyChild(T, I, sub, n, c) ==
    LET kids == {T.left[n], T.right[n]} \ {NULL}
    IN  /\ c = IF kids = {} THEN NULL ELSE CHOOSE k \in kids : TRUE
        /\ kids = {} => c = NULL
        /\ kids # {} => c # NULL
        /\ c # NULL => c \in I /\ T.parent[c] = n
        /\ \A q \in Sides : T[q][n] \in {c, NULL}
        /\ sub[n] = {n} \cup sub[c]
        /\ n # c /\ n \notin sub[c]
        /\ kids # {} <=> Cardinality(kids) = 1

LEMMA OnlyChild ==
    ASSUME NEW T, NEW I, NEW sub, NEW w \in Weights, Shaped(T, I, sub, w),
           NEW n \in I, T.left[n] = NULL \/ T.right[n] = NULL
    PROVE  \E c \in I \cup {NULL} : IsOnlyChild(T, I, sub, n, c)
<1> DEFINE kids == {T.left[n], T.right[n]} \ {NULL}
<1>1. /\ sub[n] = {n} \cup sub[T.left[n]] \cup sub[T.right[n]] /\ sub[NULL] = {}
      /\ NULL \notin I
      /\ \A q \in Sides : /\ T[q][n] \in I \cup {NULL} /\ T[q][n] # n /\ n \notin sub[T[q][n]]
                          /\ T[q][n] # NULL => T.parent[T[q][n]] = n
  <2>1. \A q \in Sides : /\ T[q][n] \in I \cup {NULL} /\ T[q][n] # n /\ n \notin sub[T[q][n]]
                         /\ T[q][n] # NULL => T.parent[T[q][n]] = n
    BY Members1 DEF Shaped, Linked
  <2>2. sub[n] = {n} \cup sub[T.left[n]] \cup sub[T.right[n]] /\ sub[NULL] = {}
    BY DEF Shaped, Linked
  <2>3. NULL \notin I
    BY Members1
  <2>4. QED
    BY <2>1, <2>2, <2>3
<1>2. CASE T.left[n] = NULL /\ T.right[n] = NULL
  <2>1. kids = {} /\ Cardinality(kids) = 0
    BY <1>2, FS_EmptySet
  <2>2. IsOnlyChild(T, I, sub, n, NULL)
    BY <2>1, <1>1, <1>2 DEF Sides, IsOnlyChild
  <2>3. QED
    BY <2>2
<1>3. ASSUME NEW q \in Sides, T[q][n] # NULL, T[Opposite(q)][n] = NULL
      PROVE  \E c \in I \cup {NULL} : IsOnlyChild(T, I, sub, n, c)
  <2> DEFINE c == T[q][n]
  <2>1. kids = {c} /\ \A t \in Sides : T[t][n] \in {c, NULL}
    BY <1>3 DEF Sides, Opposite
  <2>2. sub[n] = {n} \cup sub[c]
    BY <1>1, <1>3 DEF Sides, Opposite
  <2>3. c \in I /\ c # NULL /\ T.parent[c] = n /\ n # c /\ n \notin sub[c]
    BY <1>1, <1>3
  <2> HIDE DEF c, kids
  <2>4. Cardinality(kids) = 1
    BY <2>1, FS_Singleton
  <2>5. c = CHOOSE k \in kids : TRUE
    BY <2>1
  <2>6. IsOnlyChild(T, I, sub, n, c)
    BY <2>1, <2>2, <2>3, <2>4, <2>5 DEF IsOnlyChild, kids
  <2>7. QED
    BY <2>3, <2>6
<1>4. CASE T.left[n] # NULL /\ T.right[n] = NULL
  BY <1>3, <1>4 DEF Sides, Opposite
<1>5. CASE T.left[n] = NULL /\ T.right[n] # NULL
  BY <1>3, <1>5 DEF Sides, Opposite
<1>6. QED
  BY <1>2, <1>4, <1>5

(* The last node leaves an empty tree.                                     *)
LEMMA LastShaped ==
    ASSUME NEW T, NEW I, NEW sub, NEW w \in Weights, Shaped(T, I, sub, w),
           NEW n \in I, n = T.head, T.left[n] = NULL, T.right[n] = NULL
    PROVE  LET R == Fresh([T EXCEPT !.head = NULL], n)
           IN  \E sub2 : Shaped(R, I \ {n}, sub2, w) /\ RootBlack(R)
<1> DEFINE R == Fresh([T EXCEPT !.head = NULL], n)
           sub2 == [k \in Link |-> {}]
<1>1. I = {n} /\ T \in Trees /\ NULL \notin Nodes /\ n \in Nodes
  <2>1. sub[n] = {n} \cup sub[T.left[n]] \cup sub[T.right[n]] /\ sub[NULL] = {} /\ sub[n] = I
    BY DEF Shaped, Linked
  <2>2. QED
    BY <2>1, NodesAssumption DEF Shaped, Linked
<1>2. \A m \in Nodes \ {n} : T.parent[m] = NULL /\ T.left[m] = NULL /\ T.right[m] = NULL
  BY <1>1 DEF Shaped, Linked, Sides
<1>3. /\ R \in Trees /\ R.head = NULL
      /\ \A m \in Nodes : R.parent[m] = NULL /\ R.left[m] = NULL /\ R.right[m] = NULL
  BY <1>1, <1>2 DEF Trees, Link, Fresh
<1> HIDE DEF R
<1>4. \A m \in Nodes, q \in Sides : R[q][m] = NULL
  BY <1>3 DEF Sides
<1>5. sub2 \in [Link -> SUBSET {}] /\ sub2[NULL] = {}
  BY DEF Link
<1> HIDE DEF sub2
<1>6. Linked(R, {}, sub2)
  BY <1>3, <1>4, <1>5 DEF Linked
<1>7. InOrder(R, {}, sub2, w)
  BY DEF InOrder
<1>8. RootBlack(R) /\ I \ {n} = {}
  BY <1>1, <1>3 DEF RootBlack
<1>9. QED
  BY <1>6, <1>7, <1>8 DEF Shaped, R

(* The child c of n, or NULL, takes the place of n on side s of p.         *)
Spliced(T, R, n, s, p, c) ==
    /\ R \in Trees /\ R.head = T.head
    /\ \A m \in Nodes : R.parent[m] = IF m = n THEN NULL
                                      ELSE IF m = c THEN p ELSE T.parent[m]
    /\ \A q \in Sides, m \in Nodes : R[q][m] = IF m = n THEN NULL
                                               ELSE IF m = p /\ q = s THEN c ELSE T[q][m]

LEMMA SplicedShaped ==
    ASSUME NEW T, NEW I, NEW sub, NEW w \in Weights, Shaped(T, I, sub, w),
           NEW n \in I, n # T.head, NEW s \in Sides, NEW p \in I, T[s][p] = n,
           NEW c \in I \cup {NULL}, IsOnlyChild(T, I, sub, n, c),
           NEW R, Spliced(T, R, n, s, p, c)
    PROVE  \E sub2 : Shaped(R, I \ {n}, sub2, w)
<1> DEFINE J    == I \ {n}
           sub2 == [k \in Link |-> IF k = n THEN {} ELSE sub[k] \ {n}]
<1>20. /\ c # NULL => c \in I /\ T.parent[c] = n
       /\ \A q \in Sides : T[q][n] \in {c, NULL}
       /\ sub[n] = {n} \cup sub[c] /\ n # c /\ n \notin sub[c]
  BY DEF IsOnlyChild
<1>21. /\ R \in Trees /\ R.head = T.head
       /\ \A m \in Nodes : R.parent[m] = IF m = n THEN NULL
                                         ELSE IF m = c THEN p ELSE T.parent[m]
       /\ \A q \in Sides, m \in Nodes : R[q][m] = IF m = n THEN NULL
                                                  ELSE IF m = p /\ q = s THEN c ELSE T[q][m]
  BY DEF Spliced
<1>1. /\ I \subseteq Nodes /\ NULL \notin Nodes /\ n \in Nodes /\ p \in Nodes /\ p # n
      /\ T.head \in I /\ sub[T.head] = I /\ T.parent[T.head] = NULL
      /\ sub \in [Link -> SUBSET I] /\ sub[NULL] = {}
      /\ T.parent[n] = p
  <2>1. p # n
    BY Members1
  <2>2. T.parent[n] = p
    BY PropertyOf
  <2>3. T.head \in I
    BY Members1
  <2>4. QED
    BY <2>1, <2>2, <2>3, NodesAssumption DEF Shaped, Linked
<1>2. \A m \in I, q \in Sides : /\ T[q][m] \in I \cup {NULL}
                                /\ T[q][m] # NULL => T.parent[T[q][m]] = m
                                /\ T[q][m] = n => m = p /\ q = s
  <2>1. \A m \in I, q \in Sides : T[q][m] = n => m = p /\ q = s
    BY PropertyOf
  <2>2. QED
    BY <1>20, <1>21, <2>1 DEF Shaped, Linked
<1>3. /\ sub2 \in [Link -> SUBSET J] /\ sub2[NULL] = {} /\ sub2[T.head] = J
      /\ \A k \in I \cup {NULL} : k # n => sub2[k] = sub[k] \ {n}
      /\ \A k \in I \cup {NULL} : sub2[k] \subseteq sub[k]
  BY <1>20, <1>21, <1>1 DEF Link
<1> HIDE DEF sub2
<1>4. \A m \in J : sub2[m] = {m} \cup sub2[R.left[m]] \cup sub2[R.right[m]]
  <2>1. SUFFICES ASSUME NEW m \in J
                 PROVE  sub2[m] = {m} \cup sub2[R["left"][m]] \cup sub2[R["right"][m]]
    OBVIOUS
  <2>2. /\ sub2[m] = sub[m] \ {n} /\ m # n /\ m \in Nodes
        /\ sub[m] = {m} \cup sub[T["left"][m]] \cup sub[T["right"][m]]
    BY <1>20, <1>21, <1>1, <1>3 DEF Shaped, Linked
  <2>3. ASSUME NEW q \in Sides PROVE sub2[R[q][m]] = sub[T[q][m]] \ {n}
    <3>1. CASE m = p /\ q = s
      <4>1. R[q][m] = c /\ T[q][m] = n
        BY <1>20, <1>21, <3>1, <1>1
      <4>2. sub2[c] = sub[c] \ {n}
        BY <1>20, <1>21, <1>3
      <4>3. QED
        BY <1>20, <1>21, <4>1, <4>2
    <3>2. CASE ~(m = p /\ q = s)
      <4>1. R[q][m] = T[q][m] /\ T[q][m] # n /\ T[q][m] \in I \cup {NULL}
        BY <1>20, <1>21, <3>2, <2>2, <1>1, <1>2
      <4>2. QED
        BY <1>20, <1>21, <4>1, <1>3
    <3>3. QED
      BY <1>20, <1>21, <3>1, <3>2
  <2>4. "left" \in Sides /\ "right" \in Sides
    BY DEF Sides
  <2>5. sub2[R["left"][m]] = sub[T["left"][m]] \ {n} /\ sub2[R["right"][m]] = sub[T["right"][m]] \ {n}
    BY <1>20, <1>21, <2>3, <2>4
  <2>6. QED
    BY <1>20, <1>21, <2>2, <2>5
<1>5. \A m \in J : m # R.head => R.parent[m] \in J /\ \E q \in Sides : R[q][R.parent[m]] = m
  <2>1. SUFFICES ASSUME NEW m \in J, m # T.head
                 PROVE  R.parent[m] \in J /\ \E q \in Sides : R[q][R.parent[m]] = m
    BY <1>21
  <2>2. CASE m = c
    BY <1>20, <1>21, <2>1, <2>2, <1>1
  <2>3. CASE m # c
    <3>1. PICK q \in Sides : T.parent[m] \in I /\ T[q][T.parent[m]] = m
      BY <1>20, <1>21, <2>1 DEF Shaped, Linked
    <3>2. R.parent[m] = T.parent[m]
      BY <1>20, <1>21, <2>1, <2>3, <1>1
    <3>3. T.parent[m] # n
      BY <1>20, <1>21, <2>1, <2>3, <3>1, <1>1
    <3>4. ~(T.parent[m] = p /\ q = s)
      BY <1>20, <1>21, <2>1, <3>1
    <3>5. R[q][T.parent[m]] = m
      BY <1>20, <1>21, <3>1, <3>3, <3>4, <1>1
    <3>6. QED
      BY <1>20, <1>21, <3>1, <3>2, <3>3, <3>5
  <2>4. QED
    BY <1>20, <1>21, <2>2, <2>3
<1>6. \A m \in J, q \in Sides : /\ R[q][m] \in J \cup {NULL}
                                /\ R[q][m] # NULL => R.parent[R[q][m]] = m
  <2>1. SUFFICES ASSUME NEW m \in J, NEW q \in Sides
                 PROVE  R[q][m] \in J \cup {NULL} /\ (R[q][m] # NULL => R.parent[R[q][m]] = m)
    OBVIOUS
  <2>2. CASE m = p /\ q = s
    BY <1>20, <1>21, <2>2, <1>1
  <2>3. CASE ~(m = p /\ q = s)
    <3>1. R[q][m] = T[q][m] /\ T[q][m] # n
      BY <1>20, <1>21, <2>1, <2>3, <1>1, <1>2
    <3>2. T[q][m] # NULL => T[q][m] # c /\ T[q][m] \in Nodes /\ T[q][m] \in J
                            /\ T.parent[T[q][m]] = m
      BY <1>20, <1>21, <2>1, <3>1, <1>1, <1>2
    <3>3. QED
      BY <1>20, <1>21, <3>1, <3>2
  <2>4. QED
    BY <1>20, <1>21, <2>2, <2>3
<1>7. \A m \in Nodes \ J : R.parent[m] = NULL /\ \A q \in Sides : R[q][m] = NULL
  <2>1. \A m \in Nodes \ I : T.parent[m] = NULL /\ \A q \in Sides : T[q][m] = NULL
    BY DEF Shaped, Linked
  <2>2. QED
    BY <1>20, <1>21, <2>1, <1>1
<1>8. Linked(R, J, sub2)
  <2>1. R.head \in J /\ R.parent[R.head] = NULL /\ J \subseteq Nodes
    <3>1. T.head # c
      BY <1>20, <1>21, <1>1
    <3>2. QED
      BY <1>20, <1>21, <3>1, <1>1
  <2>2. QED
    BY <1>20, <1>21, <2>1, <1>3, <1>4, <1>5, <1>6, <1>7 DEF Linked
<1>9. InOrder(R, J, sub2, w)
  <2>1. SUFFICES ASSUME NEW m \in J, NEW q \in Sides, NEW k \in sub2[R[q][m]]
                 PROVE  Beside(q, w[k], w[m])
    BY DEF InOrder
  <2>2. k \in sub[T[q][m]]
    <3>1. CASE m = p /\ q = s
      BY <1>20, <1>21, <2>1, <3>1, <1>1, <1>3
    <3>2. CASE ~(m = p /\ q = s)
      BY <1>20, <1>21, <2>1, <3>2, <1>1, <1>2, <1>3
    <3>3. QED
      BY <1>20, <1>21, <3>1, <3>2
  <2>3. QED
    BY <1>20, <1>21, <2>2 DEF Shaped, InOrder
<1>10. QED
  BY <1>20, <1>21, <1>8, <1>9 DEF Shaped

(* Cutting out a balanced node with at most one child, and clearing it.    *)
LEMMA CutOutIs ==
    ASSUME NEW B, NEW I, NEW sub, NEW w \in Weights, Shaped(B, I, sub, w), RootBlack(B),
           NEW n \in I, B.left[n] = NULL \/ B.right[n] = NULL
    PROVE  LET C == CutOut(B, n, NodeProperty(B, n))
               R == Fresh(C.tree, n)
           IN  \/ HalfRoot(B, n) /\ C.ret = "-1" /\ C.tree = B
               \/ /\ ~HalfRoot(B, n) /\ C.ret = "0"
                  /\ RootBlack(R) /\ \E sub2 : Shaped(R, I \ {n}, sub2, w)
<1> DEFINE C    == CutOut(B, n, NodeProperty(B, n))
           R    == Fresh(C.tree, n)
           kids == {B.left[n], B.right[n]} \ {NULL}
           Fine == \/ HalfRoot(B, n) /\ C.ret = "-1" /\ C.tree = B
                   \/ /\ ~HalfRoot(B, n) /\ C.ret = "0"
                      /\ RootBlack(R) /\ \E sub2 : Shaped(R, I \ {n}, sub2, w)
<1>1. SUFFICES Fine
  OBVIOUS
<1>9. PICK c \in I \cup {NULL} : IsOnlyChild(B, I, sub, n, c)
  BY OnlyChild
<1>2. /\ c = IF kids = {} THEN NULL ELSE CHOOSE k \in kids : TRUE
      /\ kids = {} => c = NULL
      /\ kids # {} => c # NULL
      /\ c # NULL => c \in I /\ B.parent[c] = n
      /\ \A q \in Sides : B[q][n] \in {c, NULL}
      /\ sub[n] = {n} \cup sub[c]
      /\ n # c /\ n \notin sub[c]
      /\ kids # {} <=> Cardinality(kids) = 1
  BY <1>9 DEF IsOnlyChild
<1>3. B \in Trees /\ I \subseteq Nodes /\ NULL \notin Nodes /\ n \in Nodes /\ n # NULL
  BY NodesAssumption DEF Shaped, Linked
<1>4. HalfRoot(B, n) <=> B.head = n /\ kids # {}
  BY <1>2 DEF HalfRoot
<1>5. CASE n = B.head /\ kids # {}
  <2>1. NodeProperty(B, n) = "ROOT"
    BY <1>5, PropertyOf
  <2>2. C = [tree |-> B, ret |-> "-1"]
    BY <2>1, <1>5 DEF CutOut
  <2> HIDE DEF C
  <2>3. QED
    BY <2>2, <1>4, <1>5
<1>6. CASE n = B.head /\ kids = {}
  <2> DEFINE V == [B EXCEPT !.head = NULL]
  <2>1. NodeProperty(B, n) = "ROOT" /\ B.left[n] = NULL /\ B.right[n] = NULL
    BY <1>6, PropertyOf
  <2>2. C = [tree |-> V, ret |-> "0"]
    BY <2>1, <1>6 DEF CutOut
  <2>3. \E sub2 : Shaped(Fresh(V, n), I \ {n}, sub2, w) /\ RootBlack(Fresh(V, n))
    BY <2>1, <1>6, LastShaped
  <2> HIDE DEF C, V, kids
  <2>4. QED
    BY <2>2, <2>3, <1>4, <1>6
<1>7. CASE n # B.head
  <2> DEFINE s == NodeProperty(B, n)
             p == B.parent[n]
             V == [B EXCEPT ![s][p] = c, !.parent = Set(@, c, p)]
  <2>1. s \in Sides /\ p \in I /\ B[s][p] = n
    BY <1>7, PropertyOf
  <2>2. C = [tree |-> V, ret |-> "0"]
    <3>1. s # "ROOT" /\ s \in {"left", "right"}
      BY <2>1 DEF Sides
    <3>2. c = IF kids = {} THEN NULL ELSE CHOOSE k \in kids : TRUE
      BY <1>2
    <3>3. CutOut(B, n, s) = [tree |-> [B EXCEPT ![s][p] = IF kids = {} THEN NULL
                                                         ELSE CHOOSE k \in kids : TRUE,
                                                !.parent = Set(@, IF kids = {} THEN NULL
                                                         ELSE CHOOSE k \in kids : TRUE, p)],
                             ret |-> "0"]
      <4> HIDE DEF s
      <4>1. QED
        BY <3>1 DEF CutOut
    <3>4. QED
      BY <3>2, <3>3
  <2> HIDE DEF s, p
  <2> DEFINE par == Set(B.parent, c, p)
  <2>3. p # n /\ p \in Nodes
    BY <2>1, <1>3, Members1
  <2>4. /\ par \in [Nodes -> Link]
        /\ \A m \in Nodes : par[m] = IF m = c THEN p ELSE B.parent[m]
    BY <2>3, <1>3 DEF Set, Trees, Link
  <2> HIDE DEF par
  <2>5. /\ V \in Trees /\ V.head = B.head /\ V.parent = par /\ V.color = B.color
        /\ \A q \in Sides, m \in Nodes : V[q][m] = IF m = p /\ q = s THEN c ELSE B[q][m]
    <3>1. V = [B EXCEPT ![s][p] = c, !.parent = par]
      BY DEF par
    <3> HIDE DEF V
    <3>2. c \in Link
      BY <1>3 DEF Link
    <3>3. CASE s = "left"
      BY <3>1, <3>2, <3>3, <2>3, <2>4, <1>3 DEF Trees, Sides
    <3>4. CASE s = "right"
      BY <3>1, <3>2, <3>4, <2>3, <2>4, <1>3 DEF Trees, Sides
    <3>5. QED
      BY <3>3, <3>4, <2>1 DEF Sides
  <2> HIDE DEF V
  <2> DEFINE F == Fresh(V, n)
  <2>6. /\ F \in Trees /\ F.head = B.head
        /\ \A m \in Nodes : F.parent[m] = IF m = n THEN NULL ELSE par[m]
        /\ \A m \in Nodes : /\ F.left[m] = IF m = n THEN NULL ELSE V.left[m]
                            /\ F.right[m] = IF m = n THEN NULL ELSE V.right[m]
        /\ \A m \in Nodes : F.color[m] = IF m = n THEN "RED" ELSE B.color[m]
    BY <2>5, <1>3 DEF Trees, Link, Fresh
  <2> HIDE DEF F
  <2>7. \A q \in Sides, m \in Nodes : F[q][m] = IF m = n THEN NULL
                                                ELSE IF m = p /\ q = s THEN c ELSE B[q][m]
    BY <2>5, <2>6 DEF Sides
  <2>8. \A m \in Nodes : F.parent[m] = IF m = n THEN NULL
                                       ELSE IF m = c THEN p ELSE B.parent[m]
    BY <2>4, <2>6
  <2>9. \E sub2 : Shaped(F, I \ {n}, sub2, w)
    <3>1. Spliced(B, F, n, s, p, c)
      BY <2>6, <2>7, <2>8 DEF Spliced
    <3>2. QED
      BY <3>1, <2>1, <1>7, <1>9, SplicedShaped
  <2>10. RootBlack(F)
    <3>1. B.head \in Nodes
      BY <1>3, Members1
    <3>2. QED
      BY <3>1, <2>6, <1>7 DEF RootBlack
  <2> HIDE DEF C
  <2>11. QED
    BY <2>2, <2>9, <2>10, <1>4, <1>7 DEF F
<1>8. QED
  BY <1>5, <1>6, <1>7

(* The exchange of a and b.                                                *)
Swapped(a, b) == [x \in Link |-> IF x = a THEN b ELSE IF x = b THEN a ELSE x]

Renamed(T, R, pi) ==
    /\ R \in Trees /\ R.head = pi[T.head] /\ R.color = T.color
    /\ \A m \in Nodes : R.parent[m] = pi[T.parent[pi[m]]]
    /\ \A q \in Sides, m \in Nodes : R[q][m] = pi[T[q][pi[m]]]

(* Two nodes that exchange their names make a tree that is in order when   *)
(* they exchange their values too.                                         *)
LEMMA RenamedShaped ==
    ASSUME NEW T, NEW I, NEW sub, NEW w \in Weights, Shaped(T, I, sub, w),
           NEW a \in I, NEW b \in I, NEW pi, pi = Swapped(a, b),
           NEW R, Renamed(T, R, pi)
    PROVE  \E sub2 : Shaped(R, I, sub2, [m \in Nodes |-> w[pi[m]]])
<1> DEFINE w2   == [m \in Nodes |-> w[pi[m]]]
           sub2 == [k \in Link |-> {x \in I : pi[x] \in sub[pi[k]]}]
<1>1. /\ I \subseteq Nodes /\ NULL \notin Nodes /\ T \in Trees
      /\ T.head \in I \cup {NULL} /\ sub[T.head] = I
      /\ sub \in [Link -> SUBSET I] /\ sub[NULL] = {}
      /\ T.head # NULL => T.parent[T.head] = NULL
  BY NodesAssumption DEF Shaped, Linked
<1>2. /\ \A x \in Link : pi[x] \in Link /\ pi[pi[x]] = x
      /\ \A x \in I : pi[x] \in I
      /\ \A x \in Nodes : pi[x] \in Nodes
      /\ \A x \in Nodes \ I : pi[x] = x
      /\ pi[NULL] = NULL
      /\ \A x \in I \cup {NULL} : pi[x] \in I \cup {NULL}
  BY <1>1 DEF Swapped, Link
<1>3. \A x, y \in Link : pi[x] = pi[y] => x = y
  BY <1>2
<1> HIDE DEF sub2, w2
<1>4. /\ sub2 \in [Link -> SUBSET I]
      /\ \A k \in Link, x \in I : x \in sub2[k] <=> pi[x] \in sub[pi[k]]
  BY DEF sub2
<1>5. /\ R \in Trees /\ R.head = pi[T.head]
      /\ \A m \in Nodes : R.parent[m] = pi[T.parent[pi[m]]]
      /\ \A q \in Sides, m \in Nodes : R[q][m] = pi[T[q][pi[m]]]
  BY DEF Renamed
<1>6. \A m \in I, q \in Sides : /\ T[q][m] \in I \cup {NULL}
                                /\ T[q][m] # NULL => T.parent[T[q][m]] = m
  BY DEF Shaped, Linked
<1>7. I \cup {NULL} \subseteq Link /\ Nodes \subseteq Link
  BY <1>1 DEF Link
<1>8. \A m \in I, q \in Sides : pi[R[q][m]] = T[q][pi[m]] /\ R[q][m] \in I \cup {NULL}
  BY <1>1, <1>2, <1>5, <1>6, <1>7
<1>9. \A m \in I : sub2[m] = {m} \cup sub2[R.left[m]] \cup sub2[R.right[m]]
  <2>1. SUFFICES ASSUME NEW m \in I
                 PROVE  sub2[m] = {m} \cup sub2[R["left"][m]] \cup sub2[R["right"][m]]
    OBVIOUS
  <2> DEFINE l == R["left"][m]
             r == R["right"][m]
             k == pi[m]
  <2>2. k \in I /\ m \in Link
    BY <1>2, <1>7
  <2>3. sub[k] = {k} \cup sub[T["left"][k]] \cup sub[T["right"][k]]
    BY <2>2 DEF Shaped, Linked
  <2>4. /\ pi[l] = T["left"][k] /\ l \in Link
        /\ pi[r] = T["right"][k] /\ r \in Link
    BY <1>7, <1>8 DEF Sides
  <2> HIDE DEF l, r, k
  <2>5. /\ sub2[m] \subseteq I /\ sub2[l] \subseteq I /\ sub2[r] \subseteq I
        /\ \A x \in I : /\ x \in sub2[m] <=> pi[x] \in sub[k]
                        /\ x \in sub2[l] <=> pi[x] \in sub[T["left"][k]]
                        /\ x \in sub2[r] <=> pi[x] \in sub[T["right"][k]]
    BY <2>2, <2>4, <1>4 DEF k
  <2>6. \A x \in I : pi[x] = k <=> x = m
    BY <2>2, <1>3, <1>7 DEF k
  <2>7. \A x \in I : x \in sub2[m] <=> x = m \/ x \in sub2[l] \/ x \in sub2[r]
    BY <2>3, <2>5, <2>6
  <2>8. sub2[m] = {m} \cup sub2[l] \cup sub2[r]
    BY <2>5, <2>7
  <2>9. QED
    BY <2>8 DEF l, r
<1>10. \A m \in I : m # R.head => R.parent[m] \in I /\ \E q \in Sides : R[q][R.parent[m]] = m
  <2>1. SUFFICES ASSUME NEW m \in I, m # R.head
                 PROVE  R.parent[m] \in I /\ \E q \in Sides : R[q][R.parent[m]] = m
    OBVIOUS
  <2>2. pi[m] \in I /\ pi[m] # T.head
    BY <2>1, <1>1, <1>2, <1>5, <1>7
  <2>3. PICK q \in Sides : T.parent[pi[m]] \in I /\ T[q][T.parent[pi[m]]] = pi[m]
    BY <2>2 DEF Shaped, Linked
  <2> DEFINE u == T.parent[pi[m]]
  <2>4. R.parent[m] = pi[u] /\ pi[u] \in I /\ pi[pi[u]] = u
    BY <2>3, <1>1, <1>2, <1>5, <1>7
  <2>5. R[q][pi[u]] = m
    BY <2>3, <2>4, <1>1, <1>2, <1>5, <1>7
  <2>6. QED
    BY <2>4, <2>5
<1>11. \A m \in I, q \in Sides : R[q][m] # NULL => R.parent[R[q][m]] = m
  <2>1. SUFFICES ASSUME NEW m \in I, NEW q \in Sides, R[q][m] # NULL
                 PROVE  R.parent[R[q][m]] = m
    OBVIOUS
  <2> DEFINE c == R[q][m]
  <2>2. c \in I /\ pi[c] = T[q][pi[m]] /\ pi[c] \in I /\ pi[m] \in I
    BY <2>1, <1>2, <1>8
  <2>3. pi[c] # NULL
    BY <2>2, <1>1
  <2> HIDE DEF c
  <2>4. T.parent[pi[c]] = pi[m]
    BY <2>2, <2>3, <1>6
  <2>5. R.parent[c] = pi[pi[m]]
    BY <2>2, <2>4, <1>1, <1>5
  <2>6. QED
    BY <2>5, <1>2, <1>7 DEF c
<1>12. \A m \in Nodes \ I : R.parent[m] = NULL /\ \A q \in Sides : R[q][m] = NULL
  <2>1. \A m \in Nodes \ I : T.parent[m] = NULL /\ \A q \in Sides : T[q][m] = NULL
    BY DEF Shaped, Linked
  <2>2. QED
    BY <2>1, <1>2, <1>5
<1>13. /\ sub2[NULL] = {} /\ sub2[R.head] = I /\ R.head \in I \cup {NULL}
       /\ R.head # NULL => R.parent[R.head] = NULL
  <2>1. R.head \in I \cup {NULL} /\ pi[R.head] = T.head
    BY <1>1, <1>2, <1>5, <1>7
  <2>2. \A x \in I : x \notin sub2[NULL]
    BY <1>1, <1>2, <1>4, <1>7
  <2>3. \A x \in I : x \in sub2[R.head]
    BY <2>1, <1>1, <1>2, <1>4, <1>7
  <2>4. sub2[NULL] \subseteq I /\ sub2[R.head] \subseteq I
    BY <2>1, <1>4, <1>7
  <2>5. R.head # NULL => R.parent[R.head] = NULL
    <3>1. SUFFICES ASSUME R.head # NULL PROVE R.parent[R.head] = NULL
      OBVIOUS
    <3>2. R.head \in Nodes /\ T.head # NULL
      BY <2>1, <3>1, <1>1, <1>2, <1>5
    <3>3. R.parent[R.head] = pi[T.parent[T.head]]
      BY <2>1, <3>2, <1>5
    <3>4. QED
      BY <3>2, <3>3, <1>1, <1>2
  <2>6. QED
    BY <2>1, <2>2, <2>3, <2>4, <2>5
<1>14. Linked(R, I, sub2)
  <2>1. \A m \in I, q \in Sides : /\ R[q][m] \in I \cup {NULL}
                                  /\ R[q][m] # NULL => R.parent[R[q][m]] = m
    BY <1>8, <1>11
  <2>2. QED
    BY <2>1, <1>1, <1>4, <1>5, <1>9, <1>10, <1>12, <1>13 DEF Linked
<1>15. InOrder(R, I, sub2, w2)
  <2>1. SUFFICES ASSUME NEW m \in I, NEW q \in Sides, NEW k \in sub2[R[q][m]]
                 PROVE  Beside(q, w2[k], w2[m])
    BY DEF InOrder
  <2>2. R[q][m] \in Link /\ pi[R[q][m]] = T[q][pi[m]] /\ pi[m] \in I
    BY <1>2, <1>7, <1>8
  <2>3. k \in I
    BY <2>1, <2>2, <1>4
  <2>4. pi[k] \in sub[T[q][pi[m]]]
    BY <2>1, <2>2, <2>3, <1>4
  <2>5. Beside(q, w[pi[k]], w[pi[m]])
    BY <2>2, <2>4 DEF Shaped, InOrder
  <2>6. w2[k] = w[pi[k]] /\ w2[m] = w[pi[m]]
    BY <2>3, <1>1 DEF w2
  <2>7. QED
    BY <2>5, <2>6
<1>16. QED
  BY <1>14, <1>15 DEF Shaped, w2

(* swapNode exchanges two nodes of which the first is not a child of the   *)
(* second; the second may be a child of the first.                         *)
LEMMA SwapNodeIs ==
    ASSUME NEW T, NEW I, NEW sub, NEW w \in Weights, Shaped(T, I, sub, w),
           NEW a \in I, NEW b \in I, a # b, b # T.head, T.parent[a] # b
    PROVE  Renamed(T, SwapNode(T, a, b), Swapped(a, b))
<1> DEFINE pi == Swapped(a, b)
           pa == NodeProperty(T, a)
           pb == NodeProperty(T, b)
           ua == T.parent[a]
           ub == T.parent[b]
           R  == SwapNode(T, a, b)
           U  == [T EXCEPT !.parent[a] = ub, !.parent[b] = ua]
           V  == Enter(U, pa, b)
           H  == Enter(V, pb, a)
           L  == SwapChildren(H, a, b, "left")
<1>1. /\ T \in Trees /\ I \subseteq Nodes /\ NULL \notin Nodes
      /\ a \in Nodes /\ b \in Nodes /\ a # NULL /\ b # NULL
      /\ \A m \in Nodes \ I : T.parent[m] = NULL /\ \A q \in Sides : T[q][m] = NULL
      /\ \A m \in I, q \in Sides : /\ T[q][m] \in I \cup {NULL}
                                   /\ T[q][m] # NULL => T.parent[T[q][m]] = m
  BY NodesAssumption DEF Shaped, Linked
<1>2. /\ pb \in Sides /\ ub \in I /\ T[pb][ub] = b
      /\ \A q \in Sides, m \in I : T[q][m] = b => m = ub /\ q = pb
      /\ ub # b
  <2>1. pb \in Sides /\ ub \in I /\ T[pb][ub] = b
    BY PropertyOf
  <2>2. \A q \in Sides, m \in I : T[q][m] = b => m = ub /\ q = pb
    BY PropertyOf
  <2>3. ub # b
    BY <2>1, Members1
  <2>4. QED
    BY <2>1, <2>2, <2>3
<1>3. \/ pa = "ROOT" /\ a = T.head /\ ua = NULL
      \/ a # T.head /\ pa \in Sides /\ ua \in I /\ T[pa][ua] = a /\ ua # a
  <2>1. CASE a = T.head
    BY <2>1, PropertyOf
  <2>2. CASE a # T.head
    <3>1. pa \in Sides /\ ua \in I /\ T[pa][ua] = a
      BY <2>2, PropertyOf
    <3>2. ua # a
      BY <3>1, Members1
    <3>3. QED
      BY <2>2, <3>1, <3>2
  <2>3. QED
    BY <2>1, <2>2
<1>4. \A q \in Sides, m \in I : T[q][m] = a => m = ua /\ q = pa /\ a # T.head
  BY PropertyOf
<1>5. R = SwapChildren(L, a, b, "right")
  <2>1. ~Broken(pa) /\ ~Broken(pb) /\ ~(pa = "ROOT" /\ pb = "ROOT")
    BY <1>2, <1>3 DEF Broken, Sides
  <2>2. QED
    BY <2>1 DEF SwapNode
<1>6. U \in Trees /\ U.head = T.head /\ U.left = T.left /\ U.right = T.right
      /\ U.color = T.color
      /\ \A m \in Nodes : U.parent[m] = IF m = b THEN ua ELSE IF m = a THEN ub ELSE T.parent[m]
  <2>1. ua \in Link /\ ub \in Link
    BY <1>1, <1>2, <1>3 DEF Link
  <2> HIDE DEF ua, ub
  <2>2. QED
    BY <2>1, <1>1 DEF Trees
<1> HIDE DEF U, pa, pb, ua, ub, R
<1>7. V \in Trees /\ V.parent = U.parent /\ V.color = T.color
      /\ V.head = (IF pa = "ROOT" THEN b ELSE T.head)
      /\ \A q \in Sides, m \in Nodes : V[q][m] = IF q = pa /\ m = ua THEN b ELSE T[q][m]
  <2>1. CASE pa = "ROOT"
    <3>1. V = [U EXCEPT !.head = b]
      BY <2>1 DEF Enter
    <3> HIDE DEF V
    <3>2. V \in Trees /\ V.parent = U.parent /\ V.color = T.color /\ V.head = b
          /\ V.left = T.left /\ V.right = T.right
      BY <3>1, <1>1, <1>6 DEF Trees, Link
    <3>3. QED
      BY <3>2, <2>1 DEF Sides
  <2>2. CASE pa # "ROOT"
    <3>1. V = [U EXCEPT ![pa][ua] = b] /\ pa \in Sides /\ ua \in Nodes
      BY <2>2, <1>1, <1>3, <1>6 DEF Enter
    <3> HIDE DEF V
    <3>2. CASE pa = "left"
      BY <3>1, <3>2, <1>1, <1>6 DEF Trees, Link, Sides
    <3>3. CASE pa = "right"
      BY <3>1, <3>3, <1>1, <1>6 DEF Trees, Link, Sides
    <3>4. QED
      BY <3>1, <3>2, <3>3 DEF Sides
  <2>3. QED
    BY <2>1, <2>2
<1> HIDE DEF V
<1>8. H \in Trees /\ H.parent = U.parent /\ H.color = T.color
      /\ H.head = (IF pa = "ROOT" THEN b ELSE T.head)
      /\ \A q \in Sides, m \in Nodes : H[q][m] = IF q = pb /\ m = ub THEN a
                                                 ELSE IF q = pa /\ m = ua THEN b ELSE T[q][m]
  <2>1. H = [V EXCEPT ![pb][ub] = a] /\ pb \in Sides /\ ub \in Nodes
    BY <1>1, <1>2, <1>6, <1>7 DEF Sides, Enter
  <2> HIDE DEF H
  <2>2. CASE pb = "left"
    BY <2>1, <2>2, <1>1, <1>7 DEF Trees, Link, Sides
  <2>3. CASE pb = "right"
    BY <2>1, <2>3, <1>1, <1>7 DEF Trees, Link, Sides
  <2>4. QED
    BY <2>1, <2>2, <2>3 DEF Sides
<1> HIDE DEF H
<1>9. ASSUME NEW q \in Sides
      PROVE  /\ H[q][b] = T[q][b] /\ T[q][b] # a /\ T[q][b] # b
             /\ H[q][a] = (IF q = pb /\ a = ub THEN a ELSE T[q][a])
             /\ H[q][a] # b /\ H[q][a] = pi[T[q][a]]
             /\ T[q][a] \in Link /\ T[q][b] \in Link
  <2>1. /\ T[q][b] # a /\ T[q][b] # b /\ T[q][a] # a
        /\ T[q][a] \in Link /\ T[q][b] \in Link
    BY <1>1, <1>4, Members1 DEF ua, Link
  <2>2. H[q][b] = T[q][b]
    BY <1>1, <1>2, <1>8 DEF ua
  <2>3. H[q][a] = (IF q = pb /\ a = ub THEN a ELSE T[q][a])
    BY <1>1, <1>3, <1>8
  <2>4. T[q][a] = b <=> q = pb /\ a = ub
    BY <1>2
  <2>5. H[q][a] # b /\ H[q][a] = pi[T[q][a]]
    BY <2>1, <2>3, <2>4 DEF Swapped
  <2>6. QED
    BY <2>1, <2>2, <2>3, <2>5
<1>10. /\ L \in Trees /\ L.head = H.head /\ L.color = H.color /\ L.right = H.right
       /\ \A m \in Nodes : L.left[m] = IF m = a THEN H.left[b]
                                       ELSE IF m = b THEN H.left[a] ELSE H.left[m]
       /\ \A m \in Nodes : L.parent[m] = IF m = H.left[a] THEN b
                                         ELSE IF m = H.left[b] THEN a ELSE H.parent[m]
  <2> DEFINE ca == H.left[a]
             cb == H.left[b]
             Y  == [H EXCEPT !.left = [@ EXCEPT ![a] = cb, ![b] = ca]]
             par == Set(Set(H.parent, cb, a), ca, b)
  <2>1. ca \in Link /\ cb \in Link
    BY <1>1, <1>8 DEF Trees
  <2> HIDE DEF ca, cb
  <2>2. /\ Y \in Trees /\ Y.head = H.head /\ Y.color = H.color /\ Y.right = H.right
        /\ Y.parent = H.parent
        /\ \A m \in Nodes : Y.left[m] = IF m = a THEN cb
                                        ELSE IF m = b THEN ca ELSE H.left[m]
    BY <2>1, <1>1, <1>8 DEF Trees
  <2>3. /\ par \in [Nodes -> Link]
        /\ \A m \in Nodes : par[m] = IF m = ca THEN b
                                     ELSE IF m = cb THEN a ELSE H.parent[m]
    <3>1. H.parent \in [Nodes -> Link]
      BY <1>8 DEF Trees
    <3>2. QED
      BY <3>1, <2>1, <1>1 DEF Set, Link
  <2>4. L = [Y EXCEPT !.parent = par]
    BY <1>8 DEF Trees, SwapChildren, ca, cb
  <2> HIDE DEF L, Y, par
  <2>5. /\ L \in Trees /\ L.head = Y.head /\ L.color = Y.color /\ L.right = Y.right
        /\ L.left = Y.left /\ L.parent = par
    BY <2>2, <2>3, <2>4 DEF Trees
  <2>6. QED
    BY <2>2, <2>3, <2>5 DEF ca, cb
<1> HIDE DEF L
<1>11. /\ R \in Trees /\ R.head = L.head /\ R.color = L.color /\ R.left = L.left
       /\ \A m \in Nodes : R.right[m] = IF m = a THEN L.right[b]
                                        ELSE IF m = b THEN L.right[a] ELSE L.right[m]
       /\ \A m \in Nodes : R.parent[m] = IF m = L.right[a] THEN b
                                         ELSE IF m = L.right[b] THEN a ELSE L.parent[m]
  <2> DEFINE ca == L.right[a]
             cb == L.right[b]
             Y  == [L EXCEPT !.right = [@ EXCEPT ![a] = cb, ![b] = ca]]
             par == Set(Set(L.parent, cb, a), ca, b)
  <2>1. ca \in Link /\ cb \in Link
    BY <1>1, <1>10 DEF Trees
  <2> HIDE DEF ca, cb
  <2>2. /\ Y \in Trees /\ Y.head = L.head /\ Y.color = L.color /\ Y.left = L.left
        /\ Y.parent = L.parent
        /\ \A m \in Nodes : Y.right[m] = IF m = a THEN cb
                                         ELSE IF m = b THEN ca ELSE L.right[m]
    BY <2>1, <1>1, <1>10 DEF Trees
  <2>3. /\ par \in [Nodes -> Link]
        /\ \A m \in Nodes : par[m] = IF m = ca THEN b
                                     ELSE IF m = cb THEN a ELSE L.parent[m]
    <3>1. L.parent \in [Nodes -> Link]
      BY <1>10 DEF Trees
    <3>2. QED
      BY <3>1, <2>1, <1>1 DEF Set, Link
  <2>4. R = [Y EXCEPT !.parent = par]
    BY <1>5, <1>10 DEF Trees, SwapChildren, ca, cb
  <2> HIDE DEF Y, par
  <2>5. /\ R \in Trees /\ R.head = Y.head /\ R.color = Y.color /\ R.left = Y.left
        /\ R.right = Y.right /\ R.parent = par
    BY <2>2, <2>3, <2>4 DEF Trees
  <2>6. QED
    BY <2>2, <2>3, <2>5 DEF ca, cb
<1>12. R.head = pi[T.head] /\ R.color = T.color
  <2>1. R.head = (IF pa = "ROOT" THEN b ELSE T.head) /\ R.color = T.color
    BY <1>8, <1>10, <1>11
  <2>2. T.head \in Link /\ (pa = "ROOT" <=> T.head = a)
    BY <1>1, <1>3 DEF Trees, Sides
  <2>3. QED
    BY <2>1, <2>2 DEF Swapped
<1>13. ASSUME NEW q \in Sides, NEW m \in Nodes
       PROVE  R[q][m] = pi[T[q][pi[m]]]
  <2>1. R[q][m] = IF m = a THEN H[q][b] ELSE IF m = b THEN H[q][a] ELSE H[q][m]
    <3>1. CASE q = "left"
      BY <3>1, <1>10, <1>11
    <3>2. CASE q = "right"
      BY <3>2, <1>10, <1>11, <1>1
    <3>3. QED
      BY <3>1, <3>2 DEF Sides
  <2>2. pi[m] = IF m = a THEN b ELSE IF m = b THEN a ELSE m
    BY DEF Swapped, Link
  <2>3. CASE m = a
    <3>1. R[q][m] = T[q][b] /\ pi[m] = b
      BY <2>1, <2>2, <2>3, <1>9
    <3>2. pi[T[q][b]] = T[q][b]
      BY <1>9 DEF Swapped
    <3>3. QED
      BY <3>1, <3>2
  <2>4. CASE m = b
    BY <2>1, <2>2, <2>4, <1>9
  <2>5. CASE m # a /\ m # b
    <3>1. R[q][m] = (IF q = pb /\ m = ub THEN a
                     ELSE IF q = pa /\ m = ua THEN b ELSE T[q][m]) /\ pi[m] = m
      BY <2>1, <2>2, <2>5, <1>8
    <3>2. T[q][m] \in Link
      BY <1>1 DEF Trees, Sides
    <3>3. T[q][m] = b <=> q = pb /\ m = ub
      BY <1>1, <1>2
    <3>4. T[q][m] = a <=> q = pa /\ m = ua
      <4>1. NULL # a /\ "ROOT" \notin Sides
        BY <1>1 DEF Sides
      <4>2. QED
        BY <4>1, <1>1, <1>3, <1>4
    <3>5. QED
      BY <3>1, <3>2, <3>3, <3>4 DEF Swapped
  <2>6. QED
    BY <2>3, <2>4, <2>5
<1>14. ASSUME NEW m \in Nodes
       PROVE  R.parent[m] = pi[T.parent[pi[m]]]
  <2> DEFINE cal == H["left"][a]
             car == H["right"][a]
             cbl == H["left"][b]
             cbr == H["right"][b]
  <2>1. R.parent[m] = IF m = car THEN b ELSE IF m = cbr THEN a
                      ELSE IF m = cal THEN b ELSE IF m = cbl THEN a
                      ELSE IF m = b THEN ua ELSE IF m = a THEN ub ELSE T.parent[m]
    BY <1>6, <1>8, <1>10, <1>11
  <2>2. pi[m] = IF m = a THEN b ELSE IF m = b THEN a ELSE m
    BY DEF Swapped, Link
  <2>3. "left" \in Sides /\ "right" \in Sides /\ \A q \in Sides : q = "left" \/ q = "right"
    BY DEF Sides
  <2>4. /\ cbl = T["left"][b] /\ cbr = T["right"][b]
        /\ cbl # a /\ cbr # a /\ cbl # b /\ cbr # b
        /\ cal = (IF "left" = pb /\ a = ub THEN a ELSE T["left"][a])
        /\ car = (IF "right" = pb /\ a = ub THEN a ELSE T["right"][a])
        /\ cal # b /\ car # b
        /\ T["left"][a] # a /\ T["right"][a] # a
    BY <2>3, <1>9, Members1
  <2> HIDE DEF cal, car, cbl, cbr
  <2>5. T.parent[m] \in Link /\ ua \in Link /\ ub \in Link /\ ua # b /\ ua # a /\ ub # b
    BY <1>1, <1>2, <1>3 DEF Trees, Link, ua
  <2>6. CASE m = a
    <3>1. R.parent[m] = IF a = ub THEN b ELSE ub
      BY <2>1, <2>3, <2>4, <2>6, <1>1, <1>2
    <3>2. T.parent[pi[m]] = ub
      BY <2>2, <2>6 DEF ub
    <3>3. QED
      BY <3>1, <3>2, <2>5 DEF Swapped
  <2>7. CASE m = b
    <3>1. R.parent[m] = ua
      BY <2>1, <2>4, <2>7
    <3>2. T.parent[pi[m]] = ua
      BY <2>2, <2>7, <1>1 DEF ua
    <3>3. QED
      BY <3>1, <3>2, <2>5 DEF Swapped
  <2>8. CASE m # a /\ m # b
    <3>1. pi[m] = m
      BY <2>2, <2>8
    <3>2. /\ m = car <=> m = T["right"][a]
          /\ m = cal <=> m = T["left"][a]
      <4>1. ASSUME "right" = pb, a = ub PROVE T["right"][a] = b
        BY <4>1, <1>2
      <4>2. ASSUME "left" = pb, a = ub PROVE T["left"][a] = b
        BY <4>2, <1>2
      <4>3. QED
        BY <4>1, <4>2, <2>4, <2>8
    <3>3. T.parent[m] = a <=> m = T["left"][a] \/ m = T["right"][a]
      <4>1. m = T["left"][a] \/ m = T["right"][a] => T.parent[m] = a
        BY <2>3, <1>1
      <4>2. ASSUME T.parent[m] = a PROVE m = T["left"][a] \/ m = T["right"][a]
        <5>1. m \in I /\ m # T.head
          <6>1. m \in I
            BY <4>2, <1>1
          <6>2. m = T.head => T.parent[m] = NULL
            BY <6>1, PropertyOf
          <6>3. QED
            BY <6>1, <6>2, <4>2, <1>1
        <5>2. PICK q \in Sides : T[q][T.parent[m]] = m
          BY <5>1 DEF Shaped, Linked
        <5>3. QED
          BY <5>2, <4>2, <2>3
      <4>3. QED
        BY <4>1, <4>2
    <3>4. T.parent[m] = b <=> m = T["left"][b] \/ m = T["right"][b]
      <4>1. m = T["left"][b] \/ m = T["right"][b] => T.parent[m] = b
        BY <2>3, <1>1
      <4>2. ASSUME T.parent[m] = b PROVE m = T["left"][b] \/ m = T["right"][b]
        <5>1. m \in I /\ m # T.head
          <6>1. m \in I
            BY <4>2, <1>1
          <6>2. m = T.head => T.parent[m] = NULL
            BY <6>1, PropertyOf
          <6>3. QED
            BY <6>1, <6>2, <4>2, <1>1
        <5>2. PICK q \in Sides : T[q][T.parent[m]] = m
          BY <5>1 DEF Shaped, Linked
        <5>3. QED
          BY <5>2, <4>2, <2>3
      <4>3. QED
        BY <4>1, <4>2
    <3>5. pi[T.parent[m]] = IF T.parent[m] = a THEN b ELSE IF T.parent[m] = b THEN a
                            ELSE T.parent[m]
      BY <2>5 DEF Swapped
    <3>6. R.parent[m] = IF T.parent[m] = a THEN b ELSE IF T.parent[m] = b THEN a
                        ELSE T.parent[m]
      BY <2>1, <2>4, <2>8, <3>2, <3>3, <3>4
    <3>7. QED
      BY <3>1, <3>5, <3>6
  <2>9. QED
    BY <2>6, <2>7, <2>8
<1>15. QED
  BY <1>11, <1>12, <1>13, <1>14 DEF Renamed, R

SameLinkRecord(T, R) == /\ R.head = T.head /\ R.parent = T.parent
                        /\ R.left = T.left /\ R.right = T.right

(* The balancing of the root only paints.                                  *)
LEMMA RootBalance ==
    ASSUME NEW T, NEW I, NEW sub, NEW w \in Weights, Shaped(T, I, sub, w),
           NEW n \in I, n = T.head
    PROVE  SameLinkRecord(T, RemoveBalance(T, n))
<1> DEFINE St == {s \in [tree : Trees, node : Nodes, done : BOOLEAN] :
                    s.node = n /\ SameLinkRecord(T, s.tree)}
           run == RemoveRun(T, n)
           K   == Rounds(T)
<1>1. T \in Trees /\ n \in Nodes /\ NULL \notin Nodes
  BY NodesAssumption DEF Shaped, Linked
<1>2. Again(T, n) \in St
  BY <1>1 DEF Again, SameLinkRecord
<1>3. ASSUME NEW s \in St, ~s.done
      PROVE  RemoveRound(s.tree, s.node) \in St
  <2> DEFINE V == s.tree
             S == RemoveRound(V, n)
  <2>1. SameLinkRecord(T, V) /\ V \in Trees /\ s.node = n
    OBVIOUS
  <2> HIDE DEF V
  <2>2. Shaped(V, I, sub, w) /\ NodeProperty(V, n) = "ROOT"
    <3>1. Shaped(V, I, sub, w)
      BY <2>1, SameLinks DEF SameLinkRecord
    <3>2. n = V.head
      BY <2>1 DEF SameLinkRecord
    <3>3. QED
      BY <3>1, <3>2, PropertyOf
  <2>3. RemoveStep(V, n, S)
    BY RemoveCases
  <2> HIDE DEF S
  <2>4. \/ S = Done(V, n)
        \/ V.right[n] # NULL /\ S = Done(Paint(V, V.right[n], "BLACK"), n)
        \/ V.left[n] # NULL /\ S = Done(Paint(V, V.left[n], "RED"), n)
    BY <2>2, <2>3 DEF RemoveStep
  <2>5. ASSUME NEW X \in Trees, SameLinkRecord(T, X), S = Done(X, n)
        PROVE  S \in St
    BY <2>5, <1>1 DEF Done
  <2>6. ASSUME NEW x \in Nodes, NEW c \in Colors, S = Done(Paint(V, x, c), n)
        PROVE  S \in St
    <3> DEFINE X == Paint(V, x, c)
    <3>1. X \in Trees /\ X.head = V.head /\ X.parent = V.parent
          /\ X.left = V.left /\ X.right = V.right
      BY <2>2, PaintShaped
    <3> HIDE DEF X
    <3>2. SameLinkRecord(T, X)
      BY <3>1, <2>1 DEF SameLinkRecord
    <3> HIDE DEF St
    <3>3. QED
      BY <3>1, <3>2, <2>5, <2>6 DEF X
  <2>7. V.right[n] \in Link /\ V.left[n] \in Link /\ "RED" \in Colors /\ "BLACK" \in Colors
    BY <2>1, <1>1 DEF Trees, Colors
  <2>8. S \in St
    <3> HIDE DEF St
    <3>1. QED
      BY <2>1, <2>4, <2>5, <2>6, <2>7 DEF Link
  <2>9. QED
    BY <2>1, <2>8 DEF S, V
<1> HIDE DEF St
<1>4. run[K] \in St
  <2>1. K \in Nat /\ \A k \in 0 .. K : run[k] \in St
    BY <1>1, <1>2, <1>3, RemoveRunIs
  <2> HIDE DEF K, run
  <2>2. QED
    BY <2>1
<1>5. QED
  BY <1>4 DEF RemoveBalance, St

(* The end of a removal: refused at the root of one child, whose links it  *)
(* leaves; the tree without the node everywhere else.                      *)
UnlinkDone(T, I, w, n, U) ==
    \/ /\ HalfRoot(T, n) /\ U.ret = "-1" /\ SameLinkRecord(T, U.tree)
       /\ RootBlack(U.tree) /\ \E sub2 : Shaped(U.tree, I, sub2, w)
    \/ /\ ~HalfRoot(T, n) /\ U.ret = "0"
       /\ RootBlack(Fresh(U.tree, n)) /\ \E sub2 : Shaped(Fresh(U.tree, n), I \ {n}, sub2, w)

LEMMA UnlinkIs ==
    ASSUME NEW T, NEW I, NEW sub, NEW w \in Weights, Shaped(T, I, sub, w), RootBlack(T),
           NEW n \in I, T.left[n] = NULL \/ T.right[n] = NULL
    PROVE  UnlinkDone(T, I, w, n, Unlink(T, n))
<1> DEFINE B == RemoveBalance(T, n)
           t == NodeProperty(T, n)
           C == CutOut(B, n, t)
           F == Fresh(C.tree, n)
<1>1. (\E sub2 : Shaped(B, I, sub2, w)) /\ SameAt(T, B, {n}) /\ RootBlack(B)
  BY RemoveBalanceKeeps
<1>2. t \in Sides \cup {"ROOT"} /\ (t = "ROOT" <=> T.head = n)
  BY PropertyOf DEF Sides
<1>3. Unlink(T, n) = C
  <2>1. ~Broken(t)
    BY <1>2 DEF Broken, Sides
  <2>2. QED
    BY <2>1 DEF Unlink
<1>4. T.head = n => SameLinkRecord(T, B)
  BY RootBalance
<1> HIDE DEF B, t
<1>5. NodeProperty(B, n) = t /\ B.left[n] = T.left[n] /\ B.right[n] = T.right[n]
  BY <1>1 DEF SameAt, Sides, t
<1>6. PICK sub2 : Shaped(B, I, sub2, w)
  BY <1>1
<1>7. HalfRoot(B, n) <=> HalfRoot(T, n)
  <2>1. t = "ROOT" <=> B.head = n
    BY <1>5, <1>6, PropertyOf DEF Sides
  <2>2. QED
    BY <2>1, <1>2, <1>5 DEF HalfRoot
<1>8. \/ HalfRoot(B, n) /\ C.ret = "-1" /\ C.tree = B
      \/ /\ ~HalfRoot(B, n) /\ C.ret = "0"
         /\ RootBlack(F) /\ \E sub3 : Shaped(F, I \ {n}, sub3, w)
  BY <1>1, <1>5, <1>6, CutOutIs
<1> HIDE DEF C
<1>9. CASE HalfRoot(B, n) /\ C.ret = "-1" /\ C.tree = B
  <2>1. T.head = n
    BY <1>7, <1>9 DEF HalfRoot
  <2>2. QED
    BY <2>1, <1>1, <1>3, <1>4, <1>7, <1>9 DEF UnlinkDone
<1>10. CASE /\ ~HalfRoot(B, n) /\ C.ret = "0"
            /\ RootBlack(F) /\ \E sub3 : Shaped(F, I \ {n}, sub3, w)
  BY <1>3, <1>7, <1>10 DEF UnlinkDone
<1>11. QED
  BY <1>8, <1>9, <1>10

(* The leftmost node on the right of n follows n in the order.             *)
LEMMA SuccessorIs ==
    ASSUME NEW T, NEW I, NEW sub, NEW w \in Weights, Shaped(T, I, sub, w),
           NEW n \in I, T.right[n] # NULL
    PROVE  LET b == Farthest(T, T.right[n], "left")
           IN  /\ b \in I /\ b # n /\ T.left[b] = NULL /\ b # T.head
               /\ T.parent[n] # b
               /\ w[n] < w[b]
               /\ \A m \in I : m \notin {n, b} => (w[m] < w[b] <=> w[m] < w[n])
<1> DEFINE c == T.right[n]
           b == Farthest(T, c, "left")
<1>1. c \in I /\ "left" \in Sides /\ Opposite("left") = "right"
  BY Members1 DEF Sides, Opposite
<1>2. /\ b \in sub[c] /\ b \in I /\ T.left[b] = NULL
      /\ \A k \in sub[c] : k # b => w[b] < w[k]
  <2> HIDE DEF c, b
  <2>1. /\ b \in sub[c] /\ b \in I /\ T["left"][b] = NULL
        /\ \A k \in sub[c] : k # b => Beside("right", w[k], w[b])
    BY <1>1, FarthestIs DEF b
  <2>2. QED
    BY <2>1 DEF Beside
<1>3. /\ sub[n] = {n} \cup sub[T.left[n]] \cup sub[c]
      /\ n \in sub[n]
      /\ \A k \in sub[T.left[n]] : w[k] < w[n]
      /\ \A k \in sub[c] : w[n] < w[k]
  BY BothSides
<1>4. \A k \in I : w[k] \in Nat
  BY DEF Weights, Shaped, Linked
<1>5. sub[c] \subseteq I /\ sub[c] \subseteq sub[n] /\ n \notin sub[c]
  BY <1>1, <1>3, <1>4, Members1
<1>6. b # T.head /\ T.parent[n] # b
  <2>1. sub[T.head] = I /\ sub[b] \subseteq sub[c]
    BY <1>1, <1>2, UnderNested DEF Shaped, Linked
  <2>2. b # T.head
    BY <2>1, <1>5
  <2>3. ASSUME T.parent[n] = b PROVE FALSE
    <3>1. n # T.head
      <4>1. n = T.head => T.parent[n] = NULL
        BY PropertyOf
      <4>2. QED
        BY <4>1, <2>3, <1>2, Members1
    <3>2. PICK q \in Sides : T[q][b] = n
      BY <3>1, <2>3 DEF Shaped, Linked
    <3>3. n \in sub[b]
      BY <3>2, <1>2, <1>3, Members1
    <3>4. QED
      BY <3>3, <2>1, <1>5
  <2>4. QED
    BY <2>2, <2>3
<1> HIDE DEF c, b
<1>7. ASSUME NEW m \in I, m \notin {n, b} PROVE w[m] < w[b] <=> w[m] < w[n]
  <2>1. w[b] \in Nat /\ w[n] \in Nat /\ w[m] \in Nat /\ w[n] < w[b]
    BY <1>2, <1>3, <1>4
  <2>2. CASE m \in sub[c]
    <3>1. w[b] < w[m]
      BY <2>2, <1>2, <1>7
    <3>2. QED
      BY <3>1, <2>1
  <2>3. CASE m \in sub[T.left[n]]
    <3>1. w[m] < w[n]
      BY <2>3, <1>3
    <3>2. QED
      BY <3>1, <2>1
  <2>4. CASE m \notin sub[n]
    <3>1. \/ \A k \in sub[n] : w[k] < w[m]
          \/ \A k \in sub[n] : w[m] < w[k]
      BY <2>4, Intervals
    <3>2. b \in sub[n] /\ n \in sub[n]
      BY <1>2, <1>3, <1>5
    <3>3. QED
      BY <3>1, <3>2, <2>1
  <2>5. QED
    BY <2>2, <2>3, <2>4, <1>3, <1>7
<1>8. b # n /\ w[n] < w[b]
  BY <1>2, <1>3, <1>5
<1>9. QED
  BY <1>2, <1>6, <1>7, <1>8 DEF b, c

(* A node that has taken the place and the value of the one after it can   *)
(* give the value back once that one is gone from the order.               *)
LEMMA ReorderShaped ==
    ASSUME NEW R, NEW J, NEW sub, NEW w \in Weights, NEW v \in Weights, Shaped(R, J, sub, w),
           \A x, y \in J : w[x] < w[y] => v[x] < v[y]
    PROVE  Shaped(R, J, sub, v)
<1>1. ASSUME NEW m \in J, NEW q \in Sides, NEW k \in sub[R[q][m]]
      PROVE  Beside(q, v[k], v[m])
  <2>1. Beside(q, w[k], w[m])
    BY DEF Shaped, InOrder
  <2>2. k \in J
    BY Members1
  <2>3. QED
    BY <2>1, <2>2 DEF Beside
<1>2. QED
  BY <1>1 DEF Shaped, InOrder

(* The balancing before the unlinking of n ends in the rounds it is given. *)
RemovalSettles(T, n) ==
    LET U == Prepared(T, n) IN RemoveRun(U, n)[Rounds(U)].done

(* rbt_removeNode removes the node it is given, or refuses the root of one *)
(* child.                                                                  *)
LEMMA RemoveNodeIs ==
    ASSUME NEW T, NEW I, NEW sub, Shaped(T, I, sub, ValueOf), RootBlack(T), NEW n \in I
    PROVE  UnlinkDone(T, I, ValueOf, n, RemoveNode(T, n)) /\ RemovalSettles(T, n)
<1> DEFINE inside == T.left[n] # NULL /\ T.right[n] # NULL
           b  == Farthest(T, T.right[n], "left")
           X  == SwapColor(T, n, b)
           Y  == SwapNode(X, n, b)
           pi == Swapped(n, b)
           w  == [m \in Nodes |-> ValueOf[pi[m]]]
           U  == Unlink(Y, n)
           F  == Fresh(U.tree, n)
<1>1. /\ ~Broken(NodeProperty(T, n)) /\ ValueOf \in Weights
      /\ I \subseteq Nodes /\ NULL \notin Nodes /\ n \in Nodes
      /\ T.head \in I
  <2>1. NodeProperty(T, n) \in Sides \cup {"ROOT"}
    BY ValuesAreWeights, PropertyOf
  <2>2. QED
    BY <2>1, ValuesAreWeights, Members1, NodesAssumption DEF Broken, Sides, Shaped, Linked
<1>2. CASE ~inside
  <2>1. RemoveNode(T, n) = Unlink(T, n)
    BY <1>1, <1>2 DEF RemoveNode, Prepared
  <2>2. UnlinkDone(T, I, ValueOf, n, Unlink(T, n))
    BY <1>1, <1>2, UnlinkIs
  <2>3. RemovalSettles(T, n)
    <3>1. Prepared(T, n) = T
      BY <1>2 DEF Prepared
    <3>2. RemoveRun(T, n)[Rounds(T)].done
      BY <1>1, RemovalEnds
    <3>3. QED
      BY <3>1, <3>2 DEF RemovalSettles
  <2>4. QED
    BY <2>1, <2>2, <2>3
<1>3. CASE inside
  <2>1. Prepared(T, n) = Y /\ RemoveNode(T, n) = U
    BY <1>1, <1>3 DEF RemoveNode, Prepared
  <2>2. /\ b \in I /\ b # n /\ T.left[b] = NULL /\ b # T.head /\ T.parent[n] # b
        /\ ValueOf[n] < ValueOf[b]
        /\ \A m \in I : m \notin {n, b} => (ValueOf[m] < ValueOf[b] <=> ValueOf[m] < ValueOf[n])
    BY <1>1, <1>3, SuccessorIs
  <2> HIDE DEF b, U, F
  <2>3. /\ Shaped(X, I, sub, ValueOf) /\ X \in Trees /\ X.head = T.head /\ X.parent = T.parent
        /\ X.left = T.left /\ X.right = T.right
        /\ \A m \in Nodes : X.color[m] = IF m = n THEN T.color[b]
                                         ELSE IF m = b THEN T.color[n] ELSE T.color[m]
    BY <2>2, <1>1, SwapColorShaped
  <2> HIDE DEF X
  <2>4. Renamed(X, Y, pi)
    BY <2>2, <2>3, <1>1, SwapNodeIs
  <2> HIDE DEF Y
  <2>5. PICK sub2 : Shaped(Y, I, sub2, w)
    <3> DEFINE rho == pi
    <3>1. rho = Swapped(n, b)
      OBVIOUS
    <3> HIDE DEF rho
    <3>2. \E sub2 : Shaped(Y, I, sub2, [m \in Nodes |-> ValueOf[rho[m]]])
      BY <3>1, <2>2, <2>3, <2>4, <1>1, RenamedShaped
    <3>3. QED
      BY <3>2 DEF rho
  <2>6. /\ \A m \in Nodes : pi[m] = IF m = n THEN b ELSE IF m = b THEN n ELSE m
        /\ pi[NULL] = NULL
    BY <2>2, <1>1 DEF Swapped, Link
  <2>7. /\ w \in Weights
        /\ \A m \in Nodes : w[m] = IF m = n THEN ValueOf[b]
                                   ELSE IF m = b THEN ValueOf[n] ELSE ValueOf[m]
    BY <2>2, <2>6, <1>1 DEF Weights
  <2>8. /\ Y.head = (IF T.head = n THEN b ELSE T.head) /\ Y.color = X.color
        /\ Y.left[n] = NULL
    <3>1. Y.head = pi[X.head] /\ Y.color = X.color /\ Y["left"][n] = pi[X["left"][pi[n]]]
      BY <2>4, <1>1 DEF Renamed, Sides
    <3>2. X["left"][pi[n]] = NULL
      BY <2>2, <2>3, <2>6, <1>1
    <3>3. QED
      BY <3>1, <3>2, <2>2, <2>3, <2>6, <1>1
  <2> HIDE DEF w, pi
  <2>9. RootBlack(Y)
    BY <2>2, <2>3, <2>8, <1>1 DEF RootBlack
  <2>10. UnlinkDone(Y, I, w, n, U)
    BY <2>5, <2>7, <2>8, <2>9, UnlinkIs DEF U
  <2>11. ~HalfRoot(Y, n)
    BY <2>2, <2>8 DEF HalfRoot
  <2>12. ~HalfRoot(T, n)
    <3> DEFINE l == T.left[n]
               r == T.right[n]
    <3>1. l # r /\ {l, r} \ {NULL} = {l, r}
      BY <1>1, <1>3, Members1
    <3>2. Cardinality({l, r}) = 2
      <4>1. IsFiniteSet({l}) /\ Cardinality({l}) = 1
        BY FS_Singleton
      <4>2. r \notin {l} /\ {l, r} = {l} \cup {r}
        BY <3>1
      <4> HIDE DEF l, r
      <4>3. Cardinality({l} \cup {r}) = Cardinality({l}) + 1
        BY <4>1, <4>2, FS_AddElement
      <4>4. QED
        BY <4>1, <4>2, <4>3
    <3>3. QED
      BY <3>1, <3>2 DEF HalfRoot
  <2>13. U.ret = "0" /\ RootBlack(F) /\ \E sub3 : Shaped(F, I \ {n}, sub3, w)
    BY <2>10, <2>11 DEF UnlinkDone, F
  <2>14. PICK sub3 : Shaped(F, I \ {n}, sub3, w)
    BY <2>13
  <2>15. ASSUME NEW x \in I \ {n}, NEW y \in I \ {n}, w[x] < w[y]
         PROVE  ValueOf[x] < ValueOf[y]
    <3>1. /\ ValueOf[x] \in Nat /\ ValueOf[y] \in Nat
          /\ ValueOf[b] \in Nat /\ ValueOf[n] \in Nat
      BY <2>2, <1>1 DEF Weights
    <3>2. CASE x # b /\ y # b
      BY <3>2, <2>7, <2>15, <1>1
    <3>3. CASE x = b /\ y # b
      <4>1. ValueOf[n] < ValueOf[y]
        BY <3>3, <2>7, <2>15, <1>1
      <4>2. ~(ValueOf[y] < ValueOf[b])
        BY <4>1, <3>1, <3>3, <2>2
      <4>3. ValueOf[y] # ValueOf[b]
        BY <3>3, <2>2, <1>1, Distinct
      <4>4. QED
        BY <4>2, <4>3, <3>1, <3>3
    <3>4. CASE x # b /\ y = b
      <4>1. ValueOf[x] < ValueOf[n]
        BY <3>4, <2>7, <2>15, <1>1
      <4>2. QED
        BY <4>1, <3>1, <3>4, <2>2
    <3>5. CASE x = b /\ y = b
      BY <3>5, <2>7, <2>15, <3>1, <1>1
    <3>6. QED
      BY <3>2, <3>3, <3>4, <3>5
  <2>16. Shaped(F, I \ {n}, sub3, ValueOf)
    BY <2>7, <2>14, <2>15, <1>1, ReorderShaped
  <2>17. UnlinkDone(T, I, ValueOf, n, U)
    BY <2>12, <2>13, <2>16 DEF UnlinkDone, F
  <2>18. RemoveRun(Y, n)[Rounds(Y)].done
    BY <2>5, <2>7, <2>9, RemovalEnds
  <2>19. QED
    BY <2>1, <2>17, <2>18 DEF RemovalSettles
<1>4. QED
  BY <1>2, <1>3

-----------------------------------------------------------------------------
(* The tree as the specification sees it.                                  *)

LEMMA UnderIs ==
    ASSUME NEW T, NEW I, NEW sub, NEW w \in Weights, Shaped(T, I, sub, w)
    PROVE  \A m \in I : Under(T)[m] = sub[m]
<1> DEFINE Kids(m) == {T.left[m], T.right[m]} \ {NULL}
           Body(g) == [m \in Nodes |-> {m} \cup UNION {g[c] : c \in Kids(m)}]
           U == Under(T)
           g0 == [m \in Nodes |-> IF m \in I THEN sub[m] ELSE {m}]
<1>1. /\ I \subseteq Nodes /\ NULL \notin Nodes /\ sub[NULL] = {}
      /\ \A m \in I : /\ sub[m] = {m} \cup sub[T.left[m]] \cup sub[T.right[m]]
                      /\ T.left[m] \in I \cup {NULL} /\ T.right[m] \in I \cup {NULL}
      /\ \A m \in Nodes \ I : T.left[m] = NULL /\ T.right[m] = NULL
  BY NodesAssumption DEF Shaped, Linked, Sides
<1>2. U = CHOOSE g : g = Body(g)
  BY DEF Under
<1>3. ASSUME NEW m \in Nodes PROVE g0[m] = {m} \cup UNION {g0[c] : c \in Kids(m)}
  <2>1. CASE m \in I
    <3>1. \A c \in Kids(m) : c \in I /\ c \in Nodes
      BY <2>1, <1>1
    <3>2. \A c \in Kids(m) : g0[c] = sub[c]
      BY <3>1
    <3>3. g0[m] = sub[m]
      BY <2>1
    <3> HIDE DEF g0
    <3>4. UNION {g0[c] : c \in Kids(m)} = sub[T.left[m]] \cup sub[T.right[m]]
      BY <3>2, <1>1, <2>1
    <3>5. QED
      BY <3>3, <3>4, <1>1, <2>1
  <2>2. CASE m \notin I
    <3>1. Kids(m) = {} /\ g0[m] = {m}
      BY <2>2, <1>1
    <3>2. UNION {g0[c] : c \in Kids(m)} = {}
      BY <3>1
    <3>3. QED
      BY <3>1, <3>2
  <2>3. QED
    BY <2>1, <2>2
<1>4. g0 = Body(g0)
  <2>1. g0 = [m \in Nodes |-> g0[m]]
    OBVIOUS
  <2> HIDE DEF g0
  <2>2. QED
    BY <2>1, <1>3
<1> HIDE DEF U, g0
<1>5. U = Body(U)
  <2>1. \E g : g = Body(g)
    BY <1>4
  <2> HIDE DEF Body
  <2>2. QED
    BY <1>2, <2>1
<1>6. \A m \in Nodes : U[m] = {m} \cup UNION {U[c] : c \in Kids(m)}
  BY <1>5
<1> DEFINE Bad == {m \in I : U[m] # sub[m]}
<1>7. SUFFICES ASSUME Bad # {} PROVE FALSE
  BY DEF U
<1>8. \A m \in I : Size(sub)[m] \in Nat
  BY <1>1, SizesGrow
<1>9. PICK m \in Bad : \A k \in Bad : Size(sub)[m] <= Size(sub)[k]
  <2>1. \A k \in Bad : Size(sub)[k] \in Nat
    BY <1>8
  <2> HIDE DEF Bad
  <2>2. QED
    BY <2>1, <1>7, LeastRanked
<1>10. m \in I
  OBVIOUS
<1>11. ASSUME NEW c \in Kids(m) PROVE c \in I /\ U[c] = sub[c]
  <2>1. c \in I
    BY <1>1, <1>10, <1>11
  <2>2. Size(sub)[c] < Size(sub)[m]
    <3>1. /\ T["left"][m] # NULL => Size(sub)[T["left"][m]] < Size(sub)[m]
          /\ T["right"][m] # NULL => Size(sub)[T["right"][m]] < Size(sub)[m]
      BY <1>10, SizesGrow DEF Sides
    <3>2. QED
      BY <3>1, <1>11
  <2>3. Size(sub)[c] \in Nat /\ Size(sub)[m] \in Nat
    BY <2>1, <1>8, <1>10
  <2>4. c \notin Bad
    BY <2>2, <2>3, <1>9
  <2>5. QED
    BY <2>1, <2>4
<1>12. UNION {U[c] : c \in Kids(m)} = sub[T.left[m]] \cup sub[T.right[m]]
  BY <1>11, <1>1, <1>10
<1>13. U[m] = sub[m]
  <2>1. U[m] = {m} \cup UNION {U[c] : c \in Kids(m)}
    BY <1>6, <1>10, <1>1
  <2>2. sub[m] = {m} \cup sub[T.left[m]] \cup sub[T.right[m]]
    BY <1>1, <1>10
  <2> HIDE DEF Kids
  <2>3. QED
    BY <2>1, <2>2, <1>12
<1>14. QED
  BY <1>9, <1>13

(* What hangs under each node of the tree.                                 *)
Hanging(T) == [n \in Link |-> IF n \in Members(T) THEN Subtree(T, n) ELSE {}]

LEMMA MembersAre ==
    ASSUME NEW T, NEW I, NEW sub, NEW w \in Weights, Shaped(T, I, sub, w)
    PROVE  /\ Members(T) = I
           /\ \A n \in I \cup {NULL} : Subtree(T, n) = sub[n] /\ Hanging(T)[n] = sub[n]
           /\ Shaped(T, I, Hanging(T), w)
<1>1. /\ I \subseteq Nodes /\ NULL \notin Nodes /\ sub[NULL] = {} /\ sub[T.head] = I
      /\ T.head \in I \cup {NULL} /\ sub \in [Link -> SUBSET I]
  BY NodesAssumption DEF Shaped, Linked
<1>2. ASSUME NEW n \in I \cup {NULL} PROVE Subtree(T, n) = sub[n]
  <2>1. \A m \in I : Under(T)[m] = sub[m]
    BY UnderIs
  <2>2. CASE n = NULL
    BY <2>2, <1>1 DEF Subtree
  <2>3. CASE n \in I
    BY <2>3, <2>1, <1>1 DEF Subtree
  <2>4. QED
    BY <2>2, <2>3, <1>2
<1>3. Members(T) = I
  BY <1>1, <1>2 DEF Members
<1> DEFINE H == Hanging(T)
<1>4. H \in [Link -> SUBSET I] /\ \A n \in I \cup {NULL} : H[n] = sub[n]
  <2>1. \A n \in Link : IF n \in I THEN Subtree(T, n) \subseteq I ELSE TRUE
    BY <1>1, <1>2
  <2>2. QED
    BY <2>1, <1>1, <1>2, <1>3 DEF Hanging, Link
<1> HIDE DEF H
<1>5. \A n \in I, s \in Sides : T[s][n] \in I \cup {NULL}
  BY DEF Shaped, Linked
<1>6. Linked(T, I, H)
  <2>1. \A n \in I : H[n] = {n} \cup H[T.left[n]] \cup H[T.right[n]]
    <3>1. \A n \in I : sub[n] = {n} \cup sub[T.left[n]] \cup sub[T.right[n]]
      BY DEF Shaped, Linked
    <3>2. QED
      BY <3>1, <1>4, <1>5 DEF Sides
  <2>2. QED
    BY <2>1, <1>1, <1>4 DEF Shaped, Linked
<1>7. InOrder(T, I, H, w)
  BY <1>4, <1>5 DEF Shaped, InOrder
<1>8. QED
  BY <1>2, <1>3, <1>4, <1>6, <1>7 DEF Shaped, H

(* The numbers of black nodes on the ways down from a link, where g has    *)
(* those of the nodes.                                                     *)
Below(g, c) == IF c = NULL THEN {0} ELSE g[c]

(* g has them for the nodes of B.                                          *)
Counts(T, B, g) ==
    \A m \in B : g[m] = {k + Shade(T, m) : k \in Below(g, T.left[m]) \cup Below(g, T.right[m])}

(* They can be counted: a node's left and right subtree lie apart, so the  *)
(* counts of both and the node's own make one function.                    *)
LEMMA CountsExist ==
    ASSUME NEW T, NEW I, NEW sub, NEW w \in Weights, Shaped(T, I, sub, w)
    PROVE  \E g : g = [m \in Nodes |-> g[m]] /\ Counts(T, Nodes, g)
<1> DEFINE Bad == {m \in I : ~\E g : Counts(T, sub[m], g)}
<1>1. /\ I \subseteq Nodes /\ NULL \notin Nodes /\ sub[NULL] = {} /\ sub[T.head] = I
      /\ T.head \in I \cup {NULL}
      /\ \A m \in I : /\ sub[m] = {m} \cup sub[T.left[m]] \cup sub[T.right[m]]
                      /\ T.left[m] \in I \cup {NULL} /\ T.right[m] \in I \cup {NULL}
      /\ \A m \in Nodes \ I : T.left[m] = NULL /\ T.right[m] = NULL
  BY NodesAssumption DEF Shaped, Linked, Sides
<1>2. \A m \in I : /\ m \in sub[m] /\ sub[m] \subseteq I
                   /\ m \notin sub[T.left[m]] /\ m \notin sub[T.right[m]]
                   /\ sub[T.left[m]] \cap sub[T.right[m]] = {}
  <2>1. \A m \in I, s \in Sides : m \notin sub[T[s][m]]
    BY Members1
  <2>2. QED
    BY <2>1, Members1 DEF Sides
<1>3. \A m \in I : \A x \in sub[m] : sub[x] \subseteq sub[m]
  BY UnderNested
<1>4. ASSUME NEW c \in I, NEW x \in sub[c]
      PROVE  /\ T.left[x] # NULL => T.left[x] \in sub[c]
             /\ T.right[x] # NULL => T.right[x] \in sub[c]
  <2>1. x \in I /\ sub[x] \subseteq sub[c]
    BY <1>2, <1>3
  <2>2. /\ T.left[x] # NULL => T.left[x] \in sub[T.left[x]]
        /\ T.right[x] # NULL => T.right[x] \in sub[T.right[x]]
    BY <2>1, <1>1, <1>2
  <2>3. QED
    BY <2>1, <2>2, <1>1
<1>5. \A m \in I : Size(sub)[m] \in Nat
  BY <1>1, SizesGrow
<1>6. Bad = {}
  <2>1. SUFFICES ASSUME Bad # {} PROVE FALSE
    OBVIOUS
  <2>2. PICK m \in Bad : \A k \in Bad : Size(sub)[m] <= Size(sub)[k]
    <3>1. \A k \in Bad : Size(sub)[k] \in Nat
      BY <1>5
    <3> HIDE DEF Bad
    <3>2. QED
      BY <3>1, <2>1, LeastRanked
  <2> DEFINE a == T.left[m]
             b == T.right[m]
  <2>3. /\ m \in I /\ m \in Nodes /\ m # NULL /\ a \in I \cup {NULL} /\ b \in I \cup {NULL}
        /\ sub[m] = {m} \cup sub[a] \cup sub[b]
        /\ m \notin sub[a] /\ m \notin sub[b] /\ sub[a] \cap sub[b] = {}
    BY <1>1, <1>2
  <2>4. ASSUME NEW c \in {a, b} PROVE \E g : Counts(T, sub[c], g)
    <3>1. CASE c = NULL
      BY <3>1, <1>1 DEF Counts
    <3>2. CASE c # NULL
      <4>1. c \in I
        BY <3>2, <2>3
      <4>2. /\ T["left"][m] # NULL => Size(sub)[T["left"][m]] < Size(sub)[m]
            /\ T["right"][m] # NULL => Size(sub)[T["right"][m]] < Size(sub)[m]
        BY <2>3, SizesGrow DEF Sides
      <4>3. Size(sub)[c] < Size(sub)[m] /\ Size(sub)[c] \in Nat /\ Size(sub)[m] \in Nat
        BY <3>2, <4>1, <4>2, <2>3, <1>5
      <4>4. c \notin Bad
        BY <4>3, <2>2
      <4>5. QED
        BY <4>1, <4>4
    <3>3. QED
      BY <3>1, <3>2
  <2>5. PICK ga, gb : Counts(T, sub[a], ga) /\ Counts(T, sub[b], gb)
    BY <2>4
  <2> DEFINE Top == {k + Shade(T, m) : k \in Below(ga, a) \cup Below(gb, b)}
             g   == [x \in Nodes |-> IF x = m THEN Top
                                     ELSE IF x \in sub[a] THEN ga[x] ELSE gb[x]]
  <2>6. /\ sub[a] \subseteq Nodes /\ sub[b] \subseteq Nodes
        /\ a # NULL => a \in sub[a]
        /\ b # NULL => b \in sub[b]
    BY <2>3, <1>1, <1>2
  <2>7. /\ g[m] = Top
        /\ \A x \in sub[a] : g[x] = ga[x]
        /\ \A x \in sub[b] : g[x] = gb[x]
    BY <2>3, <2>6
  <2> HIDE DEF g, Top, Bad
  <2>8. ASSUME NEW c \in {a, b}, NEW f, \A x \in sub[c] : g[x] = f[x], Counts(T, sub[c], f),
               NEW x \in sub[c]
        PROVE  g[x] = {k + Shade(T, x) : k \in Below(g, T.left[x]) \cup Below(g, T.right[x])}
    <3>1. c \in I
      <4>1. c # NULL
        BY <1>1, <2>8
      <4>2. QED
        BY <4>1, <2>3
    <3>2. /\ T.left[x] # NULL => T.left[x] \in sub[c]
          /\ T.right[x] # NULL => T.right[x] \in sub[c]
      BY <3>1, <1>4
    <3>3. Below(g, T.left[x]) = Below(f, T.left[x]) /\ Below(g, T.right[x]) = Below(f, T.right[x])
      BY <3>2, <2>8 DEF Below
    <3>4. f[x] = {k + Shade(T, x) : k \in Below(f, T.left[x]) \cup Below(f, T.right[x])}
      BY <2>8 DEF Counts
    <3>5. QED
      BY <3>3, <3>4, <2>8
  <2>9. g[m] = {k + Shade(T, m) : k \in Below(g, T.left[m]) \cup Below(g, T.right[m])}
    <3>1. Below(g, a) = Below(ga, a) /\ Below(g, b) = Below(gb, b)
      BY <2>6, <2>7 DEF Below
    <3>2. QED
      BY <3>1, <2>7 DEF Top, a, b
  <2>10. Counts(T, sub[m], g)
    <3>1. ASSUME NEW x \in sub[m]
          PROVE  g[x] = {k + Shade(T, x) : k \in Below(g, T.left[x]) \cup Below(g, T.right[x])}
      <4>1. CASE x = m
        BY <4>1, <2>9
      <4>2. CASE x \in sub[a]
        BY <4>2, <2>5, <2>7, <2>8
      <4>3. CASE x \in sub[b]
        BY <4>3, <2>5, <2>7, <2>8
      <4>4. QED
        BY <2>3, <4>1, <4>2, <4>3
    <3>2. QED
      BY <3>1 DEF Counts
  <2>11. QED
    BY <2>10 DEF Bad
<1>7. PICK f : Counts(T, I, f)
  <2>1. CASE T.head = NULL
    BY <2>1, <1>1 DEF Counts
  <2>2. CASE T.head # NULL
    BY <2>2, <1>1, <1>6
  <2>3. QED
    BY <2>1, <2>2
<1> DEFINE g == [m \in Nodes |-> IF m \in I THEN f[m] ELSE {0 + Shade(T, m)}]
<1>8. /\ g = [m \in Nodes |-> g[m]]
      /\ \A m \in I : g[m] = f[m]
      /\ \A m \in Nodes \ I : g[m] = {0 + Shade(T, m)}
  BY <1>1
<1> HIDE DEF g, Bad
<1>9. ASSUME NEW m \in Nodes
      PROVE  g[m] = {k + Shade(T, m) : k \in Below(g, T.left[m]) \cup Below(g, T.right[m])}
  <2>1. CASE m \in I
    <3>1. Below(g, T.left[m]) = Below(f, T.left[m]) /\ Below(g, T.right[m]) = Below(f, T.right[m])
      BY <2>1, <1>1, <1>8 DEF Below
    <3>2. f[m] = {k + Shade(T, m) : k \in Below(f, T.left[m]) \cup Below(f, T.right[m])}
      BY <2>1, <1>7 DEF Counts
    <3>3. QED
      BY <2>1, <3>1, <3>2, <1>8
  <2>2. CASE m \notin I
    <3>1. Below(g, T.left[m]) = {0} /\ Below(g, T.right[m]) = {0}
      BY <2>2, <1>1 DEF Below
    <3>2. QED
      BY <2>2, <3>1, <1>8
  <2>3. QED
    BY <2>1, <2>2
<1>10. QED
  BY <1>8, <1>9 DEF Counts

(* The recursive definition of the black heights has the meaning it shows. *)
LEMMA BlackHeightsAre ==
    ASSUME NEW T, NEW I, NEW sub, NEW w \in Weights, Shaped(T, I, sub, w)
    PROVE  Counts(T, Nodes, BlackHeights(T))
<1> DEFINE Body(g) == [m \in Nodes |-> {k + Shade(T, m) :
                                 k \in Below(g, T.left[m]) \cup Below(g, T.right[m])}]
           H == BlackHeights(T)
<1>1. H = CHOOSE g : g = Body(g)
  BY DEF BlackHeights, Below, Shade
<1>2. \E g : g = Body(g)
  <2>1. PICK g : g = [m \in Nodes |-> g[m]] /\ Counts(T, Nodes, g)
    BY CountsExist
  <2>2. \A m \in Nodes :
           g[m] = {k + Shade(T, m) : k \in Below(g, T.left[m]) \cup Below(g, T.right[m])}
    BY <2>1 DEF Counts
  <2>3. QED
    BY <2>1, <2>2
<1>3. H = Body(H)
  <2> HIDE DEF H, Body
  <2>1. QED
    BY <1>1, <1>2
<1> HIDE DEF H
<1>4. \A m \in Nodes :
         H[m] = {k + Shade(T, m) : k \in Below(H, T.left[m]) \cup Below(H, T.right[m])}
  BY <1>3
<1>5. QED
  BY <1>4 DEF Counts, H

(* The black heights of a node are at least one number, and at most the    *)
(* number of nodes under it.                                               *)
LEMMA BlackHeightsBound ==
    ASSUME NEW T, NEW I, NEW sub, NEW w \in Weights, Shaped(T, I, sub, w), NEW n \in I
    PROVE  /\ BlackHeights(T)[n] # {} /\ BlackHeights(T)[n] \subseteq 0 .. Size(sub)[n]
           /\ IsFiniteSet(BlackHeights(T)[n])
<1> DEFINE H   == BlackHeights(T)
           Fine(m) == H[m] # {} /\ H[m] \subseteq 0 .. Size(sub)[m]
           Bad == {m \in I : ~Fine(m)}
<1>1. /\ I \subseteq Nodes /\ NULL \notin Nodes
      /\ \A m \in I : T.left[m] \in I \cup {NULL} /\ T.right[m] \in I \cup {NULL}
  BY NodesAssumption DEF Shaped, Linked, Sides
<1>2. \A m \in Nodes :
         H[m] = {k + Shade(T, m) : k \in Below(H, T.left[m]) \cup Below(H, T.right[m])}
  BY BlackHeightsAre DEF Counts
<1>3. \A m \in I : Size(sub)[m] \in Nat /\ 1 <= Size(sub)[m]
  BY <1>1, SizesGrow
<1> HIDE DEF H
<1>4. SUFFICES Bad = {}
  <2>1. ASSUME Bad = {} PROVE Fine(n)
    BY <2>1
  <2>2. ASSUME Bad = {} PROVE IsFiniteSet(H[n])
    <3>1. IsFiniteSet(0 .. Size(sub)[n])
      BY <1>3, FS_Interval
    <3>2. QED
      BY <2>1, <2>2, <3>1, FS_Subset
  <2>3. QED
    BY <2>1, <2>2 DEF H
<1>5. SUFFICES ASSUME Bad # {} PROVE FALSE
  OBVIOUS
<1>6. PICK m \in Bad : \A k \in Bad : Size(sub)[m] <= Size(sub)[k]
  <2>1. \A k \in Bad : Size(sub)[k] \in Nat
    BY <1>3
  <2> HIDE DEF Bad
  <2>2. QED
    BY <2>1, <1>5, LeastRanked
<1>7. m \in I
  OBVIOUS
<1>8. ASSUME NEW c \in {T.left[m], T.right[m]}
      PROVE  Below(H, c) # {} /\ \A k \in Below(H, c) : k \in Nat /\ k + 1 <= Size(sub)[m]
  <2>1. CASE c = NULL
    BY <2>1, <1>3, <1>7 DEF Below
  <2>2. CASE c # NULL
    <3>1. c \in I
      BY <2>2, <1>1, <1>7
    <3>2. /\ T["left"][m] # NULL => Size(sub)[T["left"][m]] < Size(sub)[m]
          /\ T["right"][m] # NULL => Size(sub)[T["right"][m]] < Size(sub)[m]
      BY <1>7, SizesGrow DEF Sides
    <3>3. Size(sub)[c] < Size(sub)[m] /\ Size(sub)[c] \in Nat /\ Size(sub)[m] \in Nat
      BY <2>2, <3>1, <3>2, <1>3, <1>7
    <3>4. c \notin Bad
      BY <3>3, <1>6
    <3>5. H[c] # {} /\ H[c] \subseteq 0 .. Size(sub)[c]
      BY <3>1, <3>4
    <3>6. QED
      BY <2>2, <3>3, <3>5 DEF Below
  <2>3. QED
    BY <2>1, <2>2
<1>9. Shade(T, m) \in {0, 1}
  BY DEF Shade
<1> DEFINE B == Below(H, T.left[m]) \cup Below(H, T.right[m])
<1>10. B # {} /\ \A k \in B : k \in Nat /\ k + 1 <= Size(sub)[m]
  BY <1>8
<1>11. H[m] = {k + Shade(T, m) : k \in B}
  BY <1>1, <1>2, <1>7
<1> HIDE DEF B
<1>12. Fine(m)
  BY <1>3, <1>7, <1>9, <1>10, <1>11
<1>13. QED
  BY <1>6, <1>12

(* The specification's red-black trees are the balanced trees with a black *)
(* root.                                                                   *)
LEMMA RedBlackIs ==
    ASSUME NEW T, NEW I, NEW sub, NEW w \in Weights, Shaped(T, I, sub, w), RootBlack(T)
    PROVE  RedBlack(T) <=> Balanced(T, I)
<1> DEFINE H == BlackHeights(T)
<1>1. /\ I \subseteq Nodes /\ NULL \notin Nodes /\ T.head \in I \cup {NULL}
      /\ sub[NULL] = {} /\ sub[T.head] = I
      /\ \A m \in I : T.left[m] \in I \cup {NULL} /\ T.right[m] \in I \cup {NULL}
      /\ \A m \in I : m # T.head => T.parent[m] \in I /\ \E s \in Sides : T[s][T.parent[m]] = m
  BY NodesAssumption DEF Shaped, Linked, Sides
<1>2. Members(T) = I
  BY MembersAre
<1>3. \A m \in I :
         H[m] = {k + Shade(T, m) : k \in Below(H, T.left[m]) \cup Below(H, T.right[m])}
  BY <1>1, BlackHeightsAre DEF Counts
<1>4. \A m \in I : H[m] # {} /\ H[m] \subseteq Nat /\ IsFiniteSet(H[m])
  <2>1. \A m \in I : Size(sub)[m] \in Nat
    BY <1>1, SizesGrow
  <2>2. QED
    BY <2>1, BlackHeightsBound
<1>5. \A m \in I : Size(sub)[m] \in Nat /\ Size(sub)[m] <= Cardinality(Nodes)
  BY <1>1, SizesGrow
<1>6. Cardinality(Nodes) \in Nat
  BY SizesGrow
<1>7. \A m \in I : Shade(T, m) \in {0, 1}
  BY DEF Shade
<1> HIDE DEF H
<1>8. NoRedPair(T, I, NULL) <=>
         \A m \in Members(T) :
            T.color[m] = "RED" /\ m # T.head => ColorOf(T, T.parent[m]) = "BLACK"
  BY <1>1, <1>2 DEF NoRedPair, ColorOf
<1>9. ASSUME NEW h, Even(T, I, h), T.head # NULL PROVE Cardinality(H[T.head]) = 1
  <2> DEFINE Bad == {m \in I : H[m] # {h[m]}}
  <2>1. /\ h[NULL] = 0 /\ \A m \in I : h[m] \in Nat
        /\ \A m \in I : /\ h[m] = h[T.left[m]] + Shade(T, m)
                        /\ h[m] = h[T.right[m]] + Shade(T, m)
    <3>1. \A m \in I, q \in Sides : h[m] = h[T[q][m]] + Shade(T, m)
      BY <1>9 DEF Even
    <3>2. \A m \in I : h[m] = h[T["left"][m]] + Shade(T, m) /\ h[m] = h[T["right"][m]] + Shade(T, m)
      BY <3>1 DEF Sides
    <3>3. QED
      BY <3>2, <1>1, <1>9 DEF Even, Link
  <2>2. Bad = {}
    <3>1. SUFFICES ASSUME Bad # {} PROVE FALSE
      OBVIOUS
    <3>2. PICK m \in Bad : \A k \in Bad : Size(sub)[m] <= Size(sub)[k]
      <4>1. \A k \in Bad : Size(sub)[k] \in Nat
        BY <1>5
      <4> HIDE DEF Bad
      <4>2. QED
        BY <4>1, <3>1, LeastRanked
    <3>3. m \in I
      OBVIOUS
    <3>4. ASSUME NEW c \in {T.left[m], T.right[m]} PROVE Below(H, c) = {h[c]}
      <4>1. CASE c = NULL
        BY <4>1, <2>1 DEF Below
      <4>2. CASE c # NULL
        <5>1. c \in I
          BY <4>2, <1>1, <3>3
        <5>2. /\ T["left"][m] # NULL => Size(sub)[T["left"][m]] < Size(sub)[m]
              /\ T["right"][m] # NULL => Size(sub)[T["right"][m]] < Size(sub)[m]
          BY <3>3, SizesGrow DEF Sides
        <5>3. Size(sub)[c] < Size(sub)[m] /\ Size(sub)[c] \in Nat /\ Size(sub)[m] \in Nat
          BY <4>2, <5>1, <5>2, <1>5, <3>3
        <5>4. c \notin Bad
          BY <5>3, <3>2
        <5>5. QED
          BY <4>2, <5>1, <5>4 DEF Below
      <4>3. QED
        BY <4>1, <4>2
    <3> HIDE DEF Bad
    <3>5. /\ Below(H, T.left[m]) = {h[T.left[m]]} /\ Below(H, T.right[m]) = {h[T.right[m]]}
      BY <3>4
    <3>6. /\ H[m] = {k + Shade(T, m) : k \in {h[T.left[m]]} \cup {h[T.right[m]]}}
          /\ h[m] = h[T.left[m]] + Shade(T, m) /\ h[m] = h[T.right[m]] + Shade(T, m)
      BY <3>3, <3>5, <1>3, <2>1
    <3>7. H[m] = {h[m]}
      BY <3>6
    <3>8. QED
      BY <3>2, <3>7 DEF Bad
  <2>3. H[T.head] = {h[T.head]}
    BY <2>2, <1>1, <1>9
  <2>4. QED
    BY <2>3, FS_Singleton
<1>10. ASSUME T.head # NULL, Cardinality(H[T.head]) = 1 PROVE \E h : Even(T, I, h)
  <2> DEFINE Bad  == {m \in I : ~\E k : H[m] = {k}}
             rank == [m \in I |-> Cardinality(Nodes) - Size(sub)[m]]
  <2>1. T.head \in I /\ \E k : H[T.head] = {k}
    BY <1>1, <1>4, <1>10, FS_Singleton
  <2>2. Bad = {}
    <3>1. SUFFICES ASSUME Bad # {} PROVE FALSE
      OBVIOUS
    <3>2. PICK m \in Bad : \A k \in Bad : rank[m] <= rank[k]
      <4>1. \A k \in Bad : rank[k] \in Nat
        BY <1>5, <1>6
      <4> HIDE DEF Bad, rank
      <4>2. QED
        BY <4>1, <3>1, LeastRanked
    <3> DEFINE p == T.parent[m]
    <3>3. m \in I /\ m # T.head /\ p \in I
      BY <2>1, <1>1
    <3>4. p \notin Bad
      <4>1. Size(sub)[m] < Size(sub)[p] /\ Size(sub)[m] \in Nat /\ Size(sub)[p] \in Nat
        BY <3>3, <1>5, SizesGrow
      <4>2. rank[p] < rank[m] /\ rank[p] \in Int /\ rank[m] \in Int
        BY <4>1, <3>3, <1>6
      <4> HIDE DEF rank, p, Bad
      <4>3. QED
        BY <4>2, <3>2
    <3>5. PICK a : H[p] = {a}
      BY <3>3, <3>4
    <3>6. m \in {T.left[p], T.right[p]}
      BY <3>3, <1>1 DEF Sides
    <3>7. Below(H, m) = H[m]
      BY <3>3, <1>1 DEF Below
    <3>8. \A k \in H[m] : k + Shade(T, p) \in H[p]
      BY <3>3, <3>6, <3>7, <1>3
    <3>9. \A k \in H[m] : k + Shade(T, p) = a /\ k \in Nat
      BY <3>3, <3>5, <3>8, <1>4
    <3>10. \A k \in H[m] : k = a - Shade(T, p)
      <4>1. Shade(T, p) \in Nat
        BY <3>3, <1>7
      <4>2. QED
        BY <4>1, <3>9
    <3>11. H[m] = {a - Shade(T, p)}
      BY <3>3, <3>10, <1>4
    <3>12. QED
      BY <3>2, <3>11
  <2> DEFINE h == [n \in Link |-> IF n \in I THEN CHOOSE k : H[n] = {k} ELSE 0]
  <2>3. \A m \in I : H[m] = {h[m]}
    <3>1. \A m \in I : h[m] = CHOOSE k : H[m] = {k}
      BY <1>1 DEF Link
    <3>2. \A m \in I : \E k : H[m] = {k}
      BY <2>2
    <3> HIDE DEF h
    <3>3. QED
      BY <3>1, <3>2
  <2>4. h[NULL] = 0 /\ h \in [Link -> Nat]
    <3>1. \A m \in I : h[m] \in Nat
      <4> HIDE DEF h
      <4>1. QED
        BY <2>3, <1>4
    <3>2. NULL \in Link /\ \A m \in Link \ I : h[m] = 0
      BY DEF Link
    <3>3. h = [n \in Link |-> h[n]]
      OBVIOUS
    <3> HIDE DEF h
    <3>4. QED
      BY <3>1, <3>2, <3>3, <1>1
  <2> HIDE DEF h, Bad
  <2>5. ASSUME NEW m \in I, NEW q \in Sides PROVE h[m] = h[T[q][m]] + Shade(T, m)
    <3>1. T[q][m] \in I \cup {NULL} /\ T[q][m] \in {T.left[m], T.right[m]}
      BY <1>1 DEF Sides
    <3>2. h[T[q][m]] \in Below(H, T[q][m])
      BY <3>1, <1>1, <2>3, <2>4 DEF Below
    <3>3. h[T[q][m]] + Shade(T, m) \in H[m]
      BY <3>1, <3>2, <1>3
    <3>4. QED
      BY <3>3, <2>3
  <2>6. QED
    BY <2>4, <2>5 DEF Even
<1>11. ASSUME T.head = NULL PROVE \E h : Even(T, I, h)
  <2>1. [n \in Link |-> 0][NULL] = 0 /\ [n \in Link |-> 0] \in [Link -> Nat] /\ I = {}
    BY <1>1, <1>11 DEF Link
  <2>2. QED
    BY <2>1 DEF Even
<1>12. RedBlack(T) => Balanced(T, I)
  BY <1>8, <1>10, <1>11 DEF RedBlack, Balanced, H
<1>13. Balanced(T, I) => RedBlack(T)
  BY <1>8, <1>9 DEF RedBlack, Balanced, RootBlack, H
<1>14. QED
  BY <1>12, <1>13

LEMMA FreshShaped ==
    ASSUME NEW T, NEW I, NEW sub, NEW w \in Weights, Shaped(T, I, sub, w),
           NEW n \in Nodes \ I
    PROVE  /\ Shaped(Fresh(T, n), I, sub, w)
           /\ RootBlack(T) => RootBlack(Fresh(T, n))
<1> DEFINE F == Fresh(T, n)
<1>1. /\ T \in Trees /\ T.head \in I \cup {NULL} /\ I \subseteq Nodes
      /\ T.parent[n] = NULL /\ T.left[n] = NULL /\ T.right[n] = NULL
  BY DEF Shaped, Linked, Sides
<1>2. /\ F \in Trees /\ F.head = T.head /\ F.parent = T.parent
      /\ F.left = T.left /\ F.right = T.right
      /\ \A m \in Nodes : m # n => F.color[m] = T.color[m]
  BY <1>1 DEF Trees, Link, Fresh
<1> HIDE DEF F
<1>3. Shaped(F, I, sub, w)
  BY <1>2, SameLinks
<1>4. RootBlack(T) => RootBlack(F)
  BY <1>1, <1>2 DEF RootBlack
<1>5. QED
  BY <1>3, <1>4 DEF F

LEMMA FreshBalanced ==
    ASSUME NEW T, NEW I, NEW sub, NEW w \in Weights, Shaped(T, I, sub, w),
           NEW n \in Nodes \ I
    PROVE  /\ Fresh(T, n).color[n] = "RED"
           /\ Balanced(T, I) => Balanced(Fresh(T, n), I)
<1> DEFINE F == Fresh(T, n)
<1>1. /\ T \in Trees /\ I \subseteq Nodes /\ n \notin I
      /\ T.parent[n] = NULL /\ T.left[n] = NULL /\ T.right[n] = NULL
      /\ \A m \in I : m # T.head => T.parent[m] \in I
  BY DEF Shaped, Linked, Sides
<1>2. /\ F.head = T.head /\ F.parent = T.parent
      /\ F.left = T.left /\ F.right = T.right
      /\ F.color[n] = "RED"
      /\ \A m \in I : F.color[m] = T.color[m]
  BY <1>1 DEF Trees, Link, Fresh
<1> HIDE DEF F
<1>3. ASSUME Balanced(T, I) PROVE Balanced(F, I)
  <2>1. PICK h : Even(T, I, h)
    BY <1>3 DEF Balanced
  <2>2. \A m \in I : Shade(F, m) = Shade(T, m)
    BY <1>2 DEF Shade
  <2>3. Even(F, I, h)
    BY <2>1, <2>2, <1>2 DEF Even, Sides
  <2>4. NoRedPair(F, I, NULL)
    BY <1>1, <1>2, <1>3 DEF Balanced, NoRedPair
  <2>5. QED
    BY <2>3, <2>4 DEF Balanced
<1>4. QED
  BY <1>2, <1>3 DEF F

(* A black-rooted search tree of the nodes in I.                           *)
Good(T, I) == RootBlack(T) /\ \E sub : Shaped(T, I, sub, ValueOf)

(* The inductive invariant: the links of the tree are one search tree of   *)
(* its members, and its root is black.  The order alone is not inductive:  *)
(* the operations decide on parent links, and find the free link a leaf    *)
(* goes to only in a whole tree; and a round of an insertion is known to   *)
(* end in a rotation or a recolouring when a red parent is not the root.   *)
IInv == RootBlack(tree) /\ Shaped(tree, Members(tree), Hanging(tree), ValueOf)

LEMMA GoodIs ==
    ASSUME NEW T, NEW I, Good(T, I)
    PROVE  /\ Members(T) = I /\ RootBlack(T)
           /\ Shaped(T, I, Hanging(T), ValueOf)
<1>1. PICK sub : Shaped(T, I, sub, ValueOf)
  BY DEF Good
<1>2. QED
  BY <1>1, ValuesAreWeights, MembersAre DEF Good

LEMMA InitGood == Init => Good(tree, {})
<1>1. SUFFICES ASSUME Init PROVE Good(tree, {})
  OBVIOUS
<1> DEFINE sub == [k \in Link |-> {}]
<1>2. /\ tree.head = NULL /\ tree \in Trees
      /\ \A m \in Nodes : tree.parent[m] = NULL /\ tree.left[m] = NULL /\ tree.right[m] = NULL
  BY <1>1 DEF Init, Trees, Link
<1>3. sub \in [Link -> SUBSET {}] /\ sub[NULL] = {}
  BY DEF Link
<1> HIDE DEF sub
<1>4. \A m \in Nodes, s \in Sides : tree[s][m] = NULL
  BY <1>2 DEF Sides
<1>5. Linked(tree, {}, sub)
  BY <1>2, <1>3, <1>4 DEF Linked
<1>6. Shaped(tree, {}, sub, ValueOf)
  BY <1>5 DEF Shaped, InOrder
<1>7. QED
  BY <1>2, <1>6 DEF Good, RootBlack

(* What a call of rbt_insertNode does to the tree of the members I.        *)
LEMMA InsertStepIs ==
    ASSUME NEW I, Good(tree, I), NEW n \in Nodes, Insert(n)
    PROVE  /\ n \notin I
           /\ \/ /\ \E m \in I : ValueOf[m] = ValueOf[n]
                 /\ result' = <<"add", n, "-2">> /\ Good(tree', I)
              \/ /\ ~\E m \in I : ValueOf[m] = ValueOf[n]
                 /\ result' = <<"add", n, "0">> /\ Good(tree', I \cup {n})
           /\ Balanced(tree, I) => \E J : Good(tree', J) /\ Balanced(tree', J)
<1> DEFINE F == Fresh(tree, n)
           D == InsertNode(F, n)
<1>1. n \notin I /\ RootBlack(tree)
  BY GoodIs DEF Insert
<1>2. PICK sub : Shaped(tree, I, sub, ValueOf)
  BY DEF Good
<1>3. /\ Shaped(F, I, sub, ValueOf) /\ RootBlack(F)
      /\ F.color[n] = "RED" /\ (Balanced(tree, I) => Balanced(F, I))
  BY <1>1, <1>2, ValuesAreWeights, FreshShaped, FreshBalanced
<1>4. /\ tree' = IF D.ret = "0" THEN D.tree ELSE Fresh(D.tree, n)
      /\ result' = <<"add", n, D.ret>>
  BY DEF Insert
<1> HIDE DEF F
<1>5. \/ D.ret = "-2" /\ D.tree = F /\ \E m \in I : ValueOf[m] = ValueOf[n]
      \/ /\ D.ret = "0" /\ \A m \in I : ValueOf[m] # ValueOf[n]
         /\ RootBlack(D.tree)
         /\ \E sub2 : Shaped(D.tree, I \cup {n}, sub2, ValueOf)
         /\ Balanced(F, I) => Balanced(D.tree, I \cup {n})
  BY <1>1, <1>3, InsertNodeIs
<1> HIDE DEF D
<1>6. CASE D.ret = "-2" /\ D.tree = F /\ \E m \in I : ValueOf[m] = ValueOf[n]
  <2>1. tree' = Fresh(F, n)
    BY <1>4, <1>6
  <2>2. /\ Shaped(Fresh(F, n), I, sub, ValueOf) /\ RootBlack(Fresh(F, n))
        /\ Balanced(F, I) => Balanced(Fresh(F, n), I)
    BY <1>1, <1>3, ValuesAreWeights, FreshShaped, FreshBalanced
  <2>3. QED
    BY <2>1, <2>2, <1>1, <1>3, <1>4, <1>6 DEF Good
<1>7. CASE /\ D.ret = "0" /\ \A m \in I : ValueOf[m] # ValueOf[n]
           /\ RootBlack(D.tree)
           /\ \E sub2 : Shaped(D.tree, I \cup {n}, sub2, ValueOf)
           /\ Balanced(F, I) => Balanced(D.tree, I \cup {n})
  BY <1>1, <1>3, <1>4, <1>7 DEF Good
<1>8. QED
  BY <1>5, <1>6, <1>7

(* What a call of rbt_removeNode does to the tree of the members I.        *)
LEMMA RemoveStepIs ==
    ASSUME NEW I, Good(tree, I), NEW n \in Nodes, Remove(n)
    PROVE  /\ n \in I
           /\ \/ /\ HalfRoot(tree, n) /\ result' = <<"delete", n, "-1">>
                 /\ SameLinkRecord(tree, tree') /\ Good(tree', I)
              \/ /\ ~HalfRoot(tree, n) /\ result' = <<"delete", n, "0">>
                 /\ Good(tree', I \ {n})
<1> DEFINE D == RemoveNode(tree, n)
<1>1. n \in I /\ RootBlack(tree)
  BY GoodIs DEF Remove
<1>2. PICK sub : Shaped(tree, I, sub, ValueOf)
  BY DEF Good
<1>3. /\ tree' = IF D.ret = "0" THEN Fresh(D.tree, n) ELSE D.tree
      /\ result' = <<"delete", n, D.ret>>
  BY DEF Remove
<1>4. UnlinkDone(tree, I, ValueOf, n, D)
  BY <1>1, <1>2, RemoveNodeIs
<1> HIDE DEF D
<1>5. QED
  BY <1>1, <1>3, <1>4 DEF UnlinkDone, Good

LEMMA GoodNext ==
    ASSUME IInv, [Next]_vars
    PROVE  IInv'
<1> DEFINE I == Members(tree)
<1>1. Good(tree, I)
  BY DEF IInv, Good
<1>2. CASE \E n \in Nodes : Insert(n)
  <2>1. PICK n \in Nodes : Insert(n)
    BY <1>2
  <2> HIDE DEF I
  <2>2. \E J : Good(tree', J)
    BY <2>1, <1>1, InsertStepIs
  <2>3. PICK J : Good(tree', J)
    BY <2>2
  <2>4. Members(tree') = J /\ RootBlack(tree') /\ Shaped(tree', J, Hanging(tree'), ValueOf)
    BY <2>3, GoodIs
  <2>5. QED
    BY <2>4 DEF IInv
<1>3. CASE \E n \in Nodes : Remove(n)
  <2>1. PICK n \in Nodes : Remove(n)
    BY <1>3
  <2> HIDE DEF I
  <2>2. \E J : Good(tree', J)
    BY <2>1, <1>1, RemoveStepIs
  <2>3. PICK J : Good(tree', J)
    BY <2>2
  <2>4. Members(tree') = J /\ RootBlack(tree') /\ Shaped(tree', J, Hanging(tree'), ValueOf)
    BY <2>3, GoodIs
  <2>5. QED
    BY <2>4 DEF IInv
<1>4. CASE UNCHANGED vars
  <2>1. tree' = tree
    BY <1>4 DEF vars
  <2>2. Good(tree', I)
    BY <2>1, <1>1
  <2> HIDE DEF I
  <2>3. Members(tree') = I /\ RootBlack(tree') /\ Shaped(tree', I, Hanging(tree'), ValueOf)
    BY <2>2, GoodIs
  <2>4. QED
    BY <2>3 DEF IInv
<1>5. QED
  BY <1>2, <1>3, <1>4 DEF Next

(* The tree stays what its links and its colours promise, through every    *)
(* insertion, removal and refused removal: IInv is an invariant.           *)
THEOREM TreeInvariant == Spec => []IInv
<1>1. Init => IInv
  <2>1. ASSUME Init PROVE IInv
    <3>1. Good(tree, {})
      BY <2>1, InitGood
    <3>2. QED
      BY <3>1, GoodIs DEF IInv
  <2>2. QED
    BY <2>1
<1>2. IInv /\ [Next]_vars => IInv'
  BY GoodNext
<1>3. QED
  BY <1>1, <1>2, PTL DEF Spec

LEMMA SearchTreeFromIInv == IInv => IsSearchTree
<1>1. SUFFICES ASSUME IInv PROVE IsSearchTree
  OBVIOUS
<1> DEFINE I   == Members(tree)
           sub == Hanging(tree)
           w   == ValueOf
<1>2. w \in Weights /\ Shaped(tree, I, sub, w)
  BY <1>1, ValuesAreWeights DEF IInv
<1>3. /\ tree \in Trees /\ I \subseteq Nodes /\ NULL \notin Nodes
      /\ tree.head # NULL => tree.parent[tree.head] = NULL
      /\ \A n \in Nodes \ I : /\ tree.parent[n] = NULL
                              /\ tree.left[n] = NULL /\ tree.right[n] = NULL
      /\ \A n \in I, s \in Sides : tree[s][n] \in I \cup {NULL}
  BY <1>2, NodesAssumption DEF Shaped, Linked, Sides
<1>4. TypeOK
  BY <1>3 DEF TypeOK, Trees, Link
<1>5. LinksConsistent
  <2>1. ASSUME NEW n \in I, NEW s \in Sides, tree[s][n] \in Nodes
        PROVE  tree.parent[tree[s][n]] = n /\ NodeProperty(tree, tree[s][n]) = s
    <3>1. tree[s][n] \in I
      BY <2>1, <1>3
    <3> HIDE DEF I, sub, w
    <3>2. QED
      BY <3>1, <1>2, PropertyOf
  <2>2. \A n \in I : \A k \in {<<s, tree[s][n]>> : s \in Sides} \cap (Sides \X Nodes) :
           tree.parent[k[2]] = n /\ NodeProperty(tree, k[2]) = k[1]
    BY <2>1
  <2>3. \A n \in Nodes \ I :
           {<<s, tree[s][n]>> : s \in Sides} \cap (Sides \X Nodes) = {}
    BY <1>3 DEF Sides
  <2>4. QED
    BY <2>2, <2>3, <1>3 DEF LinksConsistent, Sides
<1>6. SearchOrder
  <2>1. \A n \in I \cup {NULL} : Subtree(tree, n) = sub[n]
    BY <1>2, MembersAre
  <2>2. \A n \in I : tree.left[n] \in I \cup {NULL} /\ tree.right[n] \in I \cup {NULL}
    BY <1>3 DEF Sides
  <2>3. ASSUME NEW n \in I
        PROVE  /\ \A k \in sub[tree.left[n]]  : w[k] < w[n]
               /\ \A k \in sub[tree.right[n]] : w[k] > w[n]
    <3> HIDE DEF I, sub
    <3>1. /\ \A k \in sub[tree.left[n]] : w[k] < w[n]
          /\ \A k \in sub[tree.right[n]] : w[n] < w[k]
      BY <1>2, <2>3, BothSides
    <3>2. \A k \in sub[tree.right[n]] : k \in Nodes
      BY <1>2, <2>2 DEF Shaped, Linked, Link
    <3>3. QED
      BY <3>1, <3>2, <1>2, <1>3 DEF Weights
  <2>4. QED
    BY <2>1, <2>2, <2>3 DEF SearchOrder
<1>7. QED
  BY <1>4, <1>5, <1>6 DEF IsSearchTree

(* The tree is a search tree with consistent links after any sequence of   *)
(* rbt_insertNode and rbt_removeNode calls, of any number of nodes.        *)
THEOREM SearchTreeAlways == Spec => []IsSearchTree
<1>1. IInv => IsSearchTree
  BY SearchTreeFromIInv
<1>2. QED
  BY <1>1, TreeInvariant, PTL

(* rbt_findNode always finds the least value that is large enough.         *)
THEOREM FindsCeiling == Spec => []FindIsCeiling
<1>1. ASSUME IInv PROVE FindIsCeiling
  <2> DEFINE I == Members(tree)
  <2>1. Shaped(tree, I, Hanging(tree), ValueOf)
    BY <1>1 DEF IInv
  <2>2. Cardinality(Nodes) \in Nat /\ NULL \notin I /\ ValueOf \in Weights /\ I \subseteq Nodes
    BY <2>1, NodesAssumption, ValuesAreWeights, FS_CardinalityType DEF Shaped, Linked
  <2>3. \A m \in I : ValueOf[m] \in Nat
    BY <2>2 DEF Weights
  <2>4. ASSUME NEW v \in 0 .. 1 + Cardinality(Nodes)
        PROVE  LET enough == {m \in I : ValueOf[m] >= v}
                   found  == FindUpperNearest(tree, v)
               IN  IF enough = {} THEN found = NULL
                   ELSE found \in enough /\ \A m \in enough : ValueOf[found] <= ValueOf[m]
    <3> DEFINE f == FindUpperNearest(tree, v)
    <3>1. v \in Nat
      BY <2>2
    <3> HIDE DEF I
    <3>2. \/ f = NULL /\ \A x \in I : ValueOf[x] < v
          \/ /\ f \in I /\ v <= ValueOf[f]
             /\ \A x \in I : v <= ValueOf[x] => ValueOf[f] <= ValueOf[x]
      BY <3>1, <2>1, FindIs
    <3> HIDE DEF f
    <3>3. IF {m \in I : ValueOf[m] >= v} = {} THEN f = NULL
          ELSE /\ f \in {m \in I : ValueOf[m] >= v}
               /\ \A m \in {m \in I : ValueOf[m] >= v} : ValueOf[f] <= ValueOf[m]
      BY <3>1, <3>2, <2>2, <2>3
    <3>4. QED
      BY <3>3 DEF f
  <2>5. QED
    BY <2>4 DEF FindIsCeiling
<1>2. IInv => FindIsCeiling
  BY <1>1
<1>3. QED
  BY <1>2, TreeInvariant, PTL

(* The root is always black, whatever removals have left of the balance:   *)
(* no insertion meets a red node that has no parent.                       *)
THEOREM RootStaysBlack == Spec => []RootIsBlack
<1>1. IInv => RootIsBlack
  BY DEF IInv, RootBlack, RootIsBlack
<1>2. QED
  BY <1>1, TreeInvariant, PTL

LEMMA GoodMembers == IInv => Good(tree, Members(tree))
BY DEF IInv, Good

(* An insertion into a red-black tree leaves a red-black tree, at any size *)
(* and after any insertions, removals and refused removals.                *)
THEOREM InsertionsKeepRedBlack == Spec => InsertKeepsRedBlack
<1> DEFINE Right == RedBlack(tree) /\ result'[1] = "add" => RedBlack(tree')
<1>1. IInv /\ [Next]_vars => [Right]_vars
  <2>1. ASSUME IInv, NEW n \in Nodes, Insert(n) PROVE Right
    <3> DEFINE I == Members(tree)
    <3>1. Good(tree, I)
      BY <2>1, GoodMembers
    <3> HIDE DEF I
    <3>2. Shaped(tree, I, Hanging(tree), ValueOf) /\ RootBlack(tree) /\ ValueOf \in Weights
      BY <3>1, GoodIs, ValuesAreWeights
    <3>3. SUFFICES ASSUME RedBlack(tree) PROVE RedBlack(tree')
      OBVIOUS
    <3>4. Balanced(tree, I)
      BY <3>2, <3>3, RedBlackIs
    <3>5. PICK J : Good(tree', J) /\ Balanced(tree', J)
      BY <3>1, <3>4, <2>1, InsertStepIs
    <3>6. Shaped(tree', J, Hanging(tree'), ValueOf) /\ RootBlack(tree')
      BY <3>5, GoodIs
    <3>7. QED
      BY <3>2, <3>5, <3>6, RedBlackIs
  <2>2. ASSUME IInv, NEW n \in Nodes, Remove(n) PROVE Right
    <3>1. result'[1] = "delete"
      BY <2>2 DEF Remove
    <3>2. QED
      BY <3>1
  <2>3. QED
    BY <2>1, <2>2 DEF Next
<1>2. Spec => [][Right]_vars
  BY <1>1, TreeInvariant, PTL DEF Spec
<1>3. QED
  BY <1>2 DEF InsertKeepsRedBlack

(* The balancing of every removal ends: the recursion of                   *)
(* rbt_removeNodeBalance is never more than twice as deep as there are     *)
(* nodes, also in the trees that removals have left without their balance. *)
THEOREM BalancingEnds == Spec => [](\A n \in Members(tree) : RemovalSettles(tree, n))
<1>1. IInv => \A n \in Members(tree) : RemovalSettles(tree, n)
  <2>1. ASSUME IInv, NEW n \in Members(tree) PROVE RemovalSettles(tree, n)
    <3> DEFINE I == Members(tree)
    <3>1. Shaped(tree, I, Hanging(tree), ValueOf) /\ RootBlack(tree) /\ n \in I
      BY <2>1 DEF IInv
    <3> HIDE DEF I
    <3>2. QED
      BY <3>1, RemoveNodeIs
  <2>2. QED
    BY <2>1
<1>2. QED
  BY <1>1, TreeInvariant, PTL

(* rbt_removeNode refuses a root with one child and nothing else, and then *)
(* leaves every link as it was.                                            *)
THEOREM OnlyHalfRootIsRefused == Spec => RefusesOnlyHalfRoot
<1> DEFINE Right ==
             \A n \in Nodes :
               result' # result /\ result'[1] = "delete" /\ result'[2] = n =>
                 /\ (result'[3] = "-1") <=> HalfRoot(tree, n)
                 /\ result'[3] = "-1" =>
                      \A f \in {"parent", "left", "right"} : tree'[f] = tree[f]
<1>1. IInv /\ [Next]_vars => [Right]_vars
  <2>1. ASSUME IInv, NEW m \in Nodes, Insert(m) PROVE Right
    <3>1. Good(tree, Members(tree))
      BY <2>1, GoodMembers
    <3>2. result' = <<"add", m, "-2">> \/ result' = <<"add", m, "0">>
      BY <3>1, <2>1, InsertStepIs
    <3>3. QED
      BY <3>2
  <2>2. ASSUME IInv, NEW m \in Nodes, Remove(m) PROVE Right
    <3>1. Good(tree, Members(tree))
      BY <2>2, GoodMembers
    <3>2. \/ /\ HalfRoot(tree, m) /\ result' = <<"delete", m, "-1">>
             /\ SameLinkRecord(tree, tree')
          \/ ~HalfRoot(tree, m) /\ result' = <<"delete", m, "0">>
      BY <3>1, <2>2, RemoveStepIs
    <3>3. QED
      BY <3>2 DEF SameLinkRecord
  <2>3. QED
    BY <2>1, <2>2 DEF Next
<1>2. Spec => [][Right]_vars
  BY <1>1, TreeInvariant, PTL DEF Spec
<1>3. QED
  BY <1>2 DEF RefusesOnlyHalfRoot

(* The tree implements the set of OrderedSet: every call adds its node,    *)
(* takes it out, or changes nothing and says so.                           *)
THEOREM TreeImplementsSet == Spec => ImplementsOrderedSet
<1>1. Init => Abstract!Init
  <2>1. ASSUME Init PROVE Abstract!Init
    <3>1. Members(tree) = {}
      BY <2>1, InitGood, GoodIs
    <3>2. QED
      BY <3>1, <2>1 DEF Init, Abstract!Init
  <2>2. QED
    BY <2>1
<1>2. IInv /\ [Next]_vars => [Abstract!Next]_(Abstract!osVars)
  <2>1. ASSUME IInv, NEW n \in Nodes, Insert(n) PROVE Abstract!Add(n)
    <3> DEFINE I == Members(tree)
    <3>1. Good(tree, I)
      BY <2>1, GoodMembers
    <3> HIDE DEF I
    <3>2. /\ n \notin I
          /\ \/ /\ \E m \in I : ValueOf[m] = ValueOf[n]
                /\ result' = <<"add", n, "-2">> /\ Good(tree', I)
             \/ /\ ~\E m \in I : ValueOf[m] = ValueOf[n]
                /\ result' = <<"add", n, "0">> /\ Good(tree', I \cup {n})
      BY <3>1, <2>1, InsertStepIs
    <3>3. /\ n \notin I
          /\ \/ /\ \E m \in I : ValueOf[m] = ValueOf[n]
                /\ result' = <<"add", n, "-2">> /\ Members(tree') = I
             \/ /\ ~\E m \in I : ValueOf[m] = ValueOf[n]
                /\ result' = <<"add", n, "0">> /\ Members(tree') = I \cup {n}
      BY <3>2, GoodIs
    <3>4. QED
      BY <3>3 DEF I, Abstract!Add
  <2>2. ASSUME IInv, NEW n \in Nodes, Remove(n) PROVE Abstract!Delete(n)
    <3> DEFINE I == Members(tree)
    <3>1. Good(tree, I)
      BY <2>2, GoodMembers
    <3> HIDE DEF I
    <3>2. /\ n \in I
          /\ \/ result' = <<"delete", n, "-1">> /\ Good(tree', I)
             \/ result' = <<"delete", n, "0">> /\ Good(tree', I \ {n})
      BY <3>1, <2>2, RemoveStepIs
    <3>3. /\ n \in I
          /\ \/ result' = <<"delete", n, "-1">> /\ Members(tree') = I
             \/ result' = <<"delete", n, "0">> /\ Members(tree') = I \ {n}
      BY <3>2, GoodIs
    <3>4. QED
      BY <3>3 DEF I, Abstract!Delete
  <2>3. UNCHANGED vars => UNCHANGED Abstract!osVars
    BY DEF vars, Abstract!osVars, Members, Subtree, Under
  <2>4. QED
    BY <2>1, <2>2, <2>3 DEF Next, Abstract!Next
<1>3. QED
  BY <1>1, <1>2, TreeInvariant, PTL DEF Spec, ImplementsOrderedSet, Abstract!Spec
=============================================================================
