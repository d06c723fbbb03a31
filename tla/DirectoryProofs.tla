--------------------------- MODULE DirectoryProofs ---------------------------
(***************************************************************************)
(* Theorems about directories of any number of entries, any number of      *)
(* entries to a block and any set of names.                                *)
(***************************************************************************)
EXTENDS Directory, WellFoundedInduction, TLAPS

-----------------------------------------------------------------------------
(* The binary search.                                                      *)

(* A set of numbers has a least one.                                       *)
LEMMA LeastNumber ==
    ASSUME NEW S \in SUBSET Nat, S # {}
    PROVE  \E x \in S : \A y \in S : x <= y
<1>1. \E x \in S : \A y \in S : ~(<<y, x>> \in OpToRel(<, Nat))
  BY NatLessThanWellFounded, WFMin
<1>2. \A x, y \in S : ~(<<y, x>> \in OpToRel(<, Nat)) => x <= y
  BY DEF OpToRel
<1>3. QED
  BY <1>1, <1>2

(* g answers as the search does wherever the bounds are less than k apart. *)
Answers(g, r, n, name, k) ==
    \A from \in 0 .. n, to \in -1 .. n - 1 :
       to - from < k => g[<<from, to>>] = ProbeStep(g, r, name, from, to)

LEMMA Middle ==
    ASSUME NEW from \in Nat, NEW to \in Int, from <= to
    PROVE  (from + to) \div 2 \in from .. to
OBVIOUS

(* Two functions that agree on narrower bounds give the same probe.        *)
LEMMA StepUsesNarrower ==
    ASSUME NEW n \in Nat, NEW r, NEW name, NEW g, NEW h, NEW from \in 0 .. n, NEW to \in -1 .. n - 1,
           \A a \in 0 .. n, b \in -1 .. n - 1 : b - a < to - from => g[<<a, b>>] = h[<<a, b>>]
    PROVE  ProbeStep(g, r, name, from, to) = ProbeStep(h, r, name, from, to)
<1>1. CASE from > to
  BY <1>1 DEF ProbeStep
<1>2. CASE from <= to
  <2> DEFINE mid == (from + to) \div 2
  <2>1. mid \in from .. to /\ mid \in Int
    BY <1>2, Middle
  <2>2. mid # to => g[<<mid + 1, to>>] = h[<<mid + 1, to>>]
    BY <2>1, <1>2
  <2>3. mid # from => g[<<from, mid - 1>>] = h[<<from, mid - 1>>]
    BY <2>1, <1>2
  <2>4. QED
    BY <1>2, <2>2, <2>3 DEF ProbeStep
<1>3. QED
  BY <1>1, <1>2

(* There is such a function for every distance.                            *)
LEMMA AnswersExist ==
    ASSUME NEW n \in Nat, NEW r, NEW name, NEW k \in Nat
    PROVE  \E g : g = [w \in Bounds(n) |-> g[w]] /\ Answers(g, r, n, name, k)
<1> DEFINE Works(m) == \E g : g = [w \in Bounds(n) |-> g[w]] /\ Answers(g, r, n, name, m)
           Bad == {m \in Nat : ~Works(m)}
<1>1. SUFFICES ASSUME Bad # {} PROVE FALSE
  OBVIOUS
<1>2. PICK m \in Bad : \A y \in Bad : m <= y
  BY <1>1, LeastNumber
<1>3. CASE m = 0
  <2> DEFINE g == [w \in Bounds(n) |-> INVAL]
  <2>1. Answers(g, r, n, name, 0)
    BY DEF Answers, ProbeStep, Bounds
  <2>2. g = [w \in Bounds(n) |-> g[w]]
    OBVIOUS
  <2>3. QED
    BY <2>1, <2>2, <1>2, <1>3
<1>4. CASE m # 0
  <2>1. m - 1 \in Nat /\ Works(m - 1)
    BY <1>2, <1>4
  <2>2. PICK g : g = [w \in Bounds(n) |-> g[w]] /\ Answers(g, r, n, name, m - 1)
    BY <2>1
  <2> DEFINE h == [w \in Bounds(n) |-> IF w[2] - w[1] < m - 1 THEN g[w]
                                       ELSE ProbeStep(g, r, name, w[1], w[2])]
  <2>3. h = [w \in Bounds(n) |-> h[w]]
    OBVIOUS
  <2>4. \A a \in 0 .. n, b \in -1 .. n - 1 :
           h[<<a, b>>] = IF b - a < m - 1 THEN g[<<a, b>>] ELSE ProbeStep(g, r, name, a, b)
    BY DEF Bounds
  <2> HIDE DEF h
  <2>5. ASSUME NEW from \in 0 .. n, NEW to \in -1 .. n - 1, to - from < m
        PROVE  h[<<from, to>>] = ProbeStep(h, r, name, from, to)
    <3>1. \A a \in 0 .. n, b \in -1 .. n - 1 : b - a < to - from => g[<<a, b>>] = h[<<a, b>>]
      BY <2>4, <2>5, <1>2
    <3>2. ProbeStep(g, r, name, from, to) = ProbeStep(h, r, name, from, to)
      BY <3>1, StepUsesNarrower
    <3>3. h[<<from, to>>] = ProbeStep(g, r, name, from, to)
      BY <2>4, <2>2 DEF Answers
    <3>4. QED
      BY <3>2, <3>3
  <2>6. Answers(h, r, n, name, m)
    BY <2>5 DEF Answers
  <2>7. QED
    BY <2>3, <2>6, <1>2
<1>5. QED
  BY <1>3, <1>4

(* The recursive definition of the search has the meaning it shows.        *)
LEMMA ProbeIsStep ==
    ASSUME NEW n \in Nat, NEW r, NEW name
    PROVE  \A from \in 0 .. n, to \in -1 .. n - 1 :
              Probe(r, n, name)[<<from, to>>] = ProbeStep(Probe(r, n, name), r, name, from, to)
<1> DEFINE Body(g) == [w \in Bounds(n) |-> ProbeStep(g, r, name, w[1], w[2])]
<1>1. PICK g : g = [w \in Bounds(n) |-> g[w]] /\ Answers(g, r, n, name, n + 1)
  BY AnswersExist
<1>2. ASSUME NEW w \in Bounds(n)
      PROVE  g[w] = ProbeStep(g, r, name, w[1], w[2])
  <2>1. PICK from \in 0 .. n, to \in -1 .. n - 1 : w = <<from, to>>
    BY DEF Bounds
  <2>2. to - from < n + 1
    OBVIOUS
  <2>3. g[<<from, to>>] = ProbeStep(g, r, name, from, to)
    BY <1>1, <2>2 DEF Answers
  <2>4. QED
    BY <2>1, <2>3
<1>3. g = Body(g)
  BY <1>1, <1>2
<1>4. Probe(r, n, name) = CHOOSE f : f = Body(f)
  BY DEF Probe
<1>5. Probe(r, n, name) = Body(Probe(r, n, name))
  BY <1>3, <1>4
<1>6. ASSUME NEW from \in 0 .. n, NEW to \in -1 .. n - 1
      PROVE  Probe(r, n, name)[<<from, to>>]
                = ProbeStep(Probe(r, n, name), r, name, from, to)
  <2>1. <<from, to>> \in Bounds(n)
    BY DEF Bounds
  <2> DEFINE f == Probe(r, n, name)
  <2>2. f = [w \in Bounds(n) |-> ProbeStep(f, r, name, w[1], w[2])]
    BY <1>5
  <2> HIDE DEF f
  <2>3. f[<<from, to>>] = ProbeStep(f, r, name, from, to)
    BY <2>1, <2>2
  <2>4. QED
    BY <2>3 DEF f
<1>7. QED
  BY <1>6

Named(r, n) == \A j \in 0 .. n - 1 : r[j].name \in Int

Ordered(r, n) == \A i, j \in 0 .. n - 1 : i < j => r[i].name <= r[j].name

(* What a search between two bounds should return.                         *)
Finds(v, r, name, from, to) ==
    \/ v = INVAL /\ \A j \in from .. to : r[j].name # name
    \/ v \in from .. to /\ r[v].name = name

(* Between any bounds the search finds an entry of the name if there is    *)
(* one.                                                                    *)
LEMMA ProbeFinds ==
    ASSUME NEW n \in Nat, NEW r, Named(r, n), Ordered(r, n), NEW name \in Int
    PROVE  \A from \in 0 .. n, to \in -1 .. n - 1 :
              Finds(Probe(r, n, name)[<<from, to>>], r, name, from, to)
<1> DEFINE probe == Probe(r, n, name)
           Fine(m) == \A from \in 0 .. n, to \in -1 .. n - 1 :
                         to - from < m => Finds(probe[<<from, to>>], r, name, from, to)
           Bad == {m \in Nat : ~Fine(m)}
<1>1. SUFFICES ASSUME Bad # {} PROVE FALSE
  <2>1. n + 1 \in Nat /\ Fine(n + 1)
    BY <1>1
  <2>2. \A from \in 0 .. n, to \in -1 .. n - 1 : to - from < n + 1
    OBVIOUS
  <2> HIDE DEF probe
  <2>3. \A from \in 0 .. n, to \in -1 .. n - 1 : Finds(probe[<<from, to>>], r, name, from, to)
    BY <2>1, <2>2
  <2>4. QED
    BY <2>3 DEF probe
<1>0. \A a \in 0 .. n, b \in -1 .. n - 1 :
         probe[<<a, b>>] = ProbeStep(probe, r, name, a, b)
  BY ProbeIsStep
<1> HIDE DEF probe
<1>2. PICK m \in Bad : \A y \in Bad : m <= y
  BY <1>1, LeastNumber
<1>3. PICK from \in 0 .. n, to \in -1 .. n - 1 :
         to - from < m /\ ~Finds(probe[<<from, to>>], r, name, from, to)
  BY <1>2
<1>4. ASSUME NEW a \in 0 .. n, NEW b \in -1 .. n - 1, b - a < to - from
      PROVE  Finds(probe[<<a, b>>], r, name, a, b)
  <2>1. CASE m = 0
    <3>1. a > b
      BY <1>3, <1>4, <2>1
    <3>2. probe[<<a, b>>] = ProbeStep(probe, r, name, a, b)
      BY <1>0
    <3>3. probe[<<a, b>>] = INVAL
      BY <3>1, <3>2 DEF ProbeStep
    <3>4. QED
      BY <3>1, <3>3 DEF Finds
  <2>2. CASE m # 0
    <3>1. m - 1 \in Nat /\ m - 1 < m
      BY <1>2, <2>2
    <3>2. Fine(m - 1)
      BY <1>2, <3>1
    <3>3. b - a < m - 1
      BY <1>2, <1>3, <1>4
    <3>4. QED
      BY <3>2, <3>3
  <2>3. QED
    BY <2>1, <2>2
<1>5. probe[<<from, to>>] = ProbeStep(probe, r, name, from, to)
  BY <1>0
<1>6. CASE from > to
  BY <1>3, <1>5, <1>6 DEF ProbeStep, Finds
<1>7. CASE from <= to
  <2> DEFINE mid == (from + to) \div 2
  <2>1. mid \in from .. to /\ mid \in Int
    BY <1>7, Middle
  <2> HIDE DEF mid
  <2>2. CASE r[mid].name = name
    <3>1. probe[<<from, to>>] = mid
      BY <1>5, <1>7, <2>2 DEF ProbeStep, mid
    <3>2. QED
      BY <3>1, <2>1, <2>2, <1>3 DEF Finds
  <2>3. CASE r[mid].name < name
    <3>1. \A j \in from .. mid : r[j].name # name
      BY <2>1, <2>3 DEF Ordered, Named
    <3>2. probe[<<from, to>>] = IF mid = to THEN INVAL ELSE probe[<<mid + 1, to>>]
      BY <1>5, <1>7, <2>1, <2>3 DEF ProbeStep, mid, Named
    <3>3. mid # to => Finds(probe[<<mid + 1, to>>], r, name, mid + 1, to)
      BY <1>4, <2>1
    <3>4. QED
      BY <3>1, <3>2, <3>3, <2>1, <1>3 DEF Finds
  <2>4. CASE r[mid].name > name
    <3>1. \A j \in mid .. to : r[j].name # name
      BY <2>1, <2>4 DEF Ordered, Named
    <3>2. probe[<<from, to>>] = IF mid = from THEN INVAL ELSE probe[<<from, mid - 1>>]
      BY <1>5, <1>7, <2>1, <2>4 DEF ProbeStep, mid, Named
    <3>3. mid # from => Finds(probe[<<from, mid - 1>>], r, name, from, mid - 1)
      BY <1>4, <2>1
    <3>4. QED
      BY <3>1, <3>2, <3>3, <2>1, <1>3 DEF Finds
  <2>5. r[mid].name \in Int
    BY <2>1 DEF Named
  <2>6. QED
    BY <2>2, <2>3, <2>4, <2>5
<1>8. QED
  BY <1>6, <1>7

(* The search returns INVAL exactly when no entry has the name.            *)
LEMMA SearchIsRight ==
    ASSUME NEW n \in Nat, NEW r, Named(r, n), Ordered(r, n), NEW name \in Int
    PROVE  \/ Search(r, n, name) = INVAL /\ \A j \in 0 .. n - 1 : r[j].name # name
           \/ Search(r, n, name) \in 0 .. n - 1 /\ r[Search(r, n, name)].name = name
<1>1. CASE n = 0
  BY <1>1 DEF Search
<1>2. CASE n # 0
  <2>1. Finds(Probe(r, n, name)[<<0, n - 1>>], r, name, 0, n - 1)
    BY <1>2, ProbeFinds
  <2>2. QED
    BY <2>1, <1>2 DEF Finds, Search
<1>3. QED
  BY <1>1, <1>2

-----------------------------------------------------------------------------
(* Bringing one entry into its place.                                      *)

(* Two entries that may follow each other.                                 *)
InOrder(a, b) == a.name < b.name \/ (a = Ref(BLANK, NULL) /\ b = Ref(BLANK, NULL))

SortedBy(r, n) == \A i, j \in 0 .. n - 1 : i < j => InOrder(r[i], r[j])

(* All entries but i are in order, and i has a name of its own.            *)
SortedBut(r, n, i) ==
    /\ \A a, b \in (0 .. n - 1) \ {i} : a < b => InOrder(r[a], r[b])
    /\ \A a \in (0 .. n - 1) \ {i} : r[a].name # r[i].name

(* Every entry of m is one of r, and the other way around.                 *)
SameEntries(r, m, n) ==
    /\ \A j \in 0 .. n - 1 : \E k \in 0 .. n - 1 : m[j] = r[k]
    /\ \A k \in 0 .. n - 1 : \E j \in 0 .. n - 1 : m[j] = r[k]

LEMMA MovingKeepsEntries ==
    ASSUME NEW n \in Nat, NEW r, NEW i \in 0 .. n - 1, NEW p \in 0 .. n - 1
    PROVE  SameEntries(r, Moved(r, n, i, p), n)
<1> DEFINE m == Moved(r, n, i, p)
<1>1. ASSUME NEW j \in 0 .. n - 1
      PROVE  \E k \in 0 .. n - 1 : m[j] = r[k]
  <2>1. j - 1 \in 0 .. n - 1 \/ j <= p
    OBVIOUS
  <2>2. j + 1 \in 0 .. n - 1 \/ j >= p
    OBVIOUS
  <2>3. CASE j = p
    BY <2>3 DEF Moved
  <2>4. CASE p < j /\ j <= i
    BY <2>1, <2>4 DEF Moved
  <2>5. CASE i <= j /\ j < p
    BY <2>2, <2>5 DEF Moved
  <2>6. CASE j # p /\ ~(p < j /\ j <= i) /\ ~(i <= j /\ j < p)
    BY <2>6 DEF Moved
  <2>7. QED
    BY <2>3, <2>4, <2>5, <2>6
<1>2. ASSUME NEW k \in 0 .. n - 1
      PROVE  \E j \in 0 .. n - 1 : m[j] = r[k]
  <2>1. CASE k = i
    BY <2>1 DEF Moved
  <2>2. CASE p <= k /\ k < i
    <3>1. k + 1 \in 0 .. n - 1 /\ m[k + 1] = r[k]
      BY <2>2 DEF Moved
    <3>2. QED
      BY <3>1
  <2>3. CASE i < k /\ k <= p
    <3>1. k - 1 \in 0 .. n - 1 /\ m[k - 1] = r[k]
      BY <2>3 DEF Moved
    <3>2. QED
      BY <3>1
  <2>4. CASE k # i /\ ~(p <= k /\ k < i) /\ ~(i < k /\ k <= p)
    BY <2>4 DEF Moved
  <2>5. QED
    BY <2>1, <2>2, <2>3, <2>4
<1>3. QED
  BY <1>1, <1>2 DEF SameEntries

(* Where the entry comes to rest, those before it are smaller and those    *)
(* behind it larger.                                                       *)
LEMMA RestsInOrder ==
    ASSUME NEW n \in Nat, NEW r, Named(r, n), NEW i \in 0 .. n - 1, NEW p \in 0 .. n - 1,
           SortedBut(r, n, i), RestsAt(r, n, i, p)
    PROVE  /\ \A a \in (0 .. n - 1) \ {i} : a < p \/ (a = p /\ i < p) => r[a].name < r[i].name
           /\ \A a \in (0 .. n - 1) \ {i} : a > p \/ (a = p /\ p < i) => r[i].name < r[a].name
<1>1. \A a, b \in (0 .. n - 1) \ {i} : a < b => r[a].name <= r[b].name
  BY DEF SortedBut, InOrder, Ref, Named
<1>2. \A a \in (0 .. n - 1) \ {i} : r[a].name # r[i].name
  BY DEF SortedBut
<1>3. \A a \in 0 .. n - 1 : r[a].name \in Int
  BY DEF Named
<1>4. CASE p < i /\ StopsDown(r, i, p)
  <2>1. \A j \in p .. i - 1 : r[i].name < r[j].name
    BY <1>4 DEF StopsDown, Less
  <2>2. p > 0 => r[p - 1].name < r[i].name
    BY <1>2, <1>3, <1>4 DEF StopsDown, Less
  <2>3. QED
    BY <1>1, <1>2, <1>3, <1>4, <2>1, <2>2
<1>5. CASE StopsDown(r, i, i) /\ StopsUp(r, n, i, p)
  <2>1. p >= i /\ \A j \in i + 1 .. p : r[j].name < r[i].name
    BY <1>5 DEF StopsUp, Less
  <2>2. p < n - 1 => r[i].name < r[p + 1].name
    BY <1>2, <1>3, <1>5 DEF StopsUp, Less
  <2>3. i > 0 => r[i - 1].name < r[i].name
    BY <1>2, <1>3, <1>5 DEF StopsDown, Less
  <2>4. QED
    BY <1>1, <1>2, <1>3, <2>1, <2>2, <2>3
<1>6. ~(i > 0 /\ SameName(r, i, i - 1))
  BY <1>2 DEF SameName
<1>7. QED
  BY <1>4, <1>5, <1>6 DEF RestsAt

(* What dir_rePosFileRef leaves is sorted, and it returns the new place.   *)
LEMMA RepositioningSorts ==
    ASSUME NEW n \in Nat, NEW r, Named(r, n), NEW i \in 0 .. n - 1, NEW p \in 0 .. n - 1,
           SortedBut(r, n, i), RestsAt(r, n, i, p)
    PROVE  /\ SortedBy(Moved(r, n, i, p), n)
           /\ Placed(Moved(r, n, i, p), n, p) = p
<1> DEFINE m == Moved(r, n, i, p)
<1>1. /\ \A a \in (0 .. n - 1) \ {i} : a < p \/ (a = p /\ i < p) => r[a].name < r[i].name
      /\ \A a \in (0 .. n - 1) \ {i} : a > p \/ (a = p /\ p < i) => r[i].name < r[a].name
  BY RestsInOrder
<1>2. \A a, b \in (0 .. n - 1) \ {i} : a < b => InOrder(r[a], r[b])
  BY DEF SortedBut
<1> DEFINE from(j) == IF p < j /\ j <= i THEN j - 1 ELSE IF i <= j /\ j < p THEN j + 1 ELSE j
<1>3. m[p] = r[i]
  BY DEF Moved
<1>4. ASSUME NEW j \in (0 .. n - 1) \ {p}
      PROVE  /\ m[j] = r[from(j)]
             /\ from(j) \in (0 .. n - 1) \ {i}
             /\ j < p => from(j) < p \/ (from(j) = p /\ i < p)
             /\ j > p => from(j) > p \/ (from(j) = p /\ p < i)
  BY DEF Moved
<1>5. \A j, k \in (0 .. n - 1) \ {p} : j < k => from(j) < from(k)
  OBVIOUS
<1> HIDE DEF m, from
<1>6. ASSUME NEW j \in (0 .. n - 1) \ {p}
      PROVE  /\ j < p => m[j].name < m[p].name
             /\ j > p => m[p].name < m[j].name
  BY <1>1, <1>3, <1>4
<1>7. ASSUME NEW j \in 0 .. n - 1, NEW k \in 0 .. n - 1, j < k
      PROVE  InOrder(m[j], m[k])
  <2>1. CASE j = p
    BY <1>6, <1>7, <2>1 DEF InOrder
  <2>2. CASE k = p
    BY <1>6, <1>7, <2>2 DEF InOrder
  <2>3. CASE j # p /\ k # p
    BY <1>2, <1>4, <1>5, <1>7, <2>3
  <2>4. QED
    BY <2>1, <2>2, <2>3
<1>8. \A j \in 0 .. n - 1 : m[j].name \in Int
  BY <1>3, <1>4 DEF Named
<1>9. \A j \in {p - 1, p + 1} \cap (0 .. n - 1) : ~SameName(m, j, p)
  BY <1>6, <1>8 DEF SameName
<1>10. QED
  BY <1>7, <1>9 DEF SortedBy, Placed, m

-----------------------------------------------------------------------------
(* The invariant.                                                          *)

BlankIsNull(r, n) == \A j \in 0 .. n - 1 : r[j].name = BLANK => r[j] = Ref(BLANK, NULL)

Refs == [name : Names \cup {BLANK}, meta : Metas \cup {NULL}]

DirInv ==
    /\ TypeOK
    /\ SortedBy(refs, size)
    /\ BlankIsNull(refs, size)
    /\ BlocksMatchSize

LEMMA NamesAreNumbers == \A x \in Refs : x.name \in Int
<1>1. Names \subseteq Int /\ BLANK \in Int
  BY NamesAssumption DEF BLANK
<1>2. QED
  BY <1>1 DEF Refs

LEMMA RefsAreNamed ==
    ASSUME DirInv
    PROVE  Named(refs, size) /\ Ordered(refs, size)
<1>0. \A j \in 0 .. size - 1 : refs[j] \in Refs
  BY DEF DirInv, TypeOK, Ids, Refs
<1>1. \A j \in 0 .. size - 1 : refs[j].name \in Int
  BY <1>0, NamesAreNumbers
<1>2. QED
  BY <1>1 DEF DirInv, SortedBy, InOrder, Named, Ordered, Ref

LEMMA Quotient ==
    ASSUME NEW d \in Nat \ {0}, NEW a \in Int, NEW b \in 0 .. d - 1
    PROVE  (a * d + b) \div d = a
OBVIOUS

(* One more entry needs one more block when the last one is full.          *)
LEMMA OneMoreEntry ==
    ASSUME NEW n \in Nat
    PROVE  (n + P) \div P = IF n % P = 0 THEN (n + P - 1) \div P + 1 ELSE (n + P - 1) \div P
<1> DEFINE q == n \div P
           t == n % P
<1>1. P \in Nat \ {0} /\ q \in Int /\ t \in 0 .. P - 1 /\ n = q * P + t
  BY SizeAssumption
<1> HIDE DEF q, t
<1>2. n + P = (q + 1) * P + t
  BY <1>1
<1>3. (n + P) \div P = q + 1
  BY <1>1, <1>2, Quotient
<1>4. CASE t = 0
  <2>1. n + P - 1 = q * P + (P - 1)
    BY <1>1, <1>4
  <2>2. (n + P - 1) \div P = q
    BY <1>1, <2>1, Quotient
  <2>3. QED
    BY <1>3, <1>4, <2>2 DEF t
<1>5. CASE t # 0
  <2>1. n + P - 1 = (q + 1) * P + (t - 1)
    BY <1>1, <1>5
  <2>2. (n + P - 1) \div P = q + 1
    BY <1>1, <1>5, <2>1, Quotient
  <2>3. QED
    BY <1>3, <1>5, <2>2 DEF t
<1>6. QED
  BY <1>4, <1>5

(* What the calls put out of order, before it is brought into its place.   *)
LEMMA AddedIsSortedBut ==
    ASSUME DirInv, NEW name \in Names, NEW meta \in Metas, ~NameUsed(name),
           NEW r, r = [j \in 0 .. size |-> IF j = size THEN Ref(name, meta) ELSE refs[j]]
    PROVE  /\ r \in [0 .. size -> Refs]
           /\ Named(r, size + 1)
           /\ SortedBut(r, size + 1, size)
           /\ BlankIsNull(r, size + 1)
<1>1. size \in Nat /\ refs \in [0 .. size - 1 -> Refs] /\ name \in Int /\ name # BLANK
  BY NamesAssumption DEF DirInv, TypeOK, Ids, Refs
<1>2. \A j \in 0 .. size - 1 : refs[j].name # name
  <2>1. Named(refs, size) /\ Ordered(refs, size)
    BY RefsAreNamed
  <2>2. Search(refs, size, name) = INVAL
    BY DEF NameUsed
  <2>3. QED
    BY <1>1, <2>1, <2>2, SearchIsRight DEF INVAL
<1>3. \A j \in 0 .. size - 1 : r[j] = refs[j] /\ j # size
  BY <1>1
<1>4. r[size] = Ref(name, meta) /\ r[size].name = name /\ r[size] \in Refs
  BY <1>1 DEF Refs, Ref
<1>5. \A j \in 0 .. size : r[j] \in Refs
  BY <1>1, <1>3, <1>4
<1>6. Named(r, size + 1)
  BY <1>1, <1>5, NamesAreNumbers DEF Named
<1>7. SortedBut(r, size + 1, size)
  BY <1>1, <1>2, <1>3, <1>4 DEF SortedBut, DirInv, SortedBy
<1>8. BlankIsNull(r, size + 1)
  BY <1>1, <1>3, <1>4 DEF BlankIsNull, DirInv
<1>9. QED
  BY <1>5, <1>6, <1>7, <1>8

(* Renaming entry i to a name no entry has.                                *)
LEMMA RenamedIsSortedBut ==
    ASSUME DirInv, NEW i \in Ids, NEW name \in Int,
           \A j \in 0 .. size - 1 : refs[j].name # name
    PROVE  /\ \A j \in Ids : j # i => Renamed(i, name)[j] = refs[j]
           /\ Renamed(i, name)[i] = Ref(name, refs[i].meta)
           /\ Named(Renamed(i, name), size)
           /\ SortedBut(Renamed(i, name), size, i)
<1>1. size \in Nat /\ refs \in [0 .. size - 1 -> Refs]
  BY DEF DirInv, TypeOK, Ids, Refs
<1> DEFINE r == Renamed(i, name)
<1>2. /\ \A j \in 0 .. size - 1 : j # i => r[j] = refs[j]
      /\ r[i] = Ref(name, refs[i].meta)
      /\ r[i].name = name
  BY <1>1 DEF Renamed, Ids, Ref
<1> HIDE DEF r
<1>3. Named(r, size)
  BY <1>2, RefsAreNamed DEF Named
<1>4. SortedBut(r, size, i)
  BY <1>2 DEF SortedBut, DirInv, SortedBy, Ids
<1>5. QED
  BY <1>2, <1>3, <1>4 DEF r, Ids

(* What is left of the entries by a move: all of them.                     *)
LEMMA MovedHas ==
    ASSUME NEW n \in Nat, NEW r, NEW i \in 0 .. n - 1, NEW p \in 0 .. n - 1, NEW S,
           \A j \in 0 .. n - 1 : r[j] \in S
    PROVE  Moved(r, n, i, p) \in [0 .. n - 1 -> S]
<1> DEFINE m == Moved(r, n, i, p)
<1>0. SameEntries(r, m, n)
  BY MovingKeepsEntries
<1>1. \A j \in 0 .. n - 1 : m[j] \in S
  <2> HIDE DEF m
  <2>1. QED
    BY <1>0 DEF SameEntries
<1>2. m = [j \in 0 .. n - 1 |-> m[j]]
  BY DEF Moved
<1> HIDE DEF m
<1>3. m \in [0 .. n - 1 -> S]
  BY <1>1, <1>2
<1>4. QED
  BY <1>3 DEF m

LEMMA MovedBlankIsNull ==
    ASSUME NEW n \in Nat, NEW r, NEW i \in 0 .. n - 1, NEW p \in 0 .. n - 1, BlankIsNull(r, n)
    PROVE  BlankIsNull(Moved(r, n, i, p), n)
<1> DEFINE m == Moved(r, n, i, p)
<1>1. SameEntries(r, m, n)
  BY MovingKeepsEntries
<1> HIDE DEF m
<1>2. BlankIsNull(m, n)
  BY <1>1 DEF SameEntries, BlankIsNull
<1>3. QED
  BY <1>2 DEF m

(* A relation that names its place is what Repositioned chooses.           *)
LEMMA RepositionedAt ==
    ASSUME NEW n, NEW r, NEW i, Repositioned(r, n, i)
    PROVE  \E p \in 0 .. n - 1 : /\ RestsAt(r, n, i, p)
                                /\ refs' = Moved(r, n, i, p)
                                /\ size' = n
                                /\ answer' = Placed(Moved(r, n, i, p), n, p)
BY DEF Repositioned

LEMMA RefusedStep ==
    ASSUME DirInv, NEW v \in {0, INVAL}, Refused(v)
    PROVE  DirInv'
BY DEF DirInv, Refused, TypeOK, Ids, SortedBy, BlankIsNull, BlocksMatchSize

LEMMA AddStep ==
    ASSUME DirInv, NEW name \in Names, NEW meta \in Metas, AddFileRef(name, meta)
    PROVE  DirInv'
<1>1. CASE Refused(INVAL)
  BY <1>1, RefusedStep
<1>2. CASE /\ ~NameUsed(name)
           /\ Repositioned([j \in 0 .. size |-> IF j = size THEN Ref(name, meta) ELSE refs[j]],
                           size + 1, size)
           /\ blk' = BlocksWith(size)
  <2>1. PICK r : r = [j \in 0 .. size |-> IF j = size THEN Ref(name, meta) ELSE refs[j]]
    OBVIOUS
  <2>2. /\ r \in [0 .. size -> Refs]
        /\ Named(r, size + 1)
        /\ SortedBut(r, size + 1, size)
        /\ BlankIsNull(r, size + 1)
    BY <1>2, <2>1, AddedIsSortedBut
  <2>3. size \in Nat /\ blk \in Nat
    BY DEF DirInv, TypeOK
  <2>4. PICK n : n = size + 1
    OBVIOUS
  <2>5. Repositioned(r, n, size)
    BY <1>2, <2>1, <2>4
  <2>6. PICK p \in 0 .. n - 1 :
           /\ RestsAt(r, n, size, p)
           /\ refs' = Moved(r, n, size, p)
           /\ size' = n
           /\ answer' = Placed(Moved(r, n, size, p), n, p)
    BY <2>5, RepositionedAt
  <2>7. n \in Nat /\ size \in 0 .. n - 1 /\ n - 1 = size
    BY <2>3, <2>4
  <2>8. Named(r, n) /\ SortedBut(r, n, size) /\ BlankIsNull(r, n) /\ \A j \in 0 .. n - 1 : r[j] \in Refs
    BY <2>2, <2>4, <2>7
  <2>9. SortedBy(refs', n) /\ answer' = p
    BY <2>6, <2>7, <2>8, RepositioningSorts
  <2>10. BlankIsNull(refs', n)
    BY <2>6, <2>7, <2>8, MovedBlankIsNull
  <2>11. refs' \in [0 .. n - 1 -> Refs]
    BY <2>6, <2>7, <2>8, MovedHas
  <2>12. blk' = (n + P - 1) \div P /\ blk' \in Nat
    <3>1. n + P - 1 = size + P
      BY <2>3, <2>4, SizeAssumption
    <3>2. blk = (size + P - 1) \div P
      BY DEF DirInv, BlocksMatchSize
    <3>3. blk' = (size + P) \div P
      BY <1>2, <2>3, <3>2, OneMoreEntry DEF BlocksWith
    <3>4. blk' \in Nat
      BY <1>2, <2>3 DEF BlocksWith
    <3>5. QED
      BY <3>1, <3>3, <3>4
  <2>13. QED
    BY <2>6, <2>7, <2>9, <2>10, <2>11, <2>12
       DEF DirInv, TypeOK, Ids, Refs, SortedBy, BlankIsNull, BlocksMatchSize
<1>3. QED
  BY <1>1, <1>2 DEF AddFileRef

LEMMA RenameStep ==
    ASSUME DirInv, NEW old \in Names, NEW new \in Names, RenameFileRef(old, new)
    PROVE  DirInv'
<1> DEFINE i == Search(refs, size, old)
<1>1. CASE i \notin Ids \/ NameUsed(new)
  BY <1>1, RefusedStep DEF RenameFileRef
<1>2. CASE i \in Ids /\ ~NameUsed(new)
  <2> DEFINE r == Renamed(i, new)
  <2>1. Repositioned(r, size, i) /\ UNCHANGED blk
    BY <1>2 DEF RenameFileRef
  <2>2. /\ size \in Nat
        /\ refs \in [0 .. size - 1 -> Refs]
        /\ new \in Int /\ new # BLANK
        /\ i \in 0 .. size - 1
    BY <1>2, NamesAssumption DEF DirInv, TypeOK, Ids, Refs
  <2>3. \A j \in 0 .. size - 1 : refs[j].name # new
    <3>1. Search(refs, size, new) = INVAL
      BY <1>2 DEF NameUsed
    <3>2. QED
      BY <2>2, <3>1, RefsAreNamed, SearchIsRight DEF INVAL
  <2>4. /\ \A j \in Ids : j # i => r[j] = refs[j]
        /\ r[i] = Ref(new, refs[i].meta)
        /\ Named(r, size)
        /\ SortedBut(r, size, i)
    BY <1>2, <2>2, <2>3, RenamedIsSortedBut
  <2> HIDE DEF i, r
  <2>5. \A j \in 0 .. size - 1 : r[j] \in Refs
    BY <2>2, <2>4 DEF Refs, Ref, Ids
  <2>6. BlankIsNull(r, size)
    BY <2>2, <2>4 DEF BlankIsNull, DirInv, Ref, Ids
  <2>7. PICK p \in 0 .. size - 1 :
           /\ RestsAt(r, size, i, p)
           /\ refs' = Moved(r, size, i, p)
           /\ size' = size
           /\ answer' = Placed(Moved(r, size, i, p), size, p)
    BY <2>1 DEF Repositioned
  <2>8. SortedBy(refs', size) /\ answer' = p
    BY <2>2, <2>4, <2>7, RepositioningSorts
  <2>9. BlankIsNull(refs', size)
    BY <2>2, <2>6, <2>7, MovedBlankIsNull
  <2>10. refs' \in [0 .. size - 1 -> Refs]
    BY <2>2, <2>5, <2>7, MovedHas
  <2>11. QED
    BY <2>1, <2>7, <2>8, <2>9, <2>10
       DEF DirInv, TypeOK, Ids, Refs, SortedBy, BlankIsNull, BlocksMatchSize
<1>3. QED
  BY <1>1, <1>2

(* Entry i, called name, was renamed to GONE and taken to place p of m.    *)
Deleted(name, i, p, m) ==
    /\ i \in Ids /\ p \in Ids
    /\ refs[i].name = name
    /\ SameEntries(Renamed(i, GONE), m, size)
    /\ SortedBy(m, size)
    /\ m[p].name = GONE
    /\ \A j \in Ids \ {p} : m[j] \in Refs
    /\ \A j \in Ids \ {p} : j < p => m[j].name < GONE
    /\ \A j \in Ids \ {p} : j > p => m[j].name > BLANK \/ m[j] = Ref(BLANK, NULL)
    /\ BlankIsNull(m, size)
    /\ refs' = [j \in 0 .. size - 2 |-> Blanked(m, size, p)[j]]
    /\ size' = size - 1
    /\ blk' = BlocksWithout(size - 1)
    /\ answer' = 0

(* A deletion is refused, or it blanks the entry and cuts off the last.    *)
LEMMA Deletion ==
    ASSUME DirInv, NEW name \in Names, DelFileRef(name)
    PROVE  Refused(-1) \/ \E i, p, m : Deleted(name, i, p, m)
<1> DEFINE i == Search(refs, size, name)
           r == Renamed(i, GONE)
<1>1. CASE i \notin Ids \/ NameUsed(GONE)
  BY <1>1 DEF DelFileRef
<1>2. CASE i \in Ids /\ ~NameUsed(GONE)
  <2>1. /\ size \in Nat /\ blk \in Nat
        /\ refs \in [0 .. size - 1 -> Refs]
        /\ i \in 0 .. size - 1
        /\ BlankIsNull(refs, size)
        /\ name \in Int
    BY <1>2, NamesAssumption DEF DirInv, TypeOK, Ids, Refs
  <2>2. \A j \in 0 .. size - 1 : refs[j].name # GONE
    <3>1. Search(refs, size, GONE) = INVAL
      BY <1>2 DEF NameUsed
    <3>2. GONE \in Int
      BY DEF GONE
    <3>3. QED
      BY <2>1, <3>1, <3>2, RefsAreNamed, SearchIsRight DEF INVAL
  <2>3. /\ \A j \in Ids : j # i => r[j] = refs[j]
        /\ r[i] = Ref(GONE, refs[i].meta)
        /\ Named(r, size)
        /\ SortedBut(r, size, i)
    BY <1>2, <2>2, RenamedIsSortedBut DEF GONE
  <2>4. PICK p \in Ids :
           LET m == Moved(r, size, i, p)
           IN  /\ RestsAt(r, size, i, p)
               /\ IF Placed(m, size, p) = INVAL
                  THEN /\ refs' = m
                       /\ answer' = -1
                       /\ UNCHANGED <<size, blk>>
                  ELSE /\ refs' = [j \in 0 .. size - 2 |-> Blanked(m, size, p)[j]]
                       /\ size' = size - 1
                       /\ blk' = BlocksWithout(size - 1)
                       /\ answer' = 0
    BY <1>2 DEF DelFileRef
  <2> DEFINE m == Moved(r, size, i, p)
  <2>0. refs[i].name = name
    BY <1>2, <2>1, RefsAreNamed, SearchIsRight DEF Ids, INVAL
  <2>5. p \in 0 .. size - 1 /\ p # INVAL
    BY <2>1 DEF Ids, INVAL
  <2> HIDE DEF i, r
  <2>6. SortedBy(m, size) /\ Placed(m, size, p) = p
    BY <2>1, <2>3, <2>4, <2>5, RepositioningSorts
  <2>7. \A j \in 0 .. size - 1 : r[j] \in Refs \cup {r[i]}
    BY <2>1, <2>3 DEF Ids
  <2>8. BlankIsNull(r, size)
    BY <2>1, <2>3 DEF BlankIsNull, Ids, Ref, GONE, BLANK
  <2>9. m \in [0 .. size - 1 -> Refs \cup {r[i]}]
    BY <2>1, <2>5, <2>7, MovedHas
  <2>10. BlankIsNull(m, size)
    BY <2>1, <2>5, <2>8, MovedBlankIsNull
  <2>11. m[p] = r[i]
    BY <2>5 DEF Moved
  <2>12. /\ refs' = [j \in 0 .. size - 2 |-> Blanked(m, size, p)[j]]
         /\ size' = size - 1
         /\ blk' = BlocksWithout(size - 1)
         /\ answer' = 0
    BY <2>4, <2>5, <2>6
  <2>22. SameEntries(r, m, size)
    BY <2>1, <2>5, MovingKeepsEntries
  <2> HIDE DEF m
  <2>13. /\ m[p].name = GONE
         /\ r[i].name = GONE
    BY <2>3, <2>11 DEF Ref
  <2>14. ASSUME NEW j \in 0 .. size - 1, j # p
         PROVE  m[j] \in Refs
    <3>1. m[j].name # GONE
      BY <2>5, <2>6, <2>13, <2>14 DEF SortedBy, InOrder, Ref, GONE, BLANK
    <3>2. QED
      BY <2>9, <2>13, <3>1
  <2>15. ASSUME NEW j \in 0 .. size - 1, j # p
         PROVE  /\ j < p => m[j].name < GONE
                /\ j > p => m[j].name > BLANK \/ m[j] = Ref(BLANK, NULL)
    <3>1. m[j].name \in Int
      BY <2>14, <2>15, NamesAreNumbers
    <3>2. j < p => m[j].name < GONE
      BY <2>5, <2>6, <2>13, <2>15 DEF SortedBy, InOrder, Ref, GONE, BLANK
    <3>3. j > p => GONE < m[j].name
      BY <2>5, <2>6, <2>13, <2>15 DEF SortedBy, InOrder, Ref, GONE, BLANK
    <3>4. m[j].name = BLANK => m[j] = Ref(BLANK, NULL)
      BY <2>10 DEF BlankIsNull
    <3>5. QED
      BY <3>1, <3>2, <3>3, <3>4 DEF GONE, BLANK
  <2>23. Deleted(name, i, p, m)
    BY <2>0, <2>1, <2>5, <2>6, <2>10, <2>12, <2>13, <2>14, <2>15, <2>22 DEF Deleted, Ids, r
  <2>24. QED
    BY <2>23
<1>3. QED
  BY <1>1, <1>2

LEMMA DeleteStep ==
    ASSUME DirInv, NEW name \in Names, DelFileRef(name)
    PROVE  DirInv'
<1>1. CASE Refused(-1)
  BY <1>1, RefusedStep DEF INVAL
<1>2. ASSUME NEW i, NEW p, NEW m, Deleted(name, i, p, m)
      PROVE  DirInv'
  <2>1. size \in Nat /\ blk \in Nat /\ p \in 0 .. size - 1
    BY <1>2 DEF DirInv, TypeOK, Deleted, Ids
  <2>2. /\ SortedBy(m, size)
        /\ BlankIsNull(m, size)
        /\ refs' = [j \in 0 .. size - 2 |-> Blanked(m, size, p)[j]]
        /\ size' = size - 1
        /\ blk' = BlocksWithout(size - 1)
        /\ answer' = 0
        /\ \A j \in 0 .. size - 1 : j # p => m[j] \in Refs
        /\ \A j \in 0 .. size - 1 : j < p => m[j].name < BLANK
        /\ \A j \in 0 .. size - 1 : j > p => m[j].name > BLANK \/ m[j] = Ref(BLANK, NULL)
    <3>1. \A j \in Ids \ {p} : m[j].name \in Int
      BY <1>2, NamesAreNumbers DEF Deleted
    <3>2. \A j \in 0 .. size - 1 : j < p => m[j].name < BLANK
      <4> SUFFICES ASSUME NEW j \in 0 .. size - 1, j < p PROVE m[j].name < BLANK
        OBVIOUS
      <4>1. m[j].name < GONE
        BY <1>2, <2>1 DEF Deleted, Ids
      <4>2. m[j].name \in Int
        BY <2>1, <3>1 DEF Ids
      <4>3. QED
        BY <4>1, <4>2 DEF GONE, BLANK
    <3>3. QED
      BY <1>2, <2>1, <3>2 DEF Deleted, Ids
  <2>3. \A j \in 0 .. size - 2 : refs'[j] = IF j = p THEN Ref(BLANK, NULL) ELSE m[j]
    BY <2>1, <2>2 DEF Blanked
  <2>4. refs' \in [0 .. size - 2 -> Refs]
    <3>1. Ref(BLANK, NULL) \in Refs
      BY DEF Refs, Ref
    <3>2. \A j \in 0 .. size - 2 : refs'[j] \in Refs
      BY <2>1, <2>2, <2>3, <3>1
    <3>3. refs' = [j \in 0 .. size - 2 |-> refs'[j]]
      BY <2>2
    <3>4. QED
      BY <3>2, <3>3
  <2>5. ASSUME NEW a \in 0 .. size - 2, NEW b \in 0 .. size - 2, a < b
         PROVE  InOrder(refs'[a], refs'[b])
    <3>1. CASE a = p
      BY <2>1, <2>2, <2>3, <2>5, <3>1 DEF InOrder, Ref
    <3>2. CASE b = p
      BY <2>1, <2>2, <2>3, <2>5, <3>2 DEF InOrder, Ref
    <3>3. CASE a # p /\ b # p
      BY <2>1, <2>2, <2>3, <2>5, <3>3 DEF SortedBy
    <3>4. QED
      BY <3>1, <3>2, <3>3
  <2>6. \A j \in 0 .. size - 2 : refs'[j].name = BLANK => refs'[j] = Ref(BLANK, NULL)
    BY <2>1, <2>2, <2>3 DEF BlankIsNull
  <2>7. blk' = (size - 1 + P - 1) \div P /\ blk' \in Nat
    <3>1. PICK n \in Nat : n = size - 1
      BY <2>1
    <3>2. n + P = size + P - 1 /\ n + P - 1 \in Nat
      BY <2>1, <3>1, SizeAssumption
    <3>3. blk = (n + P) \div P
      BY <3>2 DEF DirInv, BlocksMatchSize
    <3>4. (n + P - 1) \div P \in Nat
      BY <3>2, SizeAssumption
    <3>5. blk = IF n % P = 0 THEN (n + P - 1) \div P + 1 ELSE (n + P - 1) \div P
      BY <3>3, OneMoreEntry
    <3>6. blk' = IF n % P = 0 THEN blk - 1 ELSE blk
      BY <2>2, <3>1 DEF BlocksWithout
    <3>7. blk' = (n + P - 1) \div P
      BY <3>4, <3>5, <3>6
    <3>8. QED
      BY <3>1, <3>4, <3>7
  <2>8. QED
    BY <2>1, <2>2, <2>4, <2>5, <2>6, <2>7
       DEF DirInv, TypeOK, Ids, Refs, SortedBy, BlankIsNull, BlocksMatchSize
<1>3. QED
  BY <1>1, <1>2, Deletion

LEMMA InitHolds == Init => DirInv
<1>1. 0 .. 0 - 1 = {}
  OBVIOUS
<1>2. (0 + P - 1) \div P = 0
  <2>1. P - 1 \in 0 .. P - 1 /\ 0 + P - 1 = 0 * P + (P - 1)
    BY SizeAssumption
  <2>2. QED
    BY <2>1, SizeAssumption, Quotient
<1>3. QED
  BY <1>1, <1>2 DEF Init, DirInv, TypeOK, Ids, SortedBy, BlankIsNull, BlocksMatchSize, INVAL

LEMMA StepHolds == DirInv /\ [Next]_vars => DirInv'
<1>1. CASE UNCHANGED vars
  BY <1>1 DEF vars, DirInv, TypeOK, Ids, SortedBy, BlankIsNull, BlocksMatchSize
<1>2. CASE Next
  BY <1>2, AddStep, RenameStep, DeleteStep DEF Next
<1>3. QED
  BY <1>1, <1>2

-----------------------------------------------------------------------------

(* Every call leaves the entries sorted, blank entries without a meta and  *)
(* as many blocks as the entries need.                                     *)
THEOREM DirInvariant == Spec => []DirInv
BY InitHolds, StepHolds, PTL DEF Spec

(* The directory's type invariant; above all, the mark a deletion renames  *)
(* an entry to is never left in an entry.                                  *)
THEOREM TypeCorrect == Spec => []TypeOK
<1>1. DirInv => TypeOK
  BY DEF DirInv
<1>2. QED
  BY <1>1, DirInvariant, PTL

(* dir_rePosFileRef keeps the entries sorted after every addition,         *)
(* renaming and deletion, and only blank entries share a name.             *)
THEOREM StaysSorted == Spec => []Sorted
<1>1. DirInv => Sorted
  BY DEF DirInv, SortedBy, InOrder, Sorted, Less, Ids
<1>2. QED
  BY <1>1, DirInvariant, PTL

(* fileRefBinSearch finds every name of the directory, and no other.       *)
THEOREM SearchIsExact == Spec => []SearchFinds
<1>1. ASSUME DirInv, NEW name \in Names \cup {GONE, BLANK}
      PROVE  LET i == Search(refs, size, name)
             IN  IF \E j \in Ids : refs[j].name = name
                 THEN i \in Ids /\ refs[i].name = name
                 ELSE i = INVAL
  <2>1. size \in Nat
    BY <1>1 DEF DirInv, TypeOK
  <2>2. name \in Int
    BY NamesAssumption DEF GONE, BLANK
  <2>3. Named(refs, size) /\ Ordered(refs, size)
    BY <1>1, RefsAreNamed
  <2>4. \/ Search(refs, size, name) = INVAL /\ \A j \in 0 .. size - 1 : refs[j].name # name
        \/ Search(refs, size, name) \in 0 .. size - 1 /\ refs[Search(refs, size, name)].name = name
    BY <2>1, <2>2, <2>3, SearchIsRight
  <2>5. QED
    BY <2>4 DEF Ids
<1>2. DirInv => SearchFinds
  BY <1>1 DEF SearchFinds
<1>3. QED
  BY <1>2, DirInvariant, PTL

(* Additions and deletions keep the number of blocks at what the entries   *)
(* need.                                                                   *)
THEOREM BlocksAreEnough == Spec => []BlocksMatchSize
<1>1. DirInv => BlocksMatchSize
  BY DEF DirInv
<1>2. QED
  BY <1>1, DirInvariant, PTL

-----------------------------------------------------------------------------
(* The directory implements the map.                                       *)

(* The map F has the names of the n entries of r, with their metas.        *)
Shows(F, r, n) ==
    /\ F = [x \in DOMAIN F |-> F[x]]
    /\ \A j \in 0 .. n - 1 : r[j].name \in DOMAIN F /\ F[r[j].name] = r[j].meta
    /\ \A x \in DOMAIN F : \E j \in 0 .. n - 1 : r[j].name = x

LEMMA OnlyOneShows ==
    ASSUME NEW n, NEW r, NEW F, NEW G, Shows(F, r, n), Shows(G, r, n)
    PROVE  F = G
<1>1. DOMAIN F = DOMAIN G
  BY DEF Shows
<1>2. \A x \in DOMAIN F : F[x] = G[x]
  BY DEF Shows
<1>3. F = [x \in DOMAIN F |-> F[x]] /\ G = [x \in DOMAIN G |-> G[x]]
  BY DEF Shows
<1>4. QED
  BY <1>1, <1>2, <1>3

LEMMA ShowsSame ==
    ASSUME NEW n, NEW r, NEW m, NEW F, Shows(F, r, n), SameEntries(r, m, n)
    PROVE  Shows(F, m, n)
<1>1. F = [x \in DOMAIN F |-> F[x]]
  BY DEF Shows
<1>2. ASSUME NEW j \in 0 .. n - 1
      PROVE  m[j].name \in DOMAIN F /\ F[m[j].name] = m[j].meta
  <2>1. PICK k \in 0 .. n - 1 : m[j] = r[k]
    BY DEF SameEntries
  <2>2. r[k].name \in DOMAIN F /\ F[r[k].name] = r[k].meta
    BY DEF Shows
  <2>3. QED
    BY <2>1, <2>2
<1>3. ASSUME NEW x \in DOMAIN F
      PROVE  \E j \in 0 .. n - 1 : m[j].name = x
  <2>1. PICK k \in 0 .. n - 1 : r[k].name = x
    BY DEF Shows
  <2>2. PICK j \in 0 .. n - 1 : m[j] = r[k]
    BY DEF SameEntries
  <2>3. QED
    BY <2>1, <2>2
<1>4. QED
  BY <1>1, <1>2, <1>3 DEF Shows

bar == [name \in Listed |-> MetaOf(name)]

LEMMA BarShows == DirInv => Shows(bar, refs, size)
<1> SUFFICES ASSUME DirInv PROVE Shows(bar, refs, size)
  OBVIOUS
<1>1. bar = [x \in DOMAIN bar |-> bar[x]] /\ DOMAIN bar = Listed
  BY DEF bar
<1>2. Named(refs, size)
  BY RefsAreNamed
<1>3. ASSUME NEW j \in 0 .. size - 1
      PROVE  refs[j].name \in Listed /\ bar[refs[j].name] = refs[j].meta
  <2>1. PICK name : name = refs[j].name
    OBVIOUS
  <2> DEFINE k == CHOOSE k \in Ids : refs[k].name = name
  <2>2. k \in 0 .. size - 1 /\ refs[k].name = name
    BY <2>1 DEF Ids
  <2>3. name \in Listed /\ bar[name] = refs[k].meta
    BY <2>1 DEF bar, Listed, MetaOf, Ids
  <2> HIDE DEF k
  <2>4. size \in Nat /\ refs[j].name \in Int
    BY <1>2 DEF DirInv, TypeOK, Named
  <2>5. k = j \/ refs[k] = refs[j]
    BY <2>1, <2>2, <2>4 DEF DirInv, SortedBy, InOrder
  <2>6. QED
    BY <2>1, <2>2, <2>3, <2>5
<1>4. \A x \in Listed : \E j \in 0 .. size - 1 : refs[j].name = x
  BY DEF Listed, Ids
<1>5. QED
  BY <1>1, <1>3, <1>4 DEF Shows

(* The step made bar' the map F.                                           *)
LEMMA BarIs ==
    ASSUME DirInv', NEW F, Shows(F, refs', size')
    PROVE  bar' = F
<1>1. (DirInv => Shows(bar, refs, size))'
  BY BarShows, PTL
<1>2. QED
  BY <1>1, OnlyOneShows

LEMMA RepositionedShows ==
    ASSUME NEW n \in Nat, NEW r, NEW i \in 0 .. n - 1, NEW F, Shows(F, r, n), Repositioned(r, n, i)
    PROVE  Shows(F, refs', size')
<1>1. PICK p \in 0 .. n - 1 : refs' = Moved(r, n, i, p) /\ size' = n
  BY RepositionedAt
<1>2. SameEntries(r, refs', n)
  BY <1>1, MovingKeepsEntries
<1>3. QED
  BY <1>1, <1>2, ShowsSame

(* No entry that is not blank shares its name.                             *)
LEMMA OwnName ==
    ASSUME DirInv, NEW i \in 0 .. size - 1, NEW k \in 0 .. size - 1, k # i, refs[i].name # BLANK
    PROVE  refs[k].name # refs[i].name
<1>1. size \in Nat /\ refs[i].name \in Int /\ refs[k].name \in Int
  BY RefsAreNamed DEF DirInv, TypeOK, Named
<1>2. QED
  BY <1>1 DEF DirInv, SortedBy, InOrder, Ref

(* A name with an index is one the search finds.                           *)
LEMMA UsedIsListed ==
    ASSUME DirInv, NEW name \in Int
    PROVE  /\ NameUsed(name) <=> name \in DOMAIN bar
           /\ Search(refs, size, name) \in Ids <=> name \in DOMAIN bar
           /\ Search(refs, size, name) \in Ids => refs[Search(refs, size, name)].name = name
<1>1. size \in Nat /\ Named(refs, size) /\ Ordered(refs, size)
  BY RefsAreNamed DEF DirInv, TypeOK
<1>2. \/ Search(refs, size, name) = INVAL /\ \A j \in 0 .. size - 1 : refs[j].name # name
      \/ Search(refs, size, name) \in 0 .. size - 1 /\ refs[Search(refs, size, name)].name = name
  BY <1>1, SearchIsRight
<1>3. DOMAIN bar = {refs[j].name : j \in 0 .. size - 1}
  BY DEF bar, Listed, Ids
<1>4. QED
  BY <1>2, <1>3 DEF NameUsed, Ids, INVAL

LEMMA AddMaps ==
    ASSUME DirInv, DirInv', NEW name \in Names, NEW meta \in Metas, AddFileRef(name, meta)
    PROVE  Map!Add(name, meta) \/ bar' = bar
<1>1. CASE Refused(INVAL)
  BY <1>1 DEF Refused, bar, Listed, MetaOf, Ids
<1>2. CASE /\ ~NameUsed(name)
           /\ Repositioned([j \in 0 .. size |-> IF j = size THEN Ref(name, meta) ELSE refs[j]],
                           size + 1, size)
  <2> DEFINE F == Map!With(bar, name, meta)
  <2>1. PICK r : r = [j \in 0 .. size |-> IF j = size THEN Ref(name, meta) ELSE refs[j]]
    OBVIOUS
  <2>2. PICK n : n = size + 1
    OBVIOUS
  <2>3. n \in Nat /\ size \in 0 .. n - 1 /\ size \in Nat /\ n - 1 = size /\ name \in Int
    BY <2>2, NamesAssumption DEF DirInv, TypeOK
  <2>4. name \notin DOMAIN bar
    BY <1>2, <2>3, UsedIsListed
  <2>5. Shows(bar, refs, size)
    BY BarShows
  <2>6. F = [x \in DOMAIN bar \cup {name} |-> IF x = name THEN meta ELSE bar[x]]
    BY DEF Map!With
  <2> HIDE DEF F
  <2>7. \A j \in 0 .. n - 1 : r[j].name \in DOMAIN F /\ F[r[j].name] = r[j].meta
    BY <2>1, <2>3, <2>4, <2>5, <2>6 DEF Shows, Ref
  <2>8. \A x \in DOMAIN F : \E j \in 0 .. n - 1 : r[j].name = x
    <3>1. r[size].name = name
      BY <2>1, <2>3 DEF Ref
    <3>2. \A j \in 0 .. size - 1 : r[j] = refs[j] /\ j \in 0 .. n - 1
      BY <2>1, <2>3
    <3>3. QED
      BY <2>3, <2>5, <2>6, <3>1, <3>2 DEF Shows
  <2>9. F = [x \in DOMAIN F |-> F[x]]
    BY <2>6
  <2>10. Shows(F, r, n)
    BY <2>7, <2>8, <2>9 DEF Shows
  <2>11. Repositioned(r, n, size)
    BY <1>2, <2>1, <2>2
  <2>12. bar' = F
    BY <2>3, <2>10, <2>11, RepositionedShows, BarIs
  <2>13. QED
    BY <2>4, <2>12 DEF F, Map!Add, Map!Used, bar
<1>3. QED
  BY <1>1, <1>2 DEF AddFileRef

LEMMA RenameMaps ==
    ASSUME DirInv, DirInv', NEW old \in Names, NEW new \in Names, RenameFileRef(old, new)
    PROVE  Map!Rename(old, new) \/ bar' = bar
<1> DEFINE i == Search(refs, size, old)
<1>1. CASE i \notin Ids \/ NameUsed(new)
  <2>1. Refused(INVAL)
    BY <1>1 DEF RenameFileRef
  <2>2. QED
    BY <2>1 DEF Refused, bar, Listed, MetaOf, Ids
<1>2. CASE i \in Ids /\ ~NameUsed(new)
  <2> DEFINE r == Renamed(i, new)
             F == Map!With(Map!Without(bar, {old}), new, bar[old])
  <2>1. Repositioned(r, size, i)
    BY <1>2 DEF RenameFileRef
  <2>2. /\ old \in Int /\ new \in Int /\ old # BLANK
        /\ size \in Nat
        /\ i \in 0 .. size - 1
    BY <1>2, NamesAssumption DEF DirInv, TypeOK, Ids
  <2>3. old \in DOMAIN bar /\ new \notin DOMAIN bar /\ refs[i].name = old
    BY <1>2, <2>2, UsedIsListed
  <2>4. Shows(bar, refs, size)
    BY BarShows
  <2>5. /\ \A j \in 0 .. size - 1 : j # i => r[j] = refs[j]
        /\ r[i].name = new /\ r[i].meta = refs[i].meta
    BY <2>2 DEF Renamed, Ref, DirInv, TypeOK, Ids
  <2>6. /\ DOMAIN F = (DOMAIN bar \ {old}) \cup {new}
        /\ \A x \in DOMAIN F : F[x] = IF x = new THEN bar[old] ELSE bar[x]
        /\ F = [x \in DOMAIN F |-> F[x]]
    BY DEF Map!With, Map!Without
  <2> HIDE DEF F, r, i
  <2>7. \A j \in 0 .. size - 1 : j # i => refs[j].name # old
    BY <2>2, <2>3, OwnName
  <2>8. ASSUME NEW j \in 0 .. size - 1
        PROVE  r[j].name \in DOMAIN F /\ F[r[j].name] = r[j].meta
    <3>1. refs[j].name \in DOMAIN bar /\ bar[refs[j].name] = refs[j].meta
      BY <2>4 DEF Shows
    <3>2. CASE j = i
      BY <2>3, <2>5, <2>6, <3>1, <3>2
    <3>3. CASE j # i
      BY <2>3, <2>5, <2>6, <2>7, <3>1, <3>3
    <3>4. QED
      BY <3>2, <3>3
  <2>9. ASSUME NEW x \in DOMAIN F
        PROVE  \E j \in 0 .. size - 1 : r[j].name = x
    <3>1. CASE x = new
      BY <2>2, <2>5, <3>1
    <3>2. CASE x # new
      <4>1. x \in DOMAIN bar /\ x # old
        BY <2>6, <3>2
      <4>2. PICK j \in 0 .. size - 1 : refs[j].name = x
        BY <2>4, <4>1 DEF Shows
      <4>3. QED
        BY <2>3, <2>5, <4>1, <4>2
    <3>3. QED
      BY <3>1, <3>2
  <2>10. Shows(F, r, size)
    BY <2>6, <2>8, <2>9 DEF Shows
  <2>11. bar' = F
    BY <2>1, <2>2, <2>10, RepositionedShows, BarIs
  <2>12. QED
    BY <2>3, <2>11 DEF F, Map!Rename, Map!Used, bar
<1>3. QED
  BY <1>1, <1>2

LEMMA DeleteMaps ==
    ASSUME DirInv, DirInv', NEW name \in Names, DelFileRef(name)
    PROVE  Map!Delete(name) \/ bar' = bar
<1>1. CASE Refused(-1)
  BY <1>1 DEF Refused, bar, Listed, MetaOf, Ids
<1>2. ASSUME NEW i, NEW p, NEW m, Deleted(name, i, p, m)
      PROVE  Map!Delete(name)
  <2>1. /\ size \in Nat /\ i \in 0 .. size - 1 /\ p \in 0 .. size - 1
        /\ refs \in [0 .. size - 1 -> Refs]
        /\ name \in Int /\ name # BLANK /\ name # GONE
        /\ refs[i].name = name
    BY <1>2, NamesAssumption DEF Deleted, DirInv, TypeOK, Ids, Refs
  <2>2. Shows(bar, refs, size)
    BY BarShows
  <2>3. name \in DOMAIN bar
    BY <2>1, <2>2 DEF Shows
  <2>4. /\ \A j \in 0 .. size - 1 : j # i => Renamed(i, GONE)[j] = refs[j]
        /\ Renamed(i, GONE)[i].name = GONE
    BY <2>1 DEF Renamed, Ref
  <2>5. \A x \in Refs : x.name # GONE
    BY NamesAssumption DEF Refs, GONE, BLANK
  <2>6. \A k \in 0 .. size - 1 : k # i => refs[k].name # name
    BY <2>1, OwnName
  (* The entries of m but the one at p are those of refs but the one at i. *)
  <2>7. ASSUME NEW j \in 0 .. size - 1, j # p
        PROVE  /\ m[j].name \in DOMAIN bar /\ bar[m[j].name] = m[j].meta
               /\ m[j].name # name
               /\ m[j].name \in Int
    <3>1. PICK k \in 0 .. size - 1 : m[j] = Renamed(i, GONE)[k]
      BY <1>2 DEF Deleted, SameEntries
    <3>2. m[j] \in Refs
      BY <1>2, <2>1, <2>7 DEF Deleted, Ids
    <3>3. k # i
      BY <2>4, <2>5, <3>1, <3>2
    <3>4. m[j] = refs[k]
      BY <2>4, <3>1, <3>3
    <3>5. QED
      BY <2>2, <2>6, <3>2, <3>3, <3>4, NamesAreNumbers DEF Shows
  <2>8. ASSUME NEW x \in DOMAIN bar, x # name
        PROVE  \E j \in 0 .. size - 1 : j # p /\ m[j].name = x
    <3>1. PICK k \in 0 .. size - 1 : refs[k].name = x
      BY <2>2 DEF Shows
    <3>2. k # i
      BY <2>1, <2>8, <3>1
    <3>3. PICK j \in 0 .. size - 1 : m[j] = Renamed(i, GONE)[k]
      BY <1>2 DEF Deleted, SameEntries
    <3>4. m[j] = refs[k]
      BY <2>4, <3>2, <3>3
    <3>5. refs[k] \in Refs
      BY <2>1
    <3>6. m[p].name = GONE
      BY <1>2 DEF Deleted
    <3>7. QED
      BY <2>5, <3>1, <3>4, <3>5, <3>6
  <2>9. /\ size' = size - 1
        /\ \A j \in 0 .. size - 2 : refs'[j] = IF j = p THEN Ref(BLANK, NULL) ELSE m[j]
    BY <1>2, <2>1 DEF Deleted, Blanked
  <2>10. /\ \A j \in 0 .. size - 1 : j < p => m[j].name < GONE
         /\ \A j \in 0 .. size - 1 : j > p => m[j].name > BLANK \/ m[j] = Ref(BLANK, NULL)
         /\ SortedBy(m, size)
         /\ BlankIsNull(m, size)
    BY <1>2, <2>1 DEF Deleted, Ids
  <2>11. Map!Behind(name) = {x \in DOMAIN bar \ {name} : x > GONE}
    BY DEF Map!Behind, Map!Used, bar
  <2>12. CASE p = size - 1
    <3> DEFINE F == Map!Without(bar, {name})
    <3>1. Map!Behind(name) = {}
      BY <2>1, <2>7, <2>8, <2>10, <2>11, <2>12 DEF GONE
    <3>2. /\ DOMAIN F = DOMAIN bar \ {name}
          /\ \A x \in DOMAIN F : F[x] = bar[x]
          /\ F = [x \in DOMAIN F |-> F[x]]
      BY DEF Map!Without
    <3> HIDE DEF F
    <3>3. \A j \in 0 .. size' - 1 : j \in 0 .. size - 1 /\ j # p /\ refs'[j] = m[j]
      BY <2>1, <2>9, <2>12
    <3>4. \A j \in 0 .. size' - 1 : refs'[j].name \in DOMAIN F /\ F[refs'[j].name] = refs'[j].meta
      BY <2>7, <3>2, <3>3
    <3>5. ASSUME NEW x \in DOMAIN F
          PROVE  \E j \in 0 .. size' - 1 : refs'[j].name = x
      <4>1. PICK j \in 0 .. size - 1 : j # p /\ m[j].name = x
        BY <2>8, <3>2
      <4>2. j \in 0 .. size' - 1
        BY <2>1, <2>9, <2>12, <4>1
      <4>3. QED
        BY <3>3, <4>1, <4>2
    <3>6. Shows(F, refs', size')
      BY <3>2, <3>4, <3>5 DEF Shows
    <3>7. bar' = F
      BY <3>6, BarIs
    <3>8. QED
      BY <2>3, <3>1, <3>7 DEF F, Map!Delete, Map!Used, bar
  <2>13. CASE p # size - 1
    <3>1. PICK e \in 0 .. size - 1 : e = size - 1 /\ e > p
      BY <2>1, <2>13
    <3>2. PICK last : last = m[e].name
      OBVIOUS
    <3> DEFINE F == Map!With(Map!Without(bar, {name, last}), BLANK, NULL)
    <3>3. last \in Int /\ last > GONE /\ last # name /\ last \in DOMAIN bar
      BY <2>1, <2>7, <2>10, <3>1, <3>2 DEF GONE, BLANK, Ref
    <3>4. last \in Map!Behind(name)
      BY <2>11, <3>3
    <3>5. ASSUME NEW x \in Map!Behind(name)
          PROVE  x <= last
      <4>1. PICK j \in 0 .. size - 1 : j # p /\ m[j].name = x
        BY <2>8, <2>11
      <4>2. j = e \/ j < e
        BY <2>1, <3>1
      <4>3. j < e => InOrder(m[j], m[e])
        BY <2>10, <3>1 DEF SortedBy
      <4>4. m[j].name \in Int
        BY <2>7, <4>1
      <4>5. QED
        BY <3>2, <3>3, <4>1, <4>2, <4>3, <4>4 DEF InOrder
    <3>6. /\ DOMAIN F = (DOMAIN bar \ {name, last}) \cup {BLANK}
          /\ \A x \in DOMAIN F : F[x] = IF x = BLANK THEN NULL ELSE bar[x]
          /\ F = [x \in DOMAIN F |-> F[x]]
      BY DEF Map!With, Map!Without
    <3> HIDE DEF F
    <3>7. ASSUME NEW j \in 0 .. size' - 1
          PROVE  refs'[j].name \in DOMAIN F /\ F[refs'[j].name] = refs'[j].meta
      <4>1. j \in 0 .. size - 2 /\ j \in 0 .. size - 1 /\ j < e
        BY <2>1, <2>9, <3>1
      <4>2. CASE j = p
        BY <2>9, <3>6, <4>1, <4>2 DEF Ref
      <4>3. CASE j # p /\ m[j].name = BLANK
        <5>1. m[j] = Ref(BLANK, NULL)
          BY <2>10, <4>1, <4>3 DEF BlankIsNull
        <5>2. QED
          BY <2>9, <3>6, <4>1, <4>3, <5>1 DEF Ref
      <4>4. CASE j # p /\ m[j].name # BLANK
        <5>1. InOrder(m[j], m[e])
          BY <2>10, <3>1, <4>1 DEF SortedBy
        <5>2. m[j].name # last
          BY <2>7, <3>2, <3>3, <4>1, <4>4, <5>1 DEF InOrder, Ref
        <5>3. QED
          BY <2>7, <2>9, <3>6, <4>1, <4>4, <5>2
      <4>5. QED
        BY <4>2, <4>3, <4>4
    <3>8. ASSUME NEW x \in DOMAIN F
          PROVE  \E j \in 0 .. size' - 1 : refs'[j].name = x
      <4>1. CASE x = BLANK
        <5>1. p \in 0 .. size' - 1 /\ p \in 0 .. size - 2
          BY <2>1, <2>9, <3>1
        <5>2. QED
          BY <2>9, <4>1, <5>1 DEF Ref
      <4>2. CASE x # BLANK
        <5>1. x \in DOMAIN bar /\ x # name /\ x # last
          BY <3>6, <4>2
        <5>2. PICK j \in 0 .. size - 1 : j # p /\ m[j].name = x
          BY <2>8, <5>1
        <5>3. j # e
          BY <3>2, <5>1, <5>2
        <5>4. j \in 0 .. size' - 1 /\ j \in 0 .. size - 2
          BY <2>1, <2>9, <3>1, <5>3
        <5>5. QED
          BY <2>9, <5>2, <5>4
      <4>3. QED
        BY <4>1, <4>2
    <3>9. Shows(F, refs', size')
      BY <3>6, <3>7, <3>8 DEF Shows
    <3>10. bar' = F
      BY <3>9, BarIs
    <3>11. QED
      BY <2>3, <3>4, <3>5, <3>10 DEF F, Map!Delete, Map!Used, bar
  <2>14. QED
    BY <2>12, <2>13
<1>3. QED
  BY <1>1, <1>2, Deletion

(* A directory implements the map of names: every call maps to one step of *)
(* the map, or to none when it is refused.                                 *)
THEOREM DirectoryImplements == Spec => ImplementsNameMap
<1>1. Init => Map!Init
  <2>1. SUFFICES ASSUME Init PROVE bar = [n \in {} |-> NULL]
    BY DEF Map!Init, bar
  <2>2. Listed = {}
    BY <2>1 DEF Init, Listed, Ids
  <2>3. QED
    BY <2>2 DEF bar
<1>2. DirInv /\ DirInv' /\ [Next]_vars => [Map!Next]_bar
  <2>1. CASE UNCHANGED vars
    BY <2>1 DEF vars, bar, Listed, MetaOf, Ids
  <2>2. CASE DirInv /\ DirInv' /\ Next
    BY <2>2, AddMaps, RenameMaps, DeleteMaps DEF Next, Map!Next
  <2>3. QED
    BY <2>1, <2>2
<1>3. Spec => []DirInv
  BY DirInvariant
<1>4. QED
  BY <1>1, <1>2, <1>3, PTL DEF Spec, ImplementsNameMap, Map!Spec, bar
=============================================================================
