--------------------------- MODULE FileOpsProofs ---------------------------
(***************************************************************************)
(* Lemmas about the operations on a file, for any number of blocks,        *)
(* pointers to a pointer block and bytes to a block: what they leave of    *)
(* the file, which blocks they use, and what they leave alone.             *)
(***************************************************************************)
EXTENDS FileOps, FiniteSetTheorems, WellFoundedInduction, TLAPS

-----------------------------------------------------------------------------
(* Numbers.                                                                *)

(* A set of numbers has a least one.                                       *)
LEMMA LeastNumber ==
    ASSUME NEW S \in SUBSET Nat, S # {}
    PROVE  \E x \in S : \A y \in S : x <= y
<1>1. \E x \in S : \A y \in S : ~(<<y, x>> \in OpToRel(<, Nat))
  BY NatLessThanWellFounded, WFMin
<1>2. \A x, y \in S : ~(<<y, x>> \in OpToRel(<, Nat)) => x <= y
  BY DEF OpToRel
<1>3. QED
  BY <1>1, <1>2

(* What holds of 0 and, with one number, of the next, holds of all up to n.*)
LEMMA CountingUp ==
    ASSUME NEW n \in Nat, NEW S, 0 \in S, \A k \in 1 .. n : k - 1 \in S => k \in S
    PROVE  \A k \in 0 .. n : k \in S
<1> DEFINE Bad == {k \in 0 .. n : k \notin S}
<1>1. SUFFICES ASSUME Bad # {} PROVE FALSE
  OBVIOUS
<1>2. PICK k \in Bad : \A y \in Bad : k <= y
  <2>1. Bad \in SUBSET Nat
    OBVIOUS
  <2>2. QED
    BY <1>1, <2>1, LeastNumber
<1>3. k \in 1 .. n /\ k - 1 \in 0 .. n
  BY <1>2
<1>4. k - 1 \in S
  BY <1>2, <1>3
<1>5. QED
  BY <1>2, <1>3, <1>4

LEMMA DivMod ==
    ASSUME NEW a \in Nat, NEW n \in Nat \ {0}
    PROVE  /\ a \div n \in Nat
           /\ a % n \in 0 .. n - 1
           /\ a = n * (a \div n) + (a % n)
OBVIOUS

LEMMA DivMonotone ==
    ASSUME NEW a \in Nat, NEW b \in Nat, NEW n \in Nat \ {0}, a <= b
    PROVE  a \div n <= b \div n
<1>1. /\ a \div n \in Nat /\ b \div n \in Nat
      /\ n * (a \div n) <= a /\ b < n * (b \div n) + n
  BY DivMod
<1>2. ASSUME b \div n + 1 <= a \div n PROVE FALSE
  <2>1. n * (b \div n + 1) <= n * (a \div n)
    BY <1>1, <1>2
  <2>2. n * (b \div n + 1) = n * (b \div n) + n
    BY <1>1
  <2>3. QED
    BY <1>1, <2>1, <2>2
<1>3. QED
  BY <1>1, <1>2

-----------------------------------------------------------------------------
(* Places in a file.                                                       *)

(* The most blocks a file has.                                             *)
MaxBlk == BlocksFor(MaxSize)

LEMMA Levels == /\ F \in Nat \ {0}
                /\ L2 \in Nat /\ L2 = F + 1
                /\ MaxBlk \in Nat /\ MaxBlk <= 1 + F + F * F
<1>1. MaxSize \div BlockBytes \in Nat
  BY SizeAssumption, BytesAssumption, DivMod
<1>2. QED
  BY <1>1, FAssumption, SizeAssumption DEF L2, MaxBlk, BlocksFor

LEMMA Coordinates ==
    ASSUME NEW i \in Nat, L2 <= i, i < MaxBlk
    PROVE  /\ Child(i) \in 0 .. F - 1
           /\ Position(i) \in 0 .. F - 1
           /\ i = L2 + F * Child(i) + Position(i)
<1>1. i - L2 \in Nat /\ i < 1 + F + F * F
  BY Levels
<1>2. /\ Child(i) \in Nat
      /\ Position(i) \in 0 .. F - 1
      /\ i - L2 = F * Child(i) + Position(i)
  <2>1. /\ (i - L2) \div F \in Nat
        /\ (i - L2) % F \in 0 .. F - 1
        /\ i - L2 = F * ((i - L2) \div F) + ((i - L2) % F)
    BY <1>1, Levels, DivMod
  <2>2. Position(i) = (i - L2) % F
    BY Levels DEF Position
  <2>3. QED
    BY <2>1, <2>2 DEF Child
<1>3. ASSUME Child(i) >= F PROVE FALSE
  <2>1. F * Child(i) >= F * F
    BY <1>2, <1>3, Levels
  <2>2. QED
    BY <1>1, <1>2, <2>1, Levels
<1>4. QED
  BY <1>1, <1>2, <1>3, Levels

LEMMA LowPosition ==
    ASSUME NEW i \in Nat, 1 <= i, i < L2
    PROVE  Position(i) = i - 1 /\ i - 1 \in 0 .. F - 1
BY Levels DEF Position

(* The place of a pointer is one block's only.                             *)
LEMMA SamePlace ==
    ASSUME NEW i \in Nat, NEW j \in Nat, L2 <= i, i < MaxBlk, L2 <= j, j < MaxBlk,
           Child(i) = Child(j), Position(i) = Position(j)
    PROVE  i = j
BY Coordinates

(* The first block of a pointer block comes behind all blocks of others.   *)
LEMMA ChildBefore ==
    ASSUME NEW i \in Nat, NEW j \in Nat, L2 <= j, j < i, i < MaxBlk, Position(i) = 0
    PROVE  Child(j) < Child(i)
<1>1. L2 + F * Child(j) + Position(j) < L2 + F * Child(i)
  BY Coordinates, Levels
<1>2. Child(j) \in Nat /\ Child(i) \in Nat /\ Position(j) \in Nat
  BY Coordinates, Levels
<1>3. ASSUME Child(i) <= Child(j) PROVE FALSE
  <2>1. F * Child(i) <= F * Child(j)
    BY <1>2, <1>3, Levels
  <2>2. QED
    BY <1>1, <1>2, <2>1, Levels
<1>4. QED
  BY <1>2, <1>3

-----------------------------------------------------------------------------
(* The allocator.                                                          *)

(* The request for one block is only refused when no block is free.        *)
LEMMA OneBlockFits ==
    ASSUME NEW S \in SUBSET Blocks, S # {}
    PROVE  Store!BestFits(S, 1) # {}
<1> USE DEF Store!Runs, Store!Size
<1>1. S \subseteq Nat /\ IsFiniteSet(S)
  BY BlocksAssumption, FS_Subset
<1>2. PICK x \in S : TRUE
  OBVIOUS
<1>3. \E top \in Nat \ S : x <= top /\ \A y \in x .. top - 1 : y \in S
  <2> DEFINE Above == {y \in Nat : x <= y /\ y \notin S}
  <2>1. Above # {}
    <3>1. SUFFICES ASSUME \A y \in Nat : x <= y => y \in S PROVE FALSE
      OBVIOUS
    <3>2. Cardinality(S) \in Nat
      BY <1>1, FS_CardinalityType
    <3> DEFINE n == Cardinality(S) + 1
    <3>3. x .. x + n - 1 \subseteq S
      BY <1>1, <3>1, <3>2
    <3>4. Cardinality(x .. x + n - 1) = n
      BY <1>1, <3>2, FS_Interval
    <3>5. Cardinality(x .. x + n - 1) <= Cardinality(S)
      BY <1>1, <3>3, FS_Subset
    <3>6. QED
      BY <3>2, <3>4, <3>5
  <2>2. PICK top \in Above : \A y \in Above : top <= y
    BY <2>1, LeastNumber
  <2>3. \A y \in x .. top - 1 : y \in S
    BY <1>1, <2>2
  <2>4. QED
    BY <2>2, <2>3
<1>4. PICK top \in Nat \ S : x <= top /\ \A y \in x .. top - 1 : y \in S
  BY <1>3
<1>5. \E low \in 0 .. x : low - 1 \notin S /\ \A y \in low .. x : y \in S
  <2> DEFINE Below == {y \in 0 .. x : \A z \in y .. x : z \in S}
  <2>1. x \in Below
    BY <1>1
  <2>2. PICK low \in Below : \A y \in Below : low <= y
    <3>1. Below \in SUBSET Nat
      BY <1>1
    <3>2. QED
      BY <2>1, <3>1, LeastNumber
  <2>3. low - 1 \notin S
    <3>1. SUFFICES ASSUME low - 1 \in S PROVE FALSE
      OBVIOUS
    <3>2. low - 1 \in 0 .. x
      BY <1>1, <2>2, <3>1
    <3>3. \A z \in low - 1 .. x : z \in S
      BY <2>2, <3>1, <3>2
    <3>4. low - 1 \in Below
      BY <3>2, <3>3
    <3>5. QED
      BY <1>1, <2>2, <3>4
  <2>4. QED
    BY <2>2, <2>3
<1>6. PICK low \in 0 .. x : low - 1 \notin S /\ \A y \in low .. x : y \in S
  BY <1>5
<1>7. top - 1 \in S /\ low \in S /\ low <= top - 1
  BY <1>1, <1>4, <1>6
<1>8. <<low, top - 1>> \in Store!Runs(S)
  BY <1>1, <1>4, <1>6, <1>7
<1> DEFINE enough == {r \in Store!Runs(S) : Store!Size(r) >= 1}
           sizes  == {Store!Size(r) : r \in enough}
<1>9. enough # {} /\ sizes # {} /\ sizes \in SUBSET Nat
  <2>1. Store!Size(<<low, top - 1>>) >= 1
    BY <1>4, <1>6, <1>7
  <2>2. <<low, top - 1>> \in enough
    BY <1>8, <2>1
  <2>3. \A r \in enough : Store!Size(r) \in Nat
    <3>1. \A r \in Store!Runs(S) : r[1] \in Nat /\ r[2] \in Nat
      BY <1>1
    <3>2. QED
      BY <3>1
  <2>4. QED
    BY <2>2, <2>3
<1>10. PICK s \in sizes : \A y \in sizes : s <= y
  BY <1>9, LeastNumber
<1>11. PICK r \in enough : s = Store!Size(r)
  BY <1>10
<1>12. \A q \in enough : Store!Size(r) <= Store!Size(q)
  BY <1>10, <1>11
<1>13. QED
  BY <1>11, <1>12 DEF Store!BestFits

(* What a request is given are free blocks, each once.                     *)
LEMMA SegmentsAreFree ==
    ASSUME NEW st, st.free \subseteq Blocks, NEW n \in Nat \ {0}, NEW s \in Segments(st, n)
    PROVE  /\ s \in Seq(Blocks) /\ Len(s) = n
           /\ ToSet(s) \subseteq st.free
           /\ ToSet(s) = {s[j] : j \in 1 .. n}
           /\ \A j \in 1 .. n : s[j] \in st.free
           /\ \A j, k \in 1 .. n : s[j] = s[k] => j = k
<1>1. PICK r \in Store!BestFits(st.free, n) : s = [j \in 1 .. n |-> r[1] + j - 1]
  BY DEF Segments
<1>2. /\ r[1] \in st.free /\ r[2] \in st.free
      /\ r[1] .. r[2] \subseteq st.free
      /\ r[2] - r[1] + 1 >= n
  BY <1>1 DEF Store!BestFits, Store!Runs, Store!Size
<1>3. r[1] \in Nat /\ r[2] \in Nat
  BY <1>2, BlocksAssumption
<1>4. \A j \in 1 .. n : r[1] + j - 1 \in r[1] .. r[2]
  BY <1>2, <1>3
<1>5. \A j \in 1 .. n : s[j] = r[1] + j - 1 /\ s[j] \in st.free
  BY <1>1, <1>2, <1>4
<1>6. s \in Seq(Blocks) /\ Len(s) = n
  BY <1>1, <1>2, <1>4
<1>7. ToSet(s) = {s[j] : j \in 1 .. n}
  BY <1>6 DEF ToSet, Range
<1>8. \A j, k \in 1 .. n : s[j] = s[k] => j = k
  BY <1>3, <1>5
<1>9. QED
  BY <1>5, <1>6, <1>7, <1>8

LEMMA NullSegments ==
    ASSUME NEW n \in Nat \ {0}
    PROVE  /\ NullSegment(n) \in Seq({NULL, FOREIGN}) /\ Len(NullSegment(n)) = n
           /\ \A j \in 1 .. n : NullSegment(n)[j] = IF j = 1 THEN NULL ELSE FOREIGN
BY DEF NullSegment

(* A block for pointers is one of the free blocks.                         *)
LEMMA PtrBlkIsFree ==
    ASSUME NEW st, st.free \subseteq Blocks, st.free # {}
    PROVE  PtrBlk(st) \in st.free
<1>1. Segments(st, 1) # {}
  BY OneBlockFits DEF Segments
<1>2. (CHOOSE s \in Segments(st, 1) : TRUE) \in Segments(st, 1)
  BY <1>1
<1>3. QED
  BY <1>2, SegmentsAreFree DEF PtrBlk
-----------------------------------------------------------------------------
(* One file and the memory it shares.                                      *)

Ptrs == Blocks \cup {NULL, FOREIGN}

Metas == [size : Nat, blk : Nat, first : Ptrs, ptr1 : Blocks \cup {NULL}, ptr2 : Blocks \cup {NULL}]

Slots == [Blocks -> [0 .. F - 1 -> Ptrs]]

States == [m : Metas, slot : Slots, free : SUBSET Blocks,
           fault : SUBSET {"null read", "foreign release", "foreign write"},
           track : SUBSET {"kept", "lost"}]

(* own gives each block in use its only use: <<file, kind, number>>.       *)
Tags == (MetaIds \cup {NULL}) \X {"data", "root", "leaf"} \X Nat

Owners == [Blocks -> Tags]

Marked(st, own, b, tag) == b \in Blocks \ st.free /\ own[b] = tag

(* The pointer blocks that the first n blocks of f need are there.         *)
Rooted(f, st, own, n) ==
    /\ n > 1 => Marked(st, own, st.m.ptr1, <<f, "root", 1>>)
    /\ n > L2 =>
         /\ Marked(st, own, st.m.ptr2, <<f, "root", 2>>)
         /\ \A c \in 0 .. F - 1 :
               st.slot[st.m.ptr2][c] # NULL =>
                  Marked(st, own, st.slot[st.m.ptr2][c], <<f, "leaf", c>>)

Paths(f, st, own, n) ==
    /\ Rooted(f, st, own, n)
    /\ n > L2 => \A i \in L2 .. n - 1 : st.slot[st.m.ptr2][Child(i)] # NULL

DataHeld(f, st, own) ==
    \A i \in 0 .. st.m.blk - 1 :
       DataBlkAt(st, i) \in Blocks => Marked(st, own, DataBlkAt(st, i), <<f, "data", i>>)

Held(f, st, own) == /\ st.m.blk <= MaxBlk
                    /\ Paths(f, st, own, st.m.blk)
                    /\ DataHeld(f, st, own)

(* What an operation on f leaves alone: blocks in use that are not f's.    *)
Frame(f, st, own, t, own2) ==
    \A b \in Blocks \ st.free :
       own[b][1] # f => b \notin t.free /\ own2[b] = own[b] /\ t.slot[b] = st.slot[b]

(* Pushes take blocks only, and leave what is there in its place.          *)
Takes(f, st, own, t, own2) ==
    /\ t.free \subseteq st.free
    /\ \A b \in Blocks \ st.free : own2[b] = own[b]
    /\ \A b \in Blocks \ st.free : own[b][1] # f => t.slot[b] = st.slot[b]

Grows(st, t) ==
    /\ t.m.blk >= st.m.blk
    /\ \A i \in 0 .. st.m.blk - 1 : DataBlkAt(t, i) = DataBlkAt(st, i)
    /\ st.m.blk > 1 => t.m.ptr1 = st.m.ptr1
    /\ st.m.blk > L2 =>
         /\ t.m.ptr2 = st.m.ptr2
         /\ \A c \in 0 .. F - 1 :
               st.slot[st.m.ptr2][c] # NULL => t.slot[st.m.ptr2][c] = st.slot[st.m.ptr2][c]

LEMMA StateFields ==
    ASSUME NEW st \in States
    PROVE  /\ st.m \in Metas /\ st.slot \in Slots /\ st.free \subseteq Blocks
           /\ st.m.blk \in Nat /\ st.m.size \in Nat /\ st.m.first \in Ptrs
           /\ st.m.ptr1 \in Blocks \cup {NULL} /\ st.m.ptr2 \in Blocks \cup {NULL}
           /\ \A b \in Blocks, c \in 0 .. F - 1 : st.slot[b][c] \in Ptrs
<1>1. st.m \in Metas /\ st.slot \in Slots /\ st.free \subseteq Blocks
  BY DEF States
<1>2. /\ st.m.blk \in Nat /\ st.m.size \in Nat /\ st.m.first \in Ptrs
      /\ st.m.ptr1 \in Blocks \cup {NULL} /\ st.m.ptr2 \in Blocks \cup {NULL}
  BY <1>1 DEF Metas
<1>3. \A b \in Blocks, c \in 0 .. F - 1 : st.slot[b][c] \in Ptrs
  BY <1>1 DEF Slots
<1>4. QED
  BY <1>1, <1>2, <1>3

(* The pointer block of data block i, when the first n are there.          *)
LEMMA LeafMarked ==
    ASSUME NEW f, NEW st \in States, NEW own, NEW n \in Nat, n <= MaxBlk, Paths(f, st, own, n),
           NEW i \in 1 .. n - 1
    PROVE  /\ Marked(st, own, Leaf(st, i), IF i < L2 THEN <<f, "root", 1>> ELSE <<f, "leaf", Child(i)>>)
           /\ Leaf(st, i) \in Blocks
           /\ Position(i) \in 0 .. F - 1
<1>1. CASE i < L2
  BY <1>1, LowPosition, Levels DEF Leaf, Rooted, Paths, Marked
<1>2. CASE i >= L2
  <2>1. Child(i) \in 0 .. F - 1 /\ Position(i) \in 0 .. F - 1
    BY <1>2, Coordinates, Levels
  <2>2. Leaf(st, i) = st.slot[st.m.ptr2][Child(i)]
    BY <1>2, Levels DEF Leaf
  <2>3. n > L2 /\ i \in L2 .. n - 1
    BY <1>2, Levels
  <2>4. st.slot[st.m.ptr2][Child(i)] # NULL
    BY <2>3 DEF Rooted, Paths
  <2>5. Marked(st, own, st.slot[st.m.ptr2][Child(i)], <<f, "leaf", Child(i)>>)
    BY <2>1, <2>3, <2>4 DEF Rooted, Paths
  <2>6. ~(i < L2)
    BY <1>2, Levels
  <2>7. QED
    BY <2>1, <2>2, <2>5, <2>6 DEF Marked
<1>3. QED
  BY <1>1, <1>2, Levels

(* Different data blocks have different places.                            *)
LEMMA PlacesDiffer ==
    ASSUME NEW f, NEW st \in States, NEW own, NEW n \in Nat, n <= MaxBlk, Paths(f, st, own, n),
           NEW i \in 1 .. n - 1, NEW j \in 1 .. n - 1,
           Leaf(st, i) = Leaf(st, j), Position(i) = Position(j)
    PROVE  i = j
<1>1. /\ own[Leaf(st, i)] = IF i < L2 THEN <<f, "root", 1>> ELSE <<f, "leaf", Child(i)>>
      /\ own[Leaf(st, j)] = IF j < L2 THEN <<f, "root", 1>> ELSE <<f, "leaf", Child(j)>>
  BY LeafMarked DEF Marked
<1>2. CASE i < L2 /\ j < L2
  BY <1>2, LowPosition
<1>3. CASE i >= L2 /\ j >= L2
  <2>1. Child(i) = Child(j)
    BY <1>1, <1>3, Levels
  <2>2. QED
    BY <1>3, <2>1, SamePlace, Levels
<1>4. QED
  BY <1>1, <1>2, <1>3, Levels

-----------------------------------------------------------------------------
(* Taking a block for pointers.                                            *)

LEMMA TrackFields ==
    ASSUME NEW st \in States, NEW n
    PROVE  TrackAfterRequest(st, n) \in SUBSET {"kept", "lost"}
<1>1. st.track \in SUBSET {"kept", "lost"}
  BY DEF States
<1>2. TrackAfterRequest(st, n) \in {{"lost"}, st.track \cup {"lost"}, st.track}
  BY DEF TrackAfterRequest
<1>3. QED
  BY <1>1, <1>2

LEMMA ZeroedFields ==
    ASSUME NEW st \in States, NEW b \in st.free
    PROVE  LET t == Zeroed(st, b)
           IN  /\ t \in States /\ t.m = st.m /\ t.fault = st.fault
               /\ t.free = st.free \ {b}
               /\ t.slot[b] = Empty
               /\ \A x \in Blocks : x # b => t.slot[x] = st.slot[x]
<1>1. Empty \in [0 .. F - 1 -> Ptrs]
  BY DEF Empty, Ptrs
<1> DEFINE tr == TrackAfterRequest(st, 1)
<1>2. tr \in SUBSET {"kept", "lost"}
  BY TrackFields
<1>3. Zeroed(st, b) = [st EXCEPT !.free = @ \ {b}, !.slot[b] = Empty, !.track = tr]
  BY DEF Zeroed
<1> DEFINE sl == [st.slot EXCEPT ![b] = Empty]
           t  == Zeroed(st, b)
<1>4. b \in Blocks /\ st.slot \in Slots
  BY StateFields
<1>5. sl \in Slots /\ sl[b] = Empty /\ \A x \in Blocks : x # b => sl[x] = st.slot[x]
  BY <1>1, <1>4 DEF Slots
<1> HIDE DEF tr
<1>6. t = [st EXCEPT !.free = @ \ {b}, !.slot = sl, !.track = tr]
  BY <1>3
<1> HIDE DEF sl, t
<1>7. t \in States /\ t.m = st.m /\ t.fault = st.fault /\ t.free = st.free \ {b} /\ t.slot = sl
  BY <1>2, <1>5, <1>6 DEF States
<1>8. QED
  BY <1>5, <1>7 DEF t

LEMMA ZeroedKeeps ==
    ASSUME NEW f \in MetaIds, NEW st \in States, NEW own \in Owners, Held(f, st, own),
           NEW b \in st.free, NEW tag \in Tags
    PROVE  LET t    == Zeroed(st, b)
               own2 == [own EXCEPT ![b] = tag]
           IN  /\ own2 \in Owners
               /\ Held(f, t, own2)
               /\ Takes(f, st, own, t, own2)
               /\ Grows(st, t)
               /\ Marked(t, own2, b, tag)
               /\ \A x, y : Marked(st, own, x, y) => Marked(t, own2, x, y)
<1> DEFINE t    == Zeroed(st, b)
           own2 == [own EXCEPT ![b] = tag]
           n    == st.m.blk
<1>0. b \in Blocks /\ n \in Nat /\ n <= MaxBlk /\ own2 \in Owners
  BY StateFields DEF Held, Owners
<1>1. /\ t \in States /\ t.m = st.m /\ t.free = st.free \ {b}
      /\ t.slot[b] = Empty
      /\ \A x \in Blocks : x # b => t.slot[x] = st.slot[x]
  BY ZeroedFields
<1>2. own2[b] = tag /\ \A x \in Blocks : x # b => own2[x] = own[x]
  BY <1>0 DEF Owners
<1> HIDE DEF t, own2
<1>3. \A x, y : Marked(st, own, x, y) => Marked(t, own2, x, y) /\ t.slot[x] = st.slot[x]
  BY <1>0, <1>1, <1>2 DEF Marked
<1>4. Marked(t, own2, b, tag)
  BY <1>0, <1>1, <1>2 DEF Marked
<1>5. Takes(f, st, own, t, own2)
  BY <1>0, <1>1, <1>2 DEF Takes
<1>6. Paths(f, st, own, n)
  BY DEF Held
<1>7. Paths(f, t, own2, n)
  BY <1>1, <1>3, <1>6 DEF Rooted, Paths
<1>8. \A i \in 0 .. n - 1 : DataBlkAt(t, i) = DataBlkAt(st, i)
  <2> SUFFICES ASSUME NEW i \in 0 .. n - 1 PROVE DataBlkAt(t, i) = DataBlkAt(st, i)
    OBVIOUS
  <2>1. CASE i = 0
    BY <1>1, <2>1 DEF DataBlkAt
  <2>2. CASE i \in 1 .. n - 1
    <3>1. PICK y : Marked(st, own, Leaf(st, i), y)
      BY <1>0, <1>6, <2>2, LeafMarked
    <3>2. t.slot[Leaf(st, i)] = st.slot[Leaf(st, i)]
      BY <1>3, <3>1
    <3>3. Leaf(t, i) = Leaf(st, i)
      BY <1>0, <1>1, <1>3, <1>6, <2>2, Levels DEF Leaf, Rooted, Paths
    <3>4. QED
      BY <2>2, <3>2, <3>3 DEF DataBlkAt
  <2>3. QED
    BY <1>0, <2>1, <2>2
<1>9. DataHeld(f, t, own2)
  BY <1>1, <1>3, <1>8 DEF DataHeld, Held
<1>10. Grows(st, t)
  BY <1>0, <1>1, <1>3, <1>6, <1>8 DEF Grows, Rooted, Paths
<1>11. Held(f, t, own2)
  BY <1>0, <1>1, <1>7, <1>9 DEF Held
<1>12. QED
  BY <1>0, <1>3, <1>4, <1>5, <1>10, <1>11 DEF t, own2
(* What a step of a push makes of f's state and the uses of blocks.        *)
Extended(f, st, own, t, own2) ==
    /\ own2 \in Owners /\ t \in States
    /\ t.m.size = st.m.size /\ t.fault = st.fault
    /\ Held(f, t, own2)
    /\ Takes(f, st, own, t, own2)
    /\ Grows(st, t)

LEMMA MarksStay ==
    ASSUME NEW f, NEW st, NEW own, NEW t, NEW own2, Takes(f, st, own, t, own2),
           NEW b, NEW tag, Marked(st, own, b, tag)
    PROVE  Marked(t, own2, b, tag)
BY DEF Takes, Marked

LEMMA GrowsOn ==
    ASSUME NEW st \in States, NEW t \in States, NEW u \in States, Grows(st, t), Grows(t, u)
    PROVE  Grows(st, u)
<1>1. /\ st.m.blk \in Nat /\ t.m.blk \in Nat /\ u.m.blk \in Nat
      /\ st.m.blk <= t.m.blk /\ t.m.blk <= u.m.blk
  BY StateFields DEF Grows
<1>2. \A i \in 0 .. st.m.blk - 1 : DataBlkAt(u, i) = DataBlkAt(st, i)
  BY <1>1 DEF Grows
<1>3. st.m.blk > 1 => u.m.ptr1 = st.m.ptr1
  BY <1>1 DEF Grows
<1>4. st.m.blk > L2 => u.m.ptr2 = st.m.ptr2
  BY <1>1, Levels DEF Grows
<1>5. ASSUME st.m.blk > L2, NEW c \in 0 .. F - 1, st.slot[st.m.ptr2][c] # NULL
      PROVE  u.slot[st.m.ptr2][c] = st.slot[st.m.ptr2][c]
  <2>1. t.m.ptr2 = st.m.ptr2 /\ t.slot[st.m.ptr2][c] = st.slot[st.m.ptr2][c]
    BY <1>5 DEF Grows
  <2>2. t.m.blk > L2
    BY <1>1, <1>5, Levels
  <2>3. QED
    BY <1>5, <2>1, <2>2 DEF Grows
<1>6. QED
  BY <1>1, <1>2, <1>3, <1>4, <1>5 DEF Grows

LEMMA ExtendedOn ==
    ASSUME NEW f, NEW st \in States, NEW own, NEW t, NEW own2, NEW u, NEW own3,
           Extended(f, st, own, t, own2), Extended(f, t, own2, u, own3)
    PROVE  Extended(f, st, own, u, own3)
<1>1. Takes(f, st, own, u, own3)
  BY DEF Extended, Takes
<1>2. Grows(st, u)
  BY GrowsOn DEF Extended
<1>3. QED
  BY <1>1, <1>2 DEF Extended

LEMMA ExtendedByNothing ==
    ASSUME NEW f, NEW st \in States, NEW own \in Owners, Held(f, st, own)
    PROVE  Extended(f, st, own, st, own)
BY StateFields DEF Extended, Takes, Grows

(* Assignments to a field of the file's meta and to a pointer.             *)
WithPtr1(z, b) == [z EXCEPT !.m.ptr1 = b]

WithPtr2(z, b) == [z EXCEPT !.m.ptr2 = b]

WithFirst(z, b) == [z EXCEPT !.m.first = b]

WithBlk(z, n) == [z EXCEPT !.m.blk = n]

WithSlot(z, x, c, b) == [z EXCEPT !.slot[x][c] = b]

WithMeta(z, m) == [z EXCEPT !.m = m]

LEMMA SetMeta ==
    ASSUME NEW z \in States, NEW m \in Metas
    PROVE  LET t == WithMeta(z, m)
           IN  t \in States /\ t.m = m /\ t.slot = z.slot /\ t.free = z.free /\ t.fault = z.fault
BY DEF States, WithMeta

LEMMA SetPtr1 ==
    ASSUME NEW z \in States, NEW b \in Blocks
    PROVE  LET t == WithPtr1(z, b)
           IN  /\ t \in States /\ t.slot = z.slot /\ t.free = z.free /\ t.fault = z.fault
               /\ t.m.size = z.m.size /\ t.m.blk = z.m.blk
               /\ t.m.first = z.m.first /\ t.m.ptr1 = b /\ t.m.ptr2 = z.m.ptr2
<1> DEFINE w == [z.m EXCEPT !.ptr1 = b]
<1>1. /\ w \in Metas
      /\ w.size = z.m.size /\ w.blk = z.m.blk
      /\ w.first = z.m.first /\ w.ptr1 = b /\ w.ptr2 = z.m.ptr2
  BY StateFields DEF Metas, Ptrs
<1>2. WithPtr1(z, b) = WithMeta(z, w)
  BY DEF WithPtr1, WithMeta
<1> HIDE DEF w
<1>3. QED
  BY <1>1, <1>2, SetMeta

LEMMA SetPtr2 ==
    ASSUME NEW z \in States, NEW b \in Blocks
    PROVE  LET t == WithPtr2(z, b)
           IN  /\ t \in States /\ t.slot = z.slot /\ t.free = z.free /\ t.fault = z.fault
               /\ t.m.size = z.m.size /\ t.m.blk = z.m.blk
               /\ t.m.first = z.m.first /\ t.m.ptr1 = z.m.ptr1 /\ t.m.ptr2 = b
<1> DEFINE w == [z.m EXCEPT !.ptr2 = b]
<1>1. /\ w \in Metas
      /\ w.size = z.m.size /\ w.blk = z.m.blk
      /\ w.first = z.m.first /\ w.ptr1 = z.m.ptr1 /\ w.ptr2 = b
  BY StateFields DEF Metas, Ptrs
<1>2. WithPtr2(z, b) = WithMeta(z, w)
  BY DEF WithPtr2, WithMeta
<1> HIDE DEF w
<1>3. QED
  BY <1>1, <1>2, SetMeta

LEMMA SetFirst ==
    ASSUME NEW z \in States, NEW b \in Ptrs
    PROVE  LET t == WithFirst(z, b)
           IN  /\ t \in States /\ t.slot = z.slot /\ t.free = z.free /\ t.fault = z.fault
               /\ t.m.size = z.m.size /\ t.m.blk = z.m.blk
               /\ t.m.first = b /\ t.m.ptr1 = z.m.ptr1 /\ t.m.ptr2 = z.m.ptr2
<1> DEFINE w == [z.m EXCEPT !.first = b]
<1>1. /\ w \in Metas
      /\ w.size = z.m.size /\ w.blk = z.m.blk
      /\ w.first = b /\ w.ptr1 = z.m.ptr1 /\ w.ptr2 = z.m.ptr2
  BY StateFields DEF Metas, Ptrs
<1>2. WithFirst(z, b) = WithMeta(z, w)
  BY DEF WithFirst, WithMeta
<1> HIDE DEF w
<1>3. QED
  BY <1>1, <1>2, SetMeta

LEMMA SetBlk ==
    ASSUME NEW z \in States, NEW n \in Nat
    PROVE  LET t == WithBlk(z, n)
           IN  /\ t \in States /\ t.slot = z.slot /\ t.free = z.free /\ t.fault = z.fault
               /\ t.m.size = z.m.size /\ t.m.blk = n
               /\ t.m.first = z.m.first /\ t.m.ptr1 = z.m.ptr1 /\ t.m.ptr2 = z.m.ptr2
<1> DEFINE w == [z.m EXCEPT !.blk = n]
<1>1. /\ w \in Metas
      /\ w.size = z.m.size /\ w.blk = n
      /\ w.first = z.m.first /\ w.ptr1 = z.m.ptr1 /\ w.ptr2 = z.m.ptr2
  BY StateFields DEF Metas, Ptrs
<1>2. WithBlk(z, n) = WithMeta(z, w)
  BY DEF WithBlk, WithMeta
<1> HIDE DEF w
<1>3. QED
  BY <1>1, <1>2, SetMeta

LEMMA SetSlot ==
    ASSUME NEW z \in States, NEW x \in Blocks, NEW c \in 0 .. F - 1, NEW b \in Ptrs
    PROVE  LET t == WithSlot(z, x, c, b)
           IN  /\ t \in States /\ t.m = z.m /\ t.free = z.free /\ t.fault = z.fault
               /\ t.slot[x][c] = b
               /\ \A y \in Blocks : y # x => t.slot[y] = z.slot[y]
               /\ \A d \in 0 .. F - 1 : d # c => t.slot[x][d] = z.slot[x][d]
BY DEF States, Slots, WithSlot

(* A first or a second level's pointer block, for a file that has none.    *)
LEMMA NewRoot ==
    ASSUME NEW f \in MetaIds, NEW st \in States, NEW own \in Owners, Held(f, st, own),
           st.free # {}, st.m.blk < MaxBlk, st.m.blk \in {1, L2}
    PROVE  \E own2 : /\ Extended(f, st, own, Roots(st, st.m.blk), own2)
                     /\ Rooted(f, Roots(st, st.m.blk), own2, st.m.blk + 1)
                     /\ Roots(st, st.m.blk).m.blk = st.m.blk
<1> DEFINE i    == st.m.blk
           b    == PtrBlk(st)
           z    == Zeroed(st, b)
           tag  == <<f, "root", IF i = 1 THEN 1 ELSE 2>>
           own2 == [own EXCEPT ![b] = tag]
           t    == Roots(st, i)
<1>0. b \in st.free /\ i \in Nat /\ 1 # L2 /\ tag \in Tags
  BY PtrBlkIsFree, StateFields, Levels DEF Tags
<1>1. /\ own2 \in Owners
      /\ Held(f, z, own2)
      /\ Takes(f, st, own, z, own2)
      /\ Grows(st, z)
      /\ Marked(z, own2, b, tag)
  BY <1>0, ZeroedKeeps
<1>2. /\ z \in States /\ z.m = st.m /\ z.fault = st.fault
      /\ z.slot[b] = Empty
  BY <1>0, ZeroedFields
<1>3. /\ i = 1 => t = [z EXCEPT !.m.ptr1 = b]
      /\ i = L2 => t = [z EXCEPT !.m.ptr2 = b]
  BY <1>0 DEF Roots
<1> HIDE DEF z, own2, t
<1>4. /\ t \in States /\ t.slot = z.slot /\ t.free = z.free /\ t.fault = z.fault
      /\ t.m.size = z.m.size /\ t.m.blk = i /\ t.m.first = z.m.first
      /\ i = 1 => t.m.ptr1 = b
      /\ i = L2 => t.m.ptr1 = z.m.ptr1 /\ t.m.ptr2 = b
  <2>1. b \in Blocks
    BY <1>0, StateFields
  <2>2. CASE i = 1
    <3>1. t = WithPtr1(z, b)
      BY <1>3, <2>2 DEF WithPtr1
    <3>2. QED
      BY <1>0, <1>2, <2>1, <2>2, <3>1, SetPtr1
  <2>3. CASE i = L2
    <3>1. t = WithPtr2(z, b)
      BY <1>3, <2>3 DEF WithPtr2
    <3>2. QED
      BY <1>0, <1>2, <2>1, <2>3, <3>1, SetPtr2
  <2>4. QED
    BY <2>2, <2>3
<1>5. \A x, y : Marked(t, own2, x, y) <=> Marked(z, own2, x, y)
  BY <1>4 DEF Marked
<1>6. \A j \in 0 .. i - 1 : DataBlkAt(t, j) = DataBlkAt(z, j)
  BY <1>0, <1>4, Levels DEF DataBlkAt, Leaf
<1>7. DataHeld(f, t, own2)
  BY <1>1, <1>2, <1>4, <1>5, <1>6 DEF DataHeld, Held
<1>8. Paths(f, z, own2, i)
  BY <1>1, <1>2 DEF Held
<1>9. Paths(f, t, own2, i)
  BY <1>0, <1>4, <1>5, <1>8, Levels DEF Paths, Rooted
<1>10. Takes(f, st, own, t, own2)
  BY <1>1, <1>4 DEF Takes
<1>11. Grows(z, t)
  BY <1>0, <1>2, <1>4, <1>6, Levels DEF Grows
<1>12. Grows(st, t)
  BY <1>1, <1>2, <1>4, <1>11, GrowsOn
<1>13. Rooted(f, t, own2, i + 1)
  <2>1. i = 1 => Marked(t, own2, t.m.ptr1, <<f, "root", 1>>)
    BY <1>1, <1>4, <1>5
  <2>2. i = L2 => /\ Marked(t, own2, t.m.ptr1, <<f, "root", 1>>)
                  /\ Marked(t, own2, t.m.ptr2, <<f, "root", 2>>)
                  /\ \A c \in 0 .. F - 1 : t.slot[t.m.ptr2][c] = NULL
    BY <1>0, <1>1, <1>2, <1>4, <1>5, <1>8, Levels DEF Paths, Rooted, Empty
  <2>3. QED
    BY <1>0, <2>1, <2>2, Levels DEF Rooted
<1>14. Extended(f, st, own, t, own2)
  BY <1>1, <1>2, <1>4, <1>7, <1>9, <1>10, <1>12 DEF Extended, Held
<1>15. QED
  BY <1>4, <1>13, <1>14 DEF t

(* A third level's pointer block, for a data block whose path has none.    *)
LEMMA NewLeaf ==
    ASSUME NEW f \in MetaIds, NEW st \in States, NEW own \in Owners, Held(f, st, own),
           Rooted(f, st, own, st.m.blk + 1), st.free # {}, L2 <= st.m.blk, st.m.blk < MaxBlk,
           st.slot[st.m.ptr2][Child(st.m.blk)] = NULL
    PROVE  \E own2 : /\ Extended(f, st, own, Leaves(st, st.m.blk), own2)
                     /\ Paths(f, Leaves(st, st.m.blk), own2, st.m.blk + 1)
                     /\ Leaves(st, st.m.blk).m.blk = st.m.blk
                     /\ \A x, y : Marked(st, own, x, y) => Marked(Leaves(st, st.m.blk), own2, x, y)
<1> DEFINE i    == st.m.blk
           p    == st.m.ptr2
           c    == Child(i)
           b    == PtrBlk(st)
           z    == Zeroed(st, b)
           tag  == <<f, "leaf", c>>
           own2 == [own EXCEPT ![b] = tag]
           t    == Leaves(st, i)
<1>0. /\ b \in st.free /\ b \in Blocks /\ b # NULL /\ i \in Nat /\ i <= MaxBlk
      /\ c \in 0 .. F - 1 /\ tag \in Tags
  BY PtrBlkIsFree, StateFields, Levels, Coordinates, NullAssumption DEF Tags
<1>1. /\ own2 \in Owners
      /\ Held(f, z, own2)
      /\ Takes(f, st, own, z, own2)
      /\ Grows(st, z)
      /\ Marked(z, own2, b, tag)
      /\ \A x, y : Marked(st, own, x, y) => Marked(z, own2, x, y)
  BY <1>0, ZeroedKeeps
<1>2. /\ z \in States /\ z.m = st.m /\ z.fault = st.fault
      /\ \A x \in Blocks : x # b => z.slot[x] = st.slot[x]
  BY <1>0, ZeroedFields
<1>3. Marked(st, own, p, <<f, "root", 2>>) /\ p \in Blocks /\ p # b
  <2>1. st.m.blk + 1 > L2
    BY <1>0, Levels
  <2>2. Marked(st, own, p, <<f, "root", 2>>)
    BY <2>1 DEF Rooted
  <2>3. QED
    BY <1>0, <2>2 DEF Marked
<1>4. z.slot[p] = st.slot[p] /\ Marked(z, own2, p, <<f, "root", 2>>)
  BY <1>1, <1>2, <1>3
<1>5. t = WithSlot(z, p, c, b)
  BY <1>0 DEF Leaves, WithSlot
<1> HIDE DEF t, z, own2, b
<1>6. /\ t \in States /\ t.m = z.m /\ t.free = z.free /\ t.fault = z.fault
      /\ t.slot[p][c] = b
      /\ \A y \in Blocks : y # p => t.slot[y] = z.slot[y]
      /\ \A d \in 0 .. F - 1 : d # c => t.slot[p][d] = z.slot[p][d]
  <2>1. b \in Ptrs
    BY <1>0 DEF Ptrs
  <2> HIDE DEF p, c
  <2>2. QED
    BY <1>0, <1>2, <1>3, <1>5, <2>1, SetSlot
<1>7. \A x, y : Marked(t, own2, x, y) <=> Marked(z, own2, x, y)
  BY <1>6 DEF Marked
<1>8. /\ i > 1 => Marked(t, own2, t.m.ptr1, <<f, "root", 1>>)
      /\ i > L2 => \A j \in L2 .. i - 1 : z.slot[p][Child(j)] # NULL
      /\ \A d \in 0 .. F - 1 : z.slot[p][d] # NULL => Marked(z, own2, z.slot[p][d], <<f, "leaf", d>>)
  <2>1. Paths(f, z, own2, i)
    BY <1>1, <1>2 DEF Held
  <2>2. \A d \in 0 .. F - 1 : st.slot[p][d] # NULL => Marked(st, own, st.slot[p][d], <<f, "leaf", d>>)
    BY <1>0, Levels DEF Rooted
  <2>3. QED
    BY <1>1, <1>2, <1>4, <1>6, <1>7, <2>1, <2>2 DEF Paths, Rooted
<1>9. Rooted(f, t, own2, i + 1)
  <2>1. \A d \in 0 .. F - 1 : t.slot[p][d] # NULL => Marked(t, own2, t.slot[p][d], <<f, "leaf", d>>)
    BY <1>1, <1>6, <1>7, <1>8
  <2>2. i > 1
    BY <1>0, Levels
  <2>3. t.m.ptr2 = p
    BY <1>2, <1>6
  <2>4. QED
    BY <1>4, <1>7, <1>8, <2>1, <2>2, <2>3 DEF Rooted
<1>10. \A j \in L2 .. i : t.slot[p][Child(j)] # NULL
  <2> SUFFICES ASSUME NEW j \in L2 .. i PROVE t.slot[p][Child(j)] # NULL
    OBVIOUS
  <2>1. CASE Child(j) = c
    BY <1>0, <1>6, <2>1
  <2>2. CASE Child(j) # c
    <3>1. j \in L2 .. i - 1 /\ i > L2 /\ j \in Nat /\ L2 <= j /\ j < MaxBlk
      BY <1>0, <2>2, Levels
    <3>2. Child(j) \in 0 .. F - 1
      BY <3>1, Coordinates
    <3>3. QED
      BY <1>6, <1>8, <2>2, <3>1, <3>2
  <2>3. QED
    BY <2>1, <2>2
<1>11. Paths(f, t, own2, i + 1)
  BY <1>0, <1>2, <1>6, <1>9, <1>10 DEF Paths
<1>12. Paths(f, t, own2, i)
  BY <1>0, <1>11, Levels DEF Paths, Rooted
<1>13. \A j \in 0 .. i - 1 : DataBlkAt(t, j) = DataBlkAt(z, j)
  <2> SUFFICES ASSUME NEW j \in 0 .. i - 1 PROVE DataBlkAt(t, j) = DataBlkAt(z, j)
    OBVIOUS
  <2>1. CASE j = 0
    BY <1>6, <2>1 DEF DataBlkAt
  <2>2. CASE j \in 1 .. i - 1
    <3>0. Paths(f, z, own2, i)
      BY <1>1, <1>2 DEF Held
    <3>1. /\ Marked(z, own2, Leaf(z, j), IF j < L2 THEN <<f, "root", 1>> ELSE <<f, "leaf", Child(j)>>)
          /\ Leaf(z, j) \in Blocks
      BY <1>0, <1>2, <2>2, <3>0, LeafMarked
    <3>2. Leaf(z, j) # p
      BY <1>4, <3>1 DEF Marked
    <3>3. Leaf(t, j) = Leaf(z, j)
      <4>1. CASE j < L2
        BY <1>6, <4>1 DEF Leaf
      <4>2. CASE ~(j < L2)
        <5>1. j \in L2 .. i - 1 /\ i > L2 /\ j \in Nat /\ L2 <= j /\ j < MaxBlk
          BY <1>0, <2>2, <4>2, Levels
        <5>2. Child(j) \in 0 .. F - 1
          BY <5>1, Coordinates
        <5>3. z.slot[p][Child(j)] # NULL /\ z.slot[p][c] = NULL
          BY <1>4, <1>8, <5>1
        <5>4. t.slot[p][Child(j)] = z.slot[p][Child(j)]
          BY <1>6, <5>2, <5>3
        <5>5. QED
          BY <1>2, <1>6, <4>2, <5>4 DEF Leaf
      <4>3. QED
        BY <4>1, <4>2
    <3>4. QED
      BY <1>6, <2>2, <3>1, <3>2, <3>3 DEF DataBlkAt
  <2>3. QED
    BY <1>0, <2>1, <2>2
<1>14. DataHeld(f, t, own2)
  BY <1>1, <1>2, <1>6, <1>7, <1>13 DEF DataHeld, Held
<1>15. Takes(f, st, own, t, own2)
  <2>1. own[p][1] = f
    BY <1>3 DEF Marked
  <2>2. QED
    BY <1>1, <1>6, <2>1 DEF Takes
<1>16. Grows(z, t)
  BY <1>0, <1>2, <1>4, <1>6, <1>13 DEF Grows
<1>17. Grows(st, t)
  BY <1>1, <1>2, <1>6, <1>16, GrowsOn
<1>18. Extended(f, st, own, t, own2)
  BY <1>0, <1>1, <1>2, <1>6, <1>12, <1>14, <1>15, <1>17 DEF Extended, Held
<1>19. QED
  BY <1>1, <1>2, <1>6, <1>7, <1>11, <1>18 DEF t

(* A pointer to a data block is written to its place and nowhere else.     *)
LEMMA PutAt ==
    ASSUME NEW f \in MetaIds, NEW t \in States, NEW own \in Owners, NEW n \in Nat, n <= MaxBlk,
           Paths(f, t, own, n), NEW i \in 0 .. n - 1, NEW b \in Ptrs
    PROVE  LET u == PutDataBlk(t, i, b)
           IN  /\ u \in States /\ u.free = t.free /\ u.fault = t.fault
               /\ u.m.size = t.m.size /\ u.m.blk = t.m.blk
               /\ u.m.ptr1 = t.m.ptr1 /\ u.m.ptr2 = t.m.ptr2
               /\ n > L2 => u.slot[u.m.ptr2] = t.slot[t.m.ptr2]
               /\ Paths(f, u, own, n)
               /\ DataBlkAt(u, i) = b
               /\ \A j \in 0 .. n - 1 : j # i => DataBlkAt(u, j) = DataBlkAt(t, j)
               /\ \A x \in Blocks \ t.free : own[x][1] # f => u.slot[x] = t.slot[x]
               /\ \A x, y : Marked(t, own, x, y) <=> Marked(u, own, x, y)
<1> DEFINE u == PutDataBlk(t, i, b)
<1>1. CASE i = 0
  <2>1. u = WithFirst(t, b)
    BY <1>1 DEF PutDataBlk, WithFirst
  <2> HIDE DEF u
  <2>2. /\ u \in States /\ u.slot = t.slot /\ u.free = t.free /\ u.fault = t.fault
        /\ u.m.size = t.m.size /\ u.m.blk = t.m.blk
        /\ u.m.first = b /\ u.m.ptr1 = t.m.ptr1 /\ u.m.ptr2 = t.m.ptr2
    BY <2>1, SetFirst
  <2>3. \A x, y : Marked(t, own, x, y) <=> Marked(u, own, x, y)
    BY <2>2 DEF Marked
  <2>4. Paths(f, u, own, n)
    BY <2>2, <2>3 DEF Paths, Rooted
  <2>5. DataBlkAt(u, i) = b
    BY <1>1, <2>2 DEF DataBlkAt
  <2>6. \A j \in 0 .. n - 1 : j # i => DataBlkAt(u, j) = DataBlkAt(t, j)
    BY <1>1, <2>2 DEF DataBlkAt, Leaf
  <2>7. QED
    BY <2>2, <2>3, <2>4, <2>5, <2>6 DEF u
<1>2. CASE i \in 1 .. n - 1
  <2> DEFINE x == Leaf(t, i)
             c == Position(i)
  <2>1. u = WithSlot(t, x, c, b)
    BY <1>2 DEF PutDataBlk, WithSlot
  <2>2. /\ Marked(t, own, x, IF i < L2 THEN <<f, "root", 1>> ELSE <<f, "leaf", Child(i)>>)
        /\ x \in Blocks
        /\ c \in 0 .. F - 1
    BY <1>2, LeafMarked
  <2> HIDE DEF u, x, c
  <2>3. /\ u \in States /\ u.m = t.m /\ u.free = t.free /\ u.fault = t.fault
        /\ u.slot[x][c] = b
        /\ \A y \in Blocks : y # x => u.slot[y] = t.slot[y]
        /\ \A d \in 0 .. F - 1 : d # c => u.slot[x][d] = t.slot[x][d]
    BY <2>1, <2>2, SetSlot
  <2>4. \A y, z : Marked(t, own, y, z) <=> Marked(u, own, y, z)
    BY <2>3 DEF Marked
  <2>5. n > L2 => u.slot[u.m.ptr2] = t.slot[t.m.ptr2]
    <3>1. n > L2 => Marked(t, own, t.m.ptr2, <<f, "root", 2>>)
      BY DEF Paths, Rooted
    <3>2. n > L2 => t.m.ptr2 \in Blocks /\ t.m.ptr2 # x
      BY <2>2, <3>1 DEF Marked
    <3>3. QED
      BY <2>3, <3>2
  <2>6. Paths(f, u, own, n)
    BY <2>3, <2>4, <2>5 DEF Paths, Rooted
  <2>7. \A j \in 1 .. n - 1 : Leaf(u, j) = Leaf(t, j)
    BY <2>3, <2>5, Levels DEF Leaf
  <2>8. DataBlkAt(u, i) = b
    BY <1>2, <2>3, <2>7 DEF DataBlkAt, x, c
  <2>9. \A j \in 0 .. n - 1 : j # i => DataBlkAt(u, j) = DataBlkAt(t, j)
    <3> SUFFICES ASSUME NEW j \in 0 .. n - 1, j # i PROVE DataBlkAt(u, j) = DataBlkAt(t, j)
      OBVIOUS
    <3>1. CASE j = 0
      BY <2>3, <3>1 DEF DataBlkAt
    <3>2. CASE j \in 1 .. n - 1
      <4>1. Leaf(t, j) \in Blocks /\ Position(j) \in 0 .. F - 1
        BY <3>2, LeafMarked
      <4>2. Leaf(t, j) # x \/ Position(j) # c
        BY <1>2, <3>2, PlacesDiffer DEF x, c
      <4>3. u.slot[Leaf(t, j)][Position(j)] = t.slot[Leaf(t, j)][Position(j)]
        BY <2>3, <4>1, <4>2
      <4>4. QED
        BY <2>7, <3>2, <4>3 DEF DataBlkAt
    <3>3. QED
      BY <3>1, <3>2
  <2>10. \A y \in Blocks \ t.free : own[y][1] # f => u.slot[y] = t.slot[y]
    <3>1. own[x][1] = f
      BY <2>2 DEF Marked
    <3>2. QED
      BY <2>3, <3>1
  <2>11. QED
    BY <2>3, <2>4, <2>5, <2>6, <2>8, <2>9, <2>10 DEF u
<1>3. QED
  BY <1>1, <1>2

(* The file's number of blocks is looked at nowhere else.                  *)
LEMMA Recounted ==
    ASSUME NEW f, NEW t \in States, NEW own, NEW k \in Nat
    PROVE  LET u == WithBlk(t, k)
           IN  /\ u \in States /\ u.slot = t.slot /\ u.free = t.free /\ u.fault = t.fault
               /\ u.m.size = t.m.size /\ u.m.blk = k /\ u.m.first = t.m.first
               /\ u.m.ptr1 = t.m.ptr1 /\ u.m.ptr2 = t.m.ptr2
               /\ \A j : DataBlkAt(u, j) = DataBlkAt(t, j)
               /\ \A x, y : Marked(t, own, x, y) <=> Marked(u, own, x, y)
               /\ \A n : Paths(f, t, own, n) <=> Paths(f, u, own, n)
<1> DEFINE u == WithBlk(t, k)
<1>1. /\ u \in States /\ u.slot = t.slot /\ u.free = t.free /\ u.fault = t.fault
      /\ u.m.size = t.m.size /\ u.m.blk = k /\ u.m.first = t.m.first
      /\ u.m.ptr1 = t.m.ptr1 /\ u.m.ptr2 = t.m.ptr2
  BY SetBlk
<1> HIDE DEF u
<1>2. \A j : DataBlkAt(u, j) = DataBlkAt(t, j)
  BY <1>1 DEF DataBlkAt, Leaf
<1>3. \A x, y : Marked(t, own, x, y) <=> Marked(u, own, x, y)
  BY <1>1 DEF Marked
<1>4. \A n : Paths(f, t, own, n) <=> Paths(f, u, own, n)
  BY <1>1, <1>3 DEF Paths, Rooted
<1>5. QED
  BY <1>1, <1>2, <1>3, <1>4 DEF u

(* The next data block is put in its place, when the path to it is there   *)
(* and it is nobody else's.                                                *)
LEMMA PutNext ==
    ASSUME NEW f \in MetaIds, NEW t \in States, NEW own \in Owners, Held(f, t, own),
           t.m.blk < MaxBlk, Paths(f, t, own, t.m.blk + 1), NEW b \in Ptrs,
           b \in Blocks => Marked(t, own, b, <<f, "data", t.m.blk>>)
    PROVE  LET v == WithBlk(PutDataBlk(t, t.m.blk, b), t.m.blk + 1)
           IN  /\ Extended(f, t, own, v, own)
               /\ v.m.blk = t.m.blk + 1
               /\ DataBlkAt(v, t.m.blk) = b
<1> DEFINE i == t.m.blk
           u == PutDataBlk(t, i, b)
           v == WithBlk(u, i + 1)
<1>0. i \in Nat /\ i \in 0 .. i /\ i + 1 \in Nat /\ i + 1 <= MaxBlk
  BY StateFields, Levels
<1>1. /\ u \in States /\ u.free = t.free /\ u.fault = t.fault
      /\ u.m.size = t.m.size /\ u.m.blk = i
      /\ u.m.ptr1 = t.m.ptr1 /\ u.m.ptr2 = t.m.ptr2
      /\ i + 1 > L2 => u.slot[u.m.ptr2] = t.slot[t.m.ptr2]
      /\ Paths(f, u, own, i + 1)
      /\ DataBlkAt(u, i) = b
      /\ \A j \in 0 .. i : j # i => DataBlkAt(u, j) = DataBlkAt(t, j)
      /\ \A x \in Blocks \ t.free : own[x][1] # f => u.slot[x] = t.slot[x]
      /\ \A x, y : Marked(t, own, x, y) <=> Marked(u, own, x, y)
  BY <1>0, PutAt
<1> HIDE DEF u
<1>2. /\ v \in States /\ v.slot = u.slot /\ v.free = u.free /\ v.fault = u.fault
      /\ v.m.size = u.m.size /\ v.m.blk = i + 1
      /\ v.m.ptr1 = u.m.ptr1 /\ v.m.ptr2 = u.m.ptr2
      /\ \A j : DataBlkAt(v, j) = DataBlkAt(u, j)
      /\ \A x, y : Marked(u, own, x, y) <=> Marked(v, own, x, y)
      /\ \A n : Paths(f, u, own, n) <=> Paths(f, v, own, n)
  BY <1>0, <1>1, Recounted
<1> HIDE DEF v
<1>3. Paths(f, v, own, i + 1)
  BY <1>1, <1>2
<1>4. DataHeld(f, v, own)
  <2> SUFFICES ASSUME NEW j \in 0 .. i, DataBlkAt(v, j) \in Blocks
               PROVE  Marked(v, own, DataBlkAt(v, j), <<f, "data", j>>)
    BY <1>0, <1>2 DEF DataHeld
  <2>1. CASE j = i
    BY <1>1, <1>2, <2>1
  <2>2. CASE j \in 0 .. i - 1
    <3>1. DataBlkAt(v, j) = DataBlkAt(t, j)
      BY <1>1, <1>2, <2>2
    <3>2. Marked(t, own, DataBlkAt(t, j), <<f, "data", j>>)
      BY <2>2, <3>1 DEF Held, DataHeld
    <3>3. QED
      BY <1>1, <1>2, <3>1, <3>2
  <2>3. QED
    BY <1>0, <2>1, <2>2
<1>5. Takes(f, t, own, v, own)
  BY <1>1, <1>2 DEF Takes
<1>6. Grows(t, v)
  <2>1. \A j \in 0 .. i - 1 : DataBlkAt(v, j) = DataBlkAt(t, j)
    BY <1>0, <1>1, <1>2
  <2>2. i > L2 => v.slot[t.m.ptr2] = t.slot[t.m.ptr2]
    BY <1>0, <1>1, <1>2, Levels
  <2>3. QED
    BY <1>0, <1>1, <1>2, <2>1, <2>2 DEF Grows
<1>7. QED
  BY <1>0, <1>1, <1>2, <1>3, <1>4, <1>5, <1>6 DEF Extended, Held, v, u

LEMMA RootsKeep ==
    ASSUME NEW f \in MetaIds, NEW st \in States, NEW own \in Owners, Held(f, st, own),
           st.m.blk < MaxBlk, ~NoRoot(st, st.m.blk)
    PROVE  \E own2 : /\ Extended(f, st, own, Roots(st, st.m.blk), own2)
                     /\ Rooted(f, Roots(st, st.m.blk), own2, st.m.blk + 1)
                     /\ Roots(st, st.m.blk).m.blk = st.m.blk
<1>1. CASE st.m.blk \in {1, L2}
  BY <1>1, NewRoot DEF NoRoot
<1>2. CASE ~(st.m.blk \in {1, L2})
  <2>1. Roots(st, st.m.blk) = st
    BY <1>2 DEF Roots
  <2>2. Rooted(f, st, own, st.m.blk + 1)
    <3>1. Rooted(f, st, own, st.m.blk) /\ st.m.blk \in Nat
      BY StateFields DEF Held, Paths
    <3>2. QED
      BY <1>2, <3>1, Levels DEF Rooted
  <2>3. QED
    BY <2>1, <2>2, ExtendedByNothing
<1>3. QED
  BY <1>1, <1>2

LEMMA LeavesKeep ==
    ASSUME NEW f \in MetaIds, NEW st \in States, NEW own \in Owners, Held(f, st, own),
           Rooted(f, st, own, st.m.blk + 1), st.m.blk < MaxBlk, ~NoLeaf(st, st.m.blk)
    PROVE  \E own2 : /\ Extended(f, st, own, Leaves(st, st.m.blk), own2)
                     /\ Paths(f, Leaves(st, st.m.blk), own2, st.m.blk + 1)
                     /\ Leaves(st, st.m.blk).m.blk = st.m.blk
<1> DEFINE i == st.m.blk
<1>0. i \in Nat
  BY StateFields
<1>1. CASE i >= L2 /\ st.slot[st.m.ptr2][Child(i)] = NULL
  BY <1>0, <1>1, NewLeaf DEF NoLeaf
<1>2. CASE ~(i >= L2 /\ st.slot[st.m.ptr2][Child(i)] = NULL)
  <2>1. Leaves(st, i) = st
    BY <1>2 DEF Leaves
  <2>2. Paths(f, st, own, i + 1)
    <3>1. Paths(f, st, own, i)
      BY DEF Held
    <3>2. \A j \in L2 .. i : i + 1 > L2 => st.slot[st.m.ptr2][Child(j)] # NULL
      BY <1>0, <1>2, <3>1, Levels DEF Paths
    <3>3. QED
      BY <1>0, <3>2 DEF Paths
  <2>3. QED
    BY <2>1, <2>2, ExtendedByNothing
<1>3. QED
  BY <1>1, <1>2

(* A file that no further block can be pushed to.                          *)
Stuck(st) ==
    /\ st.free = {}
    /\ \/ st.m.blk \in {1, L2}
       \/ st.m.blk >= L2 /\ st.slot[st.m.ptr2][Child(st.m.blk)] = NULL

(* A round of a push gives the file its next block, or fails when no block *)
(* is left for the pointers.                                               *)
LEMMA PushOneKeeps ==
    ASSUME NEW f \in MetaIds, NEW st \in States, NEW own \in Owners, Held(f, st, own),
           st.m.blk < MaxBlk, NEW b \in Ptrs,
           b \in Blocks => Marked(st, own, b, <<f, "data", st.m.blk>>)
    PROVE  LET p == PushOne([st |-> st, failed |-> FALSE], b)
           IN  /\ p = [st |-> p.st, failed |-> p.failed] /\ p.failed \in BOOLEAN
               /\ p.failed => p.st.m.blk = st.m.blk /\ Stuck(p.st)
               /\ ~p.failed => p.st.m.blk = st.m.blk + 1 /\ DataBlkAt(p.st, st.m.blk) = b
               /\ \E own2 : Extended(f, st, own, p.st, own2)
<1> DEFINE i == st.m.blk
           r == Roots(st, i)
           l == Leaves(r, i)
           v == WithBlk(PutDataBlk(l, i, b), i + 1)
           o == [st |-> st, failed |-> FALSE]
           p == PushOne(o, b)
           Kept(q) ==
             /\ q = [st |-> q.st, failed |-> q.failed] /\ q.failed \in BOOLEAN
             /\ q.failed => q.st.m.blk = i /\ Stuck(q.st)
             /\ ~q.failed => q.st.m.blk = i + 1 /\ DataBlkAt(q.st, i) = b
             /\ \E own2 : Extended(f, st, own, q.st, own2)
<1>1. p = IF NoRoot(st, i) THEN [st |-> st, failed |-> TRUE]
          ELSE IF NoLeaf(r, i) THEN [st |-> r, failed |-> TRUE]
          ELSE [st |-> v, failed |-> FALSE]
  <2>1. o.st = st /\ o.failed = FALSE
    OBVIOUS
  <2>2. Put(r, i, b) = v
    BY DEF Put, WithBlk
  <2> HIDE DEF o, r, v
  <2>3. r = Roots(o.st, o.st.m.blk) /\ i = o.st.m.blk
    BY <2>1 DEF r
  <2>4. QED
    BY <2>1, <2>2, <2>3 DEF PushOne
<1> HIDE DEF p
<1>5. SUFFICES Kept(p)
  BY DEF p
<1>2. CASE NoRoot(st, i)
  <2>1. p = [st |-> st, failed |-> TRUE]
    BY <1>1, <1>2
  <2>2. Stuck(st)
    BY <1>2 DEF NoRoot, Stuck
  <2>3. QED
    BY <2>1, <2>2, ExtendedByNothing
<1>3. CASE ~NoRoot(st, i)
  <2>1. PICK own2 : /\ Extended(f, st, own, r, own2)
                    /\ Rooted(f, r, own2, i + 1)
                    /\ r.m.blk = i
    BY <1>3, RootsKeep
  <2>2. r \in States /\ own2 \in Owners /\ Held(f, r, own2)
    BY <2>1 DEF Extended
  <2> HIDE DEF r
  <2>3. CASE NoLeaf(r, i)
    <3>1. p = [st |-> r, failed |-> TRUE]
      BY <1>1, <1>3, <2>3
    <3>2. Stuck(r)
      BY <2>1, <2>3 DEF NoLeaf, Stuck
    <3>3. QED
      BY <2>1, <3>1, <3>2
  <2>4. CASE ~NoLeaf(r, i)
    <3>1. PICK own3 : /\ Extended(f, r, own2, l, own3)
                      /\ Paths(f, l, own3, i + 1)
                      /\ l.m.blk = i
      BY <2>1, <2>2, <2>4, LeavesKeep
    <3>2. l \in States /\ own3 \in Owners /\ Held(f, l, own3)
      BY <3>1 DEF Extended
    <3> HIDE DEF l
    <3>3. b \in Blocks => Marked(l, own3, b, <<f, "data", i>>)
      <4>1. b \in Blocks => Marked(r, own2, b, <<f, "data", i>>)
        BY <2>1, MarksStay DEF Extended
      <4>2. QED
        BY <3>1, <4>1, MarksStay DEF Extended
    <3>4. /\ Extended(f, l, own3, v, own3)
          /\ v.m.blk = i + 1
          /\ DataBlkAt(v, i) = b
      BY <3>1, <3>2, <3>3, PutNext
    <3>5. Extended(f, st, own, v, own3)
      <4> HIDE DEF v
      <4>1. Extended(f, st, own, l, own3)
        BY <2>1, <2>2, <3>1, ExtendedOn
      <4>2. QED
        BY <3>2, <3>4, <4>1, ExtendedOn
    <3>6. p = [st |-> v, failed |-> FALSE]
      BY <1>1, <1>3, <2>4
    <3>7. QED
      BY <3>4, <3>5, <3>6
  <2>5. QED
    BY <2>3, <2>4
<1>4. QED
  BY <1>2, <1>3

(* The rounds of a push follow each other.                                 *)
LEMMA PushRunRounds ==
    ASSUME NEW st, NEW segment, Len(segment) \in Nat
    PROVE  /\ PushRun(st, segment)[0] = {[st |-> st, failed |-> FALSE]}
           /\ \A k \in 1 .. Len(segment) :
                 PushRun(st, segment)[k] = {PushOne(o, segment[k]) : o \in PushRun(st, segment)[k - 1]}
<1> DEFINE N       == Len(segment)
           D       == 0 .. N
           Start   == {[st |-> st, failed |-> FALSE]}
           Next1(v, k) == {PushOne(o, segment[k]) : o \in v}
           Step(g, k)  == IF k = 0 THEN Start ELSE Next1(g[k - 1], k)
           Upto(g, m)  == g = [k \in D |-> g[k]] /\ \A k \in 0 .. m : g[k] = Step(g, k)
           Good    == {m \in D : \E g : Upto(g, m)}
           Body(f) == [k \in D |-> Step(f, k)]
           run     == PushRun(st, segment)
<1>0. N \in Nat
  BY DEF Rounds
<1>6. run = CHOOSE f : f = Body(f)
  BY DEF PushRun
<1> HIDE DEF N, Start, Next1, run
<1>1. 0 \in Good
  <2> DEFINE g == [k \in D |-> Start]
  <2>1. g = [k \in D |-> g[k]] /\ g[0] = Start
    BY <1>0
  <2> HIDE DEF g
  <2>3. \A k \in 0 .. 0 : g[k] = Step(g, k)
    BY <2>1
  <2>2. QED
    BY <1>0, <2>1, <2>3
<1>2. ASSUME NEW m \in 1 .. N, m - 1 \in Good PROVE m \in Good
  <2>1. PICK g : Upto(g, m - 1)
    BY <1>2
  <2> DEFINE h == [k \in D |-> IF k = m THEN Step(g, m) ELSE g[k]]
  <2>2. h = [k \in D |-> h[k]]
    OBVIOUS
  <2>3. h[m] = Step(g, m) /\ \A k \in D : k # m => h[k] = g[k]
    BY <1>0
  <2> HIDE DEF h
  <2>4. m - 1 \in D /\ m - 1 # m /\ m \in D /\ m # 0
    BY <1>0
  <2>5. h[m] = Step(h, m)
    BY <2>3, <2>4
  <2>6. \A k \in 0 .. m - 1 : h[k] = Step(h, k)
    <3> SUFFICES ASSUME NEW k \in 0 .. m - 1 PROVE h[k] = Step(h, k)
      OBVIOUS
    <3>1. k \in D /\ k # m /\ h[k] = g[k]
      BY <1>0, <2>3
    <3>4. g[k] = Step(g, k)
      <4> HIDE DEF Step
      <4>1. QED
        BY <2>1
    <3>2. k # 0 => k - 1 \in D /\ k - 1 # m /\ h[k - 1] = g[k - 1]
      BY <1>0, <2>3
    <3>3. QED
      BY <3>1, <3>2, <3>4
  <2>7. \A k \in 0 .. m : h[k] = Step(h, k)
    BY <2>5, <2>6
  <2>8. QED
    BY <2>2, <2>4, <2>7
<1> HIDE DEF Good
<1>3. N \in Good
  BY <1>0, <1>1, <1>2, CountingUp
<1>4. PICK g : g = [k \in D |-> g[k]] /\ \A k \in D : g[k] = Step(g, k)
  BY <1>3 DEF Good
<1>5. g = Body(g)
  <2> HIDE DEF Step
  <2>1. QED
    BY <1>4
<1>7. run = Body(run)
  BY <1>5, <1>6
<1>8. \A k \in D : run[k] = Step(run, k)
  <2> HIDE DEF Step
  <2>1. QED
    BY <1>7
<1>9. run[0] = Start /\ \A k \in 1 .. N : run[k] = Next1(run[k - 1], k)
  BY <1>0, <1>8
<1>10. QED
  BY <1>9 DEF run, N, Start, Next1


(* And those of a pop.                                                     *)
LEMMA PopRunRounds ==
    ASSUME NEW st, NEW count \in Nat
    PROVE  /\ PopRun(st, count)[0] = st
           /\ \A k \in 1 .. count :
                 PopRun(st, count)[k] = PopOne(PopRun(st, count)[k - 1], k < count)
<1> DEFINE N       == count
           D       == 0 .. N
           Start   == st
           Next1(v, k) == PopOne(v, k < count)
           Step(g, k)  == IF k = 0 THEN Start ELSE Next1(g[k - 1], k)
           Upto(g, m)  == g = [k \in D |-> g[k]] /\ \A k \in 0 .. m : g[k] = Step(g, k)
           Good    == {m \in D : \E g : Upto(g, m)}
           Body(f) == [k \in D |-> Step(f, k)]
           run     == PopRun(st, count)
<1>0. N \in Nat
  BY DEF Rounds
<1>6. run = CHOOSE f : f = Body(f)
  BY DEF PopRun
<1> HIDE DEF N, Start, Next1, run
<1>1. 0 \in Good
  <2> DEFINE g == [k \in D |-> Start]
  <2>1. g = [k \in D |-> g[k]] /\ g[0] = Start
    BY <1>0
  <2> HIDE DEF g
  <2>3. \A k \in 0 .. 0 : g[k] = Step(g, k)
    BY <2>1
  <2>2. QED
    BY <1>0, <2>1, <2>3
<1>2. ASSUME NEW m \in 1 .. N, m - 1 \in Good PROVE m \in Good
  <2>1. PICK g : Upto(g, m - 1)
    BY <1>2
  <2> DEFINE h == [k \in D |-> IF k = m THEN Step(g, m) ELSE g[k]]
  <2>2. h = [k \in D |-> h[k]]
    OBVIOUS
  <2>3. h[m] = Step(g, m) /\ \A k \in D : k # m => h[k] = g[k]
    BY <1>0
  <2> HIDE DEF h
  <2>4. m - 1 \in D /\ m - 1 # m /\ m \in D /\ m # 0
    BY <1>0
  <2>5. h[m] = Step(h, m)
    BY <2>3, <2>4
  <2>6. \A k \in 0 .. m - 1 : h[k] = Step(h, k)
    <3> SUFFICES ASSUME NEW k \in 0 .. m - 1 PROVE h[k] = Step(h, k)
      OBVIOUS
    <3>1. k \in D /\ k # m /\ h[k] = g[k]
      BY <1>0, <2>3
    <3>4. g[k] = Step(g, k)
      <4> HIDE DEF Step
      <4>1. QED
        BY <2>1
    <3>2. k # 0 => k - 1 \in D /\ k - 1 # m /\ h[k - 1] = g[k - 1]
      BY <1>0, <2>3
    <3>3. QED
      BY <3>1, <3>2, <3>4
  <2>7. \A k \in 0 .. m : h[k] = Step(h, k)
    BY <2>5, <2>6
  <2>8. QED
    BY <2>2, <2>4, <2>7
<1> HIDE DEF Good
<1>3. N \in Good
  BY <1>0, <1>1, <1>2, CountingUp
<1>4. PICK g : g = [k \in D |-> g[k]] /\ \A k \in D : g[k] = Step(g, k)
  BY <1>3 DEF Good
<1>5. g = Body(g)
  <2> HIDE DEF Step
  <2>1. QED
    BY <1>4
<1>7. run = Body(run)
  BY <1>5, <1>6
<1>8. \A k \in D : run[k] = Step(run, k)
  <2> HIDE DEF Step
  <2>1. QED
    BY <1>7
<1>9. run[0] = Start /\ \A k \in 1 .. N : run[k] = Next1(run[k - 1], k)
  BY <1>0, <1>8
<1>10. QED
  BY <1>9 DEF run, N, Start, Next1


(* And those of ftruncate.                                                 *)
LEMMA GrowRunRounds ==
    ASSUME NEW st, NEW target \in Nat
    PROVE  /\ GrowRun(st, target)[0] = {[st |-> st, i |-> 0, done |-> FALSE, ret |-> 0]}
           /\ \A k \in 1 .. Rounds(target) :
                 GrowRun(st, target)[k] = UNION {GrowRound(x, target) : x \in GrowRun(st, target)[k - 1]}
<1> DEFINE N       == Rounds(target)
           D       == 0 .. N
           Start   == {[st |-> st, i |-> 0, done |-> FALSE, ret |-> 0]}
           Next1(v, k) == UNION {GrowRound(x, target) : x \in v}
           Step(g, k)  == IF k = 0 THEN Start ELSE Next1(g[k - 1], k)
           Upto(g, m)  == g = [k \in D |-> g[k]] /\ \A k \in 0 .. m : g[k] = Step(g, k)
           Good    == {m \in D : \E g : Upto(g, m)}
           Body(f) == [k \in D |-> Step(f, k)]
           run     == GrowRun(st, target)
<1>0. N \in Nat
  BY DEF Rounds
<1>6. run = CHOOSE f : f = Body(f)
  BY DEF GrowRun
<1> HIDE DEF N, Start, Next1, run
<1>1. 0 \in Good
  <2> DEFINE g == [k \in D |-> Start]
  <2>1. g = [k \in D |-> g[k]] /\ g[0] = Start
    BY <1>0
  <2> HIDE DEF g
  <2>3. \A k \in 0 .. 0 : g[k] = Step(g, k)
    BY <2>1
  <2>2. QED
    BY <1>0, <2>1, <2>3
<1>2. ASSUME NEW m \in 1 .. N, m - 1 \in Good PROVE m \in Good
  <2>1. PICK g : Upto(g, m - 1)
    BY <1>2
  <2> DEFINE h == [k \in D |-> IF k = m THEN Step(g, m) ELSE g[k]]
  <2>2. h = [k \in D |-> h[k]]
    OBVIOUS
  <2>3. h[m] = Step(g, m) /\ \A k \in D : k # m => h[k] = g[k]
    BY <1>0
  <2> HIDE DEF h
  <2>4. m - 1 \in D /\ m - 1 # m /\ m \in D /\ m # 0
    BY <1>0
  <2>5. h[m] = Step(h, m)
    BY <2>3, <2>4
  <2>6. \A k \in 0 .. m - 1 : h[k] = Step(h, k)
    <3> SUFFICES ASSUME NEW k \in 0 .. m - 1 PROVE h[k] = Step(h, k)
      OBVIOUS
    <3>1. k \in D /\ k # m /\ h[k] = g[k]
      BY <1>0, <2>3
    <3>4. g[k] = Step(g, k)
      <4> HIDE DEF Step
      <4>1. QED
        BY <2>1
    <3>2. k # 0 => k - 1 \in D /\ k - 1 # m /\ h[k - 1] = g[k - 1]
      BY <1>0, <2>3
    <3>3. QED
      BY <3>1, <3>2, <3>4
  <2>7. \A k \in 0 .. m : h[k] = Step(h, k)
    BY <2>5, <2>6
  <2>8. QED
    BY <2>2, <2>4, <2>7
<1> HIDE DEF Good
<1>3. N \in Good
  BY <1>0, <1>1, <1>2, CountingUp
<1>4. PICK g : g = [k \in D |-> g[k]] /\ \A k \in D : g[k] = Step(g, k)
  BY <1>3 DEF Good
<1>5. g = Body(g)
  <2> HIDE DEF Step
  <2>1. QED
    BY <1>4
<1>7. run = Body(run)
  BY <1>5, <1>6
<1>8. \A k \in D : run[k] = Step(run, k)
  <2> HIDE DEF Step
  <2>1. QED
    BY <1>7
<1>9. run[0] = Start /\ \A k \in 1 .. N : run[k] = Next1(run[k - 1], k)
  BY <1>0, <1>8
<1>10. QED
  BY <1>9 DEF run, N, Start, Next1

-----------------------------------------------------------------------------
(* All rounds of a push.                                                   *)

Pushed(f, st, own, segment, k, p) ==
    /\ p = [st |-> p.st, failed |-> p.failed] /\ p.failed \in BOOLEAN
    /\ \E own2 : Extended(f, st, own, p.st, own2)
    /\ p.failed => p.st.m.blk < st.m.blk + k /\ Stuck(p.st)
    /\ p.st.m.blk <= st.m.blk + k
    /\ \A j \in 1 .. k : st.m.blk + j <= p.st.m.blk => DataBlkAt(p.st, st.m.blk + j - 1) = segment[j]
    /\ ~p.failed => p.st.m.blk = st.m.blk + k

(* The blocks of the segment take the places behind the file's last block, *)
(* in their order, unless there is none left for the pointers.             *)
LEMMA PushesKeep ==
    ASSUME NEW f \in MetaIds, NEW st \in States, NEW own \in Owners, Held(f, st, own),
           NEW segment \in Seq(Ptrs), st.m.blk + Len(segment) <= MaxBlk,
           \A j \in 1 .. Len(segment) :
              segment[j] \in Blocks =>
                 Marked(st, own, segment[j], <<f, "data", st.m.blk + j - 1>>)
    PROVE  \E p : Pushes(st, segment) = {p} /\ Pushed(f, st, own, segment, Len(segment), p)
<1> DEFINE n     == Len(segment)
           run   == PushRun(st, segment)
           blk   == st.m.blk
           Kept(k) == \E p : run[k] = {p} /\ Pushed(f, st, own, segment, k, p)
           Good  == {k \in 0 .. n : Kept(k)}
<1>0. n \in Nat /\ blk \in Nat /\ MaxBlk \in Nat
  BY StateFields, Levels
<1>1. /\ run[0] = {[st |-> st, failed |-> FALSE]}
      /\ \A k \in 1 .. n : run[k] = {PushOne(o, segment[k]) : o \in run[k - 1]}
  BY <1>0, PushRunRounds
<1> HIDE DEF run
<1>2. Kept(0)
  <2> DEFINE p == [st |-> st, failed |-> FALSE]
  <2>1. p.st = st /\ p.failed = FALSE /\ p = [st |-> p.st, failed |-> p.failed]
    OBVIOUS
  <2> HIDE DEF p
  <2>2. Pushed(f, st, own, segment, 0, p)
    <3>1. \E own2 : Extended(f, st, own, p.st, own2)
      BY <2>1, ExtendedByNothing
    <3>5. p.failed \in BOOLEAN /\ ~p.failed
      BY <2>1, Zenon
    <3>2. p.failed \in BOOLEAN /\ p.st.m.blk = blk + 0 /\ ~p.failed
      BY <1>0, <2>1, <3>5
    <3>3. \A j \in 1 .. 0 : FALSE
      OBVIOUS
    <3>4. QED
      BY <1>0, <2>1, <3>1, <3>2, <3>3 DEF Pushed
  <2>3. QED
    BY <1>1, <2>2 DEF p
<1>3. ASSUME NEW k \in 1 .. n, Kept(k - 1) PROVE Kept(k)
  <2>1. PICK p : run[k - 1] = {p} /\ Pushed(f, st, own, segment, k - 1, p)
    BY <1>3
  <2>2. PICK own2 : Extended(f, st, own, p.st, own2)
    BY <2>1 DEF Pushed
  <2> DEFINE t == p.st
             b == segment[k]
             q == PushOne(p, b)
  <2>3. run[k] = {q}
    <3>1. run[k] = {PushOne(o, segment[k]) : o \in {p}}
      BY <1>1, <2>1
    <3>2. QED
      BY <3>1
  <2>4. t \in States /\ own2 \in Owners /\ Held(f, t, own2) /\ t.m.blk \in Nat /\ b \in Ptrs
    BY <2>2, StateFields DEF Extended
  <2>5. CASE p.failed
    <3>1. q = p
      BY <2>5 DEF PushOne
    <3>2. \A j \in 1 .. k : blk + j <= t.m.blk => j \in 1 .. k - 1
      BY <1>0, <2>1, <2>4, <2>5 DEF Pushed
    <3> HIDE DEF t
    <3>3. Pushed(f, st, own, segment, k, p)
      BY <1>0, <2>1, <2>4, <2>5, <3>2 DEF Pushed, t
    <3>4. QED
      BY <2>3, <3>1, <3>3
  <2>6. CASE ~p.failed
    <3>1. p = [st |-> t, failed |-> FALSE]
      BY <2>1, <2>6 DEF Pushed
    <3>2. t.m.blk = blk + k - 1
      BY <1>0, <2>1, <2>6 DEF Pushed
    <3>3. b \in Blocks => Marked(t, own2, b, <<f, "data", t.m.blk>>)
      <4>1. b \in Blocks => Marked(st, own, b, <<f, "data", blk + k - 1>>)
        OBVIOUS
      <4>2. QED
        BY <2>2, <3>2, <4>1, MarksStay DEF Extended
    <3>4. t.m.blk < MaxBlk
      BY <1>0, <3>2
    <3>5. /\ q = [st |-> q.st, failed |-> q.failed] /\ q.failed \in BOOLEAN
          /\ q.failed => q.st.m.blk = t.m.blk /\ Stuck(q.st)
          /\ ~q.failed => q.st.m.blk = t.m.blk + 1 /\ DataBlkAt(q.st, t.m.blk) = b
          /\ \E own3 : Extended(f, t, own2, q.st, own3)
      <4> HIDE DEF t, b
      <4>1. LET r == PushOne([st |-> t, failed |-> FALSE], b)
            IN  /\ r = [st |-> r.st, failed |-> r.failed] /\ r.failed \in BOOLEAN
                /\ r.failed => r.st.m.blk = t.m.blk /\ Stuck(r.st)
                /\ ~r.failed => r.st.m.blk = t.m.blk + 1 /\ DataBlkAt(r.st, t.m.blk) = b
                /\ \E own3 : Extended(f, t, own2, r.st, own3)
        BY <2>4, <3>3, <3>4, PushOneKeeps
      <4>2. QED
        BY <3>1, <4>1
    <3>6. PICK own3 : Extended(f, t, own2, q.st, own3)
      BY <3>5
    <3> HIDE DEF t, q
    <3>7. Extended(f, st, own, q.st, own3)
      BY <2>2, <3>6, ExtendedOn DEF t
    <3>8. \A j \in 1 .. k - 1 : DataBlkAt(q.st, blk + j - 1) = segment[j]
      <4> SUFFICES ASSUME NEW j \in 1 .. k - 1 PROVE DataBlkAt(q.st, blk + j - 1) = segment[j]
        OBVIOUS
      <4>1. DataBlkAt(t, blk + j - 1) = segment[j]
        BY <1>0, <2>1, <3>2 DEF Pushed, t
      <4>2. DataBlkAt(q.st, blk + j - 1) = DataBlkAt(t, blk + j - 1)
        BY <1>0, <3>2, <3>6 DEF Extended, Grows
      <4>3. QED
        BY <4>1, <4>2
    <3>9. Pushed(f, st, own, segment, k, q)
      BY <1>0, <3>2, <3>5, <3>7, <3>8 DEF Pushed
    <3>10. QED
      BY <2>3, <3>9
  <2>7. QED
    BY <2>5, <2>6
<1> HIDE DEF Kept
<1>4. n \in Good
  <2>1. 0 \in Good /\ \A k \in 1 .. n : k - 1 \in Good => k \in Good
    BY <1>0, <1>2, <1>3
  <2>2. n \in 0 .. n
    BY <1>0
  <2> HIDE DEF n, Good
  <2>3. \A k \in 0 .. n : k \in Good
    BY <1>0, <2>1, CountingUp
  <2>4. QED
    BY <2>2, <2>3
<1>5. QED
  BY <1>4 DEF Kept, Pushes, run

-----------------------------------------------------------------------------
(* Pops.                                                                   *)

WithFree(z, S, track) == [z EXCEPT !.free = S, !.track = track]

LEMMA SetFree ==
    ASSUME NEW z \in States, NEW S \in SUBSET Blocks, NEW track \in SUBSET {"kept", "lost"}
    PROVE  LET t == WithFree(z, S, track)
           IN  t \in States /\ t.m = z.m /\ t.slot = z.slot /\ t.fault = z.fault /\ t.free = S
BY DEF States, WithFree

LEMMA GivenBackFields ==
    ASSUME NEW z \in States, NEW b \in Blocks
    PROVE  LET t == GivenBack(z, b)
           IN  /\ t \in States /\ t.m = z.m /\ t.slot = z.slot /\ t.fault = z.fault
               /\ t.free = z.free \cup {b}
<1> DEFINE track == IF Store!ReleaseMayLose(z.free, b, 1) THEN z.track \cup {"lost"} ELSE z.track
<1>1. z.track \in SUBSET {"kept", "lost"}
  BY DEF States
<1>2. track \in SUBSET {"kept", "lost"}
  BY <1>1
<1>3. GivenBack(z, b) = WithFree(z, z.free \cup {b}, track)
  BY DEF GivenBack, WithFree
<1>4. z.free \cup {b} \in SUBSET Blocks
  BY StateFields
<1> HIDE DEF track
<1>5. QED
  BY <1>2, <1>3, <1>4, SetFree

(* A fault is only noted.                                                  *)
LEMMA FailFields ==
    ASSUME NEW z \in States, NEW what \in {"null read", "foreign release", "foreign write"}
    PROVE  LET t == Fail(z, what)
           IN  /\ t \in States /\ t.m = z.m /\ t.slot = z.slot /\ t.free = z.free
               /\ t.fault = z.fault \cup {what}
BY DEF States, Fail

(* What is left of f's state by a pop: it gives back data blocks and       *)
(* pointer blocks below the second level's root, and unlinks those.        *)
Shrinks(f, st, own, t) ==
    /\ t \in States
    /\ t.m.size = st.m.size /\ t.m.ptr1 = st.m.ptr1 /\ t.m.ptr2 = st.m.ptr2
    /\ t.m.blk <= st.m.blk
    /\ st.free \subseteq t.free
    /\ \A x \in t.free \ st.free : own[x][1] = f /\ own[x][2] # "root"
    /\ \A x \in Blocks \ st.free : own[x][1] # f => t.slot[x] = st.slot[x]
    /\ \A x \in Blocks \ st.free : own[x] = <<f, "root", 2>> =>
          \A c \in 0 .. F - 1 : t.slot[x][c] # st.slot[x][c] =>
                                   t.slot[x][c] = NULL /\ st.slot[x][c] \in t.free
    /\ \A i \in 0 .. t.m.blk - 1 : DataBlkAt(t, i) = DataBlkAt(st, i)
    /\ \A i \in t.m.blk .. st.m.blk - 1 : DataBlkAt(st, i) \in t.free

LEMMA ShrinksByNothing ==
    ASSUME NEW f, NEW st \in States, NEW own
    PROVE  Shrinks(f, st, own, st)
BY StateFields DEF Shrinks

LEMMA FailKeeps ==
    ASSUME NEW f, NEW st \in States, NEW own, Held(f, st, own),
           NEW what \in {"null read", "foreign release", "foreign write"}
    PROVE  /\ Held(f, Fail(st, what), own)
           /\ Shrinks(f, st, own, Fail(st, what))
<1> DEFINE t == Fail(st, what)
<1>1. t \in States /\ t.m = st.m /\ t.slot = st.slot /\ t.free = st.free
  BY FailFields
<1> HIDE DEF t
<1>2. \A j : DataBlkAt(t, j) = DataBlkAt(st, j)
  BY <1>1 DEF DataBlkAt, Leaf
<1>3. Held(f, t, own)
  BY <1>1, <1>2 DEF Held, Paths, Rooted, DataHeld, Marked
<1>4. Shrinks(f, st, own, t)
  <2>1. Shrinks(f, st, own, st)
    BY ShrinksByNothing
  <2>2. QED
    BY <1>1, <1>2, <2>1 DEF Shrinks
<1>5. QED
  BY <1>3, <1>4 DEF t

LEMMA ShrinksOn ==
    ASSUME NEW f, NEW st \in States, NEW own, NEW t, NEW u,
           Shrinks(f, st, own, t), Shrinks(f, t, own, u)
    PROVE  Shrinks(f, st, own, u)
<1>1. /\ t \in States /\ u \in States
      /\ st.m.blk \in Nat /\ t.m.blk \in Nat /\ u.m.blk \in Nat
      /\ u.m.blk <= t.m.blk /\ t.m.blk <= st.m.blk
      /\ st.free \subseteq t.free /\ t.free \subseteq u.free /\ u.free \subseteq Blocks
  BY StateFields DEF Shrinks
<1>2. \A x \in u.free \ st.free : own[x][1] = f /\ own[x][2] # "root"
  BY <1>1 DEF Shrinks
<1>3. \A x \in Blocks \ st.free : own[x][1] # f => u.slot[x] = st.slot[x]
  BY <1>1 DEF Shrinks
<1>4. ASSUME NEW x \in Blocks \ st.free, own[x] = <<f, "root", 2>>, NEW c \in 0 .. F - 1,
             u.slot[x][c] # st.slot[x][c]
      PROVE  u.slot[x][c] = NULL /\ st.slot[x][c] \in u.free
  <2>1. x \in Blocks \ t.free
    BY <1>1, <1>4 DEF Shrinks
  <2>2. t.slot[x][c] # st.slot[x][c] => t.slot[x][c] = NULL /\ st.slot[x][c] \in t.free
    BY <1>4 DEF Shrinks
  <2>3. u.slot[x][c] # t.slot[x][c] => u.slot[x][c] = NULL /\ t.slot[x][c] \in u.free
    BY <1>4, <2>1 DEF Shrinks
  <2>4. NULL \notin u.free
    BY <1>1, NullAssumption
  <2>5. QED
    BY <1>1, <1>4, <2>2, <2>3, <2>4
<1>5. \A i \in 0 .. u.m.blk - 1 : DataBlkAt(u, i) = DataBlkAt(st, i)
  BY <1>1 DEF Shrinks
<1>6. \A i \in u.m.blk .. st.m.blk - 1 : DataBlkAt(st, i) \in u.free
  <2> SUFFICES ASSUME NEW i \in u.m.blk .. st.m.blk - 1 PROVE DataBlkAt(st, i) \in u.free
    OBVIOUS
  <2>1. CASE i < t.m.blk
    BY <1>1, <2>1 DEF Shrinks
  <2>2. CASE i >= t.m.blk
    BY <1>1, <2>2 DEF Shrinks
  <2>3. QED
    BY <1>1, <2>1, <2>2
<1>7. QED
  BY <1>1, <1>2, <1>3, <1>4, <1>5, <1>6 DEF Shrinks

(* The last data block is given back, its pointer is cleared.              *)
LEMMA LastReleased ==
    ASSUME NEW f \in MetaIds, NEW st \in States, NEW own \in Owners, Held(f, st, own),
           st.m.blk >= 1, NEW b \in Blocks, b = DataBlkAt(st, st.m.blk - 1)
    PROVE  LET i == st.m.blk - 1
               v == GivenBack([PutDataBlk(st, i, NULL) EXCEPT !.m.blk = i], b)
           IN  /\ v.m.blk = i /\ v.fault = st.fault /\ v.free = st.free \cup {b}
               /\ v.m.ptr2 = st.m.ptr2
               /\ i >= L2 => v.slot[st.m.ptr2] = st.slot[st.m.ptr2]
               /\ Held(f, v, own)
               /\ Paths(f, v, own, i + 1)
               /\ Shrinks(f, st, own, v)
<1> DEFINE i == st.m.blk - 1
           u == PutDataBlk(st, i, NULL)
           w == WithBlk(u, i)
           v == GivenBack([u EXCEPT !.m.blk = i], b)
<1>0. i \in Nat /\ i + 1 = st.m.blk /\ i \in 0 .. i /\ i + 1 <= MaxBlk /\ NULL \in Ptrs
  BY StateFields DEF Held, Ptrs
<1>1. Paths(f, st, own, i + 1)
  BY <1>0 DEF Held
<1>2. /\ u \in States /\ u.free = st.free /\ u.fault = st.fault
      /\ u.m.size = st.m.size /\ u.m.blk = st.m.blk
      /\ u.m.ptr1 = st.m.ptr1 /\ u.m.ptr2 = st.m.ptr2
      /\ i + 1 > L2 => u.slot[u.m.ptr2] = st.slot[st.m.ptr2]
      /\ Paths(f, u, own, i + 1)
      /\ \A j \in 0 .. i : j # i => DataBlkAt(u, j) = DataBlkAt(st, j)
      /\ \A x \in Blocks \ st.free : own[x][1] # f => u.slot[x] = st.slot[x]
      /\ \A x, y : Marked(st, own, x, y) <=> Marked(u, own, x, y)
  BY <1>0, <1>1, PutAt
<1>3. \A x \in Blocks \ st.free : own[x] = <<f, "root", 2>> => u.slot[x] = st.slot[x]
  <2>1. CASE i = 0
    <3>1. u = WithFirst(st, NULL)
      BY <2>1 DEF PutDataBlk, WithFirst
    <3> HIDE DEF u
    <3>2. u.slot = st.slot
      BY <3>1, <1>0, SetFirst
    <3>3. QED
      BY <3>2
  <2>2. CASE i \in 1 .. i
    <3> DEFINE x == Leaf(st, i)
               c == Position(i)
    <3>1. u = WithSlot(st, x, c, NULL)
      BY <2>2 DEF PutDataBlk, WithSlot
    <3>2. /\ Marked(st, own, x, IF i < L2 THEN <<f, "root", 1>> ELSE <<f, "leaf", Child(i)>>)
          /\ x \in Blocks /\ c \in 0 .. F - 1
      BY <1>0, <1>1, <2>2, LeafMarked
    <3> HIDE DEF u, x, c
    <3>3. \A y \in Blocks : y # x => u.slot[y] = st.slot[y]
      BY <1>0, <3>1, <3>2, SetSlot
    <3>4. own[x] # <<f, "root", 2>>
      BY <3>2 DEF Marked
    <3>5. QED
      BY <3>3, <3>4
  <2>3. QED
    BY <1>0, <2>1, <2>2
<1>4. b \notin st.free /\ own[b] = <<f, "data", i>>
  BY <1>0 DEF Held, DataHeld, Marked
<1> HIDE DEF u
<1>5. v = GivenBack(w, b)
  BY DEF WithBlk
<1>6. /\ w \in States /\ w.slot = u.slot /\ w.free = u.free /\ w.fault = u.fault
      /\ w.m.size = u.m.size /\ w.m.blk = i /\ w.m.ptr1 = u.m.ptr1 /\ w.m.ptr2 = u.m.ptr2
      /\ \A j : DataBlkAt(w, j) = DataBlkAt(u, j)
      /\ \A x, y : Marked(u, own, x, y) <=> Marked(w, own, x, y)
      /\ \A n : Paths(f, u, own, n) <=> Paths(f, w, own, n)
  <2>1. w = WithBlk(u, i) /\ i \in Nat
    BY <1>0
  <2> HIDE DEF w, i
  <2>2. QED
    BY <1>2, <2>1, Recounted
<1> HIDE DEF v, w
<1>7. /\ v \in States /\ v.m = w.m /\ v.slot = w.slot /\ v.fault = w.fault
      /\ v.free = w.free \cup {b}
  BY <1>5, <1>6, GivenBackFields
<1>8. \A x, y : Marked(st, own, x, y) /\ x # b => Marked(v, own, x, y)
  BY <1>2, <1>6, <1>7 DEF Marked
<1>9. \A x, y : Marked(st, own, x, y) /\ y[2] # "data" => Marked(v, own, x, y)
  <2> SUFFICES ASSUME NEW x, NEW y, Marked(st, own, x, y), y[2] # "data"
               PROVE  Marked(v, own, x, y)
    OBVIOUS
  <2>1. own[x] = y
    BY DEF Marked
  <2>2. x # b
    BY <1>4, <2>1
  <2>3. QED
    BY <1>8, <2>2
<1>10. Paths(f, v, own, i + 1)
  <2>1. Paths(f, w, own, i + 1)
    BY <1>2, <1>6
  <2>2. \A x, y : Marked(w, own, x, y) /\ y[2] # "data" => Marked(v, own, x, y)
    BY <1>2, <1>6, <1>9
  <2>3. QED
    BY <1>7, <2>1, <2>2 DEF Paths, Rooted
<1>11. \A j : DataBlkAt(v, j) = DataBlkAt(u, j)
  <2>1. \A j : DataBlkAt(v, j) = DataBlkAt(w, j)
    BY <1>7 DEF DataBlkAt, Leaf
  <2>2. QED
    BY <1>6, <2>1
<1>12. \A j \in 0 .. i - 1 : DataBlkAt(v, j) = DataBlkAt(st, j)
  BY <1>0, <1>2, <1>11
<1>13. DataHeld(f, v, own)
  <2> SUFFICES ASSUME NEW j \in 0 .. i - 1, DataBlkAt(v, j) \in Blocks
               PROVE  Marked(v, own, DataBlkAt(v, j), <<f, "data", j>>)
    BY <1>6, <1>7 DEF DataHeld
  <2>1. Marked(st, own, DataBlkAt(st, j), <<f, "data", j>>)
    BY <1>0, <1>12 DEF Held, DataHeld
  <2>2. DataBlkAt(st, j) # b
    BY <1>0, <1>4, <2>1 DEF Marked
  <2>3. QED
    BY <1>8, <1>12, <2>1, <2>2
<1>14. Held(f, v, own)
  <2>1. Paths(f, v, own, i)
    BY <1>0, <1>10, Levels DEF Paths, Rooted
  <2>2. QED
    BY <1>0, <1>6, <1>7, <1>13, <2>1, Levels DEF Held
<1>15. Shrinks(f, st, own, v)
  <2>1. \A x \in v.free \ st.free : own[x][1] = f /\ own[x][2] # "root"
    BY <1>2, <1>4, <1>6, <1>7
  <2>2. \A j \in i .. st.m.blk - 1 : DataBlkAt(st, j) \in v.free
    BY <1>0, <1>7
  <2>3. QED
    BY <1>0, <1>2, <1>3, <1>6, <1>7, <1>12, <2>1, <2>2 DEF Shrinks
<1>16. i >= L2 => v.slot[st.m.ptr2] = st.slot[st.m.ptr2]
  BY <1>0, <1>2, <1>6, <1>7, Levels
<1>17. QED
  BY <1>2, <1>6, <1>7, <1>10, <1>14, <1>15, <1>16 DEF v, u

(* A pointer in a pointer block.                                           *)
Entry(st, b, c) == st.slot[b][c]

(* A pointer block is given back and unlinked with its first data block.   *)
LEMMA LeafReleased ==
    ASSUME NEW f \in MetaIds, NEW v \in States, NEW own \in Owners, Held(f, v, own),
           NEW i, i = v.m.blk, L2 <= i, i < MaxBlk, Position(i) = 0, Paths(f, v, own, i + 1),
           NEW p, p = v.m.ptr2, NEW c, c = Child(i), NEW leaf, leaf = Entry(v, p, c)
    PROVE  LET w == ReleaseLeaf(v, i, leaf)
           IN  /\ w.m.blk = v.m.blk /\ w.fault = v.fault
               /\ Held(f, w, own)
               /\ Shrinks(f, v, own, w)
<1> DEFINE u == WithSlot(v, p, c, NULL)
           w == ReleaseLeaf(v, i, leaf)
<1>0. /\ i \in Nat /\ c \in 0 .. F - 1 /\ NULL \in Ptrs
      /\ i \in L2 .. i + 1 - 1 /\ i + 1 > L2 /\ i > 1
  BY StateFields, Levels, Coordinates DEF Ptrs
<1>1. /\ Marked(v, own, p, <<f, "root", 2>>) /\ p \in Blocks
      /\ \A d \in 0 .. F - 1 : v.slot[p][d] # NULL => Marked(v, own, v.slot[p][d], <<f, "leaf", d>>)
      /\ leaf # NULL
  <2>1. i + 1 > L2 /\ i \in L2 .. i + 1 - 1 /\ Paths(f, v, own, i + 1)
    BY <1>0
  <2>2. Rooted(f, v, own, i + 1) /\ v.slot[p][Child(i)] # NULL
    BY <2>1 DEF Paths
  <2>3. /\ Marked(v, own, p, <<f, "root", 2>>)
        /\ \A d \in 0 .. F - 1 : v.slot[p][d] # NULL => Marked(v, own, v.slot[p][d], <<f, "leaf", d>>)
    BY <2>1, <2>2 DEF Rooted
  <2>4. p \in Blocks
    BY <2>3 DEF Marked
  <2>5. QED
    BY <1>0, <2>2, <2>3, <2>4 DEF Entry
<1>2. Marked(v, own, leaf, <<f, "leaf", c>>) /\ leaf \in Blocks
  BY <1>0, <1>1 DEF Marked, Entry
<1>3. w = GivenBack(u, leaf) /\ w = ReleaseLeaf(v, i, leaf)
  <2>1. u = [v EXCEPT !.slot[v.m.ptr2][Child(i)] = NULL]
    BY DEF WithSlot
  <2> HIDE DEF u
  <2>2. QED
    BY <2>1 DEF ReleaseLeaf
<1> HIDE DEF u, w
<1>4. /\ u \in States /\ u.m = v.m /\ u.free = v.free /\ u.fault = v.fault
      /\ u.slot[p][c] = NULL
      /\ \A y \in Blocks : y # p => u.slot[y] = v.slot[y]
      /\ \A d \in 0 .. F - 1 : d # c => u.slot[p][d] = v.slot[p][d]
  BY <1>0, <1>1, SetSlot DEF u
<1>5. /\ w \in States /\ w.m = v.m /\ w.slot = u.slot /\ w.fault = v.fault
      /\ w.free = v.free \cup {leaf}
  <2>1. w = GivenBack(u, leaf)
    BY <1>3
  <2>2. u \in States /\ leaf \in Blocks
    BY <1>2, <1>4
  <2>3. /\ w \in States /\ w.m = u.m /\ w.slot = u.slot /\ w.fault = u.fault
        /\ w.free = u.free \cup {leaf}
    BY <2>1, <2>2, GivenBackFields
  <2>4. QED
    BY <1>4, <2>3
<1>6. \A x, y : Marked(v, own, x, y) /\ y # <<f, "leaf", c>> => Marked(w, own, x, y)
  BY <1>2, <1>5 DEF Marked
<1>7. Rooted(f, w, own, i)
  <2>1. Marked(w, own, w.m.ptr1, <<f, "root", 1>>)
    BY <1>0, <1>5, <1>6 DEF Paths, Rooted
  <2>2. Marked(w, own, w.m.ptr2, <<f, "root", 2>>)
    BY <1>1, <1>5, <1>6
  <2>3. ASSUME NEW d \in 0 .. F - 1, w.slot[p][d] # NULL
        PROVE  Marked(w, own, w.slot[p][d], <<f, "leaf", d>>)
    <3>1. d # c /\ w.slot[p][d] = v.slot[p][d]
      BY <1>4, <1>5, <2>3
    <3>2. <<f, "leaf", d>> # <<f, "leaf", c>>
      BY <3>1
    <3>3. QED
      BY <1>1, <1>6, <2>3, <3>1, <3>2
  <2>4. QED
    BY <1>5, <2>1, <2>2, <2>3 DEF Rooted
<1>8. ASSUME NEW j \in L2 .. i - 1
      PROVE  Child(j) \in 0 .. F - 1 /\ Child(j) # c /\ w.slot[p][Child(j)] = v.slot[p][Child(j)]
  <2>1. j \in Nat /\ L2 <= j /\ j < i /\ j < MaxBlk
    BY <1>0, Levels
  <2>2. Child(j) \in 0 .. F - 1 /\ Child(j) < c
    BY <1>0, <2>1, Coordinates, ChildBefore
  <2>3. QED
    BY <1>0, <1>4, <1>5, <2>2
<1>9. Paths(f, w, own, i)
  <2>1. i > L2 => \A j \in L2 .. i - 1 : v.slot[p][Child(j)] # NULL
    BY DEF Held, Paths
  <2>2. QED
    BY <1>5, <1>7, <1>8, <2>1 DEF Paths
<1>10. \A j \in 0 .. i - 1 : DataBlkAt(w, j) = DataBlkAt(v, j)
  <2> SUFFICES ASSUME NEW j \in 0 .. i - 1 PROVE DataBlkAt(w, j) = DataBlkAt(v, j)
    OBVIOUS
  <2>1. CASE j = 0
    BY <1>5, <2>1 DEF DataBlkAt
  <2>2. CASE j \in 1 .. i - 1
    <3>1. /\ Marked(v, own, Leaf(v, j), IF j < L2 THEN <<f, "root", 1>> ELSE <<f, "leaf", Child(j)>>)
          /\ Leaf(v, j) \in Blocks
      BY <1>0, <2>2, LeafMarked DEF Held
    <3>2. Leaf(v, j) # p
      <4>1. own[p] = <<f, "root", 2>>
        BY <1>1 DEF Marked
      <4>2. own[Leaf(v, j)] = IF j < L2 THEN <<f, "root", 1>> ELSE <<f, "leaf", Child(j)>>
        BY <3>1 DEF Marked
      <4>3. QED
        BY <4>1, <4>2
    <3>3. Leaf(w, j) = Leaf(v, j)
      BY <1>0, <1>5, <1>8, <2>2, Levels DEF Leaf
    <3>4. QED
      BY <1>4, <1>5, <2>2, <3>1, <3>2, <3>3 DEF DataBlkAt
  <2>3. QED
    BY <1>0, <2>1, <2>2
<1>11. DataHeld(f, w, own)
  BY <1>5, <1>6, <1>10 DEF DataHeld, Held
<1>12. Held(f, w, own)
  BY <1>5, <1>9, <1>11 DEF Held
<1>13. Shrinks(f, v, own, w)
  <2>1. \A x \in w.free \ v.free : own[x][1] = f /\ own[x][2] # "root"
    <3>1. w.free \ v.free \subseteq {leaf}
      BY <1>5
    <3>2. own[leaf] = <<f, "leaf", c>>
      BY <1>2 DEF Marked
    <3>3. QED
      BY <3>1, <3>2
  <2>2. \A x \in Blocks \ v.free : own[x][1] # f => w.slot[x] = v.slot[x]
    <3>1. own[p][1] = f
      BY <1>1 DEF Marked
    <3>2. QED
      BY <1>4, <1>5, <3>1
  <2>3. \A x \in Blocks \ v.free : own[x] = <<f, "root", 2>> =>
          \A d \in 0 .. F - 1 : w.slot[x][d] # v.slot[x][d] =>
                                   w.slot[x][d] = NULL /\ v.slot[x][d] \in w.free
    <3>1. leaf = v.slot[p][c]
      BY DEF Entry
    <3>2. QED
      BY <1>4, <1>5, <3>1
  <2>4. QED
    <3>1. /\ w \in States /\ v.free \subseteq w.free
          /\ w.m.size = v.m.size /\ w.m.ptr1 = v.m.ptr1 /\ w.m.ptr2 = v.m.ptr2
          /\ w.m.blk = v.m.blk /\ w.m.blk <= v.m.blk
      BY <1>0, <1>5
    <3>2. \A j \in 0 .. w.m.blk - 1 : DataBlkAt(w, j) = DataBlkAt(v, j)
      BY <1>0, <1>10, <3>1
    <3>3. \A j \in w.m.blk .. v.m.blk - 1 : DataBlkAt(v, j) \in w.free
      BY <1>0, <3>1
    <3>4. QED
      BY <2>1, <2>2, <2>3, <3>1, <3>2, <3>3 DEF Shrinks
<1>14. QED
  BY <1>3, <1>5, <1>12, <1>13

(* A round of a pop takes the last block of the file, unless there is a    *)
(* hole in its place.                                                      *)
LEMMA PopOneKeeps ==
    ASSUME NEW f \in MetaIds, NEW st \in States, NEW own \in Owners, Held(f, st, own),
           st.fault = {} => st.m.blk >= 1, NEW more \in BOOLEAN
    PROVE  LET t == PopOne(st, more)
           IN  /\ Held(f, t, own)
               /\ Shrinks(f, st, own, t)
               /\ t.fault = {} => t.m.blk = st.m.blk - 1
               /\ t.fault \in {st.fault, {"foreign release"}}
               /\ t.fault # st.fault => DataBlkAt(st, st.m.blk - 1) \notin Blocks
<1> DEFINE i == st.m.blk - 1
           b == DataBlkAt(st, i)
           leaf == Leaf(st, i)
           v == GivenBack([PutDataBlk(st, i, NULL) EXCEPT !.m.blk = i], b)
           t == PopOne(st, more)
<1>1. t = IF st.fault # {} THEN st
          ELSE IF b \notin Blocks THEN Fail(st, "foreign release")
          ELSE IF more /\ i >= L2 /\ Position(i) = 0 THEN ReleaseLeaf(v, i, leaf)
          ELSE v
  BY DEF PopOne
<1> HIDE DEF t
<1>2. CASE st.fault # {}
  <2>1. t = st
    BY <1>1, <1>2
  <2>2. QED
    BY <1>2, <2>1, ShrinksByNothing DEF t
<1>3. CASE st.fault = {} /\ b \notin Blocks
  <2>1. t = Fail(st, "foreign release")
    BY <1>1, <1>3
  <2>2. /\ t \in States /\ t.m = st.m /\ t.slot = st.slot /\ t.free = st.free
        /\ t.fault = {"foreign release"}
    BY <1>3, <2>1, FailFields
  <2>4. Held(f, t, own) /\ Shrinks(f, st, own, t)
    BY <2>1, FailKeeps
  <2>6. QED
    BY <1>3, <2>2, <2>4 DEF t
<1>4. CASE st.fault = {} /\ b \in Blocks
  <2>0. i \in Nat /\ i < MaxBlk /\ st.m.blk = i + 1
    BY <1>4, StateFields, Levels DEF Held
  <2>1. /\ v.m.blk = i /\ v.fault = st.fault /\ v.free = st.free \cup {b}
        /\ v.m.ptr2 = st.m.ptr2
        /\ i >= L2 => v.slot[st.m.ptr2] = st.slot[st.m.ptr2]
        /\ Held(f, v, own)
        /\ Paths(f, v, own, i + 1)
        /\ Shrinks(f, st, own, v)
    BY <1>4, LastReleased
  <2>2. v \in States
    BY <2>1 DEF Shrinks
  <2> HIDE DEF v
  <2>3. CASE more /\ i >= L2 /\ Position(i) = 0
    <3>0. ~(i < L2)
      BY <2>0, <2>3, Levels
    <3>1. leaf = v.slot[v.m.ptr2][Child(v.m.blk)]
      <4>1. leaf = st.slot[st.m.ptr2][Child(i)]
        BY <3>0 DEF Leaf
      <4> HIDE DEF leaf
      <4>2. v.slot[v.m.ptr2] = st.slot[st.m.ptr2]
        <5> HIDE DEF i
        <5>1. QED
          BY <2>1, <2>3
      <4>3. Child(v.m.blk) = Child(i)
        BY <2>1
      <4>4. QED
        BY <4>1, <4>2, <4>3
    <3>2. t = ReleaseLeaf(v, i, leaf)
      BY <1>1, <1>4, <2>3
    <3> HIDE DEF leaf
    <3>3. /\ t.m.blk = v.m.blk /\ t.fault = v.fault
          /\ Held(f, t, own)
          /\ Shrinks(f, v, own, t)
      <4>1. i = v.m.blk /\ L2 <= i /\ i < MaxBlk /\ Position(i) = 0 /\ Paths(f, v, own, i + 1)
        BY <2>0, <2>1, <2>3
      <4> DEFINE p == v.m.ptr2
                 c == Child(i)
      <4>2. p = v.m.ptr2 /\ c = Child(i) /\ leaf = Entry(v, p, c)
        BY <3>1, <4>1 DEF Entry
      <4> HIDE DEF t, i, b, p, c
      <4>3. QED
        BY <2>1, <2>2, <3>2, <4>1, <4>2, LeafReleased
    <3>4. Shrinks(f, st, own, t)
      BY <2>1, <3>3, ShrinksOn
    <3>5. QED
      BY <1>4, <2>1, <3>3, <3>4 DEF t
  <2>4. CASE ~(more /\ i >= L2 /\ Position(i) = 0)
    <3>1. t = v
      BY <1>1, <1>4, <2>4
    <3>2. QED
      BY <1>4, <2>1, <3>1 DEF t
  <2>5. QED
    BY <2>3, <2>4
<1>5. QED
  BY <1>2, <1>3, <1>4

(* What is kept of a file's state by a pop, whatever becomes of it.        *)
Popped(f, st, own, t, count) ==
    /\ Held(f, t, own)
    /\ Shrinks(f, st, own, t)
    /\ t.fault = {} => t.m.blk = st.m.blk - count
    /\ t.fault # {} =>
          \/ t.fault = {"null read"} /\ st.m.blk = L2
          \/ t.fault = {"foreign release"} /\ \E i \in 0 .. st.m.blk - 1 : DataBlkAt(st, i) \notin Blocks

LEMMA PopRunKeeps ==
    ASSUME NEW f \in MetaIds, NEW st \in States, NEW own \in Owners, Held(f, st, own),
           st.fault = {}, NEW count \in Nat, count <= st.m.blk
    PROVE  Popped(f, st, own, PopRun(st, count)[count], count)
<1> DEFINE run  == PopRun(st, count)
           Good == {k \in 0 .. count : Popped(f, st, own, run[k], k)}
<1>0. st.m.blk \in Nat
  BY StateFields
<1>1. /\ run[0] = st
      /\ \A k \in 1 .. count : run[k] = PopOne(run[k - 1], k < count)
  BY PopRunRounds
<1> HIDE DEF run
<1>2. 0 \in Good
  <2>1. st.m.blk = st.m.blk - 0 /\ 0 \in 0 .. count
    BY <1>0
  <2>2. Popped(f, st, own, st, 0)
    BY <2>1, ShrinksByNothing DEF Popped
  <2>3. QED
    BY <1>1, <2>1, <2>2
<1>3. ASSUME NEW k \in 1 .. count, k - 1 \in Good PROVE k \in Good
  <2> DEFINE t == run[k - 1]
             u == run[k]
             more == k < count
  <2>1. Popped(f, st, own, t, k - 1) /\ u = PopOne(t, more) /\ more \in BOOLEAN
    BY <1>1, <1>3
  <2> HIDE DEF t, u, more
  <2>2. t \in States /\ Held(f, t, own) /\ Shrinks(f, st, own, t) /\ t.m.blk \in Nat /\ t.m.blk <= st.m.blk
    BY <2>1, StateFields DEF Popped, Shrinks
  <2>3. t.fault = {} => t.m.blk = st.m.blk - (k - 1) /\ t.m.blk >= 1
    BY <1>0, <2>1 DEF Popped
  <2>4. /\ Held(f, u, own)
        /\ Shrinks(f, t, own, u)
        /\ u.fault = {} => u.m.blk = t.m.blk - 1
        /\ u.fault \in {t.fault, {"foreign release"}}
        /\ u.fault # t.fault => DataBlkAt(t, t.m.blk - 1) \notin Blocks
    BY <2>1, <2>2, <2>3, PopOneKeeps
  <2>5. Shrinks(f, st, own, u)
    BY <2>2, <2>4, ShrinksOn
  <2>6. CASE u.fault = t.fault
    <3>1. u.fault = {} => u.m.blk = st.m.blk - k
      BY <1>0, <2>3, <2>4, <2>6
    <3>2. Popped(f, st, own, u, k)
      BY <2>1, <2>4, <2>5, <2>6, <3>1 DEF Popped
    <3>3. QED
      BY <3>2 DEF u
  <2>7. CASE u.fault # t.fault
    <3>0. t.fault = {}
      BY <2>1, <2>2, <2>4, <2>7 DEF PopOne
    <3>1. t.m.blk - 1 \in 0 .. t.m.blk - 1 /\ t.m.blk - 1 \in 0 .. st.m.blk - 1
      BY <1>0, <2>2, <2>3, <3>0
    <3>2. DataBlkAt(t, t.m.blk - 1) = DataBlkAt(st, t.m.blk - 1)
      BY <2>2, <3>1 DEF Shrinks
    <3>3. \E j \in 0 .. st.m.blk - 1 : DataBlkAt(st, j) \notin Blocks
      BY <2>4, <2>7, <3>1, <3>2
    <3>4. u.fault = {"foreign release"}
      BY <2>4, <2>7
    <3>5. Popped(f, st, own, u, k)
      BY <2>4, <2>5, <3>3, <3>4 DEF Popped
    <3>6. QED
      BY <3>5 DEF u
  <2>8. QED
    BY <2>6, <2>7
<1> HIDE DEF Good
<1>4. count \in Good
  BY <1>2, <1>3, CountingUp
<1>5. QED
  BY <1>4 DEF Good, run

(* A pop of the code, of as many blocks as the file has at most.           *)
LEMMA PopKeeps ==
    ASSUME NEW f \in MetaIds, NEW st \in States, NEW own \in Owners, Held(f, st, own),
           st.fault = {}, NEW len \in Nat
    PROVE  Popped(f, st, own, Pop(st, len), AtMost(st, len))
<1> DEFINE count == AtMost(st, len)
           t     == Pop(st, len)
<1>0. st.m.blk \in Nat /\ count \in Nat /\ count <= st.m.blk
  BY StateFields DEF AtMost
<1>1. CASE count > 0 /\ st.m.blk = L2
  <2>1. t = Fail(st, "null read")
    BY <1>1 DEF Pop
  <2> HIDE DEF t, count
  <2>2. /\ t \in States /\ t.m = st.m /\ t.slot = st.slot /\ t.free = st.free
        /\ t.fault = {"null read"}
    BY <2>1, FailFields
  <2>4. Held(f, t, own) /\ Shrinks(f, st, own, t)
    BY <2>1, FailKeeps
  <2>6. Popped(f, st, own, t, count)
    BY <1>1, <2>2, <2>4 DEF Popped
  <2>7. QED
    BY <2>6 DEF t, count
<1>2. CASE ~(count > 0 /\ st.m.blk = L2)
  <2>1. t = PopRun(st, count)[count]
    BY <1>2 DEF Pop
  <2> HIDE DEF t, count
  <2>2. Popped(f, st, own, t, count)
    BY <1>0, <2>1, PopRunKeeps
  <2>3. QED
    BY <2>2 DEF t, count
<1>3. QED
  BY <1>1, <1>2

-----------------------------------------------------------------------------
(* Bytes and blocks.                                                       *)

LEMMA InBlock ==
    ASSUME NEW i \in Nat, NEW pos \in Nat
    PROVE  /\ pos \div BlockBytes \in Nat
           /\ i * BlockBytes <= pos <=> i <= pos \div BlockBytes
           /\ i < pos \div BlockBytes => i * BlockBytes < pos
<1> DEFINE q == pos \div BlockBytes
<1>1. /\ q \in Nat /\ BlockBytes * q <= pos /\ pos < BlockBytes * q + BlockBytes
      /\ BlockBytes \in Nat \ {0}
  BY BytesAssumption, DivMod
<1> HIDE DEF q
<1>2. ASSUME i <= q PROVE i * BlockBytes <= pos
  <2>1. BlockBytes * i <= BlockBytes * q
    BY <1>1, <1>2
  <2>2. i * BlockBytes = BlockBytes * i
    BY <1>1
  <2>3. QED
    BY <1>1, <2>1, <2>2
<1>3. ASSUME q + 1 <= i PROVE pos < i * BlockBytes
  <2>1. BlockBytes * (q + 1) <= BlockBytes * i
    BY <1>1, <1>3
  <2>2. BlockBytes * (q + 1) = BlockBytes * q + BlockBytes /\ i * BlockBytes = BlockBytes * i
    BY <1>1
  <2>3. QED
    BY <1>1, <2>1, <2>2
<1>4. ASSUME i + 1 <= q PROVE i * BlockBytes < pos
  <2>1. BlockBytes * (i + 1) <= BlockBytes * q
    BY <1>1, <1>4
  <2>2. BlockBytes * (i + 1) = BlockBytes * i + BlockBytes /\ i * BlockBytes = BlockBytes * i
    BY <1>1
  <2>3. QED
    BY <1>1, <2>1, <2>2
<1>5. i * BlockBytes \in Nat
  BY <1>1
<1>6. QED
  BY <1>1, <1>2, <1>3, <1>4, <1>5 DEF q

LEMMA EnoughBlocks ==
    ASSUME NEW size \in Nat, size <= MaxSize
    PROVE  BlocksFor(size) \in Nat /\ 1 <= BlocksFor(size) /\ BlocksFor(size) <= MaxBlk
<1>1. MaxSize \in Nat /\ BlockBytes \in Nat \ {0}
  BY SizeAssumption, BytesAssumption
<1>2. /\ size \div BlockBytes \in Nat /\ MaxSize \div BlockBytes \in Nat
      /\ size \div BlockBytes <= MaxSize \div BlockBytes
  BY <1>1, DivMod, DivMonotone
<1>3. QED
  BY <1>2 DEF BlocksFor, MaxBlk

-----------------------------------------------------------------------------
(* file_write.                                                             *)

(* A file's blocks are its own whatever its size.                          *)
LEMMA SameBlocks ==
    ASSUME NEW z, NEW u, u.slot = z.slot, u.free = z.free, u.m.blk = z.m.blk,
           u.m.first = z.m.first, u.m.ptr1 = z.m.ptr1, u.m.ptr2 = z.m.ptr2
    PROVE  /\ \A j : DataBlkAt(u, j) = DataBlkAt(z, j)
           /\ \A f, own : Held(f, z, own) <=> Held(f, u, own)
           /\ \A f, st, own, own2 : Takes(f, st, own, z, own2) <=> Takes(f, st, own, u, own2)
           /\ \A st : Grows(st, z) <=> Grows(st, u)
<1>1. \A j : DataBlkAt(u, j) = DataBlkAt(z, j)
  BY DEF DataBlkAt, Leaf
<1>2. \A own, x, y : Marked(z, own, x, y) <=> Marked(u, own, x, y)
  BY DEF Marked
<1>3. \A f, own, n : Paths(f, z, own, n) <=> Paths(f, u, own, n)
  BY <1>2 DEF Paths, Rooted
<1>4. \A f, own : Held(f, z, own) <=> Held(f, u, own)
  BY <1>1, <1>2, <1>3 DEF Held, DataHeld
<1>5. \A f, st, own, own2 : Takes(f, st, own, z, own2) <=> Takes(f, st, own, u, own2)
  BY DEF Takes
<1>6. \A st : Grows(st, z) <=> Grows(st, u)
  BY <1>1 DEF Grows
<1>7. QED
  BY <1>1, <1>4, <1>5, <1>6

(* The meta from before a push still finds the file's blocks after it.     *)
LEMMA Reverted ==
    ASSUME NEW f, NEW st \in States, NEW own, Held(f, st, own), NEW t, NEW own2,
           Extended(f, st, own, t, own2), NEW u, u.slot = t.slot, u.free = t.free,
           u.m.blk = st.m.blk, u.m.first = st.m.first, u.m.ptr1 = st.m.ptr1, u.m.ptr2 = st.m.ptr2
    PROVE  Held(f, u, own2) /\ Takes(f, st, own, u, own2) /\ Grows(st, u)
<1> DEFINE n == st.m.blk
<1>0. n \in Nat /\ n <= MaxBlk /\ t \in States /\ t.m.blk \in Nat /\ n <= t.m.blk
  BY StateFields DEF Held, Extended, Grows
<1>1. Takes(f, st, own, u, own2)
  BY DEF Extended, Takes
<1>2. /\ n > 1 => t.m.ptr1 = u.m.ptr1
      /\ n > L2 => t.m.ptr2 = u.m.ptr2
      /\ \A i \in 0 .. n - 1 : DataBlkAt(t, i) = DataBlkAt(st, i)
  BY DEF Extended, Grows
<1>3. Paths(f, t, own2, t.m.blk) /\ DataHeld(f, t, own2)
  BY DEF Extended, Held
<1>4. \A x, y : Marked(t, own2, x, y) <=> Marked(u, own2, x, y)
  BY DEF Marked
<1>5. Paths(f, u, own2, n)
  BY <1>0, <1>2, <1>3, <1>4, Levels DEF Paths, Rooted
<1>6. \A i \in 0 .. n - 1 : DataBlkAt(u, i) = DataBlkAt(st, i)
  <2> SUFFICES ASSUME NEW i \in 0 .. n - 1 PROVE DataBlkAt(u, i) = DataBlkAt(st, i)
    OBVIOUS
  <2>1. CASE i = 0
    BY <2>1 DEF DataBlkAt
  <2>2. CASE i \in 1 .. n - 1
    <3>1. Leaf(u, i) = Leaf(t, i)
      BY <1>0, <1>2, <2>2, Levels DEF Leaf
    <3>2. QED
      BY <1>2, <2>2, <3>1 DEF DataBlkAt
  <2>3. QED
    BY <1>0, <2>1, <2>2
<1>7. DataHeld(f, u, own2)
  BY <1>0, <1>2, <1>3, <1>4, <1>6 DEF DataHeld
<1>8. Grows(st, u)
  BY <1>0, <1>6, <1>2 DEF Grows, Extended
<1>9. QED
  BY <1>0, <1>1, <1>5, <1>7, <1>8 DEF Held

LEMMA DataInPtrs ==
    ASSUME NEW f, NEW st \in States, NEW own, Held(f, st, own), NEW i \in 0 .. st.m.blk - 1
    PROVE  DataBlkAt(st, i) \in Ptrs
<1>0. st.m.blk \in Nat
  BY StateFields
<1>1. CASE i = 0
  BY <1>1, StateFields DEF DataBlkAt
<1>2. CASE i \in 1 .. st.m.blk - 1
  <2>1. Leaf(st, i) \in Blocks /\ Position(i) \in 0 .. F - 1
    BY <1>0, <1>2, LeafMarked DEF Held
  <2>2. QED
    BY <1>2, <2>1, StateFields DEF DataBlkAt
<1>3. QED
  BY <1>0, <1>1, <1>2

(* Null blocks come before the addresses that follow them.                 *)
HoleFirst(st) ==
    \A i \in 0 .. st.m.blk - 1 :
       DataBlkAt(st, i) = FOREIGN => \E j \in 0 .. i - 1 : DataBlkAt(st, j) = NULL

(* All bytes are in blocks of the region.                                  *)
Solid(st) ==
    \A i \in 0 .. MaxBlk : i * BlockBytes < st.m.size => i < st.m.blk /\ DataBlkAt(st, i) \in Blocks

(* What has been pushed: blocks of the region, or a null block first.      *)
Fresh(st, t) ==
    \/ \A i \in st.m.blk .. t.m.blk - 1 : DataBlkAt(t, i) \in Blocks
    \/ t.m.blk > st.m.blk => DataBlkAt(t, st.m.blk) = NULL

LEMMA HoleFirstOn ==
    ASSUME NEW st \in States, NEW t \in States, Grows(st, t), Fresh(st, t), HoleFirst(st)
    PROVE  HoleFirst(t)
<1>0. st.m.blk \in Nat /\ t.m.blk \in Nat /\ st.m.blk <= t.m.blk
  BY StateFields DEF Grows
<1> SUFFICES ASSUME NEW i \in 0 .. t.m.blk - 1, DataBlkAt(t, i) = FOREIGN
             PROVE  \E j \in 0 .. i - 1 : DataBlkAt(t, j) = NULL
  BY DEF HoleFirst
<1>1. CASE i < st.m.blk
  <2>1. i \in 0 .. st.m.blk - 1 /\ DataBlkAt(t, i) = DataBlkAt(st, i)
    BY <1>0, <1>1 DEF Grows
  <2>2. PICK j \in 0 .. i - 1 : DataBlkAt(st, j) = NULL
    BY <2>1 DEF HoleFirst
  <2>3. DataBlkAt(t, j) = DataBlkAt(st, j)
    BY <1>0, <2>1 DEF Grows
  <2>4. QED
    BY <2>2, <2>3
<1>2. CASE i >= st.m.blk
  <2>1. DataBlkAt(t, st.m.blk) = NULL
    BY <1>0, <1>2, NullAssumption DEF Fresh
  <2>2. i # st.m.blk
    BY <2>1, NullAssumption
  <2>3. QED
    BY <1>0, <1>2, <2>1, <2>2
<1>3. QED
  BY <1>0, <1>1, <1>2

(* What file_write makes of f's state, given the blocks it needs.          *)
Wrote(f, st, own, len, a) ==
    /\ a.ret \in 0 .. len
    /\ a.st \in States
    /\ a.st.m.size = st.m.size + a.ret
    /\ \E own2 \in Owners : Held(f, a.st, own2) /\ Takes(f, st, own, a.st, own2)
    /\ Grows(st, a.st)
    /\ a.st.fault \in {st.fault, st.fault \cup {"foreign write"}}
    /\ HoleFirst(st) => HoleFirst(a.st)

LEMMA CopiedKeeps ==
    ASSUME NEW f, NEW st \in States, NEW own, Held(f, st, own), NEW t, NEW own2,
           Extended(f, st, own, t, own2), NEW len \in Nat, Fresh(st, t)
    PROVE  /\ Wrote(f, st, own, len, Copied(t, st.m, len))
           /\ Copied(t, st.m, len).st.m.blk \in {st.m.blk, t.m.blk}
<1> DEFINE old     == st.m
           pos     == old.size
           touched == IF len = 0 THEN {} ELSE pos \div BlockBytes .. (pos + len - 1) \div BlockBytes
           nulls   == {i \in touched : DataBlkAt(t, i) = NULL}
           stop    == CHOOSE i \in nulls : \A j \in nulls : i <= j
           written == IF nulls = {} THEN len
                      ELSE IF stop * BlockBytes > pos THEN stop * BlockBytes - pos ELSE 0
           foreign == {i \in touched : DataBlkAt(t, i) = FOREIGN /\ \A j \in nulls : i < j}
           out     == IF foreign = {} THEN t ELSE Fail(t, "foreign write")
           m       == Resized(IF nulls = {} THEN t.m ELSE old, pos + written)
           a       == Copied(t, st.m, len)
<1>0. /\ t \in States /\ pos \in Nat /\ old \in Metas /\ t.m \in Metas
      /\ st.m.blk \in Nat /\ t.m.blk \in Nat /\ own2 \in Owners
      /\ t.m.size = pos /\ t.fault = st.fault
  BY StateFields DEF Extended
<1>1. a = [st |-> WithMeta(out, m), ret |-> written]
  BY DEF Copied, WithMeta
<1>2. touched \in SUBSET Nat /\ (len > 0 => \A i \in touched : i * BlockBytes < pos + len)
  <2>1. CASE len = 0
    BY <2>1
  <2>2. CASE len > 0
    <3>1. pos + len - 1 \in Nat /\ pos \div BlockBytes \in Nat /\ (pos + len - 1) \div BlockBytes \in Nat
      <4>1. pos + len - 1 \in Nat /\ BlockBytes \in Nat \ {0}
        BY <1>0, <2>2, BytesAssumption
      <4>2. QED
        BY <1>0, <4>1, DivMod
    <3>2. \A i \in touched : i \in Nat /\ i <= (pos + len - 1) \div BlockBytes
      BY <2>2, <3>1
    <3>3. \A i \in touched : i * BlockBytes <= pos + len - 1
      BY <3>1, <3>2, InBlock
    <3>4. \A i \in touched : i * BlockBytes \in Nat
      BY <3>2, BytesAssumption
    <3> HIDE DEF touched
    <3>5. QED
      BY <1>0, <3>2, <3>3, <3>4
  <2>3. QED
    BY <2>1, <2>2
<1>3. nulls # {} => stop \in nulls /\ len > 0
  <2>1. nulls \in SUBSET Nat
    BY <1>2
  <2>2. nulls # {} => \E i \in nulls : \A j \in nulls : i <= j
    <3> HIDE DEF nulls
    <3>1. QED
      BY <2>1, LeastNumber
  <2>3. nulls # {} => len > 0
    OBVIOUS
  <2> HIDE DEF nulls
  <2>4. QED
    BY <2>2, <2>3
<1>4. written \in 0 .. len
  <2>1. CASE nulls = {}
    BY <2>1
  <2>2. CASE nulls # {}
    <3>1. stop \in touched /\ stop \in Nat /\ stop * BlockBytes < pos + len
      BY <1>2, <1>3, <2>2
    <3>2. stop * BlockBytes \in Nat
      BY <3>1, BytesAssumption
    <3> HIDE DEF stop, nulls
    <3>3. QED
      BY <1>0, <2>2, <3>1, <3>2
  <2>3. QED
    BY <2>1, <2>2
<1> HIDE DEF written, foreign
<1>5. /\ out \in States /\ out.m = t.m /\ out.slot = t.slot /\ out.free = t.free
      /\ out.fault \in {t.fault, t.fault \cup {"foreign write"}}
  BY <1>0, FailFields
<1> HIDE DEF nulls, out, a
<1>6. /\ m \in Metas /\ m.size = pos + written
      /\ m.blk = (IF nulls = {} THEN t.m ELSE old).blk
      /\ m.first = (IF nulls = {} THEN t.m ELSE old).first
      /\ m.ptr1 = (IF nulls = {} THEN t.m ELSE old).ptr1
      /\ m.ptr2 = (IF nulls = {} THEN t.m ELSE old).ptr2
  <2> DEFINE k == IF nulls = {} THEN t.m ELSE old
             n == pos + written
  <2>1. k \in Metas /\ n \in Nat
    BY <1>0, <1>4
  <2> HIDE DEF k, n
  <2>2. /\ Resized(k, n) \in Metas /\ Resized(k, n).size = n
        /\ Resized(k, n).blk = k.blk /\ Resized(k, n).first = k.first
        /\ Resized(k, n).ptr1 = k.ptr1 /\ Resized(k, n).ptr2 = k.ptr2
    BY <2>1 DEF Metas, Resized
  <2>3. QED
    BY <2>2 DEF k, n
<1> HIDE DEF m
<1> DEFINE u == WithMeta(out, m)
<1>7. u \in States /\ u.m = m /\ u.slot = t.slot /\ u.free = t.free /\ u.fault = out.fault
  BY <1>5, <1>6, SetMeta
<1>8. a.st = u /\ a.ret = written
  BY <1>1
<1> HIDE DEF u
<1>9. /\ Held(f, u, own2) /\ Takes(f, st, own, u, own2) /\ Grows(st, u)
      /\ u.m.blk \in {st.m.blk, t.m.blk}
      /\ HoleFirst(st) => HoleFirst(u)
  <2>1. CASE nulls = {}
    <3>1. u.m.blk = t.m.blk /\ u.m.first = t.m.first /\ u.m.ptr1 = t.m.ptr1 /\ u.m.ptr2 = t.m.ptr2
      BY <1>6, <1>7, <2>1
    <3>2. /\ Held(f, u, own2) /\ Takes(f, st, own, u, own2) /\ Grows(st, u)
          /\ \A j : DataBlkAt(u, j) = DataBlkAt(t, j)
      BY <1>7, <3>1, SameBlocks DEF Extended
    <3>3. Fresh(st, u)
      BY <3>1, <3>2 DEF Fresh
    <3>4. QED
      BY <1>7, <3>1, <3>2, <3>3, HoleFirstOn
  <2>2. CASE nulls # {}
    <3>1. u.m.blk = old.blk /\ u.m.first = old.first /\ u.m.ptr1 = old.ptr1 /\ u.m.ptr2 = old.ptr2
      BY <1>6, <1>7, <2>2
    <3>2. Held(f, u, own2) /\ Takes(f, st, own, u, own2) /\ Grows(st, u)
      BY <1>7, <3>1, Reverted
    <3>3. Fresh(st, u)
      BY <1>0, <3>1 DEF Fresh
    <3>4. QED
      BY <1>7, <3>1, <3>2, <3>3, HoleFirstOn
  <2>3. QED
    BY <2>1, <2>2
<1>10. u.fault \in {st.fault, st.fault \cup {"foreign write"}}
  BY <1>0, <1>5, <1>7
<1>11. u.m.size = st.m.size + written
  BY <1>6, <1>7
<1>12. Wrote(f, st, own, len, a)
  BY <1>0, <1>4, <1>7, <1>8, <1>9, <1>10, <1>11 DEF Wrote
<1>13. QED
  BY <1>8, <1>9, <1>12 DEF a

(* When no byte of the file is in a bad place, none is written to one.     *)
LEMMA CopiedSolid ==
    ASSUME NEW f, NEW st \in States, NEW own, Held(f, st, own), NEW t, NEW own2,
           Extended(f, st, own, t, own2), NEW len \in Nat, Fresh(st, t), HoleFirst(st),
           len > 0 => BlocksFor(st.m.size + len) <= t.m.blk,
           Solid(st)
    PROVE  /\ Copied(t, st.m, len).st.fault = st.fault
           /\ Solid(Copied(t, st.m, len).st)
<1> DEFINE old     == st.m
           pos     == old.size
           touched == IF len = 0 THEN {} ELSE pos \div BlockBytes .. (pos + len - 1) \div BlockBytes
           nulls   == {i \in touched : DataBlkAt(t, i) = NULL}
           stop    == CHOOSE i \in nulls : \A j \in nulls : i <= j
           written == IF nulls = {} THEN len
                      ELSE IF stop * BlockBytes > pos THEN stop * BlockBytes - pos ELSE 0
           foreign == {i \in touched : DataBlkAt(t, i) = FOREIGN /\ \A j \in nulls : i < j}
           out     == IF foreign = {} THEN t ELSE Fail(t, "foreign write")
           m       == Resized(IF nulls = {} THEN t.m ELSE old, pos + written)
           a       == Copied(t, st.m, len)
<1>0. /\ t \in States /\ pos \in Nat /\ old \in Metas /\ t.m \in Metas
      /\ st.m.blk \in Nat /\ t.m.blk \in Nat /\ st.m.blk <= t.m.blk /\ st.m.blk <= MaxBlk
      /\ t.m.size = pos /\ t.fault = st.fault /\ Held(f, t, own2)
      /\ \A i \in 0 .. st.m.blk - 1 : DataBlkAt(t, i) = DataBlkAt(st, i)
      /\ BlockBytes \in Nat \ {0} /\ MaxBlk \in Nat
  BY StateFields, BytesAssumption, Levels DEF Extended, Grows, Held
<1>1. a = [st |-> WithMeta(out, m), ret |-> written]
  BY DEF Copied, WithMeta
<1>2. ASSUME NEW i \in touched
      PROVE  i \in Nat /\ i < t.m.blk /\ pos \div BlockBytes <= i /\ DataBlkAt(t, i) \in Ptrs
  <2>1. len > 0
    BY <1>2
  <2>2. pos \div BlockBytes \in Nat /\ (pos + len - 1) \div BlockBytes \in Nat
    <3>1. pos + len - 1 \in Nat
      BY <1>0, <2>1
    <3>2. QED
      BY <1>0, <3>1, DivMod
  <2>3. (pos + len - 1) \div BlockBytes <= (pos + len) \div BlockBytes
    <3>1. pos + len - 1 \in Nat /\ pos + len \in Nat /\ pos + len - 1 <= pos + len
      BY <1>0, <2>1
    <3>2. QED
      BY <1>0, <3>1, DivMonotone
  <2>4. (pos + len) \div BlockBytes \in Nat
    <3>1. pos + len \in Nat
      BY <1>0
    <3>2. QED
      BY <1>0, <3>1, DivMod
  <2>5. (pos + len) \div BlockBytes + 1 <= t.m.blk
    BY <2>1 DEF BlocksFor
  <2>6. i \in Nat /\ i < t.m.blk /\ pos \div BlockBytes <= i
    BY <1>0, <1>2, <2>1, <2>2, <2>3, <2>4, <2>5
  <2> HIDE DEF touched
  <2>7. i \in 0 .. t.m.blk - 1
    BY <1>0, <2>6
  <2>8. QED
    BY <1>0, <2>6, <2>7, DataInPtrs
<1>3. ASSUME NEW i \in Nat, pos <= i * BlockBytes, i * BlockBytes < pos + len
      PROVE  i \in touched
  <2>1. len > 0 /\ i * BlockBytes \in Nat /\ pos + len - 1 \in Nat
    BY <1>0, <1>3
  <2>2. (pos + len - 1) \div BlockBytes \in Nat /\ i <= (pos + len - 1) \div BlockBytes
    <3>1. i * BlockBytes <= pos + len - 1
      BY <1>0, <1>3, <2>1
    <3>2. QED
      BY <2>1, <3>1, InBlock
  <2>3. pos \div BlockBytes \in Nat /\ pos \div BlockBytes <= i
    <3>1. i < pos \div BlockBytes => i * BlockBytes < pos
      BY <1>0, InBlock
    <3>2. pos \div BlockBytes \in Nat
      BY <1>0, DivMod
    <3>3. QED
      BY <1>0, <1>3, <2>1, <3>1, <3>2
  <2>4. QED
    BY <2>1, <2>2, <2>3
<1>4. ASSUME NEW i \in 0 .. MaxBlk, i < pos \div BlockBytes
      PROVE  i < st.m.blk /\ DataBlkAt(t, i) \in Blocks
  <2>1. i * BlockBytes < pos /\ i \in Nat
    BY <1>0, <1>4, InBlock
  <2>2. QED
    BY <1>0, <2>1 DEF Solid
<1> HIDE DEF touched
<1>5. nulls # {} => stop \in nulls /\ \A j \in nulls : stop <= j
  <2>1. nulls \in SUBSET Nat
    BY <1>2
  <2>2. nulls # {} => \E i \in nulls : \A j \in nulls : i <= j
    <3> HIDE DEF nulls
    <3>1. QED
      BY <2>1, LeastNumber
  <2> HIDE DEF nulls
  <2>3. QED
    BY <2>2
<1> HIDE DEF stop
<1>6. foreign = {}
  <2> SUFFICES ASSUME NEW i \in foreign PROVE FALSE
    OBVIOUS
  <2>1. /\ i \in touched /\ i \in Nat /\ i < t.m.blk /\ DataBlkAt(t, i) = FOREIGN
        /\ \A j \in nulls : i < j
    BY <1>2
  <2>2. HoleFirst(t)
    BY <1>0, HoleFirstOn DEF Extended
  <2>3. PICK j \in 0 .. i - 1 : DataBlkAt(t, j) = NULL
    BY <1>0, <2>1, <2>2 DEF HoleFirst
  <2>4. j \in Nat /\ j < i /\ j \in 0 .. MaxBlk
    BY <1>0, <2>1 DEF Held
  <2>5. j \notin touched
    BY <2>1, <2>3, <2>4
  <2>6. j < pos \div BlockBytes
    <3>1. i \in pos \div BlockBytes .. (pos + len - 1) \div BlockBytes
      BY <2>1 DEF touched
    <3>2. pos \div BlockBytes \in Nat
      BY <1>0, DivMod
    <3>3. touched = pos \div BlockBytes .. (pos + len - 1) \div BlockBytes
      BY <2>1 DEF touched
    <3> HIDE DEF touched
    <3>4. (pos + len - 1) \div BlockBytes \in Int
      <4>1. (pos + len - 1) \in Int
        BY <1>0
      <4>2. QED
        BY <1>0, <4>1
    <3>5. QED
      BY <2>4, <2>5, <3>1, <3>2, <3>3, <3>4
  <2>7. QED
    BY <1>4, <2>3, <2>4, <2>6, NullAssumption
<1>7. out = t
  BY <1>6
<1> HIDE DEF foreign, out, a
<1>8. nulls # {} => stop \in touched /\ stop \in Nat /\ DataBlkAt(t, stop) = NULL
  BY <1>2, <1>5
<1> HIDE DEF nulls
<1>9. written \in Nat
  BY <1>0, <1>8
<1>10. /\ m \in Metas /\ m.size = pos + written
       /\ m.blk = (IF nulls = {} THEN t.m ELSE old).blk
       /\ m.first = (IF nulls = {} THEN t.m ELSE old).first
       /\ m.ptr1 = (IF nulls = {} THEN t.m ELSE old).ptr1
       /\ m.ptr2 = (IF nulls = {} THEN t.m ELSE old).ptr2
  <2> DEFINE k == IF nulls = {} THEN t.m ELSE old
             n == pos + written
  <2>1. k \in Metas /\ n \in Nat
    <3> HIDE DEF written
    <3>1. QED
      BY <1>0, <1>9
  <2> HIDE DEF k, n
  <2>2. /\ Resized(k, n) \in Metas /\ Resized(k, n).size = n
        /\ Resized(k, n).blk = k.blk /\ Resized(k, n).first = k.first
        /\ Resized(k, n).ptr1 = k.ptr1 /\ Resized(k, n).ptr2 = k.ptr2
    BY <2>1 DEF Metas, Resized
  <2>3. QED
    BY <2>2 DEF k, n
<1> HIDE DEF m
<1> DEFINE u == WithMeta(t, m)
<1>11. u \in States /\ u.m = m /\ u.slot = t.slot /\ u.free = t.free /\ u.fault = t.fault
  BY <1>0, <1>10, SetMeta
<1>12. a.st = u
  BY <1>1, <1>7
<1> HIDE DEF u
<1>13. u.m.blk >= st.m.blk /\ \A i \in 0 .. u.m.blk - 1 : DataBlkAt(u, i) = DataBlkAt(t, i)
  <2>1. CASE nulls = {}
    <3>1. u.m.blk = t.m.blk /\ u.m.first = t.m.first /\ u.m.ptr1 = t.m.ptr1 /\ u.m.ptr2 = t.m.ptr2
      BY <1>10, <1>11, <2>1
    <3>2. QED
      BY <1>0, <1>11, <3>1, SameBlocks
  <2>2. CASE nulls # {}
    <3>1. u.m.blk = old.blk /\ u.m.first = old.first /\ u.m.ptr1 = old.ptr1 /\ u.m.ptr2 = old.ptr2
      BY <1>10, <1>11, <2>2
    <3>2. Grows(st, u)
      BY <1>11, <3>1, Reverted
    <3>3. QED
      BY <1>0, <3>1, <3>2 DEF Grows
  <2>3. QED
    BY <2>1, <2>2
<1>14. ASSUME NEW i \in 0 .. MaxBlk, i * BlockBytes < pos + written
       PROVE  i < u.m.blk /\ DataBlkAt(t, i) \in Blocks
  <2>0. i \in Nat /\ i * BlockBytes \in Nat /\ u.m.blk \in Nat
    BY <1>0, <1>11, StateFields
  <2>1. CASE i * BlockBytes < pos
    <3>1. i < st.m.blk /\ DataBlkAt(st, i) \in Blocks
      BY <2>1 DEF Solid
    <3>2. QED
      BY <1>0, <1>13, <2>0, <3>1
  <2>2. CASE pos <= i * BlockBytes /\ nulls = {}
    <3>1. i \in touched
      BY <1>3, <1>14, <2>0, <2>2
    <3>2. DataBlkAt(t, i) # NULL /\ DataBlkAt(t, i) # FOREIGN
      BY <1>6, <2>2, <3>1 DEF nulls, foreign
    <3>3. DataBlkAt(t, i) \in Ptrs /\ i < t.m.blk
      BY <1>2, <3>1
    <3>4. u.m.blk = t.m.blk
      BY <1>10, <1>11, <2>2
    <3>5. QED
      BY <3>2, <3>3, <3>4 DEF Ptrs
  <2>3. CASE pos <= i * BlockBytes /\ nulls # {}
    <3>1. stop * BlockBytes \in Nat /\ i * BlockBytes < stop * BlockBytes
      BY <1>0, <1>8, <1>14, <2>0, <2>3
    <3>2. i < stop
      <4>1. SUFFICES ASSUME stop <= i PROVE FALSE
        BY <1>8, <2>0, <2>3
      <4>2. BlockBytes * stop <= BlockBytes * i
        BY <1>0, <1>8, <2>0, <2>3, <4>1
      <4>3. BlockBytes * stop = stop * BlockBytes /\ BlockBytes * i = i * BlockBytes
        BY <1>0, <1>8, <2>0, <2>3
      <4>4. QED
        BY <2>0, <3>1, <4>2, <4>3
    <3>3. i \in touched
      <4>1. pos \div BlockBytes \in Nat /\ pos \div BlockBytes <= i
        <5>1. i < pos \div BlockBytes => i * BlockBytes < pos
          BY <1>0, <2>0, InBlock
        <5>2. pos \div BlockBytes \in Nat
          BY <1>0, DivMod
        <5>3. QED
          BY <1>0, <2>0, <2>3, <5>1, <5>2
      <4>2. stop \in pos \div BlockBytes .. (pos + len - 1) \div BlockBytes
        BY <1>8, <2>3 DEF touched
      <4>3. touched = pos \div BlockBytes .. (pos + len - 1) \div BlockBytes
        BY <1>8, <2>3 DEF touched
      <4>4. (pos + len - 1) \div BlockBytes \in Int
        <5>1. (pos + len - 1) \in Int
          BY <1>0
        <5>2. QED
          BY <1>0, <5>1
      <4>5. QED
        BY <2>0, <3>2, <4>1, <4>2, <4>3, <4>4
    <3>4. i \notin nulls /\ \A j \in nulls : i < j
      <4>1. \A j \in nulls : j \in Nat
        BY <1>2 DEF nulls
      <4>2. QED
        BY <1>5, <1>8, <2>0, <2>3, <3>2, <4>1
    <3>5. DataBlkAt(t, i) # NULL /\ DataBlkAt(t, i) # FOREIGN
      BY <1>6, <3>3, <3>4 DEF nulls, foreign
    <3>6. DataBlkAt(t, i) \in Blocks
      BY <1>2, <3>3, <3>5 DEF Ptrs
    <3>7. u.m.blk = st.m.blk
      BY <1>10, <1>11, <2>3
    <3>8. i < st.m.blk
      <4>1. SUFFICES ASSUME st.m.blk <= i PROVE FALSE
        BY <1>0, <2>0
      <4>2. stop \in st.m.blk .. t.m.blk - 1 /\ t.m.blk > st.m.blk
        BY <1>0, <1>2, <1>8, <2>0, <2>3, <3>2, <4>1
      <4>3. DataBlkAt(t, stop) \notin Blocks
        BY <1>8, <2>3, NullAssumption
      <4>4. DataBlkAt(t, st.m.blk) = NULL
        BY <4>2, <4>3 DEF Fresh
      <4>5. i # st.m.blk
        BY <3>5, <4>4
      <4>6. st.m.blk \notin nulls
        <5>1. st.m.blk < stop
          BY <1>0, <1>8, <2>0, <2>3, <3>2, <4>1
        <5>2. QED
          BY <1>0, <1>5, <1>8, <2>3, <5>1
      <4>7. st.m.blk \notin touched
        BY <4>4, <4>6 DEF nulls
      <4>8. st.m.blk < pos \div BlockBytes
        <5>1. i \in pos \div BlockBytes .. (pos + len - 1) \div BlockBytes
          BY <3>3 DEF touched
        <5>2. touched = pos \div BlockBytes .. (pos + len - 1) \div BlockBytes
          BY <3>3 DEF touched
        <5>3. pos \div BlockBytes \in Nat
          BY <1>0, DivMod
        <5>4. (pos + len - 1) \div BlockBytes \in Int
          <6>1. (pos + len - 1) \in Int
            BY <1>0
          <6>2. QED
            BY <1>0, <6>1
        <5>5. QED
          BY <1>0, <2>0, <4>1, <4>7, <5>1, <5>2, <5>3, <5>4
      <4>9. st.m.blk < st.m.blk
        BY <1>0, <1>4, <4>8
      <4>10. QED
        BY <1>0, <4>9
    <3>9. QED
      BY <3>6, <3>7, <3>8
  <2>4. QED
    BY <1>0, <2>0, <2>1, <2>2, <2>3
<1>15. Solid(u)
  <2> SUFFICES ASSUME NEW i \in 0 .. MaxBlk, i * BlockBytes < u.m.size
               PROVE  i < u.m.blk /\ DataBlkAt(u, i) \in Blocks
    BY DEF Solid
  <2>1. i < u.m.blk /\ DataBlkAt(t, i) \in Blocks
    BY <1>10, <1>11, <1>14
  <2>2. u.m.blk \in Nat
    BY <1>11, StateFields
  <2>3. QED
    BY <1>0, <1>13, <2>1, <2>2
<1>16. QED
  BY <1>0, <1>11, <1>12, <1>15 DEF a

-----------------------------------------------------------------------------
(* file_append.                                                            *)

(* What it makes of f's state, whatever becomes of it.                     *)
Outcome(f, st, own, len, a) ==
    /\ a.ret \in -1 .. len
    /\ a.st \in States
    /\ a.st.m.size = st.m.size + (IF a.ret = -1 THEN 0 ELSE a.ret)
    /\ \E own2 \in Owners : Held(f, a.st, own2) /\ Takes(f, st, own, a.st, own2)
    /\ Grows(st, a.st)
    /\ a.st.fault \in {st.fault, st.fault \cup {"foreign write"}}
    /\ HoleFirst(st) => HoleFirst(a.st)
    /\ HoleFirst(st) /\ Solid(st) => a.st.fault = st.fault /\ Solid(a.st)
    /\ a.ret = -1 => /\ a.st.fault = st.fault /\ Stuck(a.st)
                     /\ len > 0 /\ a.st.m.blk < BlocksFor(st.m.size + len)

LEMMA SolidOn ==
    ASSUME NEW st \in States, NEW t \in States, Grows(st, t), t.m.size = st.m.size, Solid(st)
    PROVE  Solid(t)
<1>1. st.m.blk \in Nat /\ t.m.blk \in Nat /\ st.m.blk <= t.m.blk /\ MaxBlk \in Nat
  BY StateFields, Levels DEF Grows
<1>2. QED
  BY <1>1 DEF Solid, Grows

(* The copying after a push that did not fail.                             *)
LEMMA CopiedOutcome ==
    ASSUME NEW f, NEW st \in States, NEW own, Held(f, st, own), NEW t, NEW own2,
           Extended(f, st, own, t, own2), NEW len \in Nat, Fresh(st, t),
           len > 0 => BlocksFor(st.m.size + len) <= t.m.blk
    PROVE  Outcome(f, st, own, len, Copied(t, st.m, len))
<1> DEFINE a == Copied(t, st.m, len)
<1>1. Wrote(f, st, own, len, a)
  BY CopiedKeeps
<1>2. HoleFirst(st) /\ Solid(st) => a.st.fault = st.fault /\ Solid(a.st)
  BY CopiedSolid
<1> HIDE DEF a
<1>3. a.ret \in -1 .. len /\ a.ret # -1
  <2>1. a.ret \in 0 .. len
    BY <1>1 DEF Wrote
  <2>2. \A r \in 0 .. len : r \in -1 .. len /\ r # -1
    OBVIOUS
  <2>3. QED
    BY <2>1, <2>2
<1>4. QED
  BY <1>1, <1>2, <1>3 DEF Outcome, Wrote, a

LEMMA AppendedOutcome ==
    ASSUME NEW f \in MetaIds, NEW st \in States, NEW own \in Owners, Held(f, st, own),
           NEW len \in Nat \ {0}, st.m.size + len <= MaxSize,
           NEW segment \in Seq(Ptrs), Len(segment) \in Nat \ {0},
           st.m.blk + Len(segment) = BlocksFor(st.m.size + len),
           \A j \in 1 .. Len(segment) :
              segment[j] \in Blocks =>
                 Marked(st, own, segment[j], <<f, "data", st.m.blk + j - 1>>),
           (\A j \in 1 .. Len(segment) : segment[j] \in Blocks) \/ segment[1] = NULL,
           NEW a \in Appended(st, len, segment)
    PROVE  Outcome(f, st, own, len, a)
<1> DEFINE n == Len(segment)
           blk == st.m.blk
<1>0. n \in Nat \ {0} /\ blk \in Nat /\ st.m.size \in Nat /\ blk + n <= MaxBlk
  <2>1. st.m.size + len \in Nat /\ blk \in Nat /\ st.m.size \in Nat
    BY StateFields
  <2>2. QED
    BY <2>1, EnoughBlocks
<1>1. PICK p : Pushes(st, segment) = {p} /\ Pushed(f, st, own, segment, n, p)
  BY <1>0, PushesKeep
<1> DEFINE t == p.st
<1>2. a = IF p.failed THEN [st |-> t, ret |-> -1] ELSE Copied(t, st.m, len)
  BY <1>1 DEF Appended
<1>3. PICK own2 : Extended(f, st, own, t, own2)
  BY <1>1 DEF Pushed
<1>4. /\ t \in States /\ t.m.blk \in Nat /\ blk <= t.m.blk /\ t.m.blk <= blk + n
      /\ \A j \in 1 .. n : blk + j <= t.m.blk => DataBlkAt(t, blk + j - 1) = segment[j]
      /\ p.failed => t.m.blk < blk + n /\ Stuck(t)
      /\ ~p.failed => t.m.blk = blk + n
  <2>1. t \in States /\ blk <= t.m.blk
    BY <1>3 DEF Extended, Grows
  <2>2. t.m.blk \in Nat
    BY <2>1, StateFields
  <2>3. QED
    BY <1>1, <2>1, <2>2 DEF Pushed
<1> HIDE DEF t
<1>5. Fresh(st, t)
  <2>1. CASE \A j \in 1 .. n : segment[j] \in Blocks
    <3> SUFFICES ASSUME NEW i \in blk .. t.m.blk - 1 PROVE DataBlkAt(t, i) \in Blocks
      BY DEF Fresh
    <3>1. /\ i - blk + 1 \in 1 .. n /\ blk + (i - blk + 1) <= t.m.blk
          /\ blk + (i - blk + 1) - 1 = i
      <4>1. blk \in Nat /\ n \in Nat
        BY <1>0
      <4>2. t.m.blk \in Nat /\ t.m.blk <= blk + n
        BY <1>4
      <4> DEFINE end == t.m.blk
      <4> HIDE DEF end
      <4>3. end \in Nat /\ end <= blk + n /\ i \in blk .. end - 1
        BY <4>2 DEF end
      <4> HIDE DEF blk, n
      <4>4. /\ i - blk + 1 \in 1 .. n /\ blk + (i - blk + 1) <= end
            /\ blk + (i - blk + 1) - 1 = i
        BY <4>1, <4>3
      <4>5. QED
        BY <4>4 DEF end
    <3>2. DataBlkAt(t, i) = segment[i - blk + 1]
      <4> DEFINE j == i - blk + 1
      <4>1. j \in 1 .. n /\ blk + j <= t.m.blk /\ blk + j - 1 = i
        BY <3>1
      <4> HIDE DEF j
      <4>2. DataBlkAt(t, i) = segment[j]
        BY <1>4, <4>1
      <4>3. QED
        BY <4>2 DEF j
    <3>3. QED
      BY <2>1, <3>1, <3>2
  <2>2. CASE segment[1] = NULL
    <3>1. 1 \in 1 .. n /\ blk + 1 - 1 = blk
      BY <1>0
    <3>2. t.m.blk > blk => DataBlkAt(t, blk) = NULL
      BY <1>0, <1>4, <2>2, <3>1
    <3>3. QED
      BY <3>2 DEF Fresh
  <2>3. QED
    BY <2>1, <2>2
<1>6. CASE p.failed
  <2>1. a.st = t /\ a.ret = -1 /\ -1 \in -1 .. len
    BY <1>2, <1>6
  <2>2. HoleFirst(st) => HoleFirst(t)
    BY <1>3, <1>4, <1>5, HoleFirstOn DEF Extended
  <2>3. HoleFirst(st) /\ Solid(st) => Solid(t)
    BY <1>3, <1>4, SolidOn DEF Extended
  <2>4. /\ t.m.size = st.m.size + 0 /\ t.fault = st.fault /\ Grows(st, t)
        /\ \E own3 \in Owners : Held(f, t, own3) /\ Takes(f, st, own, t, own3)
    BY <1>0, <1>3 DEF Extended
  <2>5. Stuck(t) /\ len > 0 /\ t.m.blk < BlocksFor(st.m.size + len)
    BY <1>0, <1>4, <1>6
  <2>6. QED
    BY <1>4, <2>1, <2>2, <2>3, <2>4, <2>5 DEF Outcome
<1>7. CASE ~p.failed
  <2>1. a = Copied(t, st.m, len)
    BY <1>2, <1>7
  <2>2. len > 0 => BlocksFor(st.m.size + len) <= t.m.blk
    BY <1>0, <1>4, <1>7
  <2>3. QED
    BY <1>3, <1>5, <2>1, <2>2, CopiedOutcome
<1>8. QED
  BY <1>6, <1>7

(* The blocks the allocator gives are taken for the places behind the      *)
(* file's end.                                                             *)
LEMMA SegmentTaken ==
    ASSUME NEW f \in MetaIds, NEW st \in States, NEW own \in Owners, Held(f, st, own),
           NEW n \in Nat \ {0}, NEW s \in Segments(st, n)
    PROVE  LET t == WithFree(st, st.free \ ToSet(s), TrackAfterRequest(st, n))
           IN  /\ t.m = st.m
               /\ \E own2 : /\ Extended(f, st, own, t, own2)
                            /\ \A j \in 1 .. n : Marked(t, own2, s[j], <<f, "data", st.m.blk + j - 1>>)
<1> DEFINE t    == WithFree(st, st.free \ ToSet(s), TrackAfterRequest(st, n))
           idx(b) == CHOOSE j \in 1 .. n : s[j] = b
           own2 == [b \in Blocks |-> IF b \in ToSet(s) THEN <<f, "data", st.m.blk + idx(b) - 1>> ELSE own[b]]
<1>0. st.free \subseteq Blocks /\ st.m.blk \in Nat /\ st.free \ ToSet(s) \in SUBSET Blocks
  BY StateFields
<1>1. /\ ToSet(s) \subseteq st.free
      /\ ToSet(s) = {s[j] : j \in 1 .. n}
      /\ \A j \in 1 .. n : s[j] \in st.free
      /\ \A j, k \in 1 .. n : s[j] = s[k] => j = k
  BY <1>0, SegmentsAreFree
<1>2. /\ t \in States /\ t.m = st.m /\ t.slot = st.slot /\ t.fault = st.fault
      /\ t.free = st.free \ ToSet(s)
  BY <1>0, TrackFields, SetFree
<1>3. \A b \in ToSet(s) : idx(b) \in 1 .. n /\ s[idx(b)] = b
  BY <1>1
<1>4. \A j \in 1 .. n : idx(s[j]) = j
  BY <1>1, <1>3
<1> HIDE DEF t, idx
<1>5. own2 \in Owners
  <2>1. ASSUME NEW b \in Blocks PROVE own2[b] \in Tags
    <3>1. CASE b \in ToSet(s)
      <4>1. st.m.blk + idx(b) - 1 \in Nat
        BY <1>0, <1>3, <3>1
      <4>2. QED
        BY <3>1, <4>1 DEF Tags
    <3>2. CASE b \notin ToSet(s)
      BY <3>2 DEF Owners
    <3>3. QED
      BY <3>1, <3>2
  <2>2. QED
    BY <2>1 DEF Owners
<1>6. \A b \in Blocks \ st.free : own2[b] = own[b]
  BY <1>0, <1>1
<1>7. \A j \in 1 .. n : own2[s[j]] = <<f, "data", st.m.blk + j - 1>>
  BY <1>0, <1>1, <1>4
<1> HIDE DEF own2
<1>8. \A x, y : Marked(st, own, x, y) => Marked(t, own2, x, y)
  BY <1>1, <1>2, <1>6 DEF Marked
<1>9. \A j : DataBlkAt(t, j) = DataBlkAt(st, j)
  BY <1>2 DEF DataBlkAt, Leaf
<1>10. Held(f, t, own2)
  BY <1>2, <1>8, <1>9 DEF Held, DataHeld, Paths, Rooted
<1>11. Takes(f, st, own, t, own2)
  BY <1>2, <1>6 DEF Takes
<1>12. Grows(st, t)
  BY <1>0, <1>2, <1>9 DEF Grows
<1>13. Extended(f, st, own, t, own2)
  BY <1>2, <1>5, <1>10, <1>11, <1>12 DEF Extended
<1>14. \A j \in 1 .. n : Marked(t, own2, s[j], <<f, "data", st.m.blk + j - 1>>)
  BY <1>0, <1>1, <1>2, <1>7 DEF Marked
<1>15. QED
  BY <1>2, <1>13, <1>14 DEF t

LEMMA OutcomeOn ==
    ASSUME NEW f, NEW st \in States, NEW own, NEW t, NEW own2, Extended(f, st, own, t, own2),
           t.m = st.m, NEW len, NEW a, Outcome(f, t, own2, len, a)
    PROVE  Outcome(f, st, own, len, a)
<1>0. t \in States /\ a.st \in States /\ t.fault = st.fault
  BY DEF Extended, Outcome
<1>1. \A i \in 0 .. st.m.blk - 1 : DataBlkAt(t, i) = DataBlkAt(st, i)
  BY DEF Extended, Grows
<1>2. HoleFirst(st) => HoleFirst(t)
  <2>1. st.m.blk \in Nat
    BY StateFields
  <2>2. QED
    BY <1>1, <2>1 DEF HoleFirst
<1>3. Solid(st) => Solid(t)
  BY <1>0, SolidOn DEF Extended
<1>4. Grows(st, a.st)
  BY <1>0, GrowsOn DEF Extended, Outcome
<1>5. \A own3 : Takes(f, t, own2, a.st, own3) => Takes(f, st, own, a.st, own3)
  BY DEF Extended, Takes
<1>6. QED
  BY <1>0, <1>2, <1>3, <1>4, <1>5 DEF Outcome

LEMMA AppendsOutcome ==
    ASSUME NEW f \in MetaIds, NEW st \in States, NEW own \in Owners, Held(f, st, own),
           NEW len \in Nat, st.m.size + len <= MaxSize, NEW a \in Appends(st, len)
    PROVE  Outcome(f, st, own, len, a)
<1> DEFINE need == BlocksNeeded(st.m, len)
           taken(s) == WithFree(st, st.free \ ToSet(s), TrackAfterRequest(st, need))
<1>0. /\ st.m.size + len \in Nat /\ st.m.blk \in Nat /\ BlocksFor(st.m.size + len) \in Nat
  <2>1. st.m.size + len \in Nat /\ st.m.blk \in Nat
    BY StateFields
  <2>2. QED
    BY <2>1, EnoughBlocks
<1>1. /\ need \in Nat
      /\ need = 0 => (len > 0 => BlocksFor(st.m.size + len) <= st.m.blk)
      /\ need # 0 => len > 0 /\ st.m.blk + need = BlocksFor(st.m.size + len)
  BY <1>0 DEF BlocksNeeded
<1>2. a \in CASE need = 0 -> {Copied(st, st.m, len)}
              [] need > 0 /\ Segments(st, need) = {} -> Appended(st, len, NullSegment(need))
              [] OTHER -> UNION {Appended(taken(s), len, s) : s \in Segments(st, need)}
  BY DEF Appends, WithFree
<1> HIDE DEF need
<1>3. CASE need = 0
  <2>1. a = Copied(st, st.m, len)
    BY <1>2, <1>3
  <2>2. Extended(f, st, own, st, own)
    BY ExtendedByNothing
  <2>3. Fresh(st, st)
    BY <1>0 DEF Fresh
  <2>4. QED
    BY <1>1, <1>3, <2>1, <2>2, <2>3, CopiedOutcome
<1>4. CASE need # 0 /\ Segments(st, need) = {}
  <2> DEFINE s == NullSegment(need)
  <2>1. a \in Appended(st, len, s)
    BY <1>1, <1>2, <1>4
  <2>2. need \in Nat \ {0} /\ len \in Nat \ {0}
    BY <1>1, <1>4
  <2>3. /\ s \in Seq({NULL, FOREIGN}) /\ Len(s) = need
        /\ \A j \in 1 .. need : s[j] = IF j = 1 THEN NULL ELSE FOREIGN
    BY <2>2, NullSegments
  <2> HIDE DEF s
  <2>4. s \in Seq(Ptrs) /\ s[1] = NULL /\ \A j \in 1 .. need : s[j] \notin Blocks
    BY <2>2, <2>3, NullAssumption DEF Ptrs
  <2>5. QED
    BY <1>1, <1>4, <2>1, <2>2, <2>3, <2>4, AppendedOutcome
<1>5. CASE need # 0 /\ Segments(st, need) # {}
  <2>1. PICK s \in Segments(st, need) : a \in Appended(taken(s), len, s)
    BY <1>1, <1>2, <1>5
  <2>2. need \in Nat \ {0} /\ len \in Nat \ {0}
    BY <1>1, <1>5
  <2>3. s \in Seq(Blocks) /\ Len(s) = need /\ \A j \in 1 .. need : s[j] \in Blocks
    BY <2>2, SegmentsAreFree, StateFields
  <2> DEFINE t == taken(s)
  <2>4. PICK own2 : /\ Extended(f, st, own, t, own2)
                    /\ \A j \in 1 .. need : Marked(t, own2, s[j], <<f, "data", st.m.blk + j - 1>>)
    BY <2>2, SegmentTaken
  <2>5. t.m = st.m
    BY <2>2, SegmentTaken
  <2> HIDE DEF t
  <2>6. s \in Seq(Ptrs)
    BY <2>3 DEF Ptrs
  <2>7. t \in States /\ own2 \in Owners /\ Held(f, t, own2)
    BY <2>4 DEF Extended
  <2>8. Outcome(f, t, own2, len, a)
    <3>1. a \in Appended(t, len, s)
      BY <2>1 DEF t
    <3>2. /\ t.m.size + len <= MaxSize /\ t.m.blk + Len(s) = BlocksFor(t.m.size + len)
          /\ Len(s) \in Nat \ {0}
          /\ \A j \in 1 .. Len(s) : s[j] \in Blocks /\ Marked(t, own2, s[j], <<f, "data", t.m.blk + j - 1>>)
      BY <1>1, <1>5, <2>2, <2>3, <2>4, <2>5
    <3>3. QED
      BY <2>2, <2>6, <2>7, <3>1, <3>2, AppendedOutcome
  <2>9. QED
    BY <2>4, <2>5, <2>8, OutcomeOn
<1>6. QED
  BY <1>3, <1>4, <1>5

-----------------------------------------------------------------------------
(* ftruncate.                                                              *)

(* A push to a file that is stuck fails with its first block.              *)
LEMMA StuckFails ==
    ASSUME NEW st \in States, Stuck(st), NEW len \in Nat \ {0}, st.m.size + len <= MaxSize,
           st.m.blk < BlocksFor(st.m.size + len), NEW a \in Appends(st, len)
    PROVE  a.ret = -1
<1> DEFINE need == BlocksNeeded(st.m, len)
           s    == NullSegment(need)
           run  == PushRun(st, s)
           o    == [st |-> st, failed |-> FALSE]
           q    == PushOne(o, s[1])
           Good == {k \in 0 .. need : k > 0 => run[k] = {q}}
<1>0. st.m.size + len \in Nat /\ st.m.blk \in Nat /\ BlocksFor(st.m.size + len) \in Nat
  <2>1. st.m.size + len \in Nat /\ st.m.blk \in Nat
    BY StateFields
  <2>2. QED
    BY <2>1, EnoughBlocks
<1>1. need \in Nat \ {0}
  BY <1>0 DEF BlocksNeeded
<1>2. Segments(st, need) = {}
  BY DEF Stuck, Segments, Store!BestFits, Store!Runs
<1>3. a \in Appended(st, len, s)
  BY <1>1, <1>2 DEF Appends
<1> HIDE DEF need
<1>4. Len(s) = need
  BY <1>1, NullSegments
<1>5. /\ run[0] = {o}
      /\ \A k \in 1 .. need : run[k] = {PushOne(x, s[k]) : x \in run[k - 1]}
  <2>1. Len(s) \in Nat
    BY <1>1, <1>4
  <2> HIDE DEF s
  <2>2. /\ run[0] = {o}
        /\ \A k \in 1 .. Len(s) : run[k] = {PushOne(x, s[k]) : x \in run[k - 1]}
    BY <2>1, PushRunRounds
  <2> HIDE DEF o, run
  <2>3. QED
    BY <1>4, <2>2
<1>6. q.failed
  <2>1. o.st = st /\ o.failed = FALSE
    OBVIOUS
  <2> HIDE DEF o
  <2>2. CASE NoRoot(st, st.m.blk)
    <3>1. q = [st |-> o.st, failed |-> TRUE]
      BY <2>1, <2>2 DEF PushOne
    <3> HIDE DEF q
    <3>2. QED
      BY <3>1
  <2>3. CASE ~NoRoot(st, st.m.blk)
    <3>1. ~(st.m.blk \in {1, L2})
      BY <2>3 DEF NoRoot, Stuck
    <3>2. Roots(st, st.m.blk) = st
      BY <3>1 DEF Roots
    <3>3. NoLeaf(st, st.m.blk)
      BY <3>1 DEF Stuck, NoLeaf
    <3>4. q = [st |-> st, failed |-> TRUE]
      BY <2>1, <2>3, <3>2, <3>3 DEF PushOne
    <3> HIDE DEF q
    <3>5. QED
      BY <3>4
  <2>4. QED
    BY <2>2, <2>3
<1> HIDE DEF run, o
<1>7. 0 \in Good
  BY <1>1
<1>8. ASSUME NEW k \in 1 .. need, k - 1 \in Good PROVE k \in Good
  <2>1. CASE k = 1
    <3>1. run[1] = {PushOne(x, s[1]) : x \in {o}}
      BY <1>5, <2>1
    <3>2. QED
      BY <2>1, <3>1
  <2>2. CASE k # 1
    <3>1. run[k - 1] = {q}
      BY <1>1, <1>8, <2>2
    <3> HIDE DEF q
    <3>2. run[k] = {PushOne(x, s[k]) : x \in {q}}
      BY <1>5, <3>1
    <3>3. PushOne(q, s[k]) = q
      BY <1>6 DEF PushOne
    <3>4. QED
      BY <3>2, <3>3
  <2>3. QED
    BY <2>1, <2>2
<1> HIDE DEF Good
<1>9. need \in Good
  BY <1>1, <1>7, <1>8, CountingUp
<1>10. Pushes(st, s) = {q}
  BY <1>1, <1>4, <1>9 DEF Good, Pushes, run
<1> HIDE DEF q
<1>11. QED
  BY <1>3, <1>6, <1>10 DEF Appended

(* The state after some rounds of ftruncate's loop.                        *)
Grew(f, st, own, x) ==
    /\ x.st \in States /\ x.i \in Int
    /\ \E own2 \in Owners : Held(f, x.st, own2) /\ Takes(f, st, own, x.st, own2)
    /\ Grows(st, x.st)
    /\ x.st.fault \in {st.fault, st.fault \cup {"foreign write"}}
    /\ HoleFirst(st) => HoleFirst(x.st)
    /\ HoleFirst(st) /\ Solid(st) => x.st.fault = st.fault /\ Solid(x.st)
    /\ \/ x.i >= 0 /\ x.st.m.size = st.m.size + x.i
       \/ /\ Stuck(x.st)
          /\ x.st.m.size + Chunk <= MaxSize
          /\ x.st.m.blk < BlocksFor(x.st.m.size + Chunk)

LEMMA GrowRoundKeeps ==
    ASSUME NEW f \in MetaIds, NEW st \in States, NEW own \in Owners, NEW target \in Nat,
           st.m.size + target + Chunk - 1 <= MaxSize,
           NEW x, Grew(f, st, own, x), NEW y \in GrowRound(x, target)
    PROVE  Grew(f, st, own, y)
<1> DEFINE z == x.st
<1>0. /\ z \in States /\ x.i \in Int /\ z.m.size \in Nat /\ st.m.size \in Nat /\ z.m.blk \in Nat
      /\ Chunk \in Nat \ {0} /\ MaxSize \in Nat
  BY StateFields, BytesAssumption, SizeAssumption DEF Grew
<1>1. CASE x.done \/ x.i < 0 \/ x.i >= target \/ z.fault # {}
  <2>1. y = [x EXCEPT !.done = TRUE]
    BY <1>1 DEF GrowRound
  <2>2. y.st = x.st /\ y.i = x.i
    BY <2>1
  <2>3. QED
    BY <2>2 DEF Grew
<1>2. CASE ~(x.done \/ x.i < 0 \/ x.i >= target \/ z.fault # {})
  <2>1. PICK a \in Appends(z, Chunk) :
           y = [st |-> a.st, i |-> x.i + a.ret, done |-> a.ret = 0, ret |-> IF a.ret = 0 THEN 999 ELSE 0]
    BY <1>2 DEF GrowRound
  <2>2. y.st = a.st /\ y.i = x.i + a.ret
    BY <2>1
  <2>3. x.i \in 0 .. target - 1
    BY <1>0, <1>2
  <2>4. z.m.size + Chunk <= MaxSize
    <3>1. CASE x.i >= 0 /\ z.m.size = st.m.size + x.i
      <4> HIDE DEF z
      <4>1. QED
        BY <1>0, <2>3, <3>1
    <3>2. CASE z.m.size + Chunk <= MaxSize
      BY <3>2
    <3>3. QED
      BY <3>1, <3>2 DEF Grew
  <2>5. PICK own2 \in Owners : Held(f, z, own2) /\ Takes(f, st, own, z, own2)
    BY DEF Grew
  <2> HIDE DEF z
  <2>6. Outcome(f, z, own2, Chunk, a)
    BY <1>0, <2>4, <2>5, AppendsOutcome
  <2>7. a.ret \in -1 .. Chunk /\ a.st \in States
    BY <2>6 DEF Outcome
  <2>8. \E own3 \in Owners : Held(f, a.st, own3) /\ Takes(f, st, own, a.st, own3)
    <3>1. PICK own3 \in Owners : Held(f, a.st, own3) /\ Takes(f, z, own2, a.st, own3)
      BY <2>6 DEF Outcome
    <3>2. Takes(f, st, own, a.st, own3)
      BY <2>5, <3>1 DEF Takes
    <3>3. QED
      BY <3>1, <3>2
  <2>9. Grows(st, a.st)
    <3>1. Grows(st, z) /\ Grows(z, a.st)
      BY <2>6 DEF Grew, Outcome, z
    <3>2. QED
      BY <1>0, <2>7, <3>1, GrowsOn
  <2>10. /\ a.st.fault \in {st.fault, st.fault \cup {"foreign write"}}
         /\ HoleFirst(st) => HoleFirst(a.st)
         /\ HoleFirst(st) /\ Solid(st) => a.st.fault = st.fault /\ Solid(a.st)
    <3>1. /\ z.fault \in {st.fault, st.fault \cup {"foreign write"}}
          /\ HoleFirst(st) => HoleFirst(z)
          /\ HoleFirst(st) /\ Solid(st) => z.fault = st.fault /\ Solid(z)
      BY DEF Grew, z
    <3>2. /\ a.st.fault \in {z.fault, z.fault \cup {"foreign write"}}
          /\ HoleFirst(z) => HoleFirst(a.st)
          /\ HoleFirst(z) /\ Solid(z) => a.st.fault = z.fault /\ Solid(a.st)
      BY <2>6 DEF Outcome
    <3>3. QED
      BY <3>1, <3>2
  <2>11. \/ y.i >= 0 /\ a.st.m.size = st.m.size + y.i
         \/ /\ Stuck(a.st)
            /\ a.st.m.size + Chunk <= MaxSize
            /\ a.st.m.blk < BlocksFor(a.st.m.size + Chunk)
    <3>1. a.st.m.size = z.m.size + (IF a.ret = -1 THEN 0 ELSE a.ret)
      BY <2>6 DEF Outcome
    <3>2. CASE a.ret = -1
      <4>1. Stuck(a.st) /\ a.st.m.blk < BlocksFor(z.m.size + Chunk)
        BY <2>6, <3>2 DEF Outcome
      <4>2. a.st.m.size = z.m.size
        BY <1>0, <3>1, <3>2
      <4>3. QED
        BY <2>4, <4>1, <4>2
    <3>3. CASE a.ret # -1
      <4>1. ~(Stuck(z) /\ z.m.blk < BlocksFor(z.m.size + Chunk))
        BY <1>0, <2>4, <3>3, StuckFails
      <4>2. z.m.size = st.m.size + x.i
        BY <4>1 DEF Grew, z
      <4>3. a.ret \in 0 .. Chunk /\ a.st.m.size = z.m.size + a.ret
        BY <1>0, <2>7, <3>1, <3>3
      <4>4. QED
        BY <1>0, <2>2, <2>3, <4>2, <4>3
    <3>4. QED
      BY <3>2, <3>3
  <2>12. y.i \in Int
    BY <1>0, <2>2, <2>7
  <2>13. QED
    BY <2>2, <2>7, <2>8, <2>9, <2>10, <2>11, <2>12 DEF Grew
<1>3. QED
  BY <1>1, <1>2

LEMMA GrownKeeps ==
    ASSUME NEW f \in MetaIds, NEW st \in States, NEW own \in Owners, Held(f, st, own),
           NEW target \in Nat, st.m.size + target + Chunk - 1 <= MaxSize,
           NEW x \in Grown(st, target)
    PROVE  Grew(f, st, own, x)
<1> DEFINE n    == Rounds(target)
           run  == GrowRun(st, target)
           Good == {k \in 0 .. n : \A y \in run[k] : Grew(f, st, own, y)}
<1>0. n \in Nat /\ x \in run[n]
  BY DEF Rounds, Grown
<1>1. /\ run[0] = {[st |-> st, i |-> 0, done |-> FALSE, ret |-> 0]}
      /\ \A k \in 1 .. n : run[k] = UNION {GrowRound(y, target) : y \in run[k - 1]}
  BY GrowRunRounds
<1> HIDE DEF n, run
<1>2. 0 \in Good
  <2> DEFINE y == [st |-> st, i |-> 0, done |-> FALSE, ret |-> 0]
  <2>1. y.st = st /\ y.i = 0
    OBVIOUS
  <2>6. run[0] = {y}
    BY <1>1
  <2> HIDE DEF y
  <2>2. Takes(f, st, own, st, own) /\ Grows(st, st)
    BY ExtendedByNothing DEF Extended
  <2>3. st.m.size = st.m.size + 0
    BY StateFields
  <2>4. Grew(f, st, own, y)
    BY <2>1, <2>2, <2>3 DEF Grew
  <2>5. QED
    BY <1>0, <2>4, <2>6
<1>3. ASSUME NEW k \in 1 .. n, k - 1 \in Good PROVE k \in Good
  <2>1. ASSUME NEW y \in run[k] PROVE Grew(f, st, own, y)
    <3>1. PICK z \in run[k - 1] : y \in GrowRound(z, target)
      BY <1>1, <2>1
    <3>2. Grew(f, st, own, z)
      BY <1>3
    <3>3. QED
      BY <3>1, <3>2, GrowRoundKeeps
  <2>2. QED
    BY <2>1
<1> HIDE DEF Good
<1>4. n \in Good
  BY <1>0, <1>2, <1>3, CountingUp
<1>5. QED
  BY <1>0, <1>4 DEF Good

-----------------------------------------------------------------------------
(* Other files.                                                            *)

(* A block in use that is not f's stays as it is.                          *)
LEMMA StaysHeld ==
    ASSUME NEW f, NEW g, g # f, NEW z \in States, NEW own, Held(g, z, own),
           NEW u, NEW own2, Frame(f, z, own, u, own2), u.m = z.m
    PROVE  /\ Held(g, u, own2)
           /\ \A i \in 0 .. z.m.blk - 1 : DataBlkAt(u, i) = DataBlkAt(z, i)
           /\ z.m.blk > L2 => u.slot[z.m.ptr2] = z.slot[z.m.ptr2]
<1> DEFINE n == z.m.blk
<1>0. n \in Nat /\ n <= MaxBlk /\ Paths(g, z, own, n)
  BY StateFields DEF Held
<1>1. \A b, k, j : Marked(z, own, b, <<g, k, j>>) => Marked(u, own2, b, <<g, k, j>>) /\ u.slot[b] = z.slot[b]
  BY DEF Marked, Frame
<1>2. n > L2 => u.slot[z.m.ptr2] = z.slot[z.m.ptr2]
  BY <1>0, <1>1 DEF Paths, Rooted
<1>3. Paths(g, u, own2, n)
  BY <1>0, <1>1, <1>2 DEF Paths, Rooted
<1>4. \A i \in 0 .. n - 1 : DataBlkAt(u, i) = DataBlkAt(z, i)
  <2> SUFFICES ASSUME NEW i \in 0 .. n - 1 PROVE DataBlkAt(u, i) = DataBlkAt(z, i)
    OBVIOUS
  <2>1. CASE i = 0
    BY <2>1 DEF DataBlkAt
  <2>2. CASE i \in 1 .. n - 1
    <3>1. Marked(z, own, Leaf(z, i), IF i < L2 THEN <<g, "root", 1>> ELSE <<g, "leaf", Child(i)>>)
      BY <1>0, <2>2, LeafMarked
    <3>2. u.slot[Leaf(z, i)] = z.slot[Leaf(z, i)]
      BY <1>1, <3>1
    <3>3. Leaf(u, i) = Leaf(z, i)
      BY <1>0, <1>2, <2>2, Levels DEF Leaf
    <3>4. QED
      BY <2>2, <3>2, <3>3 DEF DataBlkAt
  <2>3. QED
    BY <1>0, <2>1, <2>2
<1>5. DataHeld(g, u, own2)
  BY <1>1, <1>4 DEF Held, DataHeld
<1>6. QED
  BY <1>0, <1>2, <1>3, <1>4, <1>5 DEF Held

LEMMA TakesFrame ==
    ASSUME NEW f, NEW st, NEW own, NEW t, NEW own2, Takes(f, st, own, t, own2)
    PROVE  Frame(f, st, own, t, own2)
BY DEF Takes, Frame

LEMMA ShrinksHoleFirst ==
    ASSUME NEW f, NEW st \in States, NEW own, NEW t, Shrinks(f, st, own, t), HoleFirst(st)
    PROVE  HoleFirst(t)
<1>1. st.m.blk \in Nat /\ t.m.blk \in Nat /\ t.m.blk <= st.m.blk
  BY StateFields DEF Shrinks
<1>2. QED
  BY <1>1 DEF Shrinks, HoleFirst

WithSize(z, n) == [z EXCEPT !.m.size = n]

LEMMA SetSize ==
    ASSUME NEW z \in States, NEW n \in Nat
    PROVE  LET t == WithSize(z, n)
           IN  /\ t \in States /\ t.slot = z.slot /\ t.free = z.free /\ t.fault = z.fault
               /\ t.m.size = n /\ t.m.blk = z.m.blk
               /\ t.m.first = z.m.first /\ t.m.ptr1 = z.m.ptr1 /\ t.m.ptr2 = z.m.ptr2
<1> DEFINE w == [z.m EXCEPT !.size = n]
<1>1. /\ w \in Metas
      /\ w.size = n /\ w.blk = z.m.blk
      /\ w.first = z.m.first /\ w.ptr1 = z.m.ptr1 /\ w.ptr2 = z.m.ptr2
  BY StateFields DEF Metas
<1>2. WithSize(z, n) = WithMeta(z, w)
  BY DEF WithSize, WithMeta
<1> HIDE DEF w
<1>3. QED
  BY <1>1, <1>2, SetMeta

(* The pointer blocks a file reaches.                                      *)
LEMMA PtrBlkUse ==
    ASSUME NEW f, NEW st \in States, NEW own, Held(f, st, own), NEW b \in PtrBlksOf(st)
    PROVE  b \in Blocks \ st.free /\ own[b][1] = f /\ own[b][2] # "data"
<1>1. st.m.blk \in Nat /\ st.m.blk <= MaxBlk
  BY StateFields DEF Held
<1>2. CASE \E i \in 1 .. st.m.blk - 1 : b = Leaf(st, i)
  <2>1. PICK i \in 1 .. st.m.blk - 1 : b = Leaf(st, i)
    BY <1>2
  <2>2. Paths(f, st, own, st.m.blk)
    BY DEF Held
  <2>3. Marked(st, own, b, IF i < L2 THEN <<f, "root", 1>> ELSE <<f, "leaf", Child(i)>>)
    BY <1>1, <2>1, <2>2, LeafMarked
  <2>4. QED
    BY <2>3 DEF Marked
<1>3. CASE st.m.blk > L2 /\ b = st.m.ptr2
  <2>1. Marked(st, own, b, <<f, "root", 2>>)
    BY <1>3 DEF Held, Paths, Rooted
  <2>2. QED
    BY <2>1 DEF Marked
<1>4. QED
  BY <1>2, <1>3 DEF PtrBlksOf

(* Discarding a file's tail leaves the blocks in front of it.              *)
LEMMA DiscardedKeeps ==
    ASSUME NEW f \in MetaIds, NEW st \in States, NEW own \in Owners, Held(f, st, own),
           st.fault = {}, NEW len \in Nat, len <= st.m.size
    PROVE  LET u == Discarded(st, len)
           IN  /\ u \in States /\ Held(f, u, own) /\ Frame(f, st, own, u, own)
               /\ u.m.blk <= st.m.blk
               /\ \A i \in 0 .. u.m.blk - 1 : DataBlkAt(u, i) = DataBlkAt(st, i)
<1> DEFINE size == st.m.size - len
           new  == BlocksFor(size)
           gone == IF st.m.blk >= new THEN st.m.blk - new ELSE st.m.blk
           z    == WithSize(st, size)
           u    == Pop(z, gone)
<1>1. st.m.size \in Nat /\ st.m.blk \in Nat /\ size \in Nat
  BY StateFields
<1>2. gone \in Nat
  <2>1. new \in Nat
    BY <1>1, BytesAssumption, DivMod DEF BlocksFor
  <2> HIDE DEF new
  <2>2. QED
    BY <1>1, <2>1
<1>3. u = Discarded(st, len)
  BY DEF Discarded, WithSize
<1> HIDE DEF size
<1>4. /\ z \in States /\ z.slot = st.slot /\ z.free = st.free /\ z.fault = {}
      /\ z.m.blk = st.m.blk /\ z.m.first = st.m.first
      /\ z.m.ptr1 = st.m.ptr1 /\ z.m.ptr2 = st.m.ptr2
  BY <1>1, SetSize
<1> HIDE DEF z, gone
<1>5. Held(f, z, own) /\ \A j : DataBlkAt(z, j) = DataBlkAt(st, j)
  BY <1>4, SameBlocks
<1>6. Popped(f, z, own, u, AtMost(z, gone))
  BY <1>2, <1>4, <1>5, PopKeeps
<1> HIDE DEF u
<1>7. Held(f, u, own) /\ Shrinks(f, z, own, u)
  BY <1>6 DEF Popped
<1>8. /\ u \in States /\ u.m.blk <= st.m.blk
      /\ \A i \in 0 .. u.m.blk - 1 : DataBlkAt(u, i) = DataBlkAt(st, i)
  BY <1>4, <1>5, <1>7 DEF Shrinks
<1>9. Frame(f, st, own, u, own)
  BY <1>4, <1>7 DEF Shrinks, Frame
<1>10. QED
  BY <1>3, <1>7, <1>8, <1>9
=============================================================================
