----------------------------- MODULE HeapProofs -----------------------------
(***************************************************************************)
(* Theorems about the heap for every number of blocks and every set of     *)
(* sizes: its types, its accounting, the room in a segment, what a null    *)
(* pointer read means and that segments stay where they are.               *)
(***************************************************************************)
EXTENDS Heap, SequenceTheorems, TLAPS

-----------------------------------------------------------------------------
(* Lists, as functions on 1 .. n.                                          *)

Elements(q, n) == {q[j] : j \in 1 .. n}

Injective(q, n) == \A i, j \in 1 .. n : q[i] = q[j] => i = j

(* What is left when a run of k consecutive numbers is taken out of a list *)
(* without duplicates: the rest, still without duplicates.                 *)
LEMMA TakingARun ==
    ASSUME NEW q, NEW n \in Nat, \A j \in 1 .. n : q[j] \in Nat, Injective(q, n),
           NEW i \in 1 .. n, NEW k \in Nat \ {0}, i + k - 1 <= n,
           \A j \in 1 .. k - 1 : q[i + j] = q[i] + j,
           NEW r,
           \A j \in 1 .. i - 1 : r[j] = q[j],
           \A j \in i .. n - k : r[j] = q[j + k]
    PROVE  /\ Injective(r, n - k)
           /\ Elements(r, n - k) = Elements(q, n) \ (q[i] .. q[i] + (k - 1))
           /\ q[i] .. q[i] + (k - 1) \subseteq Elements(q, n)
<1>1. \A j \in 0 .. k - 1 : i + j \in 1 .. n /\ q[i + j] = q[i] + j
  OBVIOUS
<1>2. \A b \in q[i] .. q[i] + (k - 1) :
         b - q[i] \in 0 .. k - 1 /\ i + (b - q[i]) \in 1 .. n /\ q[i + (b - q[i])] = b
  BY <1>1
<1>3. q[i] .. q[i] + (k - 1) \subseteq Elements(q, n)
  BY <1>2 DEF Elements
<1>4. Injective(r, n - k)
  BY DEF Injective
<1>5. ASSUME NEW j \in 1 .. n - k
      PROVE  r[j] \in Elements(q, n) /\ r[j] \notin q[i] .. q[i] + (k - 1)
  <2>1. PICK m \in 1 .. n : r[j] = q[m] /\ m \notin i .. i + k - 1
    <3>1. CASE j < i
      <4>1. j \in 1 .. n /\ r[j] = q[j] /\ j \notin i .. i + k - 1
        BY <3>1
      <4>2. QED
        BY <4>1
    <3>2. CASE j >= i
      <4>1. j + k \in 1 .. n /\ r[j] = q[j + k] /\ j + k \notin i .. i + k - 1
        BY <3>2
      <4>2. QED
        BY <4>1
    <3>3. QED
      BY <3>1, <3>2
  <2>2. ASSUME r[j] \in q[i] .. q[i] + (k - 1)
        PROVE  FALSE
    <3>1. PICK d \in 0 .. k - 1 : i + d \in 1 .. n /\ q[i + d] = q[m]
      BY <1>2, <2>1, <2>2
    <3>2. i + d = m
      BY <3>1 DEF Injective
    <3>3. QED
      BY <2>1, <3>2
  <2>3. QED
    BY <2>1, <2>2 DEF Elements
<1>6. ASSUME NEW m \in 1 .. n, q[m] \notin q[i] .. q[i] + (k - 1)
      PROVE  q[m] \in Elements(r, n - k)
  <2>1. m \notin i .. i + k - 1
    <3>1. ASSUME m \in i .. i + k - 1
          PROVE  FALSE
      <4>1. m - i \in 0 .. k - 1 /\ i + (m - i) = m
        BY <3>1
      <4>2. q[m] = q[i] + (m - i)
        BY <1>1, <4>1
      <4>3. QED
        BY <1>6, <4>1, <4>2
    <3>2. QED
      BY <3>1
  <2>2. CASE m < i
    <3>1. m \in 1 .. n - k /\ r[m] = q[m]
      BY <2>2
    <3>2. QED
      BY <3>1 DEF Elements
  <2>3. CASE m >= i + k
    <3>1. m - k \in 1 .. n - k /\ r[m - k] = q[m]
      BY <2>3
    <3>2. QED
      BY <3>1 DEF Elements
  <2>4. QED
    BY <2>1, <2>2, <2>3
<1>7. Elements(r, n - k) \subseteq Elements(q, n) \ (q[i] .. q[i] + (k - 1))
  BY <1>5 DEF Elements
<1>8. Elements(q, n) \ (q[i] .. q[i] + (k - 1)) \subseteq Elements(r, n - k)
  BY <1>6 DEF Elements
<1>9. QED
  BY <1>3, <1>4, <1>7, <1>8

(* Putting two lists without a common element together.                    *)
LEMMA JoiningLists ==
    ASSUME NEW p, NEW m \in Nat, Injective(p, m), NEW q, NEW n \in Nat, Injective(q, n),
           Elements(p, m) \cap Elements(q, n) = {},
           NEW r,
           \A j \in 1 .. m : r[j] = p[j],
           \A j \in 1 .. n : r[m + j] = q[j]
    PROVE  /\ Injective(r, m + n)
           /\ Elements(r, m + n) = Elements(p, m) \cup Elements(q, n)
<1>1. \A i \in 1 .. m, j \in 1 .. n : p[i] # q[j]
  BY DEF Elements
<1>2. \A j \in m + 1 .. m + n : j - m \in 1 .. n /\ r[j] = q[j - m]
  <2> SUFFICES ASSUME NEW j \in m + 1 .. m + n
               PROVE  j - m \in 1 .. n /\ r[j] = q[j - m]
    OBVIOUS
  <2>1. j - m \in 1 .. n /\ m + (j - m) = j
    OBVIOUS
  <2>2. QED
    BY <2>1
<1>3. Injective(r, m + n)
  <2> SUFFICES ASSUME NEW i \in 1 .. m + n, NEW j \in 1 .. m + n, r[i] = r[j]
               PROVE  i = j
    BY DEF Injective
  <2>1. CASE i <= m /\ j <= m
    BY <2>1 DEF Injective
  <2>2. CASE i > m /\ j > m
    <3>1. i - m \in 1 .. n /\ j - m \in 1 .. n /\ q[i - m] = q[j - m]
      BY <1>2, <2>2
    <3>2. i - m = j - m
      BY <3>1 DEF Injective
    <3>3. QED
      BY <3>2
  <2>3. CASE i <= m /\ j > m
    BY <1>1, <1>2, <2>3
  <2>4. CASE i > m /\ j <= m
    BY <1>1, <1>2, <2>4
  <2>5. QED
    BY <2>1, <2>2, <2>3, <2>4
<1>4. Elements(r, m + n) \subseteq Elements(p, m) \cup Elements(q, n)
  <2> SUFFICES ASSUME NEW j \in 1 .. m + n
               PROVE  r[j] \in Elements(p, m) \cup Elements(q, n)
    BY DEF Elements
  <2>1. CASE j <= m
    BY <2>1 DEF Elements
  <2>2. CASE j > m
    BY <1>2, <2>2 DEF Elements
  <2>3. QED
    BY <2>1, <2>2
<1>5. Elements(p, m) \subseteq Elements(r, m + n)
  BY DEF Elements
<1>6. ASSUME NEW j \in 1 .. n
      PROVE  q[j] \in Elements(r, m + n)
  <2>1. m + j \in 1 .. m + n /\ r[m + j] = q[j]
    OBVIOUS
  <2>2. QED
    BY <2>1 DEF Elements
<1>7. QED
  BY <1>3, <1>4, <1>5, <1>6 DEF Elements

(* The list of a segment's blocks.                                         *)
LEMMA LinkedBlocks ==
    ASSUME NEW s \in Nat, NEW k \in Nat
    PROVE  /\ Linked(s, k) \in Seq(s .. s + k - 1)
           /\ Len(Linked(s, k)) = k
           /\ Injective(Linked(s, k), k)
           /\ Elements(Linked(s, k), k) = s .. s + k - 1
<1>1. Linked(s, k) \in [1 .. k -> s .. s + k - 1]
  BY DEF Linked
<1>2. Linked(s, k) \in Seq(s .. s + k - 1) /\ Len(Linked(s, k)) = k
  BY <1>1, SeqDef
<1>3. \A j \in 1 .. k : Linked(s, k)[j] = s + j - 1
  BY DEF Linked
<1>4. Injective(Linked(s, k), k)
  BY <1>3 DEF Injective
<1>5. Elements(Linked(s, k), k) \subseteq s .. s + k - 1
  BY <1>3 DEF Elements
<1>6. ASSUME NEW b \in s .. s + k - 1
      PROVE  b \in Elements(Linked(s, k), k)
  <2>1. b - s + 1 \in 1 .. k /\ Linked(s, k)[b - s + 1] = b
    BY <1>3
  <2>2. QED
    BY <2>1 DEF Elements
<1>7. QED
  BY <1>2, <1>4, <1>5, <1>6

(* The entries of a concatenation.                                         *)
LEMMA Concatenating ==
    ASSUME NEW S, NEW p \in Seq(S), NEW q \in Seq(S)
    PROVE  /\ p \o q \in Seq(S)
           /\ Len(p \o q) = Len(p) + Len(q)
           /\ \A j \in 1 .. Len(p) : (p \o q)[j] = p[j]
           /\ \A j \in 1 .. Len(q) : (p \o q)[Len(p) + j] = q[j]
  OBVIOUS

(* The entries of a list without the k nodes from position i on.           *)
LEMMA Unlinking ==
    ASSUME NEW S, NEW q \in Seq(S), NEW i \in 1 .. Len(q), NEW k \in Nat \ {0},
           i + k - 1 <= Len(q)
    PROVE  /\ Unlinked(q, i, k) \in Seq(S)
           /\ Len(Unlinked(q, i, k)) = Len(q) - k
           /\ \A j \in 1 .. i - 1 : Unlinked(q, i, k)[j] = q[j]
           /\ \A j \in i .. Len(q) - k : Unlinked(q, i, k)[j] = q[j + k]
<1> DEFINE a == SubSeq(q, 1, i - 1)
           b == SubSeq(q, i + k, Len(q))
           r == Unlinked(q, i, k)
<1>1. Len(q) \in Nat /\ \A j \in 1 .. Len(q) : q[j] \in S
  BY ElementOfSeq, LenProperties
<1>2. /\ a \in Seq(S)
      /\ Len(a) = i - 1
      /\ \A j \in 1 .. i - 1 : a[j] = q[j]
  BY <1>1, SubSeqProperties
<1>3. /\ b \in Seq(S)
      /\ Len(b) = Len(q) - i - k + 1
      /\ \A j \in 1 .. Len(q) - i - k + 1 : b[j] = q[i + k + j - 1]
  <2>1. i + k \in Int /\ Len(q) \in Int /\ \A j \in i + k .. Len(q) : q[j] \in S
    BY <1>1
  <2>2. QED
    BY <1>1, <2>1, SubSeqProperties
<1>4. r = a \o b
  BY DEF Unlinked
<1> HIDE DEF a, b, r
<1>5. /\ r \in Seq(S)
      /\ Len(r) = Len(a) + Len(b)
      /\ \A j \in 1 .. Len(a) : r[j] = a[j]
      /\ \A j \in 1 .. Len(b) : r[Len(a) + j] = b[j]
  <2>1. a \in Seq(S) /\ b \in Seq(S)
    BY <1>2, <1>3
  <2>2. /\ a \o b \in Seq(S)
        /\ Len(a \o b) = Len(a) + Len(b)
        /\ \A j \in 1 .. Len(a) : (a \o b)[j] = a[j]
        /\ \A j \in 1 .. Len(b) : (a \o b)[Len(a) + j] = b[j]
    BY <2>1, Concatenating
  <2>3. QED
    BY <1>4, <2>2, Zenon
<1>6. ASSUME NEW j \in i .. Len(q) - k
      PROVE  r[j] = q[j + k]
  <2>1. /\ j - (i - 1) \in 1 .. Len(b)
        /\ Len(a) + (j - (i - 1)) = j
        /\ i + k + (j - (i - 1)) - 1 = j + k
    <3>1. Len(a) = i - 1 /\ Len(b) = Len(q) - i - k + 1 /\ Len(q) \in Nat
      BY <1>1, <1>2, <1>3
    <3>2. QED
      BY <3>1
  <2>2. r[j] = b[j - (i - 1)]
    BY <1>5, <2>1, Zenon
  <2>3. b[j - (i - 1)] = q[j + k]
    BY <1>2, <1>3, <2>1
  <2>4. QED
    BY <2>2, <2>3
<1>7. Len(r) = Len(q) - k
  <2>1. Len(r) = Len(a) + Len(b) /\ Len(a) = i - 1 /\ Len(b) = Len(q) - i - k + 1
    BY <1>2, <1>3, <1>5, Zenon
  <2>2. QED
    BY <1>1, <2>1
<1>8. \A j \in 1 .. i - 1 : r[j] = q[j]
  BY <1>2, <1>5, Zenon
<1>9. QED
  BY <1>5, <1>6, <1>7, <1>8, Zenon DEF r
-----------------------------------------------------------------------------
(* The size computation.                                                   *)

LEMMA SizesAreNumbers == \A size \in Sizes : size \in Nat
  BY SizesAssumption, WordSizeAssumption

LEMMA BlocksNeededType ==
    ASSUME NEW size \in Nat
    PROVE  BlocksNeeded(size) \in Nat \ {0}
<1> DEFINE bytes == (size + HeaderSize) % WordSize
<1>1. bytes \in Nat
  BY WordSizeAssumption DEF HeaderSize
<1> HIDE DEF bytes
<1>2. bytes \div 8 \in Nat
  BY <1>1
<1>3. QED
  BY <1>2 DEF BlocksNeeded, bytes, BlockSize

LEMMA BlocksNeededSuffice ==
    ASSUME NEW size \in Nat, size + HeaderSize < WordSize
    PROVE  size <= (BlocksNeeded(size) - 1) * BlockSize
<1>1. (size + HeaderSize) % WordSize = size + HeaderSize
  BY WordSizeAssumption DEF HeaderSize
<1>2. \A n \in Nat : n < 8 * (n \div 8 + 1) /\ (n % 8 = 0 => n = 8 * (n \div 8))
  OBVIOUS
<1>3. (size + 4) \div 8 \in Nat
  OBVIOUS
<1>4. QED
  BY <1>1, <1>2, <1>3 DEF BlocksNeeded, BlockSize, HeaderSize

-----------------------------------------------------------------------------
(* The inductive invariant.                                                *)

HeapInv ==
    /\ TypeOK
    /\ Accounting
    /\ RoomForRequest
    /\ wild => list = << >>

LEMMA InitHeapInv == Init => HeapInv
<1> SUFFICES ASSUME Init
             PROVE  HeapInv
  OBVIOUS
<1>1. /\ Linked(0, BlockCount) \in Seq(0 .. 0 + BlockCount - 1)
      /\ Len(Linked(0, BlockCount)) = BlockCount
      /\ Injective(Linked(0, BlockCount), BlockCount)
      /\ Elements(Linked(0, BlockCount), BlockCount) = 0 .. 0 + BlockCount - 1
  BY BlockCountAssumption, LinkedBlocks
<1>2. 0 .. 0 + BlockCount - 1 = Blocks
  BY BlockCountAssumption DEF Blocks
<1>3. TypeOK
  BY <1>1, <1>2 DEF Init, TypeOK
<1>4. Accounting
  <2>1. NoBlockTwice
    BY <1>1 DEF Init, NoBlockTwice, Injective
  <2>2. Listed = Blocks
    BY <1>1, <1>2 DEF Init, Listed, Elements
  <2>3. QED
    BY <2>1, <2>2 DEF Init, Accounting, NoOverlap, NothingLost
<1>5. QED
  BY <1>3, <1>4 DEF Init, HeapInv, RoomForRequest

(* heap_malloc succeeds.                                                   *)
LEMMA TakeStep ==
    ASSUME HeapInv, NEW size \in Sizes, Take(size, BlocksNeeded(size)), ~wild, wild' = wild
    PROVE  HeapInv'
<1> DEFINE k == BlocksNeeded(size)
           n == Len(list)
<1>1. k \in Nat \ {0} /\ size \in Nat
  BY BlocksNeededType, SizesAreNumbers
<1> HIDE DEF k
<1>2. PICK i \in 1 .. n :
         /\ IsRun(i, k)
         /\ list' = Unlinked(list, i, k)
         /\ header' = [header EXCEPT ![list[i]] = k - 1]
         /\ live' = live \cup {list[i]}
         /\ asked' = [asked EXCEPT ![list[i]] = size]
         /\ answer' = list[i] + 1
  BY DEF Take, k
<1> DEFINE s == list[i]
           run == s .. s + (k - 1)
<1>3. list \in Seq(Blocks) /\ n \in Nat /\ \A j \in 1 .. n : list[j] \in Blocks
  BY LenProperties, ElementOfSeq DEF HeapInv, TypeOK
<1>4. Blocks \subseteq Nat
  BY DEF Blocks
<1>5. i + k - 1 <= n /\ \A j \in 1 .. k - 1 : list[i + j] = list[i] + j
  BY <1>1, <1>2, <1>3 DEF IsRun
<1>6. /\ list' \in Seq(Blocks)
      /\ Len(list') = n - k
      /\ \A j \in 1 .. i - 1 : list'[j] = list[j]
      /\ \A j \in i .. n - k : list'[j] = list[j + k]
  BY <1>1, <1>2, <1>3, <1>5, Unlinking
<1>7. Injective(list, n)
  BY DEF HeapInv, Accounting, NoBlockTwice, Injective
<1>8. /\ Injective(list', n - k)
      /\ Elements(list', n - k) = Elements(list, n) \ run
      /\ run \subseteq Elements(list, n)
  <2>1. /\ n \in Nat /\ i \in 1 .. n /\ k \in Nat \ {0} /\ i + k - 1 <= n
        /\ \A j \in 1 .. n : list[j] \in Nat
    BY <1>1, <1>2, <1>3, <1>4, <1>5
  <2> HIDE DEF n
  <2>2. QED
    BY <1>5, <1>6, <1>7, <2>1, TakingARun
<1>9. Listed' = Listed \ run /\ run \subseteq Listed
  BY <1>6, <1>8 DEF Listed, Elements
<1>10. s \in Blocks /\ s \in run /\ s \in Listed /\ s \in Nat
  <2>1. s \in Blocks /\ s \in Nat
    BY <1>3, <1>4
  <2>2. s \in Listed
    BY DEF Listed
  <2>3. s \in run
    BY <1>1, <2>1
  <2>4. QED
    BY <2>1, <2>2, <2>3
<1> DEFINE segment(t) == t .. t + header'[t]
<1> HIDE DEF n, s, run
<1>11. \A t \in live : t \in Segment(t) /\ t \in Nat /\ t # s
  BY <1>4, <1>10 DEF HeapInv, TypeOK, Accounting, NoOverlap, Segment
<1>12. /\ \A t \in live : header'[t] = header[t] /\ segment(t) = Segment(t)
       /\ header'[s] = k - 1 /\ segment(s) = run
  BY <1>2, <1>10, <1>11 DEF HeapInv, TypeOK, Segment, s, run
<1> HIDE DEF segment
<1>13. TypeOK'
  <2>1. list' \in Seq(Blocks)
    BY <1>6
  <2>2. header' \in [Blocks -> Nat] /\ live' \subseteq Blocks /\ asked' \in [Blocks -> Sizes \cup {0}]
    BY <1>1, <1>2, <1>10 DEF HeapInv, TypeOK, s
  <2>3. answer' \in Nat \cup {NULL} /\ wild' \in BOOLEAN
    BY <1>2, <1>10 DEF HeapInv, TypeOK, s
  <2>4. QED
    BY <2>1, <2>2, <2>3 DEF TypeOK
<1>14. Accounting'
  <2>1. NoBlockTwice'
    BY <1>6, <1>8 DEF NoBlockTwice, Injective
  <2>2. NoOverlap'
    <3>1. Listed \subseteq Blocks
      BY <1>3 DEF Listed, n
    <3>2. \A t \in live : Segment(t) \subseteq Blocks /\ Segment(t) \cap Listed = {}
      BY DEF HeapInv, Accounting, NoOverlap
    <3>3. live' = live \cup {s}
      BY <1>2 DEF s
    <3>4. \A t \in live' : segment(t) \subseteq Blocks /\ segment(t) \cap Listed' = {}
      BY <1>9, <1>12, <3>1, <3>2, <3>3
    <3>5. \A t, u \in live : t # u => Segment(t) \cap Segment(u) = {}
      BY DEF HeapInv, Accounting, NoOverlap
    <3>6. \A t, u \in live' : t # u => segment(t) \cap segment(u) = {}
      BY <1>9, <1>12, <3>2, <3>3, <3>5
    <3>7. QED
      BY <3>4, <3>6 DEF NoOverlap, Blocks, Segment, segment
  <2>3. NothingLost'
    <3> SUFFICES ASSUME NEW b \in Blocks
                 PROVE  b \in Listed' \/ \E t \in live' : b \in segment(t)
      BY DEF NothingLost, Blocks, Segment, segment
    <3>1. live' = live \cup {s}
      BY <1>2 DEF s
    <3>2. CASE b \in Listed
      BY <1>9, <1>12, <3>1, <3>2
    <3>3. CASE b \notin Listed
      <4>1. PICK t \in live : b \in Segment(t)
        BY <3>3 DEF HeapInv, Accounting, NothingLost
      <4>2. QED
        BY <1>12, <3>1, <4>1
    <3>4. QED
      BY <3>2, <3>3
  <2>4. QED
    BY <2>1, <2>2, <2>3 DEF Accounting
<1>15. RoomForRequest'
  <2> SUFFICES ASSUME NEW t \in live', asked'[t] + HeaderSize < WordSize
               PROVE  asked'[t] <= header'[t] * BlockSize
    BY DEF RoomForRequest, HeaderSize, BlockSize
  <2>1. CASE t = s
    <3>1. asked'[t] = size /\ header'[t] = k - 1
      BY <1>2, <1>10, <1>12, <2>1 DEF HeapInv, TypeOK, s
    <3>2. QED
      BY <1>1, <3>1, BlocksNeededSuffice DEF k
  <2>2. CASE t # s
    <3>1. t \in live /\ asked'[t] = asked[t] /\ header'[t] = header[t]
      BY <1>2, <1>12, <2>2 DEF HeapInv, TypeOK, s
    <3>2. QED
      BY <3>1 DEF HeapInv, RoomForRequest
  <2>3. QED
    BY <2>1, <2>2
<1>16. QED
  BY <1>13, <1>14, <1>15 DEF HeapInv
(* heap_free.                                                              *)
LEMMA FreeStep ==
    ASSUME HeapInv, NEW s \in Blocks, Free(s)
    PROVE  HeapInv'
<1> DEFINE m == header[s] + 1
           run == Linked(s, m)
           n == Len(list)
<1>1. /\ list \in Seq(Nat) /\ list \in Seq(Blocks)
      /\ n \in Nat
      /\ s \in Nat /\ m \in Nat /\ header[s] \in Nat
      /\ Blocks \subseteq Nat
  <2>1. list \in Seq(Blocks) /\ header[s] \in Nat /\ Blocks \subseteq Nat
    BY DEF HeapInv, TypeOK, Blocks
  <2>2. list \in Seq(Nat)
    BY <2>1, SeqMonotonic, Zenon
  <2>3. n \in Nat
    BY <2>1, LenProperties, Zenon
  <2>4. QED
    BY <2>1, <2>2, <2>3
<1>2. s .. s + m - 1 = Segment(s)
  BY <1>1 DEF Segment
<1>3. /\ run \in Seq(Segment(s))
      /\ Len(run) = m
      /\ Injective(run, m)
      /\ Elements(run, m) = Segment(s)
  BY <1>1, <1>2, LinkedBlocks
<1>4. Segment(s) \subseteq Blocks /\ Segment(s) \cap Listed = {} /\ s \in live
  BY DEF HeapInv, Accounting, NoOverlap, Free
<1>5. run \in Seq(Blocks)
  BY <1>3, <1>4, SeqMonotonic
<1>6. Injective(list, n) /\ Elements(list, n) = Listed
  BY DEF HeapInv, Accounting, NoBlockTwice, Injective, Listed, Elements
<1>7. list' \in {run \o list, list \o run}
  BY DEF Free
<1> HIDE DEF run, n, m
<1>8. /\ list' \in Seq(Blocks)
      /\ Len(list') = n + m
      /\ Injective(list', n + m)
      /\ Elements(list', n + m) = Listed \cup Segment(s)
  <2>1. CASE list' = run \o list
    <3>1. /\ list' \in Seq(Blocks)
          /\ Len(list') = m + n
          /\ \A j \in 1 .. m : list'[j] = run[j]
          /\ \A j \in 1 .. n : list'[m + j] = list[j]
      <4>1. /\ run \o list \in Seq(Blocks)
            /\ Len(run \o list) = Len(run) + Len(list)
            /\ \A j \in 1 .. Len(run) : (run \o list)[j] = run[j]
            /\ \A j \in 1 .. Len(list) : (run \o list)[Len(run) + j] = list[j]
        BY <1>1, <1>5, Concatenating
      <4>2. Len(run) = m /\ Len(list) = n
        BY <1>3 DEF n
      <4>3. QED
        BY <2>1, <4>1, <4>2, Zenon
    <3>2. /\ Injective(list', m + n)
          /\ Elements(list', m + n) = Elements(run, m) \cup Elements(list, n)
      <4>1. Elements(run, m) \cap Elements(list, n) = {}
        BY <1>3, <1>4, <1>6
      <4>2. n \in Nat /\ m \in Nat /\ Injective(list, n) /\ Injective(run, m)
        BY <1>1, <1>3, <1>6
      <4> HIDE DEF n
      <4>3. QED
        BY <3>1, <4>1, <4>2, JoiningLists
    <3>3. m + n = n + m
      BY <1>1
    <3>4. QED
      BY <1>3, <1>6, <3>1, <3>2, <3>3
  <2>2. CASE list' = list \o run
    <3>1. /\ list' \in Seq(Blocks)
          /\ Len(list') = n + m
          /\ \A j \in 1 .. n : list'[j] = list[j]
          /\ \A j \in 1 .. m : list'[n + j] = run[j]
      <4>1. /\ list \o run \in Seq(Blocks)
            /\ Len(list \o run) = Len(list) + Len(run)
            /\ \A j \in 1 .. Len(list) : (list \o run)[j] = list[j]
            /\ \A j \in 1 .. Len(run) : (list \o run)[Len(list) + j] = run[j]
        BY <1>1, <1>5, Concatenating
      <4>2. Len(run) = m /\ Len(list) = n
        BY <1>3 DEF n
      <4>3. QED
        BY <2>2, <4>1, <4>2, Zenon
    <3>2. /\ Injective(list', n + m)
          /\ Elements(list', n + m) = Elements(list, n) \cup Elements(run, m)
      <4>1. Elements(list, n) \cap Elements(run, m) = {}
        BY <1>3, <1>4, <1>6
      <4>2. n \in Nat /\ m \in Nat /\ Injective(list, n) /\ Injective(run, m)
        BY <1>1, <1>3, <1>6
      <4>3. /\ \A j \in 1 .. n : list'[j] = list[j]
            /\ \A j \in 1 .. m : list'[n + j] = run[j]
        BY <3>1
      <4>4. QED
        BY <4>1, <4>2, <4>3, JoiningLists
    <3>3. QED
      BY <1>3, <1>6, <3>1, <3>2
  <2>3. QED
    BY <1>7, <2>1, <2>2
<1>9. Listed' = Listed \cup Segment(s) /\ NoBlockTwice'
  BY <1>8 DEF Listed, Elements, NoBlockTwice, Injective
<1>10. /\ live' = live \ {s} /\ header' = header
       /\ asked' = [asked EXCEPT ![s] = 0] /\ answer' = answer /\ wild' = wild /\ ~wild
  BY DEF Free
<1>11. TypeOK'
  BY <1>8, <1>10 DEF HeapInv, TypeOK
<1>12. NoOverlap'
  <2>1. /\ \A t \in live : Segment(t) \subseteq Blocks /\ Segment(t) \cap Listed = {}
        /\ \A t, u \in live : t # u => Segment(t) \cap Segment(u) = {}
    BY DEF HeapInv, Accounting, NoOverlap
  <2>2. /\ \A t \in live \ {s} : Segment(t) \subseteq Blocks
                                /\ Segment(t) \cap (Listed \cup Segment(s)) = {}
        /\ \A t, u \in live \ {s} : t # u => Segment(t) \cap Segment(u) = {}
    BY <1>4, <2>1
  <2>3. QED
    BY <1>9, <1>10, <2>2 DEF NoOverlap, Segment, Blocks
<1>13. NothingLost'
  <2>1. \A b \in Blocks : b \in Listed \cup Segment(s) \/ \E t \in live \ {s} : b \in Segment(t)
    BY DEF HeapInv, Accounting, NothingLost
  <2>2. QED
    BY <1>9, <1>10, <2>1 DEF NothingLost, Segment, Blocks
<1>14. RoomForRequest'
  BY <1>10 DEF HeapInv, TypeOK, RoomForRequest
<1>15. QED
  BY <1>9, <1>10, <1>11, <1>12, <1>13, <1>14 DEF HeapInv, Accounting

(* Every step keeps the invariant.                                         *)
LEMMA HeapStep == HeapInv /\ [Next]_vars => HeapInv'
<1> SUFFICES ASSUME HeapInv, [Next]_vars
             PROVE  HeapInv'
  OBVIOUS
<1> DEFINE Same == UNCHANGED <<list, header, live, asked>>
<1>1. ASSUME Same, answer' \in {answer, NULL}, wild' \in {wild, TRUE}, wild' => list = << >>
      PROVE  HeapInv'
  <2>1. TypeOK'
    BY <1>1 DEF HeapInv, TypeOK
  <2>2. Accounting'
    BY <1>1 DEF HeapInv, Accounting, NoBlockTwice, NoOverlap, NothingLost, Listed, Segment, Blocks
  <2>3. RoomForRequest'
    BY <1>1 DEF HeapInv, RoomForRequest
  <2>4. QED
    BY <1>1, <2>1, <2>2, <2>3 DEF HeapInv
<1>2. ASSUME NEW size \in Sizes, Malloc(size)
      PROVE  HeapInv'
  <2>1. CASE Take(size, BlocksNeeded(size))
    BY <1>2, <2>1, TakeStep DEF Malloc
  <2>2. CASE Refuse(BlocksNeeded(size))
    BY <1>1, <1>2, <2>2 DEF Malloc, Refuse
  <2>3. QED
    BY <1>2, <2>1, <2>2 DEF Malloc
<1>3. ASSUME NEW s \in Blocks, Free(s)
      PROVE  HeapInv'
  BY <1>3, FreeStep
<1>4. CASE UseEmptyList
  BY <1>1, <1>4 DEF UseEmptyList
<1>5. CASE Unfollowed \/ UNCHANGED vars
  <2>1. Same /\ answer' = answer /\ wild' = wild
    BY <1>5 DEF Unfollowed, vars
  <2>2. wild \in BOOLEAN /\ (wild => list = << >>)
    BY DEF HeapInv, TypeOK
  <2>3. QED
    BY <1>1, <2>1, <2>2
<1>6. QED
  BY <1>2, <1>3, <1>4, <1>5 DEF Next

THEOREM HeapInvariant == Spec => []HeapInv
  BY InitHeapInv, HeapStep, PTL DEF Spec

-----------------------------------------------------------------------------

(* The types hold in every reachable state of every heap.                  *)
THEOREM TypeCorrect == Spec => []TypeOK
<1>1. HeapInv => TypeOK
  BY DEF HeapInv
<1>2. QED
  BY <1>1, HeapInvariant, PTL

(* In every heap, whatever the sizes asked for and the order of requests   *)
(* and releases, no block is handed out twice and none is lost.            *)
THEOREM AccountingHolds == Spec => []Accounting
<1>1. HeapInv => Accounting
  BY DEF HeapInv
<1>2. QED
  BY <1>1, HeapInvariant, PTL

(* Every segment has the room its holder asked for, unless the size        *)
(* computation wrapped around.                                             *)
THEOREM RoomHolds == Spec => []RoomForRequest
<1>1. HeapInv => RoomForRequest
  BY DEF HeapInv
<1>2. QED
  BY <1>1, HeapInvariant, PTL

(* The null head pointer is only followed when the heap is full.           *)
THEOREM WildOnlyWhenFullHolds == Spec => []WildOnlyWhenFull
<1>1. HeapInv => WildOnlyWhenFull
  <2> SUFFICES ASSUME HeapInv, wild, NEW b \in Blocks
               PROVE  \E s \in live : b \in Segment(s)
    BY DEF WildOnlyWhenFull
  <2>1. Listed = {}
    BY DEF HeapInv, Listed
  <2>2. QED
    BY <2>1 DEF HeapInv, Accounting, NothingLost
<1>2. QED
  BY <1>1, HeapInvariant, PTL

(* A step leaves the header of every segment alone that stays allocated,   *)
(* so heap_free gives back as many blocks as heap_malloc took.             *)
THEOREM SegmentsStayHolds == Spec => SegmentsStay
<1> DEFINE Stays == \A s \in live : s \in live' => header'[s] = header[s] /\ asked'[s] = asked[s]
<1>1. HeapInv /\ [Next]_vars => [Stays]_vars
  <2> SUFFICES ASSUME HeapInv, Next
               PROVE  Stays
    BY DEF vars
  <2>1. ASSUME NEW size \in Sizes, Take(size, BlocksNeeded(size))
        PROVE  Stays
    <3>1. PICK i \in 1 .. Len(list) :
             /\ header' = [header EXCEPT ![list[i]] = BlocksNeeded(size) - 1]
             /\ asked' = [asked EXCEPT ![list[i]] = size]
      BY <2>1 DEF Take
    <3>2. list[i] \in Listed
      BY DEF Listed
    <3>3. \A s \in live : s # list[i] /\ s \in Blocks
      <4>1. \A s \in live : s \in Segment(s) /\ s \in Blocks
        BY DEF HeapInv, TypeOK, Segment, Blocks
      <4>2. QED
        BY <3>2, <4>1 DEF HeapInv, Accounting, NoOverlap
    <3>4. QED
      BY <3>1, <3>3 DEF HeapInv, TypeOK
  <2>2. ASSUME UNCHANGED <<header, asked>>
        PROVE  Stays
    BY <2>2
  <2>3. ASSUME NEW s \in Blocks, Free(s)
        PROVE  Stays
    BY <2>3 DEF Free, HeapInv, TypeOK
  <2>4. ASSUME NEW size \in Sizes, Malloc(size)
        PROVE  Stays
    BY <2>1, <2>2, <2>4 DEF Malloc, Refuse
  <2>5. QED
    BY <2>2, <2>3, <2>4 DEF Next, UseEmptyList, Unfollowed, vars
<1>2. QED
  BY <1>1, HeapInvariant, PTL DEF Spec, SegmentsStay
=============================================================================
