----------------------- MODULE SegmentAllocatorProofs -----------------------
(***************************************************************************)
(* Theorems about the block allocator, for a region of any size and any    *)
(* stale headers: its free space is in order, the headers a release reads  *)
(* are right, one segment is never lost, and it keeps the promise of       *)
(* BlockStore.                                                             *)
(***************************************************************************)
EXTENDS SegmentAllocator, FiniteSetTheorems, WellFoundedInduction, TLAPS

-----------------------------------------------------------------------------
(* The inductive invariant.                                                *)

(* No two segments of S share a block.                                     *)
Apart(S) == \A s, t \in S : s # t => Span(s) \cap Span(t) = {}

(* The segments of S cover exactly the blocks that are not in X.           *)
Covers(S, X) == UNION {Span(s) : s \in S} = Region \ X

(* No segment of S begins where one ends.                                  *)
Merged(S) == \A s, t \in S : Last(s) + 1 # t[1]

HeadMarked(M, s) == M.header[s[1]] = Header(s[1], Last(s), s[2])

TailMarked(M, s) == M.header[Last(s)] = Header(s[1], Last(s), s[2])

(* One segment of each length is in the tree, the others hang on it.       *)
Hung(M) ==
    /\ \A s, t \in M.tree : s # t => s[2] # t[2]
    /\ \A t \in M.chained : \E s \in M.tree : s[2] = t[2] /\ s # t

(* Memory M with the free blocks that are not in X, nothing lost.          *)
Tidy(M, X) ==
    /\ M \in Memories /\ ~M.lost /\ X \subseteq Region
    /\ Apart(Free(M)) /\ Covers(Free(M), X) /\ Merged(Free(M))
    /\ \A s \in Free(M) : HeadMarked(M, s)
    /\ X # {} => \A s \in Free(M) : TailMarked(M, s)
    /\ Hung(M)

IInv ==
    /\ answer \in Region \cup {NULL}
    /\ mem = Lost => held = {} /\ answer = NULL
    /\ mem = Lost \/ Tidy(mem, held)

-----------------------------------------------------------------------------
(* Segments.                                                               *)

LEMMA Placement ==
    ASSUME NEW s \in Placed
    PROVE  /\ s[1] \in Region /\ s[2] \in Region /\ Last(s) \in Region
           /\ Last(s) = s[1] + s[2] - 1 /\ s[1] <= Last(s)
           /\ s = <<s[1], s[2]>>
           /\ Span(s) \subseteq Region
           /\ \A b : b \in Span(s) <=> b \in Int /\ s[1] <= b /\ b <= Last(s)
<1>1. s[1] \in Region /\ s[2] \in Region /\ Last(s) \in Region /\ s = <<s[1], s[2]>>
  BY DEF Placed
<1>2. Last(s) = s[1] + s[2] - 1
  BY DEF Last
<1>3. \A b : b \in Span(s) <=> b \in Int /\ s[1] <= b /\ b <= Last(s)
  BY <1>1 DEF Span, Region
<1>4. QED
  BY <1>1, <1>2, <1>3, NAssumption DEF Region

LEMMA Ends ==
    ASSUME NEW s \in Placed
    PROVE  s[1] \in Span(s) /\ Last(s) \in Span(s)
BY Placement DEF Region

(* A segment is known by its first block and one more number.              *)
LEMMA SameSegment ==
    ASSUME NEW s \in Placed, NEW t \in Placed, s[1] = t[1], s[2] = t[2] \/ Last(s) = Last(t)
    PROVE  s = t
<1>1. s[2] = t[2]
  BY Placement DEF Region
<1>2. QED
  BY <1>1, Placement

(* Two segments that share a block are one.                                *)
LEMMA Meeting ==
    ASSUME NEW S \in SUBSET Placed, Apart(S), NEW s \in S, NEW t \in S,
           NEW b, b \in Span(s), b \in Span(t)
    PROVE  s = t
BY DEF Apart

LEMMA Covered ==
    ASSUME NEW S, NEW X, Covers(S, X), NEW b
    PROVE  b \in Region \ X <=> \E s \in S : b \in Span(s)
BY DEF Covers

LEMMA Uncovered ==
    ASSUME NEW S, NEW X, Covers(S, X), NEW s \in S
    PROVE  Span(s) \cap X = {}
BY Covered

(* What lies beside a free segment is not free.                            *)
LEMMA Maximal ==
    ASSUME NEW S \in SUBSET Placed, NEW X, Apart(S), Covers(S, X), Merged(S), NEW s \in S
    PROVE  s[1] - 1 \notin Region \ X /\ Last(s) + 1 \notin Region \ X
<1>1. ASSUME s[1] - 1 \in Region \ X
      PROVE  FALSE
  <2>1. PICK t \in S : s[1] - 1 \in Span(t)
    BY <1>1, Covered
  <2>2. t # s
    BY <2>1, Placement DEF Region
  <2>3. s[1] \notin Span(t)
    BY <2>2, Ends, Meeting
  <2>4. Last(t) = s[1] - 1
    BY <2>1, <2>3, Placement DEF Region
  <2>5. QED
    BY <2>4, Placement DEF Merged, Region
<1>2. ASSUME Last(s) + 1 \in Region \ X
      PROVE  FALSE
  <2>1. PICK t \in S : Last(s) + 1 \in Span(t)
    BY <1>2, Covered
  <2>2. t # s
    BY <2>1, Placement DEF Region
  <2>3. Last(s) \notin Span(t)
    BY <2>2, Ends, Meeting
  <2>4. t[1] = Last(s) + 1
    BY <2>1, <2>3, Placement DEF Region
  <2>5. QED
    BY <2>4 DEF Merged
<1>3. QED
  BY <1>1, <1>2

-----------------------------------------------------------------------------
(* What a tidy memory answers.                                             *)

LEMMA TidyFacts ==
    ASSUME NEW M, NEW X, Tidy(M, X)
    PROVE  /\ M.tree \subseteq Placed /\ M.chained \subseteq Placed /\ M.lost = FALSE
           /\ M.header \in [Memory -> Headers]
           /\ Free(M) = M.tree \cup M.chained /\ Free(M) \subseteq Placed
           /\ Apart(Free(M)) /\ Covers(Free(M), X) /\ Merged(Free(M))
           /\ M = [tree |-> M.tree, chained |-> M.chained, header |-> M.header, lost |-> M.lost]
           /\ X \subseteq Region
<1>1. M \in Memories /\ ~M.lost
  BY DEF Tidy
<1>2. /\ M.tree \subseteq Placed /\ M.chained \subseteq Placed /\ M.lost = FALSE
      /\ M.header \in [Memory -> Headers]
      /\ M = [tree |-> M.tree, chained |-> M.chained, header |-> M.header, lost |-> M.lost]
  BY <1>1 DEF Memories
<1>3. QED
  BY <1>2 DEF Tidy, Free

LEMMA HeaderFields ==
    ASSUME NEW head, NEW tail, NEW len
    PROVE  /\ Header(head, tail, len).head = head
           /\ Header(head, tail, len).tail = tail
           /\ Header(head, tail, len).len = len
BY DEF Header

(* A free segment is tree or chain, not both.                              *)
LEMMA TreeOrChain ==
    ASSUME NEW M, NEW X, Tidy(M, X)
    PROVE  M.tree \cap M.chained = {}
<1>1. Hung(M)
  BY DEF Tidy
<1>2. QED
  BY <1>1 DEF Hung

(* The header in front of a block finds the segment that ends there, if    *)
(* there is one, and no other.                                             *)
LEMMA BeforeIs ==
    ASSUME NEW M, NEW X, Tidy(M, X), X # {}, NEW first \in Region
    PROVE  /\ Before(M, first) = {s \in Free(M) : Last(s) = first - 1}
           /\ \A s \in Before(M, first) : M.header[first - 1].head = s[1]
<1>1. Free(M) \subseteq Placed
  BY TidyFacts
<1> DEFINE h == M.header[first - 1]
<1>2. ASSUME NEW s \in Free(M), s = <<h.head, h.len>>, h.head = (first - 1) - (h.len - 1)
      PROVE  Last(s) = first - 1
  <2>1. s[1] = h.head /\ s[2] = h.len
    BY <1>2
  <2>2. QED
    BY <1>1, <1>2, <2>1, Placement DEF Region
<1>3. ASSUME NEW s \in Free(M), Last(s) = first - 1
      PROVE  h.tail = first - 1 /\ h.head = s[1] /\ h.len = s[2]
  <2>1. TailMarked(M, s)
    BY DEF Tidy
  <2>2. QED
    BY <1>3, <2>1, HeaderFields DEF TailMarked
<1>4. ASSUME NEW s \in Free(M), Last(s) = first - 1
      PROVE  LooksLikeTail(M, first - 1) /\ s = <<h.head, h.len>>
  <2>1. h.tail = first - 1 /\ h.head = s[1] /\ h.len = s[2]
    BY <1>3, <1>4
  <2>2. s = <<s[1], s[2]>> /\ s[1] = (first - 1) - (s[2] - 1)
    BY <1>1, <1>4, Placement DEF Region
  <2>3. QED
    BY <2>1, <2>2 DEF LooksLikeTail
<1>5. Before(M, first) = {s \in Free(M) : Last(s) = first - 1}
  BY <1>2, <1>4 DEF Before, LooksLikeTail
<1>6. QED
  BY <1>3, <1>5

(* The header behind a block finds the segment that begins there.          *)
LEMMA AfterIs ==
    ASSUME NEW M, NEW X, Tidy(M, X), X # {}, NEW last \in Region
    PROVE  /\ After(M, last) = {s \in Free(M) : s[1] = last + 1}
           /\ \A s \in After(M, last) : M.header[last + 1].tail = Last(s)
<1>1. Free(M) \subseteq Placed
  BY TidyFacts
<1> DEFINE h == M.header[last + 1]
<1>2. ASSUME NEW s \in Free(M), s = <<h.head, h.len>>, h.head = last + 1
      PROVE  s[1] = last + 1
  BY <1>2
<1>3. ASSUME NEW s \in Free(M), s[1] = last + 1
      PROVE  h.head = last + 1 /\ h.tail = Last(s) /\ h.len = s[2]
  <2>1. HeadMarked(M, s)
    BY DEF Tidy
  <2>2. QED
    BY <1>3, <2>1, HeaderFields DEF HeadMarked
<1>4. ASSUME NEW s \in Free(M), s[1] = last + 1
      PROVE  LooksLikeHead(M, last + 1) /\ s = <<h.head, h.len>>
  <2>1. h.head = last + 1 /\ h.tail = Last(s) /\ h.len = s[2]
    BY <1>3, <1>4
  <2>2. s = <<s[1], s[2]>> /\ Last(s) = last + 1 + (s[2] - 1)
    BY <1>1, <1>4, Placement DEF Region
  <2>3. QED
    BY <1>4, <2>1, <2>2 DEF LooksLikeHead
<1>5. After(M, last) = {s \in Free(M) : s[1] = last + 1}
  BY <1>2, <1>4 DEF After, LooksLikeHead
<1>6. QED
  BY <1>3, <1>5

(* A neighbour is one segment.                                             *)
LEMMA OneNeighbour ==
    ASSUME NEW M, NEW X, Tidy(M, X), NEW n
    PROVE  /\ \A s, t \in Free(M) : Last(s) = n /\ Last(t) = n => s = t
           /\ \A s, t \in Free(M) : s[1] = n /\ t[1] = n => s = t
<1>1. Free(M) \in SUBSET Placed /\ Apart(Free(M))
  BY TidyFacts
<1>2. QED
  BY <1>1, Ends, Meeting

(* When nothing is held there is one segment.                              *)
LEMMA WholeRegion ==
    ASSUME NEW M, Tidy(M, {}), NEW s \in Free(M), NEW t \in Free(M)
    PROVE  s = t
<1>1. Free(M) \in SUBSET Placed /\ Apart(Free(M)) /\ Covers(Free(M), {}) /\ Merged(Free(M))
  BY TidyFacts
<1>2. \A r \in Free(M) : r[1] - 1 \notin Region /\ Last(r) + 1 \notin Region
  BY <1>1, Maximal
<1>3. \A r \in Free(M) : r[1] = 1 /\ Last(r) = N
  BY <1>1, <1>2, Placement, NAssumption DEF Region
<1>4. QED
  BY <1>1, <1>3, SameSegment

-----------------------------------------------------------------------------
(* Segments that leave.                                                    *)

LEMMA CoverLess ==
    ASSUME NEW S \in SUBSET Placed, NEW X \in SUBSET Region, Apart(S), Covers(S, X), NEW s \in S
    PROVE  Covers(S \ {s}, X \cup Span(s))
<1>1. \A b : b \in Region \ (X \cup Span(s)) <=> \E t \in S \ {s} : b \in Span(t)
  <2>1. ASSUME NEW b \in Region \ (X \cup Span(s))
        PROVE  \E t \in S \ {s} : b \in Span(t)
    BY <2>1, Covered
  <2>2. ASSUME NEW t \in S \ {s}, NEW b \in Span(t)
        PROVE  b \in Region \ (X \cup Span(s))
    BY <2>2, Covered, Meeting
  <2>3. QED
    BY <2>1, <2>2
<1>2. QED
  BY <1>1 DEF Covers

LEMMA OutTidy ==
    ASSUME NEW M, NEW X, Tidy(M, X), NEW s \in Free(M), NEW Q \in Memories,
           ~Q.lost, Q.header = M.header, Free(Q) = Free(M) \ {s}, Hung(Q)
    PROVE  Tidy(Q, X \cup Span(s))
<1>1. Free(M) \in SUBSET Placed /\ Apart(Free(M)) /\ Covers(Free(M), X) /\ Merged(Free(M))
      /\ X \in SUBSET Region /\ s \in Placed
  BY TidyFacts
<1>2. Apart(Free(Q)) /\ Merged(Free(Q))
  BY <1>1 DEF Apart, Merged
<1>3. Covers(Free(Q), X \cup Span(s))
  BY <1>1, CoverLess
<1>4. \A t \in Free(Q) : HeadMarked(Q, t)
  BY DEF Tidy, HeadMarked
<1>5. \A t \in Free(Q) : TailMarked(Q, t)
  <2>1. CASE X = {}
    BY <2>1, WholeRegion
  <2>2. CASE X # {}
    BY <2>2 DEF Tidy, TailMarked
  <2>3. QED
    BY <2>1, <2>2
<1>6. X \cup Span(s) \subseteq Region
  BY <1>1, Placement
<1>7. QED
  BY <1>2, <1>3, <1>4, <1>5, <1>6 DEF Tidy

(* A memory with one field changed.                                        *)
LEMMA OtherTree ==
    ASSUME NEW M \in Memories, NEW new
    PROVE  [M EXCEPT !.tree = new] =
              [tree |-> new, chained |-> M.chained, header |-> M.header, lost |-> M.lost]
BY DEF Memories

LEMMA OtherChained ==
    ASSUME NEW M \in Memories, NEW new
    PROVE  [M EXCEPT !.chained = new] =
              [tree |-> M.tree, chained |-> new, header |-> M.header, lost |-> M.lost]
BY DEF Memories

LEMMA OtherHeader ==
    ASSUME NEW M \in Memories, NEW new
    PROVE  [M EXCEPT !.header = new] =
              [tree |-> M.tree, chained |-> M.chained, header |-> new, lost |-> M.lost]
BY DEF Memories

(* What is left when segment s is out of M, nothing else has changed.      *)
Without(M, s, Q) ==
    /\ Q \in Memories /\ ~Q.lost /\ Q.header = M.header
    /\ Free(Q) = Free(M) \ {s}
    /\ Hung(Q)

LEMMA TakenOutTidy ==
    ASSUME NEW M, NEW X, Tidy(M, X), NEW s \in M.tree, Behind(M, s) = {}, NEW Q \in TakenOut(M, s)
    PROVE  Q = Lost \/ Without(M, s, Q)
<1> DEFINE out == [M EXCEPT !.tree = @ \ {s}]
<1>1. Q = Lost \/ Q = out
  BY DEF TakenOut, Refusal
<1>2. out = [tree |-> M.tree \ {s}, chained |-> M.chained, header |-> M.header, lost |-> FALSE]
  <2>1. M \in Memories /\ M.lost = FALSE
    BY DEF Tidy, Memories
  <2>2. QED
    BY <2>1, OtherTree
<1> HIDE DEF out
<1>3. /\ out.tree = M.tree \ {s} /\ out.chained = M.chained
      /\ out.header = M.header /\ out.lost = FALSE
  BY <1>2
<1>4. out \in Memories
  BY <1>2, TidyFacts DEF Memories
<1>5. Free(out) = Free(M) \ {s}
  BY <1>3, TreeOrChain DEF Free
<1>6. Hung(out)
  <2>1. Hung(M)
    BY DEF Tidy
  <2>2. \A t \in M.chained : t[2] # s[2]
    BY DEF Behind
  <2>3. QED
    BY <2>1, <2>2, <1>3 DEF Hung
<1>7. QED
  BY <1>1, <1>3, <1>4, <1>5, <1>6 DEF Without

LEMMA DetachedTidy ==
    ASSUME NEW M, NEW X, Tidy(M, X), NEW s \in Free(M), NEW Q \in Detached(M, s)
    PROVE  Q = Lost \/ Without(M, s, Q)
<1>1. CASE s \in M.chained
  <2> DEFINE out == [M EXCEPT !.chained = @ \ {s}]
  <2>1. Q = out
    BY <1>1 DEF Detached
  <2>2. out = [tree |-> M.tree, chained |-> M.chained \ {s}, header |-> M.header, lost |-> FALSE]
    <3>1. M \in Memories /\ M.lost = FALSE
      BY DEF Tidy, Memories
    <3>2. QED
      BY <3>1, OtherChained
  <2> HIDE DEF out
  <2>3. /\ out.tree = M.tree /\ out.chained = M.chained \ {s}
        /\ out.header = M.header /\ out.lost = FALSE
    BY <2>2
  <2>4. out \in Memories
    BY <2>2, TidyFacts DEF Memories
  <2>5. Free(out) = Free(M) \ {s}
    BY <1>1, <2>3, TreeOrChain DEF Free
  <2>6. Hung(out)
    BY <2>3 DEF Tidy, Hung
  <2>7. QED
    BY <2>1, <2>3, <2>4, <2>5, <2>6 DEF Without
<1>2. CASE s \notin M.chained /\ Behind(M, s) = {}
  <2>1. Q \in TakenOut(M, s)
    BY <1>2 DEF Detached
  <2>2. s \in M.tree
    BY <1>2 DEF Free
  <2>3. QED
    BY <1>2, <2>1, <2>2, TakenOutTidy
<1>3. CASE s \notin M.chained /\ Behind(M, s) # {}
  BY <1>3 DEF Detached
<1>4. QED
  BY <1>1, <1>2, <1>3

-----------------------------------------------------------------------------
(* A segment that is filed.                                                *)

LEMMA MarkedFields ==
    ASSUME NEW M \in Memories, NEW s \in Placed
    PROVE  /\ Marked(M, s) \in Memories
           /\ Marked(M, s).tree = M.tree /\ Marked(M, s).chained = M.chained
           /\ Marked(M, s).lost = M.lost
           /\ Marked(M, s).header[s[1]] = Header(s[1], Last(s), s[2])
           /\ Marked(M, s).header[Last(s)] = Header(s[1], Last(s), s[2])
           /\ \A b \in Memory : b # s[1] /\ b # Last(s) => Marked(M, s).header[b] = M.header[b]
<1> DEFINE H  == Header(s[1], Last(s), s[2])
           h1 == [M.header EXCEPT ![s[1]] = H]
           h2 == [h1 EXCEPT ![Last(s)] = H]
<1>1. s[1] \in Region /\ Last(s) \in Region /\ s[2] \in Region /\ Region \subseteq Memory
  BY Placement, NAssumption DEF Region, Memory
<1>2. H \in Headers
  BY <1>1 DEF Header, Headers, Region
<1>3. M.header \in [Memory -> Headers]
  BY DEF Memories
<1> HIDE DEF H
<1>4. h1 \in [Memory -> Headers] /\ h1[s[1]] = H
      /\ \A b \in Memory : b # s[1] => h1[b] = M.header[b]
  BY <1>1, <1>2, <1>3
<1> HIDE DEF h1
<1>5. /\ h2 \in [Memory -> Headers] /\ h2[Last(s)] = H /\ h2[s[1]] = H
      /\ \A b \in Memory : b # s[1] /\ b # Last(s) => h2[b] = M.header[b]
  BY <1>1, <1>2, <1>4
<1>6. Marked(M, s) = [M EXCEPT !.header = h2]
  BY DEF Marked, H, h1
<1> HIDE DEF h2
<1>7. Marked(M, s) = [tree |-> M.tree, chained |-> M.chained, header |-> h2, lost |-> M.lost]
  BY <1>6, OtherHeader
<1>8. Marked(M, s) \in Memories
  BY <1>5, <1>7 DEF Memories
<1>9. /\ Marked(M, s).tree = M.tree /\ Marked(M, s).chained = M.chained
      /\ Marked(M, s).lost = M.lost /\ Marked(M, s).header = h2
  BY <1>7
<1>10. QED
  BY <1>5, <1>8, <1>9 DEF H

LEMMA CoverMore ==
    ASSUME NEW S \in SUBSET Placed, NEW X \in SUBSET Region, Covers(S, X),
           NEW s \in Placed, Span(s) \subseteq X
    PROVE  Covers(S \cup {s}, X \ Span(s))
<1>1. \A b : b \in Region \ (X \ Span(s)) <=> \E t \in S \cup {s} : b \in Span(t)
  <2>1. \A b : b \in Region \ X <=> \E t \in S : b \in Span(t)
    BY Covered
  <2>2. \A b : b \in Region \ (X \ Span(s)) <=> b \in Region \ X \/ b \in Span(s)
    OBVIOUS
  <2>3. QED
    BY <2>1, <2>2
<1>2. QED
  BY <1>1 DEF Covers

(* A segment of blocks that are in no other, and that touches none, joins. *)
LEMMA FiledTidy ==
    ASSUME NEW M, NEW X, Tidy(M, X), NEW s \in Placed, Span(s) \subseteq X,
           \A t \in Free(M) : Last(t) + 1 # s[1] /\ Last(s) + 1 # t[1]
    PROVE  Tidy(Filed(M, s), X \ Span(s))
<1> DEFINE K == Marked(M, s)
           R == Filed(M, s)
           behind == \E t \in M.tree : t[2] = s[2]
<1>1. /\ Free(M) \in SUBSET Placed /\ Apart(Free(M)) /\ Covers(Free(M), X) /\ Merged(Free(M))
      /\ X \in SUBSET Region /\ M.lost = FALSE /\ M \in Memories
  BY TidyFacts DEF Tidy
<1>2. \A t \in Free(M) : Span(t) \cap X = {}
  BY <1>1, Uncovered
<1>3. /\ K \in Memories /\ K.tree = M.tree /\ K.chained = M.chained /\ K.lost = M.lost
  BY <1>1, MarkedFields
<1>4. K.header[s[1]] = Header(s[1], Last(s), s[2]) /\ K.header[Last(s)] = Header(s[1], Last(s), s[2])
  BY <1>1, MarkedFields
<1>5. ASSUME NEW t \in Free(M)
      PROVE  K.header[t[1]] = M.header[t[1]] /\ K.header[Last(t)] = M.header[Last(t)]
  <2>1. t \in Placed /\ t[1] \in Memory /\ Last(t) \in Memory
    BY <1>1, Placement, NAssumption DEF Region, Memory
  <2>2. t[1] \notin Span(s) /\ Last(t) \notin Span(s)
    BY <1>2, <2>1, Ends
  <2>3. t[1] # s[1] /\ t[1] # Last(s) /\ Last(t) # s[1] /\ Last(t) # Last(s)
    BY <2>2, Ends
  <2>4. QED
    BY <1>1, <2>1, <2>3, MarkedFields
<1> HIDE DEF K
<1>6. R = IF behind THEN [K EXCEPT !.chained = @ \cup {s}] ELSE [K EXCEPT !.tree = @ \cup {s}]
  BY <1>1 DEF Filed, K
<1>7. R = [tree |-> IF behind THEN M.tree ELSE M.tree \cup {s},
           chained |-> IF behind THEN M.chained \cup {s} ELSE M.chained,
           header |-> K.header, lost |-> FALSE]
  <2>1. CASE behind
    <3>1. R = [K EXCEPT !.chained = K.chained \cup {s}]
      BY <1>6, <2>1
    <3>2. QED
      BY <1>1, <1>3, <2>1, <3>1, OtherChained
  <2>2. CASE ~behind
    <3>1. R = [K EXCEPT !.tree = K.tree \cup {s}]
      BY <1>6, <2>2
    <3>2. QED
      BY <1>1, <1>3, <2>2, <3>1, OtherTree
  <2>3. QED
    BY <2>1, <2>2
<1> HIDE DEF R
<1>8. /\ R.header = K.header /\ R.lost = FALSE
      /\ behind => R.tree = M.tree /\ R.chained = M.chained \cup {s}
      /\ ~behind => R.tree = M.tree \cup {s} /\ R.chained = M.chained
  BY <1>7
<1>9. R \in Memories
  <2>1. K.header \in [Memory -> Headers]
    BY <1>3 DEF Memories
  <2>2. M.tree \subseteq Placed /\ M.chained \subseteq Placed
    BY TidyFacts
  <2>3. QED
    BY <1>7, <2>1, <2>2 DEF Memories
<1>10. Free(R) = Free(M) \cup {s}
  BY <1>8 DEF Free
<1>11. s \notin Free(M)
  BY <1>2, Ends
<1>12. Apart(Free(R))
  BY <1>1, <1>2, <1>10 DEF Apart
<1>13. Covers(Free(R), X \ Span(s))
  BY <1>1, <1>10, CoverMore
<1>14. Merged(Free(R))
  BY <1>1, <1>10, Placement DEF Merged, Region
<1>15. \A t \in Free(R) : HeadMarked(R, t) /\ TailMarked(R, t)
  <2>1. HeadMarked(R, s) /\ TailMarked(R, s)
    BY <1>4, <1>8 DEF HeadMarked, TailMarked
  <2>2. ASSUME NEW t \in Free(M)
        PROVE  HeadMarked(R, t) /\ TailMarked(R, t)
    <3>1. X # {}
      BY Ends
    <3>2. HeadMarked(M, t) /\ TailMarked(M, t)
      BY <3>1 DEF Tidy
    <3>3. QED
      BY <1>5, <1>8, <3>2 DEF HeadMarked, TailMarked
  <2>3. QED
    BY <1>10, <2>1, <2>2
<1>16. Hung(R)
  <2>1. Hung(M)
    BY DEF Tidy
  <2>2. M.tree \subseteq Free(M)
    BY DEF Free
  <2>3. QED
    BY <1>8, <1>11, <2>1, <2>2 DEF Hung
<1>17. QED
  BY <1>1, <1>8, <1>9, <1>12, <1>13, <1>14, <1>15, <1>16 DEF Tidy, R

-----------------------------------------------------------------------------
(* A release.                                                              *)

LEMMA LostFields ==
    /\ Lost.tree = {} /\ Lost.chained = {} /\ Lost.lost = TRUE /\ Free(Lost) = {}
    /\ Lost \in Memories
<1>1. Blank \in Headers
  BY NAssumption DEF Blank, Header, Headers
<1>2. QED
  BY <1>1 DEF Lost, Free, Memories

LEMMA JoinedLost ==
    ASSUME NEW nb, NEW Q \in Joined(Lost, nb)
    PROVE  Q = Lost
<1>1. ASSUME NEW s, Q \in Detached(Lost, s)
      PROVE  Q = Lost
  <2>1. Behind(Lost, s) = {} /\ s \notin Lost.chained
    BY LostFields DEF Behind
  <2>2. Q \in TakenOut(Lost, s)
    BY <1>1, <2>1 DEF Detached
  <2>3. [Lost EXCEPT !.tree = Lost.tree \ {s}] = Lost
    BY LostFields DEF Lost
  <2>4. QED
    BY <2>2, <2>3 DEF TakenOut, Refusal
<1>2. QED
  BY <1>1 DEF Joined

Covering(S) == UNION {Span(s) : s \in S}

LEMMA JoinedTidy ==
    ASSUME NEW M, NEW X, Tidy(M, X), NEW nb \in SUBSET Free(M), \A s, t \in nb : s = t,
           NEW Q \in Joined(M, nb)
    PROVE  \/ Q = Lost
           \/ /\ Tidy(Q, X \cup Covering(nb))
              /\ Q.header = M.header /\ Free(Q) = Free(M) \ nb
<1>1. CASE nb = {}
  <2>1. Q = M /\ X \cup Covering(nb) = X
    BY <1>1 DEF Joined, Covering
  <2>2. QED
    BY <1>1, <2>1
<1>2. CASE nb # {}
  <2>1. PICK s \in nb : Q \in Detached(M, s)
    BY <1>2 DEF Joined
  <2>2. nb = {s} /\ Covering(nb) = Span(s)
    BY DEF Covering
  <2>3. Q = Lost \/ Without(M, s, Q)
    BY <2>1, DetachedTidy
  <2>4. ASSUME Without(M, s, Q)
        PROVE  Tidy(Q, X \cup Span(s)) /\ Q.header = M.header /\ Free(Q) = Free(M) \ {s}
    BY <2>4, OutTidy DEF Without
  <2>5. QED
    BY <2>2, <2>3, <2>4
<1>3. QED
  BY <1>1, <1>2

(* The blocks that come to a release from a neighbour.                     *)
LEMMA FrontIs ==
    ASSUME NEW M, NEW X, Tidy(M, X), X # {}, NEW first \in Region, NEW start,
           start = IF Before(M, first) = {} THEN first ELSE M.header[first - 1].head
    PROVE  /\ start \in Region /\ start <= first
           /\ Covering(Before(M, first)) = start .. first - 1
           /\ \A t \in Free(M) \ Before(M, first) : Last(t) + 1 # start
<1> DEFINE B == Before(M, first)
<1>1. /\ B = {s \in Free(M) : Last(s) = first - 1}
      /\ \A s \in B : M.header[first - 1].head = s[1]
  BY BeforeIs
<1>2. Free(M) \subseteq Placed /\ Merged(Free(M))
  BY TidyFacts
<1>3. CASE B = {}
  <2>1. start = first /\ Covering(B) = {}
    BY <1>3 DEF Covering
  <2>2. start .. first - 1 = {}
    BY <2>1 DEF Region
  <2>3. \A t \in Free(M) : Last(t) # first - 1
    BY <1>1, <1>3
  <2>4. \A t \in Free(M) : Last(t) + 1 # start
    <3>1. \A t \in Free(M) : Last(t) \in Int
      BY <1>2, Placement DEF Region
    <3>2. QED
      BY <2>1, <2>3, <3>1 DEF Region
  <2>5. start \in Region /\ start <= first
    BY <2>1 DEF Region
  <2>6. QED
    BY <2>1, <2>2, <2>4, <2>5
<1>4. CASE B # {}
  <2>1. PICK s \in B : TRUE
    BY <1>4
  <2>2. B = {s}
    BY <1>1, <2>1, OneNeighbour
  <2>3. s \in Placed /\ start = s[1] /\ Last(s) = first - 1
    BY <1>1, <1>2, <1>4, <2>1
  <2>4. Covering(B) = Span(s)
    BY <2>2 DEF Covering
  <2>5. Span(s) = start .. first - 1
    BY <2>3 DEF Span
  <2>6. \A t \in Free(M) : Last(t) + 1 # start
    BY <1>1, <1>2, <2>1, <2>3 DEF Merged
  <2>7. start \in Region /\ start <= first
    BY <2>3, Placement DEF Region
  <2>8. QED
    BY <2>4, <2>5, <2>6, <2>7
<1>5. QED
  BY <1>3, <1>4

LEMMA BackIs ==
    ASSUME NEW M, NEW X, Tidy(M, X), X # {}, NEW last \in Region, NEW end,
           end = IF After(M, last) = {} THEN last ELSE M.header[last + 1].tail
    PROVE  /\ end \in Region /\ last <= end
           /\ Covering(After(M, last)) = last + 1 .. end
           /\ \A t \in Free(M) \ After(M, last) : end + 1 # t[1]
<1> DEFINE A == After(M, last)
<1>1. /\ A = {s \in Free(M) : s[1] = last + 1}
      /\ \A s \in A : M.header[last + 1].tail = Last(s)
  BY AfterIs
<1>2. Free(M) \subseteq Placed /\ Merged(Free(M))
  BY TidyFacts
<1>3. CASE A = {}
  <2>1. end = last /\ Covering(A) = {}
    BY <1>3 DEF Covering
  <2>2. last + 1 .. end = {}
    BY <2>1 DEF Region
  <2>3. \A t \in Free(M) : last + 1 # t[1]
    BY <1>1, <1>3
  <2>4. QED
    BY <1>3, <2>1, <2>2, <2>3 DEF Region
<1>4. CASE A # {}
  <2>1. PICK s \in A : TRUE
    BY <1>4
  <2>2. A = {s}
    BY <1>1, <2>1, OneNeighbour
  <2>3. s \in Placed /\ end = Last(s) /\ s[1] = last + 1
    BY <1>1, <1>2, <1>4, <2>1
  <2>4. Covering(A) = Span(s)
    BY <2>2 DEF Covering
  <2>5. Span(s) = last + 1 .. end
    BY <2>3 DEF Span
  <2>6. \A t \in Free(M) : end + 1 # t[1]
    BY <1>1, <1>2, <2>1, <2>3 DEF Merged
  <2>7. end \in Region /\ last <= end
    BY <2>3, Placement DEF Region
  <2>8. QED
    BY <2>4, <2>5, <2>6, <2>7
<1>5. QED
  BY <1>3, <1>4

LEMMA Released ==
    ASSUME NEW M, NEW first, NEW last, NEW R \in Deallocated(M, first, last)
    PROVE  \E start, end :
             /\ start = IF Before(M, first) = {} THEN first ELSE M.header[first - 1].head
             /\ end = IF After(M, last) = {} THEN last ELSE M.header[last + 1].tail
             /\ \E Q \in Joined(M, Before(M, first)) : \E P \in Joined(Q, After(M, last)) :
                   R = Filed(P, <<start, end - start + 1>>)
BY DEF Deallocated

LEMMA FiledLost ==
    ASSUME NEW s
    PROVE  Filed(Lost, s) = Lost
BY LostFields DEF Filed

(* A segment between two blocks of the region.                             *)
LEMMA Between ==
    ASSUME NEW start \in Region, NEW end \in Region, start <= end
    PROVE  /\ <<start, end - start + 1>> \in Placed
           /\ Span(<<start, end - start + 1>>) = start .. end
           /\ Last(<<start, end - start + 1>>) = end
           /\ <<start, end - start + 1>>[1] = start
<1> DEFINE s == <<start, end - start + 1>>
<1>1. s[1] = start /\ s[2] = end - start + 1 /\ Last(s) = end
  BY DEF Last, Region
<1>2. s \in Region \X Region
  BY NAssumption DEF Region
<1>3. QED
  BY <1>1, <1>2 DEF Placed, Span

(* Before and behind the blocks released no other segment is a neighbour.  *)
LEMMA ApartNeighbours ==
    ASSUME NEW M, NEW X, Tidy(M, X), X # {}, NEW first \in Region, NEW last \in Region, first <= last
    PROVE  /\ Before(M, first) \subseteq Free(M) /\ After(M, last) \subseteq Free(M)
           /\ Before(M, first) \cap After(M, last) = {}
           /\ \A s, t \in Before(M, first) : s = t
           /\ \A s, t \in After(M, last) : s = t
<1>1. /\ Before(M, first) = {s \in Free(M) : Last(s) = first - 1}
      /\ After(M, last) = {s \in Free(M) : s[1] = last + 1}
  BY BeforeIs, AfterIs
<1>2. \A s \in Free(M) : s[1] \in Int /\ Last(s) \in Int /\ s[1] <= Last(s)
  <2>1. Free(M) \subseteq Placed
    BY TidyFacts
  <2>2. QED
    BY <2>1, Placement DEF Region
<1>3. Before(M, first) \cap After(M, last) = {}
  BY <1>1, <1>2 DEF Region
<1>4. QED
  BY <1>1, <1>3, OneNeighbour

(* Whatever the neighbours, a release leaves a tidy memory in which the    *)
(* blocks it names are free, or the loss of a segment it joins.            *)
LEMMA ReleaseTidy ==
    ASSUME NEW M, NEW X, Tidy(M, X), NEW first \in Region, NEW last \in Region, first <= last,
           first .. last \subseteq X, NEW R \in Deallocated(M, first, last)
    PROVE  \/ R = Lost /\ \E Q \in Joined(M, Before(M, first)) : Lost \in Joined(Q, After(M, last))
           \/ Tidy(R, X \ (first .. last))
<1> DEFINE B == Before(M, first)
           A == After(M, last)
<1>1. PICK start, end :
         /\ start = IF B = {} THEN first ELSE M.header[first - 1].head
         /\ end = IF A = {} THEN last ELSE M.header[last + 1].tail
         /\ \E Q \in Joined(M, B) : \E P \in Joined(Q, A) :
               R = Filed(P, <<start, end - start + 1>>)
  BY Released
<1>2. X # {}
  BY DEF Region
<1>3. /\ start \in Region /\ start <= first /\ Covering(B) = start .. first - 1
      /\ \A t \in Free(M) \ B : Last(t) + 1 # start
  BY <1>1, <1>2, FrontIs
<1>4. /\ end \in Region /\ last <= end /\ Covering(A) = last + 1 .. end
      /\ \A t \in Free(M) \ A : end + 1 # t[1]
  BY <1>1, <1>2, BackIs
<1>5. /\ B \subseteq Free(M) /\ A \subseteq Free(M) /\ B \cap A = {}
      /\ \A s, t \in B : s = t
      /\ \A s, t \in A : s = t
  BY <1>2, ApartNeighbours
<1> DEFINE seg == <<start, end - start + 1>>
<1>6. seg \in Placed /\ Span(seg) = start .. end /\ Last(seg) = end /\ seg[1] = start
  <2>1. start <= end
    BY <1>3, <1>4 DEF Region
  <2>2. QED
    BY <1>3, <1>4, <2>1, Between
<1>7. PICK Q \in Joined(M, B) : \E P \in Joined(Q, A) : R = Filed(P, seg)
  BY <1>1
<1>8. PICK P \in Joined(Q, A) : R = Filed(P, seg)
  BY <1>7
<1>9. Covering(A) \cap X = {} /\ Covering(B) \cap X = {}
  <2>1. \A s \in Free(M) : Span(s) \cap X = {}
    <3>1. Covers(Free(M), X)
      BY DEF Tidy
    <3>2. QED
      BY <3>1, Uncovered
  <2>2. QED
    BY <1>5, <2>1 DEF Covering
<1> HIDE DEF A, B, seg
<1>10. \/ Q = Lost
       \/ Tidy(Q, X \cup Covering(B)) /\ Free(Q) = Free(M) \ B
  BY <1>5, <1>7, JoinedTidy
<1>11. CASE Q = Lost
  <2>1. P = Lost /\ R = Lost
    BY <1>8, <1>11, JoinedLost, FiledLost
  <2>2. QED
    BY <1>7, <1>8, <1>11, <2>1 DEF A, B
<1>12. CASE Tidy(Q, X \cup Covering(B)) /\ Free(Q) = Free(M) \ B
  <2> DEFINE Z == X \cup Covering(B)
             Y == Z \cup Covering(A)
  <2>1. A \in SUBSET Free(Q) /\ Tidy(Q, Z)
    BY <1>5, <1>12
  <2>2. P = Lost \/ (Tidy(P, Y) /\ Free(P) = Free(Q) \ A)
    <3>1. P \in Joined(Q, A) /\ \A s, t \in A : s = t
      BY <1>5, <1>8
    <3> HIDE DEF Z
    <3>2. QED
      BY <2>1, <3>1, JoinedTidy
  <2>3. CASE P = Lost
    <3>1. R = Lost
      BY <1>8, <2>3, FiledLost
    <3>2. QED
      BY <1>7, <1>8, <2>3, <3>1 DEF A, B
  <2>4. CASE Tidy(P, Y) /\ Free(P) = Free(Q) \ A
    <3>1. Span(seg) \subseteq Y
      BY <1>3, <1>4, <1>6 DEF Region
    <3>2. \A t \in Free(P) : Last(t) + 1 # seg[1] /\ Last(seg) + 1 # t[1]
      BY <1>3, <1>4, <1>6, <1>12, <2>4
    <3>3. Tidy(Filed(P, seg), Y \ Span(seg))
      BY <1>6, <2>4, <3>1, <3>2, FiledTidy
    <3>4. Y \ Span(seg) = X \ (first .. last)
      BY <1>3, <1>4, <1>6, <1>9 DEF Region
    <3>5. QED
      BY <1>8, <3>3, <3>4
  <2>5. QED
    BY <2>2, <2>3, <2>4
<1>13. QED
  BY <1>10, <1>11, <1>12

-----------------------------------------------------------------------------
(* A request.                                                              *)

LEMMA BestFitFacts ==
    ASSUME NEW M, NEW X, Tidy(M, X), NEW count \in Region, NEW s \in BestFit(M, count)
    PROVE  s \in M.tree /\ s \in Free(M) /\ s \in Placed /\ s[2] >= count
BY TidyFacts DEF BestFit, Free

(* The part of segment s that is handed out, and what is left of it.       *)
LEMMA Cut ==
    ASSUME NEW s \in Placed, NEW count \in Region, s[2] >= count, s[2] # count
    PROVE  /\ s[1] + count \in Region /\ s[1] + count <= Last(s)
           /\ Span(s) \ (s[1] + count .. Last(s)) = Extent(s[1], count)
           /\ (s[1] + count) .. Last(s) \subseteq Span(s)
<1>1. /\ s[1] \in Nat /\ s[2] \in Nat /\ count \in Nat /\ s[1] >= 1 /\ count >= 1
      /\ Last(s) = s[1] + s[2] - 1 /\ Last(s) <= N
  BY Placement, NAssumption DEF Region
<1>2. QED
  BY <1>1, NAssumption DEF Region, Span, Extent

LEMMA GrantedTidy ==
    ASSUME NEW M, NEW X, Tidy(M, X), NEW count \in Region, NEW s \in BestFit(M, count),
           NEW R \in Granted(M, s, count)
    PROVE  R = Lost \/ Tidy(R, X \cup Extent(s[1], count))
<1> DEFINE taken == IF Behind(M, s) = {} THEN TakenOut(M, s) ELSE {Lost}
           first == s[1] + count
<1>1. s \in M.tree /\ s \in Free(M) /\ s \in Placed /\ s[2] >= count
  BY BestFitFacts
<1>2. ASSUME NEW Q \in taken
      PROVE  Q = Lost \/ Tidy(Q, X \cup Span(s))
  <2>1. Q = Lost \/ Without(M, s, Q)
    BY <1>1, <1>2, TakenOutTidy
  <2>2. QED
    BY <1>1, <2>1, OutTidy DEF Without
<1>3. CASE s[2] = count
  <2>1. R \in taken
    BY <1>3 DEF Granted
  <2>2. Span(s) = Extent(s[1], count)
    BY <1>3 DEF Span, Extent, Last
  <2>3. QED
    BY <1>2, <2>1, <2>2
<1>4. CASE s[2] # count
  <2>1. PICK Q \in taken : R \in Deallocated(Q, first, Last(s))
    BY <1>4 DEF Granted
  <2> HIDE DEF taken
  <2>2. CASE Q = Lost
    <3>1. PICK start, end : \E Q2 \in Joined(Lost, Before(Lost, first)) :
                              \E P \in Joined(Q2, After(Lost, Last(s))) :
                                 R = Filed(P, <<start, end - start + 1>>)
      BY <2>1, <2>2, Released
    <3>2. R = Filed(Lost, <<start, end - start + 1>>)
      BY <3>1, JoinedLost
    <3>3. QED
      BY <3>2, FiledLost
  <2>3. CASE Tidy(Q, X \cup Span(s))
    <3> DEFINE Y == X \cup Span(s)
    <3>1. /\ first \in Region /\ Last(s) \in Region /\ first <= Last(s)
          /\ Span(s) \ (first .. Last(s)) = Extent(s[1], count)
          /\ first .. Last(s) \subseteq Span(s)
      BY <1>1, <1>4, Cut, Placement
    <3>2. first .. Last(s) \subseteq Y
      BY <3>1
    <3>3. R = Lost \/ Tidy(R, Y \ (first .. Last(s)))
      <4> HIDE DEF Y, first
      <4>1. Tidy(Q, Y)
        BY <2>3 DEF Y
      <4>2. QED
        BY <2>1, <3>1, <3>2, <4>1, ReleaseTidy
    <3>4. Span(s) \cap X = {}
      <4>1. Covers(Free(M), X)
        BY DEF Tidy
      <4>2. QED
        BY <1>1, <4>1, Uncovered
    <3>5. Y \ (first .. Last(s)) = X \cup Extent(s[1], count)
      BY <3>1, <3>4
    <3>6. QED
      BY <3>3, <3>5
  <2>4. QED
    BY <1>2, <2>1, <2>2, <2>3
<1>5. QED
  BY <1>3, <1>4

-----------------------------------------------------------------------------
(* The invariant.                                                          *)

LEMMA InitTidy ==
    ASSUME Init
    PROVE  IInv
<1> DEFINE s == <<1, N>>
           old(b) == IF b \in Stale THEN Header(b, b, 1) ELSE Blank
<1>1. /\ mem.tree = {s} /\ mem.chained = {} /\ mem.lost = FALSE /\ held = {} /\ answer = NULL
      /\ mem.header = [b \in Memory |-> CASE b = 1 -> Header(1, N, N)
                                          [] b = N -> [old(N) EXCEPT !.len = N]
                                          [] OTHER -> old(b)]
      /\ mem = [tree |-> mem.tree, chained |-> mem.chained, header |-> mem.header, lost |-> mem.lost]
  BY DEF Init
<1>2. s \in Placed /\ s[1] = 1 /\ s[2] = N /\ Last(s) = N /\ Span(s) = Region
  BY NAssumption DEF Placed, Last, Span, Region
<1>3. mem \in Memories
  <2>1. ASSUME NEW b \in Memory
        PROVE  old(b) \in Headers /\ [old(b) EXCEPT !.len = N] \in Headers
    BY NAssumption DEF Headers, Header, Blank, Memory
  <2>2. Header(1, N, N) \in Headers /\ N \in Memory
    BY NAssumption DEF Headers, Header, Memory
  <2> HIDE DEF old
  <2>3. mem.header \in [Memory -> Headers]
    BY <1>1, <2>1, <2>2
  <2>4. QED
    BY <1>1, <1>2, <2>3 DEF Memories
<1>4. Free(mem) = {s}
  BY <1>1 DEF Free
<1>5. HeadMarked(mem, s)
  <2>1. 1 \in Memory
    BY NAssumption DEF Memory
  <2> DEFINE h == [b \in Memory |-> CASE b = 1 -> Header(1, N, N)
                                      [] b = N -> [old(N) EXCEPT !.len = N]
                                      [] OTHER -> old(b)]
  <2>2. mem.header[1] = Header(1, N, N)
    <3> HIDE DEF old
    <3>1. h[1] = Header(1, N, N)
      BY <2>1, NAssumption
    <3>2. mem.header = h
      BY <1>1
    <3> HIDE DEF h
    <3>3. QED
      BY <3>1, <3>2
  <2> HIDE DEF s
  <2>3. QED
    BY <1>2, <2>2 DEF HeadMarked
<1>6. Apart(Free(mem)) /\ Covers(Free(mem), {}) /\ Merged(Free(mem)) /\ Hung(mem)
  BY <1>1, <1>2, <1>4, NAssumption DEF Apart, Covers, Merged, Hung
<1>7. QED
  BY <1>1, <1>3, <1>4, <1>5, <1>6 DEF Tidy, IInv

LEMMA NotLost ==
    ASSUME IInv, ~mem.lost
    PROVE  Tidy(mem, held) /\ held \subseteq Region
BY LostFields DEF IInv, Tidy

(* A step to a memory that is tidy or lost.                                *)
LEMMA StepTidy ==
    ASSUME NEW X, mem' = Lost \/ Tidy(mem', X), NEW block, block \in Region \cup {NULL},
           HeldIs(X), AnswerIs(block)
    PROVE  IInv'
<1>1. CASE mem' = Lost
  <2>1. held' = {} /\ answer' = NULL
    BY <1>1, LostFields DEF HeldIs, AnswerIs
  <2>2. QED
    BY <1>1, <2>1 DEF IInv
<1>2. CASE Tidy(mem', X)
  <2>1. mem'.lost = FALSE /\ mem' # Lost
    BY <1>2, TidyFacts, LostFields
  <2>2. held' = X /\ answer' = block
    BY <2>1 DEF HeldIs, AnswerIs
  <2>3. Tidy(mem, held)'
    BY <1>2, <2>2 DEF Tidy
  <2>4. QED
    BY <2>1, <2>2, <2>3 DEF IInv
<1>3. QED
  BY <1>1, <1>2

LEMMA AllocateTidy ==
    ASSUME IInv, NEW count \in Region, Allocate(count)
    PROVE  IInv'
<1>1. Tidy(mem, held)
  BY NotLost DEF Allocate
<1>2. CASE answer' = NULL /\ UNCHANGED <<mem, held>>
  BY <1>2 DEF IInv, Tidy
<1>3. CASE \E s \in BestFit(mem, count) : /\ mem' \in Granted(mem, s, count)
                                          /\ HeldIs(held \cup Extent(s[1], count))
                                          /\ AnswerIs(s[1])
  <2>1. PICK s \in BestFit(mem, count) : /\ mem' \in Granted(mem, s, count)
                                         /\ HeldIs(held \cup Extent(s[1], count))
                                         /\ AnswerIs(s[1])
    BY <1>3
  <2>2. s[1] \in Region
    BY <1>1, BestFitFacts, Placement
  <2>3. mem' = Lost \/ Tidy(mem', held \cup Extent(s[1], count))
    BY <1>1, <2>1, GrantedTidy
  <2>4. QED
    BY <2>1, <2>2, <2>3, StepTidy
<1>4. QED
  BY <1>2, <1>3 DEF Allocate

(* The last of the blocks that are given back.                             *)
LEMMA GivenBack ==
    ASSUME held \subseteq Region, NEW first \in held, NEW len \in Region, Extent(first, len) \subseteq held
    PROVE  /\ first \in Region /\ first + len - 1 \in Region /\ first <= first + len - 1
           /\ Extent(first, len) = first .. first + len - 1
<1>1. Extent(first, len) = first .. first + len - 1
  BY DEF Extent
<1>2. first \in Nat /\ len \in Nat /\ len >= 1
  BY NAssumption DEF Region
<1>3. first + len - 1 \in first .. first + len - 1
  BY <1>2
<1>4. QED
  BY <1>1, <1>2, <1>3

LEMMA DeallocateTidy ==
    ASSUME IInv, NEW first \in held, NEW len \in Region, Deallocate(first, len)
    PROVE  IInv'
<1>1. Tidy(mem, held) /\ held \subseteq Region /\ Extent(first, len) \subseteq held
  BY NotLost DEF Deallocate
<1> DEFINE last == first + len - 1
<1>2. first \in Region /\ last \in Region /\ first <= last /\ Extent(first, len) = first .. last
  BY <1>1, GivenBack
<1>3. /\ mem' \in Deallocated(mem, first, last)
      /\ HeldIs(held \ (first .. last)) /\ AnswerIs(answer)
  BY <1>2 DEF Deallocate
<1> HIDE DEF last
<1>4. mem' = Lost \/ Tidy(mem', held \ (first .. last))
  BY <1>1, <1>2, <1>3, ReleaseTidy
<1>5. answer \in Region \cup {NULL}
  BY DEF IInv
<1>6. QED
  BY <1>3, <1>4, <1>5, StepTidy

LEMMA ClearTidy ==
    ASSUME IInv, NEW b \in Region, Clear(b)
    PROVE  IInv'
<1>1. Tidy(mem, held) /\ b \in held /\ mem \in Memories
  BY NotLost DEF Clear, Tidy
<1> DEFINE h == [mem.header EXCEPT ![b] = Blank]
<1>2. mem' = [mem EXCEPT !.header = h]
  BY DEF Clear
<1>3. h \in [Memory -> Headers]
  <2>1. Blank \in Headers
    BY NAssumption DEF Blank, Header, Headers
  <2>2. QED
    BY <1>1, <2>1, TidyFacts
<1>4. \A d \in Memory : d # b => h[d] = mem.header[d]
  BY <1>1, TidyFacts
<1> HIDE DEF h
<1>5. mem' = [tree |-> mem.tree, chained |-> mem.chained, header |-> h, lost |-> mem.lost]
  BY <1>1, <1>2, OtherHeader
<1>6. mem'.tree = mem.tree /\ mem'.chained = mem.chained /\ mem'.header = h /\ mem'.lost = mem.lost
  BY <1>5
<1>7. mem' \in Memories /\ ~mem'.lost
  BY <1>1, <1>3, <1>5, <1>6 DEF Memories, Tidy
<1>8. Free(mem') = Free(mem) /\ (Hung(mem) => Hung(mem'))
  BY <1>6 DEF Free, Hung
<1>9. ASSUME NEW s \in Free(mem)
      PROVE  HeadMarked(mem', s) /\ TailMarked(mem', s)
  <2>1. s \in Placed /\ Span(s) \cap held = {}
    <3>1. Covers(Free(mem), held)
      BY <1>1 DEF Tidy
    <3>2. QED
      BY <1>1, <3>1, TidyFacts, Uncovered
  <2>2. s[1] # b /\ Last(s) # b /\ s[1] \in Memory /\ Last(s) \in Memory
    BY <1>1, <2>1, Ends, Placement, NAssumption DEF Region, Memory
  <2>3. HeadMarked(mem, s) /\ TailMarked(mem, s)
    BY <1>1 DEF Tidy
  <2>4. QED
    BY <1>4, <1>6, <2>2, <2>3 DEF HeadMarked, TailMarked
<1>10. Tidy(mem', held)
  BY <1>1, <1>7, <1>8, <1>9 DEF Tidy
<1>11. UNCHANGED <<held, answer>>
  BY DEF Clear
<1>12. mem' # Lost
  BY <1>7, LostFields
<1>13. QED
  BY <1>10, <1>11, <1>12 DEF IInv, Tidy

LEMMA StepKeeps ==
    ASSUME IInv, [Next]_vars
    PROVE  IInv'
<1>1. CASE \E count \in Region : Allocate(count)
  BY <1>1, AllocateTidy
<1>2. CASE \E first \in held, len \in Region : Deallocate(first, len)
  BY <1>2, DeallocateTidy
<1>3. CASE \E b \in Region : Clear(b)
  BY <1>3, ClearTidy
<1>4. CASE UNCHANGED vars
  BY <1>4 DEF IInv, Tidy, vars
<1>5. QED
  BY <1>1, <1>2, <1>3, <1>4 DEF Next, Unfollowed

(* In every state a memory that is not lost is tidy: its segments are      *)
(* apart, merged and marked, and cover what nobody holds.                  *)
THEOREM SegmentInvariant == Spec => []IInv
BY InitTidy, StepKeeps, PTL DEF Spec

(* Partition and Coalesced, for a region of any size and whatever headers  *)
(* were left in it: deallocateBlocks and allocateBlocks hand no block out  *)
(* twice, lose none and leave no two free neighbours apart.                *)
THEOREM FreeSpaceStaysInOrder == Spec => []FreeSpaceInOrder
<1>1. IInv => FreeSpaceInOrder
  <2>1. ASSUME mem = Lost, IInv
        PROVE  FreeSpaceInOrder
    BY <2>1, LostFields DEF IInv, FreeSpaceInOrder, TypeOK, Partition, Coalesced
  <2>2. ASSUME Tidy(mem, held), IInv
        PROVE  FreeSpaceInOrder
    <3>1. TypeOK
      BY <2>2 DEF IInv, Tidy, TypeOK
    <3>2. Partition /\ Coalesced
      BY <2>2 DEF Tidy, Partition, Coalesced, Apart, Covers, Merged
    <3>3. QED
      BY <3>1, <3>2 DEF FreeSpaceInOrder
  <2>3. QED
    BY <2>1, <2>2 DEF IInv
<1>2. QED
  BY <1>1, SegmentInvariant, PTL

(* Every free segment can be found from the block on either side of it,    *)
(* and hangs on one tree node of its length.                               *)
THEOREM HeadersStayRight == Spec => []HeadersFindSegments
<1>1. IInv => HeadersFindSegments
  <2>1. mem = Lost => HeadersFindSegments
    BY LostFields DEF HeadersFindSegments
  <2>2. Tidy(mem, held) => HeadersFindSegments
    BY DEF Tidy, Hung, HeadMarked, TailMarked, HeadersFindSegments
  <2>3. QED
    BY <2>1, <2>2 DEF IInv
<1>2. QED
  BY <1>1, SegmentInvariant, PTL

-----------------------------------------------------------------------------
(* One segment is safe.                                                    *)

Single(M) == \A s, t \in Free(M) : s = t

LEMMA FewIsSingle ==
    ASSUME NEW M, NEW X, Tidy(M, X), Cardinality(Free(M)) <= 1
    PROVE  Single(M)
<1>1. IsFiniteSet(Region \X Region)
  <2>1. IsFiniteSet(Region)
    BY FS_Interval, NAssumption DEF Region
  <2>2. QED
    BY <2>1, FS_Product
<1>2. Free(M) \subseteq Region \X Region
  BY TidyFacts DEF Placed
<1>3. IsFiniteSet(Free(M))
  BY <1>1, <1>2, FS_Subset
<1>4. ASSUME NEW s \in Free(M), NEW t \in Free(M), s # t
      PROVE  FALSE
  <2>1. IsFiniteSet({s, t}) /\ Cardinality({s, t}) <= Cardinality(Free(M))
    BY <1>3, FS_Subset
  <2>2. Cardinality({s}) = 1 /\ IsFiniteSet({s})
    BY FS_Singleton
  <2>3. Cardinality({s} \cup {t}) = Cardinality({s}) + 1
    BY <1>4, <2>2, FS_AddElement
  <2>4. {s} \cup {t} = {s, t}
    OBVIOUS
  <2>5. Cardinality({s, t}) = 2
    BY <2>2, <2>3, <2>4
  <2>6. Cardinality(Free(M)) \in Nat
    BY <1>3, FS_CardinalityType
  <2>7. QED
    BY <2>1, <2>5, <2>6
<1>5. QED
  BY <1>4 DEF Single

(* A single segment is the whole tree, and nothing hangs on it.            *)
LEMMA SingleFacts ==
    ASSUME NEW M, NEW X, Tidy(M, X), Single(M)
    PROVE  /\ M.chained = {}
           /\ \A s \in Free(M) : M.tree = {s} /\ Behind(M, s) = {}
<1>1. M.chained = {}
  BY DEF Tidy, Hung, Single, Free
<1>2. \A s \in Free(M) : M.tree = {s}
  BY <1>1 DEF Single, Free
<1>3. QED
  BY <1>1, <1>2 DEF Behind

LEMMA SingleTaken ==
    ASSUME NEW M, NEW X, Tidy(M, X), Single(M), NEW s \in Free(M)
    PROVE  Lost \notin TakenOut(M, s) /\ Lost \notin Detached(M, s)
<1>1. M.chained = {} /\ M.tree = {s} /\ Behind(M, s) = {}
  BY SingleFacts
<1>2. TakenOut(M, s) = {[M EXCEPT !.tree = M.tree \ {s}]}
  BY <1>1 DEF TakenOut, Refusal
<1>3. M \in Memories /\ M.lost = FALSE
  BY TidyFacts DEF Tidy
<1>4. [M EXCEPT !.tree = M.tree \ {s}] =
         [tree |-> M.tree \ {s}, chained |-> M.chained, header |-> M.header, lost |-> M.lost]
  BY <1>3, OtherTree
<1>5. [M EXCEPT !.tree = M.tree \ {s}].lost = FALSE
  BY <1>3, <1>4
<1>6. Lost \notin TakenOut(M, s)
  BY <1>2, <1>5, LostFields
<1>7. Detached(M, s) = TakenOut(M, s)
  BY <1>1 DEF Detached
<1>8. QED
  BY <1>6, <1>7

LEMMA SingleJoined ==
    ASSUME NEW M, NEW X, Tidy(M, X), Single(M), NEW nb \in SUBSET Free(M)
    PROVE  Lost \notin Joined(M, nb)
<1>1. M # Lost
  BY TidyFacts, LostFields
<1>2. QED
  BY <1>1, SingleTaken DEF Joined

LEMMA SingleReleased ==
    ASSUME NEW M, NEW X, Tidy(M, X), Single(M), NEW first \in Region, NEW last \in Region,
           first <= last, first .. last \subseteq X
    PROVE  Lost \notin Deallocated(M, first, last)
<1> DEFINE B == Before(M, first)
           A == After(M, last)
<1> SUFFICES ASSUME Lost \in Deallocated(M, first, last)
             PROVE  FALSE
  OBVIOUS
<1>1. X # {}
  BY DEF Region
<1>2. /\ B \subseteq Free(M) /\ A \subseteq Free(M) /\ B \cap A = {}
      /\ \A s, t \in B : s = t
  BY <1>1, ApartNeighbours
<1>3. ~Tidy(Lost, X \ (first .. last))
  BY LostFields DEF Tidy
<1>4. PICK Q \in Joined(M, B) : Lost \in Joined(Q, A)
  BY <1>3, ReleaseTidy
<1> HIDE DEF A, B
<1>5. Q # Lost
  BY <1>2, <1>4, SingleJoined
<1>6. Tidy(Q, X \cup Covering(B)) /\ Free(Q) = Free(M) \ B
  BY <1>2, <1>4, <1>5, JoinedTidy
<1>7. Single(Q) /\ A \subseteq Free(Q)
  BY <1>2, <1>6 DEF Single
<1>8. QED
  BY <1>4, <1>6, <1>7, SingleJoined

LEMMA SingleGranted ==
    ASSUME NEW M, NEW X, Tidy(M, X), Single(M), NEW count \in Region, NEW s \in BestFit(M, count)
    PROVE  Lost \notin Granted(M, s, count)
<1>1. s \in M.tree /\ s \in Free(M) /\ s \in Placed /\ s[2] >= count
  BY BestFitFacts
<1>2. Behind(M, s) = {} /\ Lost \notin TakenOut(M, s)
  BY <1>1, SingleFacts, SingleTaken
<1>3. CASE s[2] = count
  BY <1>2, <1>3 DEF Granted
<1>4. CASE s[2] # count
  <2> DEFINE first == s[1] + count
             Y == X \cup Span(s)
  <2>1. ASSUME NEW Q \in TakenOut(M, s)
        PROVE  Lost \notin Deallocated(Q, first, Last(s))
    <3>1. Without(M, s, Q)
      BY <1>1, <1>2, TakenOutTidy
    <3>2. Tidy(Q, Y) /\ Single(Q)
      BY <1>1, <3>1, OutTidy DEF Without, Single
    <3>3. /\ first \in Region /\ Last(s) \in Region /\ first <= Last(s)
          /\ first .. Last(s) \subseteq Y
      BY <1>1, <1>4, Cut, Placement
    <3> HIDE DEF first, Y
    <3>4. QED
      BY <3>2, <3>3, SingleReleased
  <2>2. Granted(M, s, count) = UNION {Deallocated(Q, first, Last(s)) : Q \in TakenOut(M, s)}
    BY <1>2, <1>4 DEF Granted
  <2>3. QED
    BY <2>1, <2>2
<1>5. QED
  BY <1>3, <1>4

(* No request and no release loses track while the free space is one       *)
(* segment: the refusal of the tree and the two uses of a chain all need   *)
(* two.  The boot sequence of kernel_main, which only requests, is safe.   *)
THEOREM OneSegmentStaysSafe == Spec => OneSegmentIsSafe
<1> DEFINE Few == ~mem.lost /\ Cardinality(Free(mem)) <= 1
<1>1. ASSUME IInv, [Next]_vars, Few
      PROVE  ~mem'.lost
  <2>1. Tidy(mem, held) /\ Single(mem) /\ held \subseteq Region
    BY <1>1, NotLost, FewIsSingle
  <2>2. IInv'
    BY <1>1, StepKeeps
  <2>3. mem' # Lost => ~mem'.lost
    BY <2>2 DEF IInv, Tidy
  <2>4. ASSUME NEW count \in Region, Allocate(count)
        PROVE  mem' # Lost
    <3>1. mem # Lost
      BY <1>1, LostFields
    <3>2. QED
      BY <2>1, <2>4, <3>1, SingleGranted DEF Allocate
  <2>5. ASSUME NEW first \in held, NEW len \in Region, Deallocate(first, len)
        PROVE  mem' # Lost
    <3> DEFINE last == first + len - 1
    <3>1. mem' \in Deallocated(mem, first, last) /\ Extent(first, len) \subseteq held
      BY <2>5 DEF Deallocate
    <3>2. first \in Region /\ last \in Region /\ first <= last /\ first .. last \subseteq held
      BY <2>1, <3>1, GivenBack
    <3> HIDE DEF last
    <3>3. QED
      BY <2>1, <3>1, <3>2, SingleReleased
  <2>6. ASSUME NEW b \in Region, Clear(b)
        PROVE  ~mem'.lost
    <3>1. mem \in Memories
      BY <2>1 DEF Tidy
    <3>2. mem' = [mem EXCEPT !.header = [mem.header EXCEPT ![b] = Blank]]
      BY <2>6 DEF Clear
    <3>3. mem'.lost = mem.lost
      BY <3>1, <3>2, OtherHeader
    <3>4. QED
      BY <1>1, <3>3
  <2>7. CASE UNCHANGED vars
    BY <1>1, <2>7 DEF vars
  <2>8. QED
    BY <1>1, <2>3, <2>4, <2>5, <2>6, <2>7 DEF Next, Unfollowed
<1>2. QED
  BY <1>1, SegmentInvariant, PTL DEF Spec, OneSegmentIsSafe

-----------------------------------------------------------------------------
(* The promise.                                                            *)

(* The free segments are the maximal runs of free blocks.                  *)
LEMMA SegmentIsRun ==
    ASSUME NEW M, NEW X, Tidy(M, X), NEW s \in Free(M)
    PROVE  <<s[1], Last(s)>> \in Promise!Runs(Region \ X)
<1>1. Free(M) \in SUBSET Placed /\ Apart(Free(M)) /\ Covers(Free(M), X) /\ Merged(Free(M))
  BY TidyFacts
<1>2. s[1] - 1 \notin Region \ X /\ Last(s) + 1 \notin Region \ X
  BY <1>1, Maximal
<1>3. Span(s) \subseteq Region \ X
  BY <1>1, Covered
<1>4. s[1] \in Region \ X /\ Last(s) \in Region \ X /\ s[1] <= Last(s)
  BY <1>1, <1>3, Ends, Placement
<1>5. s[1] .. Last(s) \subseteq Region \ X
  BY <1>3 DEF Span
<1>6. QED
  BY <1>2, <1>4, <1>5 DEF Promise!Runs

LEMMA RunIsSegment ==
    ASSUME NEW M, NEW X, Tidy(M, X), NEW r \in Promise!Runs(Region \ X)
    PROVE  \E s \in Free(M) : s[1] = r[1] /\ Last(s) = r[2]
<1>1. Free(M) \in SUBSET Placed /\ Apart(Free(M)) /\ Covers(Free(M), X) /\ Merged(Free(M))
  BY TidyFacts
<1>2. /\ r[1] \in Region \ X /\ r[2] \in Region \ X /\ r[1] <= r[2]
      /\ r[1] .. r[2] \subseteq Region \ X
      /\ r[1] - 1 \notin Region \ X /\ r[2] + 1 \notin Region \ X
  BY DEF Promise!Runs
<1>3. PICK s \in Free(M) : r[1] \in Span(s)
  BY <1>1, <1>2, Covered
<1>4. s \in Placed /\ Last(s) + 1 \notin Region \ X
  BY <1>1, Maximal
<1>5. \A b \in Span(s) : b \in Region \ X
  BY <1>1, Covered
<1>6. /\ s[1] \in Int /\ Last(s) \in Int /\ r[1] \in Int /\ r[2] \in Int
      /\ s[1] <= r[1] /\ r[1] <= Last(s)
  BY <1>2, <1>3, <1>4, Placement DEF Region
<1>7. s[1] = r[1]
  <2>1. s[1] < r[1] => r[1] - 1 \in Span(s)
    BY <1>4, <1>6, Placement
  <2>2. QED
    BY <1>2, <1>5, <1>6, <2>1
<1>8. Last(s) = r[2]
  <2>1. Last(s) > r[2] => r[2] + 1 \in Span(s)
    BY <1>2, <1>4, <1>6, Placement
  <2>2. Last(s) < r[2] => Last(s) + 1 \in r[1] .. r[2]
    BY <1>6
  <2>3. QED
    BY <1>2, <1>4, <1>5, <1>6, <2>1, <2>2
<1>9. QED
  BY <1>7, <1>8

LEMMA RunSize ==
    ASSUME NEW s \in Placed, NEW r, r[1] = s[1], r[2] = Last(s)
    PROVE  Promise!Size(r) = s[2]
BY Placement DEF Promise!Size, Region

(* Every free segment has one of its length in the tree.                   *)
LEMMA LengthInTree ==
    ASSUME NEW M, NEW X, Tidy(M, X), NEW t \in Free(M)
    PROVE  \E u \in M.tree : u[2] = t[2]
BY DEF Tidy, Hung, Free

LEMMA BestFitKept ==
    ASSUME NEW M, NEW X, Tidy(M, X), NEW count \in Region, NEW s \in BestFit(M, count)
    PROVE  <<s[1], Last(s)>> \in Promise!BestFits(Region \ X, count)
<1> DEFINE r == <<s[1], Last(s)>>
<1>1. s \in M.tree /\ s \in Free(M) /\ s \in Placed /\ s[2] >= count
  BY BestFitFacts
<1>2. r \in Promise!Runs(Region \ X) /\ Promise!Size(r) = s[2]
  BY <1>1, SegmentIsRun, RunSize
<1>3. ASSUME NEW q \in Promise!Runs(Region \ X), Promise!Size(q) >= count
      PROVE  s[2] <= Promise!Size(q)
  <2>1. PICK t \in Free(M) : t[1] = q[1] /\ Last(t) = q[2]
    BY RunIsSegment
  <2>2. t \in Placed
    BY TidyFacts
  <2>3. Promise!Size(q) = t[2]
    BY <2>1, <2>2, RunSize
  <2>4. PICK u \in M.tree : u[2] = t[2]
    BY LengthInTree
  <2>5. QED
    BY <1>3, <2>3, <2>4 DEF BestFit
<1> HIDE DEF r
<1>4. QED
  BY <1>1, <1>2, <1>3 DEF Promise!BestFits, r

(* A set of numbers has a least one.                                       *)
LEMMA LeastLength ==
    ASSUME NEW S \in SUBSET Nat, S # {}
    PROVE  \E x \in S : \A y \in S : x <= y
<1>1. \E x \in S : \A y \in S : ~(<<y, x>> \in OpToRel(<, Nat))
  BY NatLessThanWellFounded, WFMin
<1>2. \A x, y \in S : ~(<<y, x>> \in OpToRel(<, Nat)) => x <= y
  BY DEF OpToRel
<1>3. QED
  BY <1>1, <1>2

LEMMA RefusalKept ==
    ASSUME NEW M, NEW X, Tidy(M, X), NEW count \in Region, BestFit(M, count) = {}
    PROVE  Promise!BestFits(Region \ X, count) = {}
<1>1. M.tree \subseteq Placed /\ Free(M) \subseteq Placed
  BY TidyFacts
<1>2. \A t \in M.tree : ~(t[2] >= count)
  <2> DEFINE enough == {n \in Nat : n >= count /\ \E t \in M.tree : t[2] = n}
  <2>1. ASSUME NEW t \in M.tree, t[2] >= count
        PROVE  FALSE
    <3>1. t[2] \in enough
      BY <1>1, <2>1, Placement DEF Region
    <3>2. PICK x \in enough : \A y \in enough : x <= y
      BY <3>1, LeastLength
    <3>3. PICK s \in M.tree : s[2] = x
      BY <3>2
    <3>4. \A u \in M.tree : u[2] >= count => s[2] <= u[2]
      <4>1. \A u \in M.tree : u[2] >= count => u[2] \in enough
        BY <1>1, Placement DEF Region
      <4>2. QED
        BY <3>2, <3>3, <4>1
    <3>5. s[2] >= count
      BY <3>2, <3>3
    <3>6. s \in BestFit(M, count)
      BY <3>4, <3>5 DEF BestFit
    <3>7. QED
      BY <3>6
  <2>2. QED
    BY <2>1
<1>3. \A t \in Free(M) : ~(t[2] >= count)
  BY <1>2, LengthInTree
<1>4. ASSUME NEW q \in Promise!Runs(Region \ X)
      PROVE  ~(Promise!Size(q) >= count)
  <2>1. PICK t \in Free(M) : t[1] = q[1] /\ Last(t) = q[2]
    BY RunIsSegment
  <2>2. Promise!Size(q) = t[2]
    BY <1>1, <2>1, RunSize
  <2>3. QED
    BY <1>3, <2>2
<1>5. QED
  BY <1>4 DEF Promise!BestFits

(* Free blocks of two segments are split.                                  *)
LEMMA SplitApart ==
    ASSUME NEW M, NEW X, Tidy(M, X), ~Single(M)
    PROVE  Promise!Split(Region \ X)
<1>1. PICK s \in Free(M), t \in Free(M) : s # t
  BY DEF Single
<1>2. /\ Free(M) \in SUBSET Placed /\ Apart(Free(M)) /\ Covers(Free(M), X) /\ Merged(Free(M))
      /\ s \in Placed /\ t \in Placed
  BY TidyFacts
<1>3. s[1] - 1 \notin Region \ X /\ t[1] - 1 \notin Region \ X
  BY <1>2, Maximal
<1>4. s[1] \in Region \ X /\ t[1] \in Region \ X
  BY <1>2, Covered, Ends
<1>5. s[1] # t[1]
  BY <1>1, <1>2, Ends, Meeting
<1>6. QED
  BY <1>3, <1>4, <1>5 DEF Promise!Split

(* A segment with another behind it is granted with a loss.                *)
LEMMA ChainedIsLost ==
    ASSUME NEW M, NEW s, NEW count, Behind(M, s) # {}, NEW R \in Granted(M, s, count)
    PROVE  R = Lost
<1>1. CASE s[2] = count
  BY <1>1 DEF Granted
<1>2. CASE s[2] # count
  <2>1. R \in Deallocated(Lost, s[1] + count, Last(s))
    BY <1>2 DEF Granted
  <2>2. PICK start, end : \E Q \in Joined(Lost, Before(Lost, s[1] + count)) :
                            \E P \in Joined(Q, After(Lost, Last(s))) :
                               R = Filed(P, <<start, end - start + 1>>)
    BY <2>1, Released
  <2>3. R = Filed(Lost, <<start, end - start + 1>>)
    BY <2>2, JoinedLost
  <2>4. QED
    BY <2>3, FiledLost
<1>3. QED
  BY <1>1, <1>2

(* With nothing behind it, the best fit is the only one.                   *)
LEMMA OnlyFitKept ==
    ASSUME NEW M, NEW X, Tidy(M, X), NEW count \in Region, NEW s \in BestFit(M, count),
           Behind(M, s) = {}
    PROVE  <<s[1], Last(s)>> \in Promise!OnlyFit(Region \ X, count)
<1> DEFINE r == <<s[1], Last(s)>>
<1>1. s \in M.tree /\ s \in Placed
  BY BestFitFacts
<1>2. r \in Promise!BestFits(Region \ X, count)
  BY BestFitKept
<1>3. Promise!Size(r) = s[2]
  BY <1>1, RunSize
<1>4. ASSUME NEW q \in Promise!BestFits(Region \ X, count)
      PROVE  q = r
  <2>1. q \in Promise!Runs(Region \ X) /\ Promise!Size(q) >= count
        /\ Promise!Size(q) <= Promise!Size(r) /\ Promise!Size(r) <= Promise!Size(q)
    <3> HIDE DEF r
    <3>1. QED
      BY <1>2 DEF Promise!BestFits
  <2>2. PICK t \in Free(M) : t[1] = q[1] /\ Last(t) = q[2]
    BY <2>1, RunIsSegment
  <2>3. t \in Placed
    BY TidyFacts
  <2>4. Promise!Size(q) = t[2]
    BY <2>2, <2>3, RunSize
  <2>5. t[2] = s[2]
    BY <1>1, <1>3, <2>1, <2>3, <2>4, Placement DEF Region
  <2>6. t \notin M.chained
    BY <2>5 DEF Behind
  <2>7. t \in M.tree
    BY <2>6 DEF Free
  <2>8. t = s
    BY <1>1, <2>5, <2>7 DEF Tidy, Hung
  <2>9. q = <<q[1], q[2]>>
    BY <2>1 DEF Promise!Runs
  <2>10. QED
    BY <2>2, <2>8, <2>9
<1> HIDE DEF r
<1>5. Promise!BestFits(Region \ X, count) = {r}
  BY <1>2, <1>4
<1>6. QED
  BY <1>5 DEF Promise!OnlyFit, r

(* The promise's view of a memory in which track is lost.                  *)
LEMMA ShownLost ==
    ASSUME mem' = Lost, NEW block, AnswerIs(block)
    PROVE  Promise!Lose
<1>1. mem'.lost = TRUE /\ answer' = NULL
  BY LostFields DEF AnswerIs
<1>2. QED
  BY <1>1 DEF Promise!Lose

LEMMA AllocateTakes ==
    ASSUME IInv, NEW count \in Region, Allocate(count)
    PROVE  Promise!Take(count)
<1>1. Tidy(mem, held) /\ mem.lost = FALSE /\ mem # Lost
  BY NotLost, TidyFacts, LostFields DEF Allocate
<1>2. CASE BestFit(mem, count) = {} /\ answer' = NULL /\ UNCHANGED <<mem, held>>
  <2>1. Promise!BestFits(Region \ held, count) = {}
    BY <1>1, <1>2, RefusalKept
  <2>2. mem' = mem /\ held' = held
    BY <1>2
  <2>3. QED
    BY <1>1, <1>2, <2>1, <2>2 DEF Promise!Take
<1>3. CASE \E s \in BestFit(mem, count) : /\ mem' \in Granted(mem, s, count)
                                          /\ HeldIs(held \cup Extent(s[1], count))
                                          /\ AnswerIs(s[1])
  <2>1. PICK s \in BestFit(mem, count) : /\ mem' \in Granted(mem, s, count)
                                         /\ HeldIs(held \cup Extent(s[1], count))
                                         /\ AnswerIs(s[1])
    BY <1>3
  <2> DEFINE r == <<s[1], Last(s)>>
             X == held \cup Extent(s[1], count)
  <2>2. r \in Promise!BestFits(Region \ held, count) /\ r[1] = s[1]
    BY <1>1, BestFitKept
  <2>3. mem' = Lost \/ Tidy(mem', X)
    BY <1>1, <2>1, GrantedTidy
  <2>4. CASE mem' = Lost
    <3>1. ~Single(mem)
      BY <1>1, <2>1, <2>4, SingleGranted
    <3>2. Promise!Split(Region \ held)
      BY <1>1, <3>1, SplitApart
    <3>3. Promise!Lose
      BY <2>1, <2>4, ShownLost
    <3> HIDE DEF r, X
    <3>4. QED
      BY <1>1, <2>2, <3>2, <3>3 DEF Promise!Take, Promise!RequestMayLose
  <2>5. CASE Tidy(mem', X)
    <3>1. mem'.lost = FALSE /\ mem' # Lost
      BY <2>5, TidyFacts, LostFields
    <3>2. held' = X /\ answer' = s[1]
      BY <2>1, <3>1 DEF HeldIs, AnswerIs
    <3>3. Behind(mem, s) = {}
      BY <2>1, <3>1, ChainedIsLost
    <3>4. r \in Promise!OnlyFit(Region \ held, count)
      BY <1>1, <3>3, OnlyFitKept
    <3>5. Region \ X = (Region \ held) \ Promise!Extent(s[1], count)
      BY DEF Extent, Promise!Extent
    <3> HIDE DEF r, X
    <3>6. QED
      BY <1>1, <2>2, <3>1, <3>2, <3>4, <3>5 DEF Promise!Take
  <2>6. QED
    BY <2>3, <2>4, <2>5
<1>4. QED
  BY <1>2, <1>3 DEF Allocate

(* A release that loses track has met a free block beside its own, and     *)
(* there were others.                                                      *)
LEMMA LosingRelease ==
    ASSUME NEW M, NEW X, Tidy(M, X), NEW first \in Region, NEW len \in Region,
           first + len - 1 \in Region, first <= first + len - 1,
           first .. first + len - 1 \subseteq X, Lost \in Deallocated(M, first, first + len - 1)
    PROVE  Promise!ReleaseMayLose(Region \ X, first, len)
<1> DEFINE last == first + len - 1
           B == Before(M, first)
           A == After(M, last)
<1>1. ~Single(M)
  BY SingleReleased
<1>2. Promise!Split(Region \ X)
  BY <1>1, SplitApart
<1>3. X # {}
  BY DEF Region
<1>4. ~Tidy(Lost, X \ (first .. last)) /\ M # Lost
  BY TidyFacts, LostFields DEF Tidy
<1>5. PICK Q \in Joined(M, B) : Lost \in Joined(Q, A)
  <2> HIDE DEF last
  <2>1. QED
    BY <1>4, ReleaseTidy DEF last
<1>6. B # {} \/ A # {}
  <2> HIDE DEF A, B
  <2>1. QED
    BY <1>4, <1>5 DEF Joined
<1>7. Free(M) \subseteq Placed /\ \A s \in Free(M) : \A b \in Span(s) : b \in Region \ X
  <2>1. Free(M) \subseteq Placed /\ Covers(Free(M), X)
    BY TidyFacts
  <2> HIDE DEF last, A, B
  <2>2. QED
    BY <2>1, Covered
<1>8. B = {s \in Free(M) : Last(s) = first - 1} /\ A = {s \in Free(M) : s[1] = last + 1}
  BY <1>3, BeforeIs, AfterIs
<1>9. CASE B # {}
  <2>1. PICK s \in Free(M) : Last(s) = first - 1
    BY <1>8, <1>9
  <2>2. first - 1 \in Region \ X
    BY <1>7, <2>1, Ends
  <2>3. QED
    BY <1>2, <2>2 DEF Promise!ReleaseMayLose
<1>10. CASE A # {}
  <2>1. PICK s \in Free(M) : s[1] = last + 1
    BY <1>8, <1>10
  <2>2. last + 1 = first + len
    BY DEF Region
  <2>3. first + len \in Region \ X
    BY <1>7, <2>1, <2>2, Ends
  <2>4. QED
    BY <1>2, <2>3 DEF Promise!ReleaseMayLose
<1>11. QED
  BY <1>6, <1>9, <1>10

LEMMA DeallocateGives ==
    ASSUME IInv, NEW first \in held, NEW len \in Region, Deallocate(first, len)
    PROVE  first \in Region /\ Promise!Give(first, len)
<1>1. /\ Tidy(mem, held) /\ mem.lost = FALSE /\ held \subseteq Region
      /\ Extent(first, len) \subseteq held
  BY NotLost, TidyFacts DEF Deallocate
<1> DEFINE last == first + len - 1
           X == held \ (first .. last)
<1>2. first \in Region /\ last \in Region /\ first <= last /\ Extent(first, len) = first .. last
  BY <1>1, GivenBack
<1>3. /\ mem' \in Deallocated(mem, first, last)
      /\ HeldIs(X) /\ AnswerIs(answer)
  BY <1>2 DEF Deallocate
<1>4. mem' = Lost \/ Tidy(mem', X)
  <2> HIDE DEF last
  <2>1. QED
    BY <1>1, <1>2, <1>3, ReleaseTidy
<1>5. /\ Promise!Extent(first, len) = first .. last
      /\ Region \ X = (Region \ held) \cup (first .. last)
      /\ Region \ (Region \ held) = held
      /\ first .. last \subseteq held
  BY <1>1, <1>2 DEF Promise!Extent
<1>6. CASE mem' = Lost
  <2>1. Promise!ReleaseMayLose(Region \ held, first, len)
    BY <1>1, <1>2, <1>3, <1>5, <1>6, LosingRelease
  <2> HIDE DEF X, last
  <2>2. Promise!Lose
    BY <1>3, <1>6, ShownLost
  <2>3. QED
    BY <1>1, <1>2, <1>5, <2>1, <2>2 DEF Promise!Give
<1>7. CASE Tidy(mem', X)
  <2> HIDE DEF X, last
  <2>1. mem'.lost = FALSE
    BY <1>7, TidyFacts
  <2>2. held' = X /\ answer' = answer
    BY <1>3, <2>1 DEF HeldIs, AnswerIs
  <2>3. QED
    BY <1>1, <1>2, <1>5, <2>1, <2>2 DEF Promise!Give
<1>8. QED
  BY <1>4, <1>6, <1>7

(* Whatever is requested and released in whatever order: allocateBlocks    *)
(* takes the shortest sufficient run of free blocks and refuses only when  *)
(* there is none, what deallocateBlocks is given is free at once, and they *)
(* lose track only where BlockStore says that they may.  Every step of the *)
(* allocator is one of BlockStore.                                         *)
THEOREM PromiseIsKept == Spec => KeepsPromise
<1>1. Init => Promise!Init
  <2>1. Init => mem.lost = FALSE /\ held = {} /\ answer = NULL
    BY DEF Init
  <2>2. Region \ {} = Region
    OBVIOUS
  <2>3. QED
    BY <2>1, <2>2 DEF Promise!Init
<1>2. 1 .. Promise!Cardinality(Region) = Region
  <2>1. Promise!Cardinality(Region) = Cardinality(Region)
    BY DEF Promise!Cardinality, Cardinality
  <2>2. Cardinality(Region) = N
    BY FS_Interval, NAssumption DEF Region
  <2>3. QED
    BY <2>1, <2>2 DEF Region
<1>3. ASSUME IInv, [Next]_vars
      PROVE  [Promise!Next]_(Promise!bsVars)
  <2>1. CASE \E count \in Region : Allocate(count)
    <3>1. PICK count \in Region : Promise!Take(count)
      BY <1>3, <2>1, AllocateTakes
    <3>2. count \in 1 .. Promise!Cardinality(Region)
      BY <1>2
    <3>3. QED
      BY <3>1, <3>2 DEF Promise!Next
  <2>2. CASE \E first \in held, len \in Region : Deallocate(first, len)
    <3>1. PICK first \in Region, len \in Region : Promise!Give(first, len)
      BY <1>3, <2>2, DeallocateGives
    <3>2. len \in 1 .. Promise!Cardinality(Region)
      BY <1>2
    <3>3. QED
      BY <3>1, <3>2 DEF Promise!Next
  <2>3. CASE \E b \in Region : Clear(b)
    <3>1. PICK b \in Region : Clear(b)
      BY <2>3
    <3>2. mem \in Memories
      BY <1>3, <3>1, NotLost DEF Clear, Tidy
    <3>3. mem' = [mem EXCEPT !.header = [mem.header EXCEPT ![b] = Blank]]
          /\ UNCHANGED <<held, answer>>
      BY <3>1 DEF Clear
    <3>4. mem'.lost = mem.lost
      BY <3>2, <3>3, OtherHeader
    <3>5. QED
      BY <3>3, <3>4 DEF Promise!bsVars
  <2>4. CASE UNCHANGED vars
    BY <2>4 DEF vars, Promise!bsVars
  <2>5. QED
    BY <1>3, <2>1, <2>2, <2>3, <2>4 DEF Next, Unfollowed
<1>4. QED
  BY <1>1, <1>3, SegmentInvariant, PTL DEF Spec, KeepsPromise, Promise!Spec
=============================================================================
