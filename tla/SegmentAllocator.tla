--------------------------- MODULE SegmentAllocator ---------------------------
(***************************************************************************)
(* The block allocator of allocator/allocator.c, with its tree and its     *)
(* chains taken for what they hold: free segments, one of each length in   *)
(* the tree, further ones of that length chained behind it.  Where the     *)
(* memory keeps them is BlockAllocator's, which implements this module;    *)
(* this module implements BlockStore.                                      *)
(*                                                                         *)
(* A segment is <<first block, length>>.  The headers in its first and     *)
(* last block tell a release of the blocks beside it where it begins and   *)
(* ends; other blocks may have any header there ever was.                  *)
(*                                                                         *)
(* The tree may refuse to take a segment out (rbt.c:389) as long as it has *)
(* another one, and two uses of a chain lose segments.  The caller goes on *)
(* all the same; this module ends there, in the value Lost.                *)
(***************************************************************************)
EXTENDS Integers, FiniteSets

CONSTANTS N,            \* blocks in the region
          Stale,        \* blocks that start with a header of an earlier life
          NULL          \* the null pointer

Region == 1 .. N
Memory == 0 .. N + 1

ASSUME NAssumption     == N \in Nat /\ N >= 2
ASSUME StaleAssumption == Stale \subseteq Memory
ASSUME NullAssumption  == NULL \notin Memory

VARIABLES mem,          \* tree, chained, the block headers; whether track is lost
          held,         \* the blocks handed out and not yet given back
          answer        \* what the last request returned

vars == <<mem, held, answer>>

Extent(first, len) == first .. first + len - 1

Last(s) == s[1] + s[2] - 1

Span(s) == s[1] .. Last(s)

Free(M) == M.tree \cup M.chained

(* The segments chained behind a segment of the tree.                      *)
Behind(M, s) == {t \in M.chained : t[2] = s[2]}

(* The segments there can be, and the headers.                             *)
Placed == {s \in Region \X Region : Last(s) \in Region}

Headers == [head : Memory \cup {NULL}, tail : Memory \cup {NULL}, len : 0 .. N]

Memories == [tree : SUBSET Placed, chained : SUBSET Placed,
             header : [Memory -> Headers], lost : BOOLEAN]

Header(head, tail, len) == [head |-> head, tail |-> tail, len |-> len]

Blank == Header(NULL, NULL, 0)

Lost == [tree |-> {}, chained |-> {}, header |-> [b \in Memory |-> Blank], lost |-> TRUE]

-----------------------------------------------------------------------------

LooksLikeTail(M, b) ==
    M.header[b].tail = b /\ M.header[b].head = b - (M.header[b].len - 1)

LooksLikeHead(M, b) ==
    M.header[b].head = b /\ M.header[b].tail = b + (M.header[b].len - 1)

(* Mutant: the header is believed, whether there is such a segment or not. *)
Believed(M, first) ==
    {s \in {<<M.header[first - 1].head, M.header[first - 1].len>>} : LooksLikeTail(M, first - 1)}

(* The free segment that ends in front of block first, or starts behind    *)
(* block last: what the header there says and tree and chains confirm.     *)
Before(M, first) ==
    {s \in Free(M) : /\ LooksLikeTail(M, first - 1)
                     /\ s = <<M.header[first - 1].head, M.header[first - 1].len>>}

After(M, last) ==
    {s \in Free(M) : /\ LooksLikeHead(M, last + 1)
                     /\ s = <<M.header[last + 1].head, M.header[last + 1].len>>}

(* Mutant: the tree refuses its last segment, too.                         *)
RefusesAll(M, s) == {Lost}

Refusal(M, s) == IF M.tree = {s} THEN {} ELSE {Lost}

(* A segment leaves the tree, or the tree keeps it.                        *)
TakenOut(M, s) == {[M EXCEPT !.tree = @ \ {s}]} \cup Refusal(M, s)

(* A segment that a release joins.  One that is chained is unlinked; one   *)
(* of the tree takes those behind it with it.                              *)
Detached(M, s) ==
    CASE s \in M.chained                         -> {[M EXCEPT !.chained = @ \ {s}]}
      [] s \notin M.chained /\ Behind(M, s) = {} -> TakenOut(M, s)
      [] OTHER                                   -> {Lost}

Joined(M, neighbour) ==
    IF neighbour = {} THEN {M} ELSE UNION {Detached(M, s) : s \in neighbour}

(* Mutant: the last block of the segment gets no header.                   *)
MarkedFirst(M, s) == [M EXCEPT !.header[s[1]] = Header(s[1], Last(s), s[2])]

Marked(M, s) ==
    [M EXCEPT !.header[s[1]]   = Header(s[1], Last(s), s[2]),
              !.header[Last(s)] = Header(s[1], Last(s), s[2])]

(* A new segment goes into the tree, or behind the one of its length.      *)
Filed(M, s) ==
    IF M.lost                         THEN M
    ELSE IF \E t \in M.tree : t[2] = s[2]
    THEN [Marked(M, s) EXCEPT !.chained = @ \cup {s}]
    ELSE [Marked(M, s) EXCEPT !.tree    = @ \cup {s}]

(* nvmos_dl_alloc_deallocateBlocks of the blocks from first to last: what  *)
(* may come of it.                                                         *)
Deallocated(M, first, last) ==
    LET before == Before(M, first)
        after  == After(M, last)
        start  == IF before = {} THEN first ELSE M.header[first - 1].head
        end    == IF after = {} THEN last ELSE M.header[last + 1].tail
    IN  {Filed(R, <<start, end - start + 1>>) :
            R \in UNION {Joined(Q, after) : Q \in Joined(M, before)}}

(* Mutant: any segment that is long enough.                                *)
AnyFit(M, count) == {s \in M.tree : s[2] >= count}

(* rbt_findUpperNearest in a tree of lengths.                              *)
BestFit(M, count) ==
    {s \in M.tree : /\ s[2] >= count
                    /\ \A t \in M.tree : t[2] >= count => s[2] <= t[2]}

(* Segment s of the tree is taken and what is left of it is released.  A   *)
(* request that meets a chain takes the last but one of it and loses the   *)
(* last.                                                                   *)
Granted(M, s, count) ==
    LET taken == IF Behind(M, s) = {} THEN TakenOut(M, s) ELSE {Lost}
    IN  IF s[2] = count THEN taken
        ELSE UNION {Deallocated(R, s[1] + count, Last(s)) : R \in taken}

-----------------------------------------------------------------------------

(* nvmos_dl_alloc_createAllocator, as BlockAllocator has it: the region's  *)
(* last block gets the length and no more.                                 *)
Init ==
    LET old(b) == IF b \in Stale THEN Header(b, b, 1) ELSE Blank
    IN  /\ mem = [tree    |-> {<<1, N>>},
                  chained |-> {},
                  header  |-> [b \in Memory |->
                                 CASE b = 1 -> Header(1, N, N)
                                   [] b = N -> [old(N) EXCEPT !.len = N]
                                   [] OTHER -> old(b)],
                  lost    |-> FALSE]
        /\ held = {}
        /\ answer = NULL

(* Nobody is followed beyond the loss.                                     *)
HeldIs(blocks) == held' = IF mem'.lost THEN {} ELSE blocks

AnswerIs(block) == answer' = IF mem'.lost THEN NULL ELSE block

Allocate(count) ==
    /\ ~mem.lost
    /\ \/ /\ BestFit(mem, count) = {}
          /\ answer' = NULL
          /\ UNCHANGED <<mem, held>>
       \/ \E s \in BestFit(mem, count) :
             /\ mem' \in Granted(mem, s, count)
             /\ AnswerIs(s[1])
             /\ HeldIs(held \cup Extent(s[1], count))

Deallocate(first, len) ==
    /\ ~mem.lost
    /\ Extent(first, len) \subseteq held
    /\ mem' \in Deallocated(mem, first, first + len - 1)
    /\ HeldIs(held \ Extent(first, len))
    /\ AnswerIs(answer)

(* A holder clears its block; until then the header in it is a stale one.  *)
Clear(b) ==
    /\ ~mem.lost
    /\ b \in held
    /\ mem' = [mem EXCEPT !.header[b] = Blank]
    /\ UNCHANGED <<held, answer>>

Unfollowed == mem.lost /\ UNCHANGED vars

Next ==
    \/ \E count \in Region : Allocate(count)
    \/ \E first \in held, len \in Region : Deallocate(first, len)
    \/ \E b \in Region : Clear(b)
    \/ Unfollowed

Spec == Init /\ [][Next]_vars

-----------------------------------------------------------------------------

(* Type invariant.  Segments are in the region, and what is in a header    *)
(* was once true of a segment or is blank.                                 *)
TypeOK ==
    /\ mem \in Memories
    /\ held \subseteq Region
    /\ answer \in Region \cup {NULL}

(* No block is handed out twice, none is in two segments and none is lost: *)
(* the segments in tree and chains are disjoint and cover exactly the      *)
(* blocks nobody holds.  Every user of allocateBlocks relies on it, and it *)
(* must survive stale headers in held blocks and every order in which      *)
(* neighbours are freed.                                                   *)
Partition ==
    ~mem.lost =>
      /\ \A s, t \in Free(mem) : s # t => Span(s) \cap Span(t) = {}
      /\ UNION {Span(s) : s \in Free(mem)} = Region \ held

(* Free neighbours are always merged, whichever was freed last: a request  *)
(* that fits into the free space around a block fits into one segment.     *)
Coalesced == ~mem.lost => \A s, t \in Free(mem) : Last(s) + 1 # t[1]

(* The free space is in order: types, partition and merged neighbours.     *)
FreeSpaceInOrder == TypeOK /\ Partition /\ Coalesced

(* The headers a later release reads are right: each segment is found from *)
(* the block before it and from the block after it; and the tree has one   *)
(* segment of each length that is free.  (Until the first request the      *)
(* region's last block does not have its header yet.)                      *)
HeadersFindSegments ==
    ~mem.lost =>
      /\ \A s \in Free(mem) :
            /\ mem.header[s[1]] = Header(s[1], Last(s), s[2])
            /\ held # {} => mem.header[Last(s)] = Header(s[1], Last(s), s[2])
      /\ \A s, t \in mem.tree : s # t => s[2] # t[2]
      /\ \A t \in mem.chained : \E s \in mem.tree : s[2] = t[2] /\ s # t

(* While the free space is one segment no call can lose track of it: the   *)
(* losses need at least two.  The kernel's boot sequence, which only       *)
(* requests, and any last-in first-out use stay on this side.              *)
OneSegmentIsSafe == [][~mem.lost /\ Cardinality(Free(mem)) <= 1 => ~mem'.lost]_vars

Promise == INSTANCE BlockStore WITH
    Blocks <- Region,
    free   <- IF mem.lost THEN {} ELSE Region \ held,
    lost   <- mem.lost

(* The allocator is the best-fit, coalescing store of BlockStore: it takes *)
(* the shortest sufficient run, refuses only when there is none, and a     *)
(* released block is free at once.  It loses track in no other calls than  *)
(* BlockStore says: requests while the free blocks are in several runs,    *)
(* always when two of the shortest ones are of one length, and releases    *)
(* beside a free block then.                                               *)
KeepsPromise == Promise!Spec
=============================================================================
