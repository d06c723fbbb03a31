------------------------------- MODULE FileOps -------------------------------
(***************************************************************************)
(* What the operations on a file do to its blocks (datalayer/file.c and    *)
(* datalayer/ptrBlks.c).  FileStore makes a system of files of them, and   *)
(* Boot and Syscalls the files of the whole one.                           *)
(*                                                                         *)
(* A file's meta holds its first data block, the pointer block of the next *)
(* F data blocks, and the pointer block of F more pointer blocks.  Blocks  *)
(* are pushed at the end of the file and popped from it; pointer blocks    *)
(* come from the same allocator as data blocks.                            *)
(*                                                                         *)
(* F is 1024 in the code.  Its third level starts at 1 + F + F * F data    *)
(* blocks, more than a file has whose size is a 32-bit size_t, so it is    *)
(* never used; SizeAssumption says the same of MaxSize here.               *)
(*                                                                         *)
(* The allocator is the one BlockStore describes, with its losses of       *)
(* track: an operation has a result for the case that the allocator keeps  *)
(* track all through it, and says whether that, or the loss, may happen.   *)
(* After a loss a block may be handed out that is in use, or be lost; the  *)
(* model follows the program no further.  The contents of data blocks are  *)
(* left out: a file's bytes are right when its blocks are its own and keep *)
(* their places.                                                           *)
(*                                                                         *)
(* What allocateBlocks returns is not tested before it is pushed.  A       *)
(* refused request for n blocks so pushes NULL and n - 1 addresses that    *)
(* follow it, all FOREIGN here.  fault records an access through such a    *)
(* pointer; the model follows the program no further.                      *)
(***************************************************************************)
EXTENDS Integers, FiniteSets, SequencesExt

CONSTANTS MetaIds,      \* the metas, any of which may be a file's
          Blocks,       \* the blocks of the allocator's region
          F,            \* pointers in a pointer block
          BlockBytes,   \* bytes in a block
          MaxSize,      \* the largest size of a file
          Chunk,        \* bytes the kernel appends at a time
          NULL,         \* the null pointer
          FOREIGN       \* a block outside the region

L2 == 1 + F             \* data blocks below the second level

ASSUME FAssumption      == F \in Nat \ {0}
ASSUME BlocksAssumption == Blocks \subseteq Nat /\ IsFiniteSet(Blocks)
ASSUME NullAssumption   == /\ NULL \notin Blocks
                           /\ FOREIGN \notin Blocks
                           /\ NULL # FOREIGN
ASSUME BytesAssumption  == /\ BlockBytes \in Nat \ {0}
                           /\ Chunk \in Nat \ {0}
                           /\ BlockBytes % Chunk = 0
ASSUME SizeAssumption   == MaxSize \in Nat /\ MaxSize \div BlockBytes + 1 <= 1 + F + F * F

(* An operation works on the state of one file: its meta m, and the memory *)
(* all files share, which are slot, the pointers in each pointer block,    *)
(* free, the blocks the allocator has, and fault; and track, what may have *)
(* become of the allocator's track since the operation began: "kept",      *)
(* "lost" or either.                                                       *)
Store == INSTANCE BlockStore WITH free <- {}, lost <- FALSE, answer <- NULL

Blank == [size |-> 0, blk |-> 0, first |-> NULL, ptr1 |-> NULL, ptr2 |-> NULL]

Empty == [j \in 0 .. F - 1 |-> NULL]

Fail(st, what) == [st EXCEPT !.fault = @ \cup {what}]

(* Where data block i is kept: a pointer block and a position in it.       *)
Child(i) == (i - L2) \div F

(* Mutant: the level boundary one too high.                                *)
LeafLate(st, i) == IF i <= L2 THEN st.m.ptr1 ELSE st.slot[st.m.ptr2][Child(i)]

Leaf(st, i) == IF i < L2 THEN st.m.ptr1 ELSE st.slot[st.m.ptr2][Child(i)]

Position(i) == IF i < L2 THEN i - 1 ELSE (i - L2) % F

(* ptrBlks_getDataBlkAt.                                                   *)
DataBlkAt(st, i) == IF i = 0 THEN st.m.first ELSE st.slot[Leaf(st, i)][Position(i)]

PutDataBlk(st, i, b) ==
    IF i = 0 THEN [st EXCEPT !.m.first = b]
             ELSE [st EXCEPT !.slot[Leaf(st, i)][Position(i)] = b]

-----------------------------------------------------------------------------

(* nvmos_dl_alloc_allocateBlocks, as BlockStore has it.                    *)
Segments(st, count) ==
    {[j \in 1 .. count |-> r[1] + j - 1] : r \in Store!BestFits(st.free, count)}

(* The track after a request for count blocks that is granted.             *)
TrackAfterRequest(st, count) ==
    CASE Store!OnlyFit(st.free, count) = {}     -> {"lost"}
      [] Store!OnlyFit(st.free, count) # {} /\ Store!RequestMayLose(st.free, count)
                                                -> st.track \cup {"lost"}
      [] OTHER                                  -> st.track

(* Block b given back by itself.  The code gives back blocks that follow   *)
(* each other at once, which loses track in no more cases.                 *)
GivenBack(st, b) ==
    [st EXCEPT !.free  = @ \cup {b},
               !.track = IF Store!ReleaseMayLose(st.free, b, 1) THEN @ \cup {"lost"} ELSE @]

(* What is pushed when the request is refused.                             *)
NullSegment(count) == [j \in 1 .. count |-> IF j = 1 THEN NULL ELSE FOREIGN]

(* A block for pointers, zeroed.  Where there is more than one run it may  *)
(* come from, track is lost with it.                                       *)
PtrBlk(st) == (CHOOSE s \in Segments(st, 1) : TRUE)[1]

(* Mutant: the block is used and stays free.                               *)
ZeroedOnly(st, b) == [st EXCEPT !.slot[b] = Empty, !.track = TrackAfterRequest(st, 1)]

Zeroed(st, b) ==
    [st EXCEPT !.free = @ \ {b}, !.slot[b] = Empty, !.track = TrackAfterRequest(st, 1)]

(* The pointer blocks data block i needs and does not have, from the root  *)
(* down: the first data block of a level gets a new root, whatever root    *)
(* the meta still names.                                                   *)
Roots(st, i) ==
    LET b == PtrBlk(st)
    IN  CASE i = 1  -> [Zeroed(st, b) EXCEPT !.m.ptr1 = b]
          [] i = L2 -> [Zeroed(st, b) EXCEPT !.m.ptr2 = b]
          [] OTHER  -> st

Leaves(st, i) ==
    LET b == PtrBlk(st)
    IN  IF i >= L2 /\ st.slot[st.m.ptr2][Child(i)] = NULL
        THEN [Zeroed(st, b) EXCEPT !.slot[st.m.ptr2][Child(i)] = b]
        ELSE st

(* One block of ptrBlks_pushBlks, after the outcome o of those before it;  *)
(* failed is its return value -1.  What has been pushed and allocated      *)
(* before a failure stays.                                                 *)
NoRoot(st, i) == i \in {1, L2} /\ st.free = {}

NoLeaf(st, i) == i >= L2 /\ st.slot[st.m.ptr2][Child(i)] = NULL /\ st.free = {}

Put(st, i, b) == [PutDataBlk(Leaves(st, i), i, b) EXCEPT !.m.blk = i + 1]

PushOne(o, b) ==
    LET i      == o.st.m.blk
        rooted == Roots(o.st, i)
    IN  IF o.failed THEN o
        ELSE IF NoRoot(o.st, i) THEN [st |-> o.st, failed |-> TRUE]
        ELSE IF NoLeaf(rooted, i) THEN [st |-> rooted, failed |-> TRUE]
        ELSE [st |-> Put(rooted, i, b), failed |-> FALSE]

(* ptrBlks_pushBlks of a segment, block by block: the outcomes.            *)
PushRun(st, segment) ==
    LET run[k \in 0 .. Len(segment)] ==
          IF k = 0 THEN {[st |-> st, failed |-> FALSE]}
                   ELSE {PushOne(o, segment[k]) : o \in run[k - 1]}
    IN  run

Pushes(st, segment) == PushRun(st, segment)[Len(segment)]

(* Mutant: a pointer block is unlinked and not released.                   *)
DropLeaf(st, i, leaf) == [st EXCEPT !.slot[st.m.ptr2][Child(i)] = NULL]

(* A pointer block below the second level's root is given back.            *)
ReleaseLeaf(st, i, leaf) ==
    GivenBack([st EXCEPT !.slot[st.m.ptr2][Child(i)] = NULL], leaf)

(* One round of ptrBlks_popBlks.  A pointer block below the second level's *)
(* root goes with its first data block, unless the pop ends there.         *)
PopOne(st, more) ==
    LET i        == st.m.blk - 1
        b        == DataBlkAt(st, i)
        leaf     == Leaf(st, i)
        popped   == GivenBack([PutDataBlk(st, i, NULL) EXCEPT !.m.blk = i], b)
    IN  IF st.fault # {} THEN st
        ELSE IF b \notin Blocks THEN Fail(st, "foreign release")
        ELSE IF more /\ i >= L2 /\ Position(i) = 0
        THEN ReleaseLeaf(popped, i, leaf)
        ELSE popped

(* All rounds of a pop of count blocks.                                    *)
PopRun(st, count) ==
    LET run[k \in 0 .. count] ==
          IF k = 0 THEN st ELSE PopOne(run[k - 1], k < count)
    IN  run

AtMost(st, len) == IF len > st.m.blk THEN st.m.blk ELSE len

(* Mutant: the second level is taken to begin one block early.             *)
PopEarly(st, len) ==
    LET count == AtMost(st, len)
    IN  IF count > 0 /\ st.m.blk = F THEN Fail(st, "null read") ELSE PopRun(st, count)[count]

(* ptrBlks_popBlks of len blocks, or of all when there are fewer.  At L2   *)
(* blocks it decides for the second level, finds no block before the first *)
(* there and takes the last pointer of the root for one.                   *)
Pop(st, len) ==
    LET count == AtMost(st, len)
    IN  IF count > 0 /\ st.m.blk = L2 THEN Fail(st, "null read") ELSE PopRun(st, count)[count]

-----------------------------------------------------------------------------

(* file_write at the end of the file, which is where file_append calls it: *)
(* the blocks for the new size, one more than the bytes need when they end *)
(* with a block, and then the bytes up to the first null block.            *)
BlocksFor(size) == size \div BlockBytes + 1

BlocksNeeded(m, len) ==
    IF len > 0 /\ BlocksFor(m.size + len) > m.blk THEN BlocksFor(m.size + len) - m.blk ELSE 0

Resized(m, size) == [m EXCEPT !.size = size]

(* The copying loop on st, whose blocks have been pushed; old is the meta  *)
(* that stays when the loop stops at a null block.                         *)
Copied(st, old, len) ==
    LET pos     == old.size
        touched == IF len = 0 THEN {} ELSE pos \div BlockBytes .. (pos + len - 1) \div BlockBytes
        nulls   == {i \in touched : DataBlkAt(st, i) = NULL}
        stop    == CHOOSE i \in nulls : \A j \in nulls : i <= j
        written == IF nulls = {} THEN len
                   ELSE IF stop * BlockBytes > pos THEN stop * BlockBytes - pos ELSE 0
        foreign == {i \in touched : DataBlkAt(st, i) = FOREIGN /\ \A j \in nulls : i < j}
        out     == IF foreign = {} THEN st ELSE Fail(st, "foreign write")
    IN  [st  |-> [out EXCEPT !.m = Resized(IF nulls = {} THEN st.m ELSE old, pos + written)],
         ret |-> written]

(* file_append of len bytes that needs the segment's blocks.  A push that  *)
(* fails returns -1.                                                       *)
Appended(st, len, segment) ==
    {IF p.failed THEN [st |-> p.st, ret |-> -1] ELSE Copied(p.st, st.m, len) :
       p \in Pushes(st, segment)}

(* The outcomes of file_append of len bytes.                               *)
Appends(st, len) ==
    LET need  == BlocksNeeded(st.m, len)
        taken(s) == [st EXCEPT !.free = @ \ ToSet(s), !.track = TrackAfterRequest(st, need)]
    IN  CASE need = 0 -> {Copied(st, st.m, len)}
          [] need > 0 /\ Segments(st, need) = {} -> Appended(st, len, NullSegment(need))
          [] OTHER -> UNION {Appended(taken(s), len, s) : s \in Segments(st, need)}

(* file_discardTail.  The difference of the two block counts is a size_t:  *)
(* when the file has fewer blocks than its new size calls for it is huge,  *)
(* and all blocks go.                                                      *)
Discarded(st, len) ==
    LET size == st.m.size - len
        new  == BlocksFor(size)
        gone == IF st.m.blk >= new THEN st.m.blk - new ELSE st.m.blk
    IN  Pop([st EXCEPT !.m.size = size], gone)

(* A round of the loop of ftruncate that grows a file.  i counts what      *)
(* file_append returned, its -1 included; a count that falls below zero is *)
(* a huge number and ends the loop as a success.                           *)
GrowRound(x, target) ==
    IF x.done \/ x.i < 0 \/ x.i >= target \/ x.st.fault # {} THEN {[x EXCEPT !.done = TRUE]}
    ELSE {[st |-> a.st, i |-> x.i + a.ret, done |-> a.ret = 0, ret |-> IF a.ret = 0 THEN 999 ELSE 0] :
             a \in Appends(x.st, Chunk)}

(* Its rounds.  After a push has failed there are no free blocks and all   *)
(* later ones fail, so it ends within so many.                             *)
Rounds(target) == 2 * target + 3

GrowRun(st, target) ==
    LET run[k \in 0 .. Rounds(target)] ==
          IF k = 0 THEN {[st |-> st, i |-> 0, done |-> FALSE, ret |-> 0]}
                   ELSE UNION {GrowRound(x, target) : x \in run[k - 1]}
    IN  run

Grown(st, target) == {x \in GrowRun(st, target)[Rounds(target)] : x.done}

-----------------------------------------------------------------------------

(* The pointer blocks that hold the pointers to a file's data.             *)
PtrBlksOf(st) ==
    {Leaf(st, i) : i \in 1 .. st.m.blk - 1} \cup (IF st.m.blk > L2 THEN {st.m.ptr2} ELSE {})
=============================================================================
