-------------------------------- MODULE Heap --------------------------------
(***************************************************************************)
(* The heap (mman/Heap.c, mman/HeapFreeBlockList.c): a region of 8-byte    *)
(* blocks and a linked list of the free ones.                              *)
(*                                                                         *)
(* A block is named by its number and the list by the sequence of the      *)
(* blocks it links; the nodes lie in the free blocks themselves, so the    *)
(* list is exactly the free memory.  A request takes blocks that follow    *)
(* each other in memory and in the list, writes their number into the      *)
(* first one and returns the second.  A release links its blocks before    *)
(* the head or behind the last node, never in between.                     *)
(*                                                                         *)
(* Holders keep inside what they asked for and give back what they got,    *)
(* once.                                                                   *)
(*                                                                         *)
(* An operation on an empty list reads through the null head pointer; wild *)
(* records it, and the model follows the program no further.               *)
(***************************************************************************)
EXTENDS Naturals, Sequences, FiniteSets

CONSTANTS BlockCount,   \* blocks in the heap
          Sizes,        \* the byte counts holders ask for
          WordSize,     \* the number of values of size_t
          NULL          \* the null pointer

ASSUME BlockCountAssumption == BlockCount \in Nat \ {0}
ASSUME WordSizeAssumption   == WordSize \in Nat \ {0}
ASSUME SizesAssumption      == Sizes \subseteq 0 .. WordSize - 1
ASSUME NULLAssumption       == NULL \notin Nat

VARIABLES list,         \* the free list, from its head
          header,       \* blocksAllocated, as last written into each block
          live,         \* first blocks of the segments holders have
          asked,        \* the size last asked for of each segment, by first block
          answer,       \* the block the last heap_malloc returned
          wild          \* an operation has read through a null pointer

vars == <<list, header, live, asked, answer, wild>>

Blocks     == 0 .. BlockCount - 1
BlockSize  == 8         \* sizeof(HeapFreeBlockNode)
HeaderSize == 4         \* sizeof(HeapAllocationHeader)

(* The blocks of the segment that starts at s, its header block included.  *)
Segment(s) == s .. s + header[s]

(* Mutant: a remainder gets no block.                                      *)
BlocksRoundedDown(size) == ((size + HeaderSize) % WordSize) \div BlockSize + 1

(* What heap_malloc takes for size bytes; the sum is a size_t.             *)
BlocksNeeded(size) ==
    LET bytes == (size + HeaderSize) % WordSize
    IN  bytes \div BlockSize + (IF bytes % BlockSize # 0 THEN 1 ELSE 0) + 1

(* Mutant: the last block of the run is not looked at.                     *)
IsAlmostRun(i, k) ==
    /\ i + k - 1 \in 1 .. Len(list)
    /\ \A j \in 1 .. k - 2 : list[i + j] = list[i] + j

(* k blocks from position i of the list on follow each other in memory.    *)
IsRun(i, k) ==
    /\ i + k - 1 \in 1 .. Len(list)
    /\ \A j \in 1 .. k - 1 : list[i + j] = list[i] + j

(* A list without the k nodes from position i on.                          *)
Unlinked(q, i, k) == SubSeq(q, 1, i - 1) \o SubSeq(q, i + k, Len(q))

(* The list heapfbll_construct builds of the k blocks from s on.           *)
Linked(s, k) == [j \in 1 .. k |-> s + j - 1]

-----------------------------------------------------------------------------

Init ==
    /\ list = Linked(0, BlockCount)
    /\ header = [b \in Blocks |-> 0]
    /\ live = {}
    /\ asked = [b \in Blocks |-> 0]
    /\ answer = NULL
    /\ wild = FALSE

(* heapfbll_pop: the first run in list order, unlinked.                    *)
Take(size, k) ==
    \E i \in 1 .. Len(list) :
       /\ IsRun(i, k)
       /\ \A h \in 1 .. i - 1 : ~IsRun(h, k)
       /\ list' = Unlinked(list, i, k)
       /\ header' = [header EXCEPT ![list[i]] = k - 1]
       /\ live' = live \cup {list[i]}
       /\ asked' = [asked EXCEPT ![list[i]] = size]
       /\ answer' = list[i] + 1

Refuse(k) ==
    /\ \A i \in 1 .. Len(list) : ~IsRun(i, k)
    /\ answer' = NULL
    /\ UNCHANGED <<list, header, live, asked>>

(* heap_malloc; heap_calloc(len, n) is heap_malloc(len * n).               *)
Malloc(size) ==
    /\ ~wild
    /\ list # << >>
    /\ Take(size, BlocksNeeded(size)) \/ Refuse(BlocksNeeded(size))
    /\ UNCHANGED wild

(* Mutants: the release links one block too many, or forgets the header    *)
(* block.                                                                  *)
FreeOneMore(s) ==
    /\ ~wild
    /\ list # << >>
    /\ s \in live
    /\ list' = IF list[1] > s THEN Linked(s, header[s] + 2) \o list
                              ELSE list \o Linked(s, header[s] + 2)
    /\ live' = live \ {s}
    /\ asked' = [asked EXCEPT ![s] = 0]
    /\ UNCHANGED <<header, answer, wild>>

FreeOneLess(s) ==
    /\ ~wild
    /\ list # << >>
    /\ s \in live
    /\ list' = IF list[1] > s THEN Linked(s, header[s]) \o list
                              ELSE list \o Linked(s, header[s])
    /\ live' = live \ {s}
    /\ asked' = [asked EXCEPT ![s] = 0]
    /\ UNCHANGED <<header, answer, wild>>

(* heap_free, heapfbll_insert.                                             *)
Free(s) ==
    /\ ~wild
    /\ list # << >>
    /\ s \in live
    /\ list' = IF list[1] > s THEN Linked(s, header[s] + 1) \o list
                              ELSE list \o Linked(s, header[s] + 1)
    /\ live' = live \ {s}
    /\ asked' = [asked EXCEPT ![s] = 0]
    /\ UNCHANGED <<header, answer, wild>>

(* heap_malloc or heap_free when every block is taken.                     *)
UseEmptyList ==
    /\ ~wild
    /\ list = << >>
    /\ wild' = TRUE
    /\ UNCHANGED <<list, header, live, asked, answer>>

Unfollowed == wild /\ UNCHANGED vars

Next ==
    \/ \E size \in Sizes : Malloc(size)
    \/ \E s \in Blocks : Free(s)
    \/ UseEmptyList
    \/ Unfollowed

Spec == Init /\ [][Next]_vars

-----------------------------------------------------------------------------

(* Type invariant.                                                         *)
TypeOK ==
    /\ list \in Seq(Blocks)
    /\ header \in [Blocks -> Nat]
    /\ live \subseteq Blocks
    /\ asked \in [Blocks -> Sizes \cup {0}]
    /\ answer \in Nat \cup {NULL}
    /\ wild \in BOOLEAN

Listed == {list[i] : i \in 1 .. Len(list)}

(* No block is linked twice: a list with a cycle or a shared block would   *)
(* hand the same memory out again.                                         *)
NoBlockTwice == \A i, j \in 1 .. Len(list) : list[i] = list[j] => i = j

(* Segments stay inside the heap and share no block with each other or     *)
(* with the free list.                                                     *)
NoOverlap ==
    /\ \A s \in live : Segment(s) \subseteq Blocks /\ Segment(s) \cap Listed = {}
    /\ \A s, t \in live : s # t => Segment(s) \cap Segment(t) = {}

(* No block is lost: each is on the list or in a segment.                  *)
NothingLost == \A b \in Blocks : b \in Listed \/ \E s \in live : b \in Segment(s)

(* The heap's accounting: the free list and the segments divide the blocks *)
(* among them, whatever the order of requests and releases, although the   *)
(* list is not kept sorted and releases do not look at their neighbours.   *)
Accounting == NoBlockTwice /\ NoOverlap /\ NothingLost

(* A segment has room for what was asked for behind its header block,      *)
(* unless the sum of size and header wraps around.                         *)
RoomForRequest ==
    \A s \in live : asked[s] + HeaderSize < WordSize => asked[s] <= header[s] * BlockSize

(* A null pointer is only read when segments take up the whole heap.       *)
WildOnlyWhenFull == wild => \A b \in Blocks : \E s \in live : b \in Segment(s)

(* A segment keeps its place and its length until it is released: no call  *)
(* of another holder rewrites its header, which heap_free trusts.          *)
SegmentsStay ==
    [][\A s \in live : s \in live' => header'[s] = header[s] /\ asked'[s] = asked[s]]_vars
=============================================================================
