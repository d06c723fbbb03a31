--------------------------- MODULE BlockAllocator ---------------------------
(***************************************************************************)
(* The block allocator of the datalayer (allocator/allocator.c).           *)
(*                                                                         *)
(* Free blocks are kept as segments.  A segment writes a header into its   *)
(* first and its last block; the tree node in the first block's header     *)
(* puts the segment into a red-black tree keyed by length, and segments of *)
(* one length are chained behind the one that is in the tree.  Nothing but *)
(* tree.head is kept outside the blocks, and nothing clears a header when  *)
(* a block is handed out: the memory stays as it is until its holder       *)
(* writes it.                                                              *)
(*                                                                         *)
(* Addresses are counted in blocks; 1 .. N is the managed region and       *)
(* blocks 0 and N + 1 belong to somebody else, who may have anything in    *)
(* them.  content is the address of the segment's head wherever it is      *)
(* read, so it is not kept.                                                *)
(*                                                                         *)
(* Three paths of the code lose a segment or hand one out twice.  The      *)
(* model takes them as the code does, records the path in mem.fault, a     *)
(* history field no operation reads, and follows the program no further.   *)
(***************************************************************************)
EXTENDS RbtOps, Integers, FiniteSets, SequencesExt

CONSTANTS N,            \* blocks in the region
          Stale         \* blocks that start with a header of an earlier life

ASSUME NAssumption     == N \in Nat /\ N >= 2
ASSUME StaleAssumption == Stale \subseteq 0 .. N + 1

VARIABLES mem,          \* the block headers, the root pointer, the fault seen
          held,         \* the blocks handed out and not yet given back
          answer        \* what the last nvmos_dl_alloc_allocateBlocks returned

vars == <<mem, held, answer>>

Region == 1 .. N
Memory == 0 .. N + 1

Extent(first, len) == first .. first + len - 1

(* The rest of a same-length chain, from segment s on.                     *)
RECURSIVE Chain(_, _)
Chain(M, s) == IF s = NULL THEN << >> ELSE <<s>> \o Chain(M, M.next[s])

TreeNodes(M) ==
    LET Under[n \in Memory] ==
          {n} \cup UNION {Under[c] : c \in {M.left[n], M.right[n]} \ {NULL}}
    IN  IF M.head = NULL THEN {} ELSE Under[M.head]

(* The segments chained behind those in the tree.                          *)
Chained(M) == UNION {ToSet(Tail(Chain(M, n))) : n \in TreeNodes(M)}

Faulted(M, kind) == [M EXCEPT !.fault = @ \cup {kind}]

-----------------------------------------------------------------------------

(* What deallocateBlocks writes into the header of a segment's end blocks. *)
WriteHeader(M, b, head, tail, len) ==
    [M EXCEPT !.next[b] = NULL, !.segHead[b] = head, !.segTail[b] = tail,
              !.parent[b] = NULL, !.left[b] = NULL, !.right[b] = NULL,
              !.color[b] = "RED", !.value[b] = len]

(* The call of rbt_removeNode; what it returns is ignored.                 *)
Removed(done) == IF done.ret = "0" THEN done.tree ELSE Faulted(done.tree, "half root")

TakeFromTree(M, s) == Removed(RemoveNode(M, s))

(* A neighbouring segment s, which a header claims is free, is taken out   *)
(* of its chain or, at the head of the chain, out of the tree.  Found says *)
(* whether the tree and the chains confirm the claim.                      *)
Found(M, s, len) ==
    /\ FindExact(M, len) # NULL
    /\ s \in ToSet(Chain(M, FindExact(M, len)))

(* Mutant: a segment behind the head of its chain stays in the chain.      *)
DetachHeadOnly(M, s, len) ==
    IF FindExact(M, len) = s THEN TakeFromTree(M, s) ELSE M

Detach(M, s, len) ==
    LET chain == Chain(M, FindExact(M, len))
        i     == CHOOSE j \in DOMAIN chain : chain[j] = s
    IN  IF i > 1
        THEN [M EXCEPT !.next[chain[i - 1]] = M.next[s]]
        ELSE TakeFromTree(IF Len(chain) > 1 THEN Faulted(M, "chain head") ELSE M, s)

(* Mutant: the length is counted from the wrong end of the header.         *)
LooksLikeTailOffByOne(M, b) ==
    M.segTail[b] = b /\ M.segHead[b] = b - M.value[b]

LooksLikeTail(M, b) ==
    M.segTail[b] = b /\ M.segHead[b] = b - (M.value[b] - 1)

LooksLikeHead(M, b) ==
    M.segHead[b] = b /\ M.segTail[b] = b + (M.value[b] - 1)

(* The segment S being released takes in the free segment that ends right  *)
(* before it, or begins right after it.                                    *)
JoinBefore(S) ==
    LET b   == S.first - 1
        s   == S.mem.segHead[b]
        len == S.mem.value[b]
    IN  IF LooksLikeTail(S.mem, b) /\ Found(S.mem, s, len)
        THEN [mem |-> Detach(S.mem, s, len), first |-> s, len |-> S.len + len]
        ELSE S

JoinAfter(S) ==
    LET b   == S.first + S.len
        s   == S.mem.segHead[b]
        len == S.mem.value[b]
    IN  IF LooksLikeHead(S.mem, b) /\ Found(S.mem, s, len)
        THEN [mem |-> Detach(S.mem, s, len), first |-> S.first, len |-> S.len + len]
        ELSE S

(* Its headers are written, and it goes into the tree or, if the tree has  *)
(* a segment of that length, to the end of the chain.                      *)
Filed(S) ==
    LET head    == S.first
        tail    == S.first + S.len - 1
        written == WriteHeader(WriteHeader(S.mem, head, head, tail, S.len),
                               tail, head, tail, S.len)
        same    == FindExact(written, S.len)
    IN  IF same = NULL
        THEN InsertNode(written, head).tree
        ELSE [written EXCEPT !.next[Last(Chain(written, same))] = head]

(* nvmos_dl_alloc_deallocateBlocks.                                        *)
Deallocated(M, first, len) ==
    Filed(JoinAfter(JoinBefore([mem |-> M, first |-> first, len |-> len])))

(* The segment a request for count blocks takes, if there is one: one of   *)
(* the smallest sufficient length.  A chain is followed to its last        *)
(* segment but one, which is returned, and cut before it.                  *)
Taken(M, count) ==
    LET s     == FindUpperNearest(M, count)
        chain == Chain(M, s)
        k     == Len(chain)
    IN  IF s = NULL THEN {}
        ELSE {[first |-> IF k = 1 THEN s ELSE chain[k - 1],
               len   |-> M.value[s],
               mem   |-> CASE k = 1 -> TakeFromTree(M, s)
                           [] k = 2 -> Faulted(M, "chain")
                           [] OTHER -> Faulted([M EXCEPT !.next[chain[k - 2]] = NULL], "chain")]}

-----------------------------------------------------------------------------

(* nvmos_dl_alloc_createAllocator.  Of the tail's header it writes the     *)
(* tree node but, naming the wrong variable, not segmentHead/segmentTail.  *)
(* A stale header is one of a one-block segment, as an earlier allocator   *)
(* leaves it in memory that keeps its contents.                            *)
Init ==
    LET old(b)  == b \in Stale
        link(b) == IF old(b) THEN b ELSE NULL
        blank   == [head    |-> NULL,
                    parent  |-> [b \in Memory |-> NULL],
                    left    |-> [b \in Memory |-> NULL],
                    right   |-> [b \in Memory |-> NULL],
                    color   |-> [b \in Memory |-> "RED"],
                    value   |-> [b \in Memory |-> IF old(b) THEN 1 ELSE 0],
                    next    |-> [b \in Memory |-> NULL],
                    segHead |-> [b \in Memory |-> link(b)],
                    segTail |-> [b \in Memory |-> link(b)],
                    fault   |-> {}]
    IN  /\ mem = InsertNode([WriteHeader(blank, 1, 1, N, N) EXCEPT !.value[N] = N], 1).tree
        /\ held = {}
        /\ answer = NULL

Intact == mem.fault = {}

(* A holder clears block b.                                                *)
Blank(M, b) == WriteHeader(M, b, NULL, NULL, 0)

(* nvmos_dl_alloc_allocateBlocks: the rest of the segment is freed again.  *)
Allocate(count) ==
    /\ Intact
    /\ \/ /\ Taken(mem, count) = {}
          /\ answer' = NULL
          /\ UNCHANGED <<mem, held>>
       \/ \E S \in Taken(mem, count) :
             /\ answer' = S.first
             /\ held' = held \cup Extent(S.first, count)
             /\ mem' = IF S.len > count
                       THEN Deallocated(S.mem, S.first + count, S.len - count)
                       ELSE S.mem

(* A holder gives consecutive blocks back, not always as it got them:      *)
(* ptrBlks joins blocks of several requests, and gives back parts of one.  *)
Deallocate(first, len) ==
    /\ Intact
    /\ Extent(first, len) \subseteq held
    /\ mem' = Deallocated(mem, first, len)
    /\ held' = held \ Extent(first, len)
    /\ UNCHANGED answer

(* A holder clears its block; until then the header in it is a stale one.  *)
Clear(b) ==
    /\ Intact
    /\ b \in held
    /\ mem' = Blank(mem, b)
    /\ UNCHANGED <<held, answer>>

(* The program goes on after a fault; the model does not follow it.        *)
Unfollowed == ~Intact /\ UNCHANGED vars

Next ==
    \/ \E count \in Region : Allocate(count)
    \/ \E first \in held, len \in Region : Deallocate(first, len)
    \/ \E b \in Region : Clear(b)
    \/ Unfollowed

Spec == Init /\ [][Next]_vars

-----------------------------------------------------------------------------

(* Type invariant.                                                         *)
TypeOK ==
    /\ mem.head \in Memory \cup {NULL}
    /\ \A f \in {"parent", "left", "right", "next", "segHead", "segTail"} :
          mem[f] \in [Memory -> Memory \cup {NULL}]
    /\ mem.color \in [Memory -> {"RED", "BLACK"}]
    /\ mem.value \in [Memory -> 0 .. N]
    /\ mem.fault \subseteq {"half root", "chain head", "chain"}
    /\ held \subseteq Region
    /\ answer \in Region \cup {NULL}

(* The tree lives in the memory it manages, and so do the chains: none of  *)
(* their blocks is held, where its holder would overwrite the pointers; a  *)
(* child and its parent point at each other, and along a chain the length  *)
(* is the same.  The last removal of a node must have left all of this for *)
(* the next one, which starts from a parent pointer.                       *)
PointersInOrder ==
    /\ TypeOK
    /\ Intact => \A n \in TreeNodes(mem) :
          /\ \A c \in {mem.left[n], mem.right[n]} \ {NULL} : mem.parent[c] = n
          /\ \A s \in ToSet(Chain(mem, n)) : s \in Region \ held /\ mem.value[s] = mem.value[n]

(* The free segments the tree and the chains reach, and the headers.       *)
Segments == INSTANCE SegmentAllocator WITH
    mem    <- IF Intact
              THEN [tree    |-> {<<n, mem.value[n]>> : n \in TreeNodes(mem)},
                    chained |-> {<<s, mem.value[s]>> : s \in Chained(mem)},
                    header  |-> [b \in Memory |-> [head |-> mem.segHead[b],
                                                  tail |-> mem.segTail[b],
                                                  len  |-> mem.value[b]]],
                    lost    |-> FALSE]
              ELSE [tree    |-> {},
                    chained |-> {},
                    header  |-> [b \in Memory |-> [head |-> NULL, tail |-> NULL, len |-> 0]],
                    lost    |-> TRUE],
    held   <- IF Intact THEN held ELSE {},
    answer <- IF Intact THEN answer ELSE NULL

(* The pointers implement the segments: up to the first fault tree and     *)
(* chains hold what SegmentAllocator says, whatever shape the tree has,    *)
(* and whatever the stale headers and nodes in held blocks are.  What is   *)
(* true of SegmentAllocator is true here, too: no block is handed out      *)
(* twice, none is lost, neighbours are merged, the fit is the best.        *)
ImplementsSegments == Segments!Spec
=============================================================================
