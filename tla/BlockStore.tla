----------------------------- MODULE BlockStore -----------------------------
(***************************************************************************)
(* What the block allocator promises the rest of the datalayer: a region   *)
(* of blocks, each free or held.  A request takes consecutive blocks from  *)
(* the start of the shortest run of free blocks that is long enough and is *)
(* refused only when no run is; a release frees the blocks it names.       *)
(*                                                                         *)
(* The promise ends when the allocator loses track of its free segments.   *)
(* Only calls that find several of them can do that: a request that has    *)
(* two shortest runs to choose from always does, other requests and the    *)
(* releases beside a free block may.  Whoever builds on this store has to  *)
(* say what it does with a loss.                                           *)
(***************************************************************************)
EXTENDS Integers, FiniteSets

CONSTANTS Blocks,       \* the numbers of the managed blocks
          NULL          \* what a refused request returns

VARIABLES free,         \* the free blocks
          lost,         \* the allocator has lost track
          answer        \* what the last request returned

bsVars == <<free, lost, answer>>

Extent(first, len) == first .. first + len - 1

(* The maximal runs of consecutive free blocks, as <<first, last>>.        *)
Runs(F) ==
    {r \in F \X F :
        /\ r[1] <= r[2]
        /\ r[1] .. r[2] \subseteq F
        /\ r[1] - 1 \notin F
        /\ r[2] + 1 \notin F}

Size(run) == run[2] - run[1] + 1

BestFits(F, count) ==
    LET enough == {r \in Runs(F) : Size(r) >= count}
    IN  {r \in enough : \A q \in enough : Size(r) <= Size(q)}

(* The shortest run that is long enough, when there is only one of them.   *)
OnlyFit(F, count) == {r \in BestFits(F, count) : BestFits(F, count) = {r}}

(* The free blocks are in several runs: each has its first block.          *)
Split(F) == \E a, b \in F : a # b /\ a - 1 \notin F /\ b - 1 \notin F

(* The calls that may lose track: requests that are granted, and releases  *)
(* of len blocks from first on beside a free block.                        *)
RequestMayLose(F, count) == BestFits(F, count) # {} /\ Split(F)

ReleaseMayLose(F, first, len) == Split(F) /\ (first - 1 \in F \/ first + len \in F)

-----------------------------------------------------------------------------

Init == /\ free = Blocks
        /\ lost = FALSE
        /\ answer = NULL

Lose == /\ lost' = TRUE
        /\ free' = {}
        /\ answer' = NULL

Take(count) ==
    /\ ~lost
    /\ \/ /\ BestFits(free, count) = {}
          /\ answer' = NULL
          /\ UNCHANGED <<free, lost>>
       \/ \E r \in OnlyFit(free, count) :
             /\ answer' = r[1]
             /\ free' = free \ Extent(r[1], count)
             /\ UNCHANGED lost
       \/ RequestMayLose(free, count) /\ Lose

Give(first, len) ==
    /\ ~lost
    /\ Extent(first, len) \subseteq Blocks \ free
    /\ \/ /\ free' = free \cup Extent(first, len)
          /\ UNCHANGED <<lost, answer>>
       \/ ReleaseMayLose(free, first, len) /\ Lose

Next ==
    \/ \E count \in 1 .. Cardinality(Blocks) : Take(count)
    \/ \E first \in Blocks, len \in 1 .. Cardinality(Blocks) : Give(first, len)

Spec == Init /\ [][Next]_bsVars
=============================================================================
