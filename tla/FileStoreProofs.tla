-------------------------- MODULE FileStoreProofs --------------------------
(***************************************************************************)
(* Theorems about files that share an allocator, of any number of blocks,  *)
(* pointers to a pointer block, bytes to a block, and any set of files and *)
(* lengths.  They speak of a system whose allocator has kept track of its  *)
(* free segments: the call in which it does not ends what they promise.    *)
(***************************************************************************)
EXTENDS FileStore, FileOpsProofs

-----------------------------------------------------------------------------
(* The inductive invariant: until the allocator loses track there is an    *)
(* assignment of one use to each block in which every named file's blocks  *)
(* are its own.                                                            *)
OnTrack == fault # {"lost track"}

Shares(own) == \A f \in named : Held(f, Opened(f), own)

Kept ==
    /\ named \subseteq MetaIds
    /\ meta \in [MetaIds -> Metas] /\ \A f \in MetaIds : meta[f].blk <= MaxBlk
    /\ slot \in Slots
    /\ free \subseteq Blocks
    /\ OnTrack =>
          /\ fault \subseteq {"null read", "foreign release", "foreign write"}
          /\ \A f \in named : HoleFirst(Opened(f))
          /\ \E own \in Owners : Shares(own)

LEMMA OpenedFields ==
    ASSUME NEW f
    PROVE  /\ Opened(f).m = meta[f] /\ Opened(f).slot = slot
           /\ Opened(f).free = free /\ Opened(f).fault = fault
           /\ Opened(f)'.m = meta'[f] /\ Opened(f)'.slot = slot'
           /\ Opened(f)'.free = free' /\ Opened(f)'.fault = fault'
BY DEF Opened

LEMMA OpenedIsState ==
    ASSUME Kept, OnTrack, NEW f \in MetaIds
    PROVE  Opened(f) \in States /\ Opened(f).m.blk <= MaxBlk
BY DEF Kept, Opened, States

LEMMA FaultlessOnTrack == fault = {} => OnTrack
BY DEF OnTrack

(* The two ends of a call.                                                 *)
Closed(f, st) ==
    /\ meta' = [meta EXCEPT ![f] = st.m]
    /\ slot' = st.slot
    /\ free' = st.free
    /\ fault' = st.fault

LosesTrack ==
    /\ fault = {} /\ fault' = {"lost track"} /\ named' \subseteq named
    /\ UNCHANGED <<meta, slot, free>>

LEMMA CallEnds ==
    ASSUME NEW f, NEW st, Close(f, st), fault = {}, named' \subseteq named, ~LosesTrack
    PROVE  Closed(f, st)
BY DEF Close, Closed, LosesTrack

(* A call that gives the file f blocks, or writes to it.                   *)
Pushing(f, own, t, own2) ==
    /\ f \in named /\ fault = {} /\ named' = named
    /\ own \in Owners /\ Shares(own)
    /\ t \in States /\ own2 \in Owners /\ Closed(f, t)
    /\ Held(f, t, own2) /\ Takes(f, Opened(f), own, t, own2)
    /\ Grows(Opened(f), t)
    /\ HoleFirst(t)
    /\ t.fault \in {fault, fault \cup {"foreign write"}}
    /\ Solid(Opened(f)) => t.fault = fault

(* A call that takes blocks from it: z is the file before its blocks go,   *)
(* and u after.                                                            *)
Popping(f, own, z, u) ==
    /\ f \in named /\ fault = {}
    /\ own \in Owners /\ Shares(own)
    /\ z \in States /\ z.slot = slot /\ z.free = free /\ z.fault = fault
    /\ z.m.blk = meta[f].blk /\ z.m.first = meta[f].first
    /\ z.m.ptr1 = meta[f].ptr1 /\ z.m.ptr2 = meta[f].ptr2
    /\ \E k \in Nat : Popped(f, z, own, u, k)
    /\ slot' = u.slot /\ free' = u.free /\ fault' = u.fault
    /\ \/ named' = named /\ meta' = [meta EXCEPT ![f] = u.m]
       \/ /\ named' = named \ {f} /\ meta' = meta
          /\ \E k \in Nat : k = meta[f].blk /\ Popped(f, z, own, u, k)

LEMMA DiscardedPops ==
    ASSUME Kept, NEW f \in named, NEW own \in Owners, Shares(own), fault = {},
           NEW len \in Nat, len <= meta[f].size, Closed(f, Discarded(Opened(f), len)), named' = named
    PROVE  \E z, u : Popping(f, own, z, u)
<1> DEFINE st   == Opened(f)
           size == st.m.size - len
           new  == BlocksFor(size)
           gone == IF st.m.blk >= new THEN st.m.blk - new ELSE st.m.blk
           z    == WithSize(st, size)
           u    == Pop(z, gone)
<1>1. f \in MetaIds /\ st \in States /\ Held(f, st, own)
  BY OpenedIsState, FaultlessOnTrack DEF Kept, Shares
<1>2. /\ st.m = meta[f] /\ st.slot = slot /\ st.free = free /\ st.fault = {}
      /\ st.m.size \in Nat /\ st.m.blk \in Nat /\ size \in Nat
  BY <1>1, OpenedFields, StateFields
<1>3. gone \in Nat
  <2>1. new \in Nat
    BY <1>2, BytesAssumption, DivMod DEF BlocksFor
  <2> HIDE DEF new
  <2>2. QED
    BY <1>2, <2>1
<1>4. Closed(f, u)
  BY DEF Discarded, WithSize
<1>5. /\ z \in States /\ z.slot = slot /\ z.free = free /\ z.fault = {}
      /\ z.m.blk = meta[f].blk /\ z.m.first = meta[f].first
      /\ z.m.ptr1 = meta[f].ptr1 /\ z.m.ptr2 = meta[f].ptr2
  <2>1. st \in States /\ size \in Nat
    BY <1>1, <1>2
  <2> HIDE DEF st, size
  <2>2. /\ z \in States /\ z.slot = st.slot /\ z.free = st.free /\ z.fault = st.fault
        /\ z.m.blk = st.m.blk /\ z.m.first = st.m.first
        /\ z.m.ptr1 = st.m.ptr1 /\ z.m.ptr2 = st.m.ptr2
    BY <2>1, SetSize
  <2> HIDE DEF z
  <2>3. QED
    BY <1>2, <2>2
<1>6. Held(f, z, own)
  BY <1>1, <1>2, <1>5, SameBlocks
<1> HIDE DEF z, gone
<1>7. Popped(f, z, own, u, AtMost(z, gone))
  BY <1>1, <1>3, <1>5, <1>6, PopKeeps
<1>8. AtMost(z, gone) \in Nat
  BY <1>3, <1>5, StateFields DEF AtMost
<1> HIDE DEF u
<1>9. Popping(f, own, z, u)
  BY <1>4, <1>5, <1>7, <1>8 DEF Popping, Closed
<1>10. QED
  BY <1>9

LEMMA RemovedPops ==
    ASSUME Kept, NEW own \in Owners, Shares(own), NEW f \in named, RemoveFile(f), ~LosesTrack
    PROVE  \E z, u : Popping(f, own, z, u)
<1> DEFINE z == Opened(f)
           u == Pop(z, meta[f].blk)
<1>1. f \in MetaIds /\ z \in States /\ Held(f, z, own) /\ fault = {}
  BY OpenedIsState, FaultlessOnTrack DEF Kept, Shares, RemoveFile, InUse
<1>2. /\ z.m = meta[f] /\ z.slot = slot /\ z.free = free /\ z.fault = fault
      /\ meta[f].blk \in Nat
  BY <1>1, OpenedFields, StateFields
<1> HIDE DEF z
<1>3. Popped(f, z, own, u, AtMost(z, meta[f].blk)) /\ AtMost(z, meta[f].blk) = meta[f].blk
  BY <1>1, <1>2, PopKeeps DEF AtMost
<1> HIDE DEF u
<1>4. u \in States
  BY <1>3 DEF Popped, Shrinks
<1>5. Closed(f, WithMeta(u, meta[f])) /\ named' = named \ {f}
  <2>1. Close(f, WithMeta(u, meta[f])) /\ named' = named \ {f}
    BY DEF RemoveFile, WithMeta, z, u
  <2>2. QED
    BY <1>1, <2>1, CallEnds
<1>6. meta[f] \in Metas
  BY <1>1 DEF Kept
<1>7. slot' = u.slot /\ free' = u.free /\ fault' = u.fault /\ meta' = meta
  <2>1. meta' = [meta EXCEPT ![f] = meta[f]]
    BY <1>4, <1>5, <1>6, SetMeta DEF Closed
  <2>2. QED
    BY <1>1, <1>4, <1>5, <1>6, <2>1, SetMeta DEF Closed, Kept
<1>8. Popping(f, own, z, u)
  BY <1>1, <1>2, <1>3, <1>5, <1>7 DEF Popping
<1>9. QED
  BY <1>8

LEMMA AppendPushes ==
    ASSUME Kept, NEW own \in Owners, Shares(own), NEW f \in MetaIds, NEW len \in Nat, FileAppend(f, len),
           ~LosesTrack
    PROVE  \E t, own2 : Pushing(f, own, t, own2)
<1> DEFINE st == Opened(f)
<1>1. st \in States /\ Held(f, st, own) /\ f \in named /\ HoleFirst(st)
  BY OpenedIsState, FaultlessOnTrack DEF Kept, Shares, FileAppend, InUse
<1>2. st.m.size + len <= MaxSize /\ st.fault = fault /\ fault = {}
  BY OpenedFields DEF FileAppend, InUse
<1>3. PICK a \in Appends(st, len) : Closed(f, a.st) /\ named' = named
  <2>1. PICK a \in Appends(st, len) : Close(f, a.st) /\ named' = named
    BY DEF FileAppend
  <2>2. Closed(f, a.st)
    BY <1>2, <2>1, CallEnds
  <2>3. QED
    BY <2>1, <2>2
<1> HIDE DEF st
<1>4. Outcome(f, st, own, len, a)
  BY <1>1, <1>2, AppendsOutcome
<1>5. PICK own2 \in Owners : Held(f, a.st, own2) /\ Takes(f, st, own, a.st, own2)
  BY <1>4 DEF Outcome
<1>6. Pushing(f, own, a.st, own2)
  BY <1>1, <1>2, <1>3, <1>4, <1>5 DEF Pushing, Outcome, st
<1>7. QED
  BY <1>6

LEMMA GrowPushes ==
    ASSUME Kept, NEW own \in Owners, Shares(own), NEW f \in named, NEW target \in Nat,
           meta[f].size + target + Chunk - 1 <= MaxSize, fault = {}, named' = named,
           NEW x \in Grown(Opened(f), target), Closed(f, x.st)
    PROVE  \E t, own2 : Pushing(f, own, t, own2)
<1> DEFINE st == Opened(f)
<1>1. f \in MetaIds /\ st \in States /\ Held(f, st, own) /\ HoleFirst(st)
  BY OpenedIsState, FaultlessOnTrack DEF Kept, Shares
<1>2. st.m.size + target + Chunk - 1 <= MaxSize /\ st.fault = fault
  BY OpenedFields
<1> HIDE DEF st
<1>3. Grew(f, st, own, x)
  BY <1>1, <1>2, GrownKeeps DEF st
<1>4. PICK own2 \in Owners : Held(f, x.st, own2) /\ Takes(f, st, own, x.st, own2)
  BY <1>3 DEF Grew
<1>5. Pushing(f, own, x.st, own2)
  BY <1>1, <1>2, <1>3, <1>4 DEF Pushing, Grew, st
<1>6. QED
  BY <1>5

(* What can happen in a step.                                              *)
LEMMA Steps ==
    ASSUME Kept, NEW own \in Owners, Shares(own), [Next]_vars
    PROVE  \/ UNCHANGED vars
           \/ LosesTrack
           \/ \E f \in MetaIds : Open(f)
           \/ \E f \in named : \E t, own2 : Pushing(f, own, t, own2)
           \/ \E f \in named : \E z, u : Popping(f, own, z, u)
<1>0. CASE LosesTrack
  BY <1>0
<1>1. CASE UNCHANGED vars
  BY <1>1
<1>2. ASSUME NEW f \in MetaIds, NEW len \in Lengths, FileAppend(f, len), ~LosesTrack
      PROVE  \E g \in named : \E t, own2 : Pushing(g, own, t, own2)
  <2>1. len \in Nat /\ f \in named
    BY <1>2, LengthAssumption DEF FileAppend, InUse
  <2>2. QED
    BY <1>2, <2>1, AppendPushes
<1>3. ASSUME NEW f \in MetaIds, NEW len \in Lengths, DiscardTail(f, len), ~LosesTrack
      PROVE  \E g \in named : \E z, u : Popping(g, own, z, u)
  <2>1. /\ len \in Nat /\ f \in named /\ fault = {} /\ len <= meta[f].size
        /\ Closed(f, Discarded(Opened(f), len)) /\ named' = named
    BY <1>3, LengthAssumption, CallEnds DEF DiscardTail, InUse
  <2>2. QED
    BY <2>1, DiscardedPops
<1>4. ASSUME NEW f \in MetaIds, NEW target \in Targets, Ftruncate(f, target), ~LosesTrack
      PROVE  \/ \E g \in named : \E t, own2 : Pushing(g, own, t, own2)
             \/ \E g \in named : \E z, u : Popping(g, own, z, u)
  <2>1. target \in Nat /\ f \in named /\ fault = {} /\ named' = named
    BY <1>4, LengthAssumption DEF Ftruncate, InUse
  <2>2. CASE target > meta[f].size
    <3>1. /\ meta[f].size + target + Chunk - 1 <= MaxSize
          /\ \E a \in Grown(Opened(f), target) : Closed(f, a.st)
      BY <1>4, <2>1, <2>2, CallEnds DEF Ftruncate
    <3>2. QED
      BY <2>1, <3>1, GrowPushes
  <2>3. CASE ~(target > meta[f].size)
    <3>1. Closed(f, Discarded(Opened(f), meta[f].size - target))
      BY <1>4, <2>1, <2>3, CallEnds DEF Ftruncate
    <3>2. meta[f].size \in Nat /\ meta[f].size - target \in Nat /\ meta[f].size - target <= meta[f].size
      <4>1. meta[f].size \in Nat
        BY <2>1, OpenedIsState, FaultlessOnTrack, OpenedFields, StateFields DEF Kept
      <4>2. QED
        BY <2>1, <2>3, <4>1
    <3> DEFINE len == meta[f].size - target
    <3> HIDE DEF len
    <3>3. len \in Nat /\ len <= meta[f].size /\ Closed(f, Discarded(Opened(f), len))
      BY <3>1, <3>2 DEF len
    <3>4. QED
      BY <2>1, <3>3, DiscardedPops
  <2>4. QED
    BY <2>2, <2>3
<1>5. ASSUME NEW f \in MetaIds, RemoveFile(f), ~LosesTrack
      PROVE  \E g \in named : \E z, u : Popping(g, own, z, u)
  <2>1. f \in named
    BY <1>5 DEF RemoveFile, InUse
  <2>2. QED
    BY <1>5, <2>1, RemovedPops
<1>6. QED
  BY <1>0, <1>1, <1>2, <1>3, <1>4, <1>5 DEF Next, Unfollowed

LEMMA UnfollowedStays ==
    ASSUME [Next]_vars, fault # {}
    PROVE  UNCHANGED vars
BY DEF Next, Open, FileAppend, DiscardTail, Ftruncate, RemoveFile, InUse, Unfollowed

(* A call that takes blocks leaves all other files alone.                  *)
LEMMA PoppingFields ==
    ASSUME Kept, NEW f, NEW own, NEW z, NEW u, Popping(f, own, z, u)
    PROVE  /\ f \in MetaIds /\ u \in States /\ z \in States
           /\ Held(f, u, own) /\ Shrinks(f, z, own, u) /\ HoleFirst(z)
           /\ Frame(f, z, own, u, own)
           /\ u.m.blk <= MaxBlk
           /\ \A j : DataBlkAt(z, j) = DataBlkAt(Opened(f), j)
<1>0. OnTrack
  BY FaultlessOnTrack DEF Popping
<1>1. f \in MetaIds /\ Held(f, u, own) /\ Shrinks(f, z, own, u)
  BY DEF Popping, Popped, Kept
<1>2. u \in States /\ z \in States /\ u.m.blk <= MaxBlk
  BY <1>1 DEF Shrinks, Popping, Held
<1>3. \A j : DataBlkAt(z, j) = DataBlkAt(Opened(f), j)
  <2>1. /\ z.slot = Opened(f).slot /\ z.m.blk = Opened(f).m.blk /\ z.m.first = Opened(f).m.first
        /\ z.m.ptr1 = Opened(f).m.ptr1 /\ z.m.ptr2 = Opened(f).m.ptr2
    BY OpenedFields DEF Popping
  <2>2. QED
    BY <2>1 DEF DataBlkAt, Leaf
<1>4. HoleFirst(z)
  <2>1. HoleFirst(Opened(f)) /\ z.m.blk = Opened(f).m.blk
    BY <1>0, OpenedFields DEF Kept, Popping
  <2>2. QED
    BY <1>3, <2>1 DEF HoleFirst
<1>5. Frame(f, z, own, u, own)
  BY <1>1, <1>2 DEF Shrinks, Frame
<1>6. QED
  BY <1>1, <1>2, <1>3, <1>4, <1>5

(* The calls' effect on the other files, whatever the call.                *)
LEMMA OthersHeld ==
    ASSUME Kept, OnTrack, NEW f \in named, NEW own \in Owners, Shares(own), NEW own2,
           NEW z, NEW t, z.free = free, z.slot = slot, Frame(f, z, own, t, own2),
           slot' = t.slot, free' = t.free,
           NEW g \in named, g # f, meta'[g] = meta[g]
    PROVE  /\ Held(g, Opened(g)', own2)
           /\ \A i \in 0 .. meta[g].blk - 1 : DataBlkAt(Opened(g)', i) = DataBlkAt(Opened(g), i)
           /\ meta[g].blk > L2 => slot'[meta[g].ptr2] = slot[meta[g].ptr2]
           /\ HoleFirst(Opened(g)')
<1> DEFINE y == Opened(g)
           u == Opened(g)'
<1>1. g \in MetaIds
  BY DEF Kept
<1>2. y \in States /\ y.m = meta[g] /\ y.slot = slot /\ y.free = free
  BY <1>1, OpenedIsState, OpenedFields
<1>3. u.m = y.m /\ u.slot = t.slot /\ u.free = t.free
  BY <1>2, OpenedFields
<1>4. Held(g, y, own) /\ HoleFirst(y)
  BY DEF Shares, Kept
<1> HIDE DEF y, u
<1>5. Frame(f, y, own, u, own2)
  BY <1>2, <1>3 DEF Frame
<1>6. /\ Held(g, u, own2)
      /\ \A i \in 0 .. y.m.blk - 1 : DataBlkAt(u, i) = DataBlkAt(y, i)
      /\ y.m.blk > L2 => u.slot[y.m.ptr2] = y.slot[y.m.ptr2]
  BY <1>2, <1>3, <1>4, <1>5, StaysHeld
<1>7. HoleFirst(u)
  <2>1. y.m.blk \in Nat
    BY <1>2, StateFields
  <2>2. QED
    BY <1>3, <1>4, <1>6, <2>1 DEF HoleFirst
<1>8. QED
  BY <1>2, <1>3, <1>6, <1>7 DEF y, u

(* What a call has made of its own file.                                   *)
EndsAs(f, t) ==
    /\ Opened(f)'.m = t.m
    /\ \A j : DataBlkAt(Opened(f)', j) = DataBlkAt(t, j)

LEMMA FileAfter ==
    ASSUME NEW f, NEW t, meta'[f] = t.m, slot' = t.slot, free' = t.free
    PROVE  /\ EndsAs(f, t)
           /\ \A own : Held(f, t, own) => Held(f, Opened(f)', own)
           /\ HoleFirst(t) => HoleFirst(Opened(f)')
<1> DEFINE u == Opened(f)'
<1>1. u.m = t.m /\ u.slot = t.slot /\ u.free = t.free
  BY OpenedFields
<1> HIDE DEF u
<1>2. /\ \A j : DataBlkAt(u, j) = DataBlkAt(t, j)
      /\ \A own : Held(f, t, own) => Held(f, u, own)
  BY <1>1, SameBlocks
<1>3. HoleFirst(t) => HoleFirst(u)
  BY <1>1, <1>2 DEF HoleFirst
<1>4. QED
  BY <1>1, <1>2, <1>3 DEF u, EndsAs

(* Together with the file itself.                                          *)
LEMMA PushingKeeps ==
    ASSUME Kept, NEW f, NEW own, NEW t, NEW own2, Pushing(f, own, t, own2)
    PROVE  /\ f \in MetaIds /\ meta' = [meta EXCEPT ![f] = t.m] /\ meta'[f] = t.m
           /\ EndsAs(f, t)
           /\ \A g \in named : Held(g, Opened(g)', own2) /\ HoleFirst(Opened(g)')
           /\ \A g \in named : g # f =>
                 /\ meta'[g] = meta[g]
                 /\ \A i \in 0 .. meta[g].blk - 1 : DataBlkAt(Opened(g)', i) = DataBlkAt(Opened(g), i)
                 /\ meta[g].blk > L2 => slot'[meta[g].ptr2] = slot[meta[g].ptr2]
<1>1. f \in MetaIds /\ f \in named /\ own \in Owners /\ Shares(own) /\ OnTrack
  BY FaultlessOnTrack DEF Pushing, Kept
<1>2. /\ meta' = [meta EXCEPT ![f] = t.m] /\ meta'[f] = t.m
      /\ slot' = t.slot /\ free' = t.free /\ fault' = t.fault
      /\ \A g \in MetaIds : g # f => meta'[g] = meta[g]
  BY <1>1 DEF Pushing, Closed, Kept
<1>3. /\ EndsAs(f, t) /\ Held(f, Opened(f)', own2) /\ HoleFirst(Opened(f)')
  <2>1. Held(f, t, own2) /\ HoleFirst(t)
    BY DEF Pushing
  <2>2. QED
    BY <1>2, <2>1, FileAfter
<1>4. Frame(f, Opened(f), own, t, own2)
  BY TakesFrame DEF Pushing
<1>5. Opened(f).free = free /\ Opened(f).slot = slot
  BY OpenedFields
<1>6. ASSUME NEW g \in named, g # f
      PROVE  /\ Held(g, Opened(g)', own2)
             /\ \A i \in 0 .. meta[g].blk - 1 : DataBlkAt(Opened(g)', i) = DataBlkAt(Opened(g), i)
             /\ meta[g].blk > L2 => slot'[meta[g].ptr2] = slot[meta[g].ptr2]
             /\ HoleFirst(Opened(g)') /\ meta'[g] = meta[g]
  <2>1. g \in MetaIds
    BY DEF Kept
  <2>2. QED
    BY <1>1, <1>2, <1>4, <1>5, <1>6, <2>1, OthersHeld
<1>7. QED
  BY <1>1, <1>2, <1>3, <1>6

LEMMA PoppingKeeps ==
    ASSUME Kept, NEW f, NEW own, NEW z, NEW u, Popping(f, own, z, u)
    PROVE  /\ f \in named' => EndsAs(f, u)
           /\ named' \subseteq named
           /\ \A g \in named' : Held(g, Opened(g)', own) /\ HoleFirst(Opened(g)')
           /\ \A g \in named : g # f =>
                 /\ meta'[g] = meta[g] /\ g \in named'
                 /\ \A i \in 0 .. meta[g].blk - 1 : DataBlkAt(Opened(g)', i) = DataBlkAt(Opened(g), i)
                 /\ meta[g].blk > L2 => slot'[meta[g].ptr2] = slot[meta[g].ptr2]
<1>1. /\ f \in MetaIds /\ u \in States /\ z \in States
      /\ Held(f, u, own) /\ Shrinks(f, z, own, u) /\ HoleFirst(z)
      /\ Frame(f, z, own, u, own)
  BY PoppingFields
<1>2. /\ f \in named /\ own \in Owners /\ Shares(own)
      /\ z.slot = slot /\ z.free = free
      /\ slot' = u.slot /\ free' = u.free /\ fault' = u.fault
      /\ named' \subseteq named
      /\ f \in named' => meta' = [meta EXCEPT ![f] = u.m]
      /\ \A g \in named : g # f => g \in named'
      /\ meta' \in {meta, [meta EXCEPT ![f] = u.m]} /\ OnTrack
  BY FaultlessOnTrack DEF Popping
<1>3. \A g \in MetaIds : g # f => meta'[g] = meta[g]
  BY <1>2 DEF Kept
<1>4. f \in named' => EndsAs(f, u) /\ Held(f, Opened(f)', own) /\ HoleFirst(Opened(f)')
  <2>1. f \in named' => meta'[f] = u.m
    BY <1>1, <1>2 DEF Kept
  <2>2. HoleFirst(u)
    BY <1>1, ShrinksHoleFirst
  <2>3. QED
    BY <1>1, <1>2, <2>1, <2>2, FileAfter
<1>5. ASSUME NEW g \in named, g # f
      PROVE  /\ Held(g, Opened(g)', own)
             /\ \A i \in 0 .. meta[g].blk - 1 : DataBlkAt(Opened(g)', i) = DataBlkAt(Opened(g), i)
             /\ meta[g].blk > L2 => slot'[meta[g].ptr2] = slot[meta[g].ptr2]
             /\ HoleFirst(Opened(g)') /\ meta'[g] = meta[g]
  <2>1. g \in MetaIds
    BY DEF Kept
  <2>2. QED
    BY <1>1, <1>2, <1>3, <1>5, <2>1, OthersHeld
<1>6. QED
  BY <1>2, <1>4, <1>5

-----------------------------------------------------------------------------
(* The invariant.                                                          *)

LEMMA KeptInit == Init => Kept
<1> SUFFICES ASSUME Init PROVE Kept
  OBVIOUS
<1> USE DEF Init
<1>1. Blank \in Metas /\ Blank.blk = 0 /\ MaxBlk \in Nat
  BY Levels DEF Blank, Metas, Ptrs
<1>2. meta \in [MetaIds -> Metas] /\ \A f \in MetaIds : meta[f].blk <= MaxBlk
  BY <1>1
<1>3. slot \in Slots
  BY DEF Slots, Empty, Ptrs
<1>4. \E own \in Owners : Shares(own)
  <2>1. <<NULL, "data", 0>> \in Tags
    BY DEF Tags
  <2>2. [b \in Blocks |-> <<NULL, "data", 0>>] \in Owners
    BY <2>1 DEF Owners
  <2>3. QED
    BY <2>2 DEF Shares
<1>5. QED
  BY <1>2, <1>3, <1>4 DEF Kept

LEMMA OpenKeeps ==
    ASSUME Kept, NEW f \in MetaIds, Open(f)
    PROVE  Kept'
<1>1. Blank \in Metas /\ Blank.blk = 0 /\ MaxBlk \in Nat
  BY Levels DEF Blank, Metas, Ptrs
<1>2. /\ meta' = [meta EXCEPT ![f] = Blank] /\ named' = named \cup {f} /\ f \notin named
      /\ slot' = slot /\ free' = free /\ fault' = fault /\ fault = {} /\ OnTrack
  BY FaultlessOnTrack DEF Open
<1>3. meta' \in [MetaIds -> Metas] /\ meta'[f] = Blank /\ \A g \in MetaIds : g # f => meta'[g] = meta[g]
  BY <1>1, <1>2 DEF Kept
<1>4. ASSUME NEW g \in MetaIds PROVE meta'[g].blk <= MaxBlk
  <2>1. CASE g = f
    <3>1. 0 <= MaxBlk
      BY <1>1
    <3>2. QED
      BY <1>1, <1>3, <2>1, <3>1
  <2>2. CASE g # f
    BY <1>3, <2>2 DEF Kept
  <2>3. QED
    BY <2>1, <2>2
<1>5. ASSUME NEW g \in named PROVE Opened(g)' = Opened(g) /\ g # f
  BY <1>2, <1>3 DEF Opened, Kept
<1>6. Opened(f)'.m.blk = 0
  BY <1>1, <1>3, OpenedFields
<1>7. HoleFirst(Opened(f)') /\ \A own : Held(f, Opened(f)', own)
  BY <1>1, <1>6, Levels DEF HoleFirst, Held, DataHeld, Paths, Rooted
<1>8. PICK own \in Owners : Shares(own)
  BY <1>2 DEF Kept
<1>9. \A g \in named' : HoleFirst(Opened(g)') /\ Held(g, Opened(g)', own)
  BY <1>2, <1>5, <1>7, <1>8 DEF Shares, Kept
<1>10. Shares(own)'
  BY <1>9 DEF Shares
<1>11. QED
  BY <1>2, <1>3, <1>4, <1>8, <1>9, <1>10 DEF Kept

LEMMA KeptStep == Kept /\ [Next]_vars => Kept'
<1> SUFFICES ASSUME Kept, [Next]_vars PROVE Kept'
  OBVIOUS
<1>2. ASSUME UNCHANGED vars PROVE Kept'
  BY <1>2 DEF vars, Kept, Shares, Opened, OnTrack
<1>7. CASE ~OnTrack
  BY <1>2, <1>7, FaultlessOnTrack, UnfollowedStays
<1>8. CASE LosesTrack
  BY <1>8 DEF LosesTrack, Kept, OnTrack
<1>9. SUFFICES ASSUME OnTrack, ~LosesTrack PROVE Kept'
  BY <1>7, <1>8
<1>1. PICK own \in Owners : Shares(own)
  BY <1>9 DEF Kept
<1>3. ASSUME NEW f \in MetaIds, Open(f) PROVE Kept'
  BY <1>3, OpenKeeps
<1>4. ASSUME NEW f \in named, NEW t, NEW own2, Pushing(f, own, t, own2) PROVE Kept'
  <2>1. /\ f \in MetaIds /\ meta' = [meta EXCEPT ![f] = t.m] /\ meta'[f] = t.m
        /\ \A g \in named : Held(g, Opened(g)', own2) /\ HoleFirst(Opened(g)')
    BY <1>4, PushingKeeps
  <2>2. /\ t \in States /\ own2 \in Owners /\ named' = named /\ t.m.blk <= MaxBlk
        /\ slot' = t.slot /\ free' = t.free /\ fault' = t.fault
    BY <1>4 DEF Pushing, Closed, Held
  <2>3. t.m \in Metas /\ t.slot \in Slots /\ t.free \subseteq Blocks
        /\ t.fault \subseteq {"null read", "foreign release", "foreign write"}
    BY <2>2, StateFields DEF States
  <2>4. meta' \in [MetaIds -> Metas] /\ \A g \in MetaIds : meta'[g].blk <= MaxBlk
    BY <2>1, <2>2, <2>3 DEF Kept
  <2>5. Shares(own2)'
    BY <2>1, <2>2 DEF Shares
  <2>6. QED
    BY <2>1, <2>2, <2>3, <2>4, <2>5 DEF Kept
<1>5. ASSUME NEW f \in named, NEW z, NEW u, Popping(f, own, z, u) PROVE Kept'
  <2>1. f \in MetaIds /\ u \in States /\ u.m.blk <= MaxBlk
    BY <1>5, PoppingFields
  <2>2. /\ named' \subseteq named
        /\ \A g \in named' : Held(g, Opened(g)', own) /\ HoleFirst(Opened(g)')
    BY <1>5, PoppingKeeps
  <2>3. /\ slot' = u.slot /\ free' = u.free /\ fault' = u.fault
        /\ meta' \in {meta, [meta EXCEPT ![f] = u.m]}
    BY <1>5 DEF Popping
  <2>4. u.m \in Metas /\ u.slot \in Slots /\ u.free \subseteq Blocks
        /\ u.fault \subseteq {"null read", "foreign release", "foreign write"}
    BY <2>1, StateFields DEF States
  <2>5. meta' \in [MetaIds -> Metas] /\ \A g \in MetaIds : meta'[g].blk <= MaxBlk
    BY <2>1, <2>3, <2>4 DEF Kept
  <2>6. Shares(own)'
    BY <2>2 DEF Shares
  <2>7. named' \subseteq MetaIds
    BY <2>2 DEF Kept
  <2>8. QED
    BY <1>1, <2>2, <2>3, <2>4, <2>5, <2>6, <2>7 DEF Kept
<1>6. QED
  BY <1>1, <1>2, <1>3, <1>4, <1>5, <1>9, Steps

(* Until the allocator loses track there is one use of each block that all *)
(* files agree on, whichever requests are refused and whatever faults the  *)
(* calls note.                                                             *)
THEOREM KeptAlways == Spec => []Kept
<1>1. QED
  BY KeptInit, KeptStep, PTL DEF Spec

-----------------------------------------------------------------------------
(* What the runs check, from it.                                           *)

LEMMA KeptTypes == Kept => TypeOK
<1> SUFFICES ASSUME Kept PROVE TypeOK
  OBVIOUS
<1> DEFINE Record == [size : Nat, blk : 0 .. BlocksFor(MaxSize), first : Blocks \cup {NULL, FOREIGN},
                      ptr1 : Blocks \cup {NULL}, ptr2 : Blocks \cup {NULL}]
<1>1. ASSUME NEW f \in MetaIds PROVE meta[f] \in Record
  <2> DEFINE m == meta[f]
  <2>1. m \in Metas /\ m.blk <= BlocksFor(MaxSize) /\ BlocksFor(MaxSize) \in Nat
    BY Levels DEF Kept, MaxBlk
  <2> HIDE DEF m
  <2>2. m \in Record
    BY <2>1 DEF Metas, Ptrs
  <2>3. QED
    BY <2>2 DEF m
<1> HIDE DEF Record
<1>2. meta \in [MetaIds -> Record]
  BY <1>1 DEF Kept
<1>3. fault \subseteq {"null read", "foreign release", "foreign write", "lost track"}
  <2>1. CASE OnTrack
    BY <2>1 DEF Kept
  <2>2. CASE ~OnTrack
    BY <2>2 DEF OnTrack
  <2>3. QED
    BY <2>1, <2>2
<1>4. QED
  BY <1>2, <1>3 DEF Kept, TypeOK, Record, Slots, Ptrs

LEMMA DataOfFile ==
    ASSUME NEW f, NEW i \in 0 .. meta[f].blk - 1
    PROVE  Data(f)[i] = DataBlkAt(Opened(f), i)
BY DEF Data

(* The use of the blocks a file reaches.                                   *)
LEMMA UsesOfFile ==
    ASSUME Kept, OnTrack, NEW own \in Owners, Shares(own), NEW f \in named
    PROVE  /\ \A i \in 0 .. meta[f].blk - 1 :
                 Data(f)[i] \in Blocks =>
                    Data(f)[i] \notin free /\ own[Data(f)[i]] = <<f, "data", i>>
           /\ \A b \in PtrBlks(f) :
                 b \in Blocks \ free /\ own[b][1] = f /\ own[b][2] # "data"
<1> DEFINE st == Opened(f)
<1>1. f \in MetaIds
  BY DEF Kept
<1>2. /\ st \in States /\ st.m = meta[f] /\ st.free = free /\ Held(f, st, own)
      /\ st.m.blk \in Nat /\ st.m.blk <= MaxBlk
  BY <1>1, OpenedIsState, OpenedFields, StateFields DEF Shares
<1>3. ASSUME NEW i \in 0 .. meta[f].blk - 1, Data(f)[i] \in Blocks
      PROVE  Data(f)[i] \notin free /\ own[Data(f)[i]] = <<f, "data", i>>
  <2>1. Data(f)[i] = DataBlkAt(st, i)
    BY DataOfFile
  <2> HIDE DEF st
  <2>2. Marked(st, own, DataBlkAt(st, i), <<f, "data", i>>)
    BY <1>2, <1>3, <2>1 DEF Held, DataHeld
  <2>3. QED
    BY <1>2, <2>1, <2>2 DEF Marked
<1>4. ASSUME NEW b \in PtrBlks(f)
      PROVE  b \in Blocks \ free /\ own[b][1] = f /\ own[b][2] # "data"
  <2>1. b \in PtrBlksOf(st)
    BY <1>4 DEF PtrBlks
  <2> HIDE DEF st
  <2>2. QED
    BY <1>2, <2>1, PtrBlkUse
<1>5. QED
  BY <1>3, <1>4

LEMMA KeptOneUse == Kept => OneUse
<1> SUFFICES ASSUME Kept PROVE OneUse
  OBVIOUS
<1>2. TypeOK
  BY KeptTypes
<1>14. SUFFICES ASSUME fault = {}, OnTrack PROVE OneUse
  BY <1>2, FaultlessOnTrack DEF OneUse
<1>15. OnTrack
  BY <1>14
<1>1. PICK own \in Owners : Shares(own)
  BY <1>15 DEF Kept
<1> DEFINE places == {p \in named \X (0 .. BlocksFor(MaxSize)) :
                         p[2] < meta[p[1]].blk /\ Data(p[1])[p[2]] \in Blocks}
           data   == {Data(p[1])[p[2]] : p \in places}
           g      == [p \in places |-> Data(p[1])[p[2]]]
<1>3. ASSUME NEW p \in places
      PROVE  /\ p = <<p[1], p[2]>> /\ g[p] \in data /\ g[p] \in Blocks /\ g[p] \notin free
             /\ own[g[p]] = <<p[1], "data", p[2]>>
  <2>1. /\ p = <<p[1], p[2]>> /\ p[1] \in named /\ p[2] \in Nat /\ p[2] < meta[p[1]].blk
        /\ g[p] = Data(p[1])[p[2]] /\ g[p] \in Blocks
    <3>1. BlocksFor(MaxSize) \in Nat
      BY Levels DEF MaxBlk
    <3>2. QED
      BY <3>1
  <2>2. meta[p[1]].blk \in Nat
    BY <1>14, <2>1, OpenedIsState, OpenedFields, StateFields DEF Kept
  <2>3. p[2] \in 0 .. meta[p[1]].blk - 1
    BY <2>1, <2>2
  <2> DEFINE f == p[1]
             i == p[2]
             b == g[p]
  <2>4. b \in data
    OBVIOUS
  <2>5. b = Data(f)[i] /\ f \in named /\ i \in 0 .. meta[f].blk - 1 /\ b \in Blocks
    BY <2>1, <2>3
  <2> HIDE DEF f, i, b
  <2>6. b \notin free /\ own[b] = <<f, "data", i>>
    <3>1. \A j \in 0 .. meta[f].blk - 1 :
             Data(f)[j] \in Blocks => Data(f)[j] \notin free /\ own[Data(f)[j]] = <<f, "data", j>>
      BY <1>1, <1>15, <2>5, UsesOfFile
    <3>2. QED
      BY <2>5, <3>1
  <2>7. QED
    BY <2>1, <2>4, <2>6 DEF f, i, b
<1>4. \A b \in data : \E p \in places : b = g[p]
  OBVIOUS
<1> HIDE DEF g, data
<1>5. g \in [places -> data]
  BY <1>3 DEF g
<1> HIDE DEF places
<1>6. \A p, q \in places : g[p] = g[q] => p = q
  <2> SUFFICES ASSUME NEW p \in places, NEW q \in places, g[p] = g[q] PROVE p = q
    OBVIOUS
  <2>1. <<p[1], "data", p[2]>> = <<q[1], "data", q[2]>>
    BY <1>3
  <2>2. p[1] = q[1] /\ p[2] = q[2]
    BY <2>1
  <2>3. QED
    BY <1>3, <2>2
<1>7. data \subseteq Blocks /\ data \cap free = {} /\ \A b \in data : own[b][2] = "data"
  BY <1>3, <1>4
<1>8. IsFiniteSet(data)
  BY <1>7, BlocksAssumption, FS_Subset
<1>9. g \in Injection(places, data) /\ g \in Surjection(places, data)
  BY <1>4, <1>5, <1>6 DEF Injection, Surjection, IsInjective
<1>10. Cardinality(data) = Cardinality(places)
  BY <1>8, <1>9, FS_Injection
<1>11. \A f \in named : PtrBlks(f) \cap (free \cup data) = {}
  BY <1>1, <1>7, <1>14, UsesOfFile
<1>12. \A f, h \in named : f # h => PtrBlks(f) \cap PtrBlks(h) = {}
  BY <1>1, <1>14, UsesOfFile
<1>13. QED
  BY <1>2, <1>7, <1>10, <1>11, <1>12 DEF OneUse, places, data

(* Metas, pointer blocks and free blocks are what the code takes them for, *)
(* and no file has more blocks than its largest size calls for.            *)
THEOREM TypeCorrect == Spec => []TypeOK
BY KeptAlways, KeptTypes, PTL

(* No block has two uses until the allocator loses track or a bad pointer  *)
(* is followed, whatever is appended, discarded, grown or removed and      *)
(* whichever request the allocator refuses.                                *)
THEOREM OneUseAlways == Spec => []OneUse
BY KeptAlways, KeptOneUse, PTL

-----------------------------------------------------------------------------
(* What a step may do.                                                     *)

LEMMA DataAfter ==
    ASSUME NEW f, NEW i \in 0 .. meta'[f].blk - 1
    PROVE  Data(f)'[i] = DataBlkAt(Opened(f)', i)
BY DEF Data

LEMMA BlkIsNat ==
    ASSUME Kept
    PROVE  \A f \in MetaIds : /\ meta[f].blk \in Nat /\ meta[f].blk <= MaxBlk
                            /\ meta[f].ptr1 \in Blocks \cup {NULL} /\ meta[f].ptr2 \in Blocks \cup {NULL}
BY DEF Kept, Metas

LEMMA StepKeepsData ==
    ASSUME Kept, [Next]_vars, OnTrack', NEW f \in named, f \in named', NEW i \in Nat,
           i < meta[f].blk, i < meta'[f].blk
    PROVE  DataBlkAt(Opened(f)', i) = DataBlkAt(Opened(f), i)
<1>0. f \in MetaIds /\ meta[f].blk \in Nat /\ i \in 0 .. meta[f].blk - 1
  <2>1. f \in MetaIds
    BY DEF Kept
  <2>2. meta[f].blk \in Nat
    BY <2>1, BlkIsNat
  <2>3. QED
    BY <2>1, <2>2
<1>2. ASSUME UNCHANGED vars PROVE DataBlkAt(Opened(f)', i) = DataBlkAt(Opened(f), i)
  BY <1>2 DEF vars, Opened
<1>7. CASE ~OnTrack
  BY <1>2, <1>7, FaultlessOnTrack, UnfollowedStays
<1>8. SUFFICES ASSUME OnTrack PROVE DataBlkAt(Opened(f)', i) = DataBlkAt(Opened(f), i)
  BY <1>7
<1>9. ~LosesTrack
  BY DEF LosesTrack, OnTrack
<1>1. PICK own \in Owners : Shares(own)
  BY <1>8 DEF Kept
<1>3. ASSUME NEW g \in MetaIds, Open(g) PROVE DataBlkAt(Opened(f)', i) = DataBlkAt(Opened(f), i)
  <2>1. Opened(f)' = Opened(f)
    BY <1>0, <1>3 DEF Open, Opened, Kept
  <2>2. QED
    BY <2>1
<1>4. ASSUME NEW g \in named, NEW t, NEW own2, Pushing(g, own, t, own2)
      PROVE  DataBlkAt(Opened(f)', i) = DataBlkAt(Opened(f), i)
  <2>1. CASE f = g
    <3>1. EndsAs(f, t) /\ Opened(f).m = meta[f]
      BY <1>4, <2>1, PushingKeeps, OpenedFields
    <3>2. Grows(Opened(f), t)
      BY <1>4, <2>1 DEF Pushing
    <3>3. QED
      BY <1>0, <3>1, <3>2 DEF Grows, EndsAs
  <2>2. CASE f # g
    BY <1>0, <1>4, <2>2, PushingKeeps
  <2>3. QED
    BY <2>1, <2>2
<1>5. ASSUME NEW g \in named, NEW z, NEW u, Popping(g, own, z, u)
      PROVE  DataBlkAt(Opened(f)', i) = DataBlkAt(Opened(f), i)
  <2>1. CASE f = g
    <3>1. EndsAs(f, u)
      BY <1>5, <2>1, PoppingKeeps
    <3>2. u \in States /\ Shrinks(f, z, own, u) /\ DataBlkAt(z, i) = DataBlkAt(Opened(f), i)
      BY <1>5, <2>1, PoppingFields
    <3>3. u.m = meta'[f] /\ u.m.blk \in Nat
      BY <3>1, <3>2, OpenedFields, StateFields DEF EndsAs
    <3>4. DataBlkAt(u, i) = DataBlkAt(z, i)
      BY <3>2, <3>3 DEF Shrinks
    <3>5. QED
      BY <3>1, <3>2, <3>4 DEF EndsAs
  <2>2. CASE f # g
    BY <1>0, <1>5, <2>2, PoppingKeeps
  <2>3. QED
    BY <2>1, <2>2
<1>6. QED
  BY <1>1, <1>2, <1>3, <1>4, <1>5, <1>9, Steps

(* A block that a file has before and after a call is at the same place of *)
(* the file, in every call in which the allocator keeps track.             *)
THEOREM DataStaysAlways == Spec => DataStays
<1>1. ASSUME Kept, Kept', [Next]_vars, fault' # {"lost track"}, NEW f \in named \cap named',
             NEW i \in 0 .. BlocksFor(MaxSize), i < meta[f].blk, i < meta'[f].blk
      PROVE  Data(f)[i] = Data(f)'[i]
  <2>1. f \in MetaIds /\ meta[f].blk \in Nat /\ meta'[f].blk \in Nat /\ i \in Nat
    <3>1. f \in MetaIds /\ BlocksFor(MaxSize) \in Nat
      BY <1>1, Levels DEF Kept, MaxBlk
    <3>2. meta[f].blk \in Nat
      BY <1>1, <3>1, BlkIsNat
    <3>3. meta'[f].blk \in Nat
      BY <1>1, <3>1 DEF Kept, Metas
    <3>4. QED
      BY <3>1, <3>2, <3>3
  <2>5. i \in 0 .. meta[f].blk - 1 /\ i \in 0 .. meta'[f].blk - 1
    <3> DEFINE m == meta[f].blk
               n == meta'[f].blk
    <3>1. i \in Nat /\ m \in Nat /\ n \in Nat
      BY <2>1
    <3>2. i < m /\ i < n
      BY <1>1
    <3> HIDE DEF m, n
    <3>3. i \in 0 .. m - 1 /\ i \in 0 .. n - 1
      BY ONLY <3>1, <3>2
    <3>4. QED
      BY <3>3 DEF m, n
  <2>2. Data(f)[i] = DataBlkAt(Opened(f), i)
    BY <2>5, DataOfFile
  <2>3. Data(f)'[i] = DataBlkAt(Opened(f)', i)
    BY <2>5, DataAfter
  <2>6. OnTrack' /\ f \in named /\ f \in named'
    BY <1>1 DEF OnTrack
  <2>7. DataBlkAt(Opened(f)', i) = DataBlkAt(Opened(f), i)
    BY <1>1, <2>1, <2>6, StepKeepsData
  <2>4. QED
    BY <2>2, <2>3, <2>7
<1>2. Kept /\ Kept' /\ [Next]_vars =>
        [fault' # {"lost track"} =>
          \A f \in named \cap named' : \A i \in 0 .. BlocksFor(MaxSize) :
            i < meta[f].blk /\ i < meta'[f].blk => Data(f)[i] = Data(f)'[i]]_vars
  BY <1>1
<1>3. QED
  BY <1>2, KeptAlways, PTL DEF Spec, DataStays

(* Fault is only set by a file that had lost blocks, or was not able to    *)
(* pop at the level's boundary.                                            *)
LEMMA TornFile ==
    ASSUME Kept, NEW f \in MetaIds, ~Solid(Opened(f))
    PROVE  Torn(f)
<1>1. PICK i \in 0 .. MaxBlk : /\ i * BlockBytes < meta[f].size
                               /\ ~(i < meta[f].blk /\ DataBlkAt(Opened(f), i) \in Blocks)
  BY OpenedFields DEF Solid
<1>2. meta[f].blk \in Nat
  BY BlkIsNat
<1>3. MaxBlk \in Nat /\ i \in Nat
  BY Levels
<1>4. i >= meta[f].blk \/ Data(f)[i] \notin Blocks
  BY <1>1, <1>2, <1>3, DataOfFile
<1>5. QED
  BY <1>1, <1>4 DEF Torn, MaxBlk

LEMMA HoledFile ==
    ASSUME NEW f, NEW i \in 0 .. meta[f].blk - 1, DataBlkAt(Opened(f), i) \notin Blocks
    PROVE  Holed(f)
<1>1. i \in DOMAIN Data(f) /\ Data(f)[i] \notin Blocks
  BY DEF Data
<1>2. QED
  BY <1>1 DEF Holed

LEMMA StepFaults ==
    ASSUME Kept, [Next]_vars
    PROVE  \/ UNCHANGED vars
           \/ /\ "foreign write" \in fault' => \E f \in named : Torn(f)
              /\ fault' \notin {fault, {"lost track"}} =>
                    \E f \in named : Torn(f) \/ Holed(f) \/ meta[f].blk = L2
<1>7. CASE ~OnTrack
  BY <1>7, FaultlessOnTrack, UnfollowedStays
<1>8. CASE LosesTrack
  <2>1. fault' = {"lost track"} /\ "foreign write" \notin {"lost track"}
    BY <1>8 DEF LosesTrack
  <2>2. QED
    BY <2>1
<1>9. SUFFICES ASSUME OnTrack, ~LosesTrack
      PROVE  \/ UNCHANGED vars
             \/ /\ "foreign write" \in fault' => \E f \in named : Torn(f)
                /\ fault' # fault => \E f \in named : Torn(f) \/ Holed(f) \/ meta[f].blk = L2
  BY <1>7, <1>8
<1>1. PICK own \in Owners : Shares(own)
  BY <1>9 DEF Kept
<1>2. ASSUME NEW f \in MetaIds, Open(f) PROVE fault' = fault /\ fault = {}
  BY <1>2 DEF Open
<1>3. ASSUME NEW f \in named, NEW t, NEW own2, Pushing(f, own, t, own2)
      PROVE  fault = {} /\ (fault' # fault => Torn(f))
  <2>1. f \in MetaIds /\ fault = {} /\ fault' = t.fault /\ (Solid(Opened(f)) => t.fault = fault)
    BY <1>3 DEF Pushing, Closed, Kept
  <2>2. QED
    BY <2>1, TornFile
<1>4. ASSUME NEW f \in named, NEW z, NEW u, Popping(f, own, z, u)
      PROVE  /\ fault = {} /\ "foreign write" \notin fault'
             /\ fault' # fault => Holed(f) \/ meta[f].blk = L2
  <2>1. fault = {} /\ fault' = u.fault /\ z.m.blk = meta[f].blk
    BY <1>4 DEF Popping
  <2>2. PICK k \in Nat : Popped(f, z, own, u, k)
    BY <1>4 DEF Popping
  <2>3. u.fault # {} => \/ u.fault = {"null read"} /\ z.m.blk = L2
                        \/ u.fault = {"foreign release"}
                           /\ \E i \in 0 .. z.m.blk - 1 : DataBlkAt(z, i) \notin Blocks
    BY <2>2 DEF Popped
  <2>4. "foreign write" \notin u.fault
    <3>1. u.fault \in {{}, {"null read"}, {"foreign release"}}
      BY <2>3
    <3> DEFINE x == u.fault
    <3>2. "foreign write" # "null read" /\ "foreign write" # "foreign release"
      OBVIOUS
    <3> HIDE DEF x
    <3>3. x \in {{}, {"null read"}, {"foreign release"}}
      BY <3>1 DEF x
    <3>4. "foreign write" \notin x
      BY <3>2, <3>3, Zenon
    <3>5. QED
      BY <3>4 DEF x
  <2>5. ASSUME u.fault # {}, z.m.blk # L2 PROVE Holed(f)
    <3>1. PICK i \in 0 .. meta[f].blk - 1 : DataBlkAt(z, i) \notin Blocks
      BY <2>1, <2>3, <2>5
    <3>2. DataBlkAt(Opened(f), i) \notin Blocks
      BY <1>4, <3>1, PoppingFields
    <3>3. QED
      BY <3>2, HoledFile
  <2>6. QED
    BY <2>1, <2>4, <2>5
<1>5. QED
  BY <1>1, <1>2, <1>3, <1>4, <1>9, Steps

(* However many requests are refused: a byte is only written to an address *)
(* that was never allocated when a file had lost its blocks, and a call    *)
(* only runs into a bad pointer when there was such a file, one with a     *)
(* hole, or one of exactly L2 blocks.  But for that, only the allocator's  *)
(* loss of track keeps a call from its end.                                *)
THEOREM FaultsHaveCauseAlways == Spec => FaultsHaveCause
<1>1. Kept /\ [Next]_vars =>
        [/\ "foreign write" \in fault' => \E f \in named : Torn(f)
         /\ fault' \notin {fault, {"lost track"}} =>
               \E f \in named : Torn(f) \/ Holed(f) \/ meta[f].blk = L2]_vars
  BY StepFaults
<1>2. QED
  BY <1>1, KeptAlways, PTL DEF Spec, FaultsHaveCause

(* The blocks of data are the ones at the places of a file.                *)
LEMMA DataBlock ==
    ASSUME NEW b \in DataBlocks
    PROVE  b \in Blocks /\ \E f \in named : \E i \in 0 .. meta[f].blk - 1 : b = DataBlkAt(Opened(f), i)
<1>1. PICK f \in named : b \in Range(Data(f))
  BY DEF DataBlocks
<1>2. PICK i \in 0 .. meta[f].blk - 1 : b = Data(f)[i]
  BY <1>1 DEF Range, Data
<1>3. b = DataBlkAt(Opened(f), i)
  BY <1>2, DataOfFile
<1>4. b \in Blocks
  BY DEF DataBlocks
<1>5. QED
  BY <1>3, <1>4

LEMMA DataBlockAfter ==
    ASSUME NEW f \in named', NEW i \in 0 .. meta'[f].blk - 1, DataBlkAt(Opened(f)', i) \in Blocks
    PROVE  DataBlkAt(Opened(f)', i) \in DataBlocks'
<1>1. Data(f)'[i] = DataBlkAt(Opened(f)', i) /\ i \in DOMAIN Data(f)'
  BY DEF Data
<1>2. DataBlkAt(Opened(f)', i) \in Range(Data(f))'
  BY <1>1 DEF Range
<1> DEFINE b == DataBlkAt(Opened(f)', i)
<1> HIDE DEF b
<1>3. \E x \in {Range(Data(g)) : g \in named}' : b \in x
  BY <1>2 DEF b
<1>4. b \in Blocks
  BY DEF b
<1>5. b \in DataBlocks'
  BY <1>3, <1>4 DEF DataBlocks
<1>6. QED
  BY <1>5 DEF b

LEMMA StepKeepsDataBlocks ==
    ASSUME Kept, [Next]_vars, fault' = {}, NEW b \in DataBlocks
    PROVE  b \in free' \cup DataBlocks'
<1>0. fault = {} /\ ~LosesTrack /\ OnTrack
  BY UnfollowedStays, FaultlessOnTrack DEF LosesTrack, vars
<1>1. PICK own \in Owners : Shares(own)
  BY <1>0 DEF Kept
<1>12. PICK f \in named : b \in Blocks /\ \E i \in 0 .. meta[f].blk - 1 : b = DataBlkAt(Opened(f), i)
  BY DataBlock
<1>2. PICK i \in 0 .. meta[f].blk - 1 : b = DataBlkAt(Opened(f), i) /\ b \in Blocks
  BY <1>12
<1>3. f \in MetaIds /\ meta[f].blk \in Nat
  BY BlkIsNat DEF Kept
<1>4. ASSUME f \in named', meta'[f].blk \in Nat, i < meta'[f].blk,
             DataBlkAt(Opened(f)', i) = DataBlkAt(Opened(f), i)
      PROVE  b \in DataBlocks'
  <2>1. i \in 0 .. meta'[f].blk - 1
    BY <1>4
  <2>2. QED
    BY <1>2, <1>4, <2>1, DataBlockAfter
<1>5. ASSUME UNCHANGED vars PROVE b \in DataBlocks'
  <2>1. Opened(f)' = Opened(f) /\ f \in named' /\ meta'[f] = meta[f]
    BY <1>5 DEF vars, Opened
  <2>2. QED
    BY <1>3, <1>4, <2>1
<1>6. ASSUME NEW g \in MetaIds, Open(g) PROVE b \in DataBlocks'
  <2>1. Opened(f)' = Opened(f) /\ f \in named' /\ meta'[f] = meta[f]
    BY <1>3, <1>6 DEF Open, Opened, Kept
  <2>2. QED
    BY <1>3, <1>4, <2>1
<1>7. ASSUME NEW g \in named, NEW t, NEW own2, Pushing(g, own, t, own2) PROVE b \in DataBlocks'
  <2>1. f \in named'
    BY <1>7 DEF Pushing
  <2>2. CASE f = g
    <3>1. EndsAs(f, t) /\ Opened(f).m = meta[f] /\ meta'[f] = t.m
      BY <1>7, <2>2, PushingKeeps, OpenedFields
    <3>2. Grows(Opened(f), t) /\ t.m.blk \in Nat
      BY <1>7, <2>2, StateFields DEF Pushing
    <3>3. DataBlkAt(t, i) = DataBlkAt(Opened(f), i) /\ i < t.m.blk
      BY <1>3, <3>1, <3>2 DEF Grows
    <3>4. QED
      BY <1>4, <2>1, <3>1, <3>2, <3>3 DEF EndsAs
  <2>3. CASE f # g
    <3>1. meta'[f] = meta[f] /\ DataBlkAt(Opened(f)', i) = DataBlkAt(Opened(f), i)
      BY <1>7, <2>3, PushingKeeps
    <3>2. QED
      BY <1>3, <1>4, <2>1, <3>1
  <2>4. QED
    BY <2>2, <2>3
<1>8. ASSUME NEW g \in named, NEW z, NEW u, Popping(g, own, z, u) PROVE b \in free' \cup DataBlocks'
  <2>1. CASE f # g
    <3>1. meta'[f] = meta[f] /\ f \in named' /\ DataBlkAt(Opened(f)', i) = DataBlkAt(Opened(f), i)
      BY <1>8, <2>1, PoppingKeeps
    <3>2. QED
      BY <1>3, <1>4, <3>1
  <2>2. CASE f = g
    <3>1. /\ u \in States /\ Shrinks(f, z, own, u) /\ DataBlkAt(z, i) = b
          /\ z.m.blk = meta[f].blk /\ free' = u.free /\ fault' = u.fault
      BY <1>2, <1>8, <2>2, PoppingFields DEF Popping
    <3>2. u.m.blk \in Nat
      BY <3>1, StateFields
    <3>3. CASE i >= u.m.blk
      <4>1. i \in u.m.blk .. z.m.blk - 1
        BY <1>3, <3>1, <3>2, <3>3
      <4>2. QED
        BY <3>1, <4>1 DEF Shrinks
    <3>4. CASE i < u.m.blk
      <4>1. f \in named' /\ meta'[f] = u.m
        <5>1. ASSUME NEW k \in Nat, k = meta[f].blk, Popped(f, z, own, u, k) PROVE FALSE
          <6>1. u.m.blk = z.m.blk - k
            BY <3>1, <5>1 DEF Popped
          <6>3. u.m.blk = 0
            BY <1>3, <3>1, <5>1, <6>1
          <6>2. QED
            BY <3>4, <6>3
        <5>2. named' = named /\ meta' = [meta EXCEPT ![f] = u.m]
          BY <1>8, <2>2, <5>1 DEF Popping
        <5>3. QED
          BY <1>3, <5>2 DEF Kept
      <4>2. EndsAs(f, u) /\ DataBlkAt(u, i) = DataBlkAt(z, i)
        <5>1. i \in 0 .. u.m.blk - 1
          BY <3>2, <3>4
        <5>2. QED
          BY <1>8, <2>2, <3>1, <4>1, <5>1, PoppingKeeps DEF Shrinks
      <4>3. QED
        BY <1>2, <1>4, <3>1, <3>2, <3>4, <4>1, <4>2 DEF EndsAs
    <3>5. QED
      BY <3>2, <3>3, <3>4
  <2>3. QED
    BY <2>1, <2>2
<1>9. QED
  BY <1>0, <1>1, <1>5, <1>6, <1>7, <1>8, Steps

(* The pointer blocks a file reaches, before and after a step.             *)
LEMMA KeptBlock ==
    ASSUME Kept, NEW f \in MetaIds, NEW b \in KeptPtrBlks(f)
    PROVE  /\ b \in Blocks
           /\ \/ b = meta[f].ptr1
              \/ b = meta[f].ptr2
              \/ meta[f].ptr2 \in Blocks /\ \E c \in 0 .. F - 1 : b = slot[meta[f].ptr2][c]
<1>1. meta[f].ptr2 \in Blocks \cup {NULL} /\ slot \in Slots
  BY BlkIsNat DEF Kept
<1>2. meta[f].ptr2 \in Blocks => DOMAIN slot[meta[f].ptr2] = 0 .. F - 1
  BY <1>1 DEF Slots
<1>3. QED
  BY <1>1, <1>2 DEF KeptPtrBlks, Range

LEMMA KeptBlockAfter ==
    ASSUME slot' \in Slots, NEW f, meta'[f].ptr2 \in Blocks \cup {NULL}, NEW b \in Blocks,
           \/ b = meta'[f].ptr1
           \/ b = meta'[f].ptr2
           \/ meta'[f].ptr2 \in Blocks /\ \E c \in 0 .. F - 1 : b = slot'[meta'[f].ptr2][c]
    PROVE  b \in KeptPtrBlks(f)'
<1>1. meta'[f].ptr2 \in Blocks => DOMAIN slot'[meta'[f].ptr2] = 0 .. F - 1
  BY DEF Slots
<1>2. meta'[f].ptr2 \in Blocks => meta'[f].ptr2 # NULL
  BY NullAssumption
<1>3. CASE b = meta'[f].ptr1
  BY <1>3 DEF KeptPtrBlks
<1>4. CASE b = meta'[f].ptr2
  BY <1>4 DEF KeptPtrBlks
<1>5. CASE meta'[f].ptr2 \in Blocks /\ \E c \in 0 .. F - 1 : b = slot'[meta'[f].ptr2][c]
  BY <1>1, <1>2, <1>5 DEF KeptPtrBlks, Range
<1>6. QED
  BY <1>3, <1>4, <1>5

LEMMA StepKeepsPtrBlks ==
    ASSUME Kept, Kept', [Next]_vars, fault' = {}, NEW f \in named, f \in named', ~Shrunk(f),
           NEW b \in KeptPtrBlks(f)
    PROVE  b \in free' \cup KeptPtrBlks(f)'
<1>0. fault = {} /\ ~LosesTrack /\ OnTrack
  BY UnfollowedStays, FaultlessOnTrack DEF LosesTrack, vars
<1>1. PICK own \in Owners : Shares(own)
  BY <1>0 DEF Kept
<1>2. f \in MetaIds /\ slot' \in Slots /\ b \in Blocks /\ b # NULL
  BY KeptBlock, NullAssumption DEF Kept
<1>3. /\ meta[f].blk \in Nat /\ L2 \in Nat
      /\ meta[f].ptr1 \in Blocks => meta[f].blk > 1
      /\ meta[f].ptr2 \in Blocks => meta[f].blk > L2
  <2>1. meta[f].blk \in Nat /\ L2 \in Nat
    BY <1>2, BlkIsNat, Levels
  <2>2. QED
    BY <2>1, NullAssumption DEF Shrunk
<1>4. meta'[f].ptr2 \in Blocks \cup {NULL}
  BY <1>2 DEF Kept, Metas
<1>5. \/ b = meta[f].ptr1 /\ meta[f].blk > 1
      \/ b = meta[f].ptr2 /\ meta[f].blk > L2
      \/ /\ meta[f].blk > L2 /\ meta[f].ptr2 \in Blocks
         /\ \E c \in 0 .. F - 1 : b = slot[meta[f].ptr2][c]
  BY <1>2, <1>3, KeptBlock
<1>6. CASE UNCHANGED vars
  BY <1>6 DEF vars, KeptPtrBlks
<1>7. ASSUME NEW g \in MetaIds, Open(g) PROVE b \in KeptPtrBlks(f)'
  <2>1. meta'[f] = meta[f] /\ slot' = slot
    BY <1>2, <1>7 DEF Open, Kept
  <2>2. QED
    BY <1>2, <1>4, <1>5, <2>1, KeptBlockAfter
<1>8. ASSUME meta'[f] = meta[f], meta[f].blk > L2 => slot'[meta[f].ptr2] = slot[meta[f].ptr2]
      PROVE  b \in KeptPtrBlks(f)'
  BY <1>2, <1>4, <1>5, <1>8, KeptBlockAfter
<1>9. ASSUME NEW g \in named, NEW t, NEW own2, Pushing(g, own, t, own2) PROVE b \in KeptPtrBlks(f)'
  <2>1. CASE f = g
    <3>2. Grows(Opened(f), t) /\ slot' = t.slot
      BY <1>9, <2>1 DEF Pushing, Closed
    <3>5. meta'[f] = t.m
      BY <1>9, <2>1, PushingKeeps
    <3>1. Opened(f).m = meta[f] /\ Opened(f).slot = slot /\ meta'[f] = t.m /\ slot' = t.slot
      BY <3>2, <3>5, OpenedFields
    <3>3. /\ meta[f].blk > 1 => meta'[f].ptr1 = meta[f].ptr1
          /\ meta[f].blk > L2 =>
               /\ meta'[f].ptr2 = meta[f].ptr2
               /\ \A c \in 0 .. F - 1 :
                     slot[meta[f].ptr2][c] # NULL => slot'[meta[f].ptr2][c] = slot[meta[f].ptr2][c]
      BY <3>1, <3>2 DEF Grows
    <3>4. QED
      BY <1>2, <1>4, <1>5, <3>3, KeptBlockAfter
  <2>2. CASE f # g
    BY <1>8, <1>9, <2>2, PushingKeeps
  <2>3. QED
    BY <2>1, <2>2
<1>10. ASSUME NEW g \in named, NEW z, NEW u, Popping(g, own, z, u)
       PROVE  b \in free' \cup KeptPtrBlks(f)'
  <2>1. CASE f = g
    <3>1. /\ Shrinks(f, z, own, u) /\ free' = u.free /\ slot' = u.slot /\ z.slot = slot /\ z.free = free
          /\ z.m.ptr1 = meta[f].ptr1 /\ z.m.ptr2 = meta[f].ptr2
      BY <1>10, <2>1, PoppingFields DEF Popping
    <3>2. meta'[f].ptr1 = meta[f].ptr1 /\ meta'[f].ptr2 = meta[f].ptr2
      BY <1>2, <1>10, <2>1, <3>1 DEF Popping, Shrinks, Kept
    <3>3. CASE b = meta[f].ptr1 \/ b = meta[f].ptr2
      BY <1>2, <1>4, <3>2, <3>3, KeptBlockAfter
    <3>4. ASSUME meta[f].blk > L2, meta[f].ptr2 \in Blocks, NEW c \in 0 .. F - 1, b = slot[meta[f].ptr2][c]
          PROVE  b \in free' \cup KeptPtrBlks(f)'
      <4> DEFINE x == meta[f].ptr2
      <4>1. x \in Blocks \ free /\ own[x] = <<f, "root", 2>>
        <5>1. Held(f, Opened(f), own) /\ Opened(f).m = meta[f] /\ Opened(f).free = free
          BY <1>1, OpenedFields DEF Shares
        <5>2. QED
          BY <3>4, <5>1 DEF Held, Paths, Rooted, Marked
      <4>2. slot'[x][c] # slot[x][c] => slot[x][c] \in free'
        BY <3>1, <4>1 DEF Shrinks
      <4>3. CASE slot'[x][c] = slot[x][c]
        BY <1>2, <1>4, <3>2, <3>4, <4>3, KeptBlockAfter
      <4>4. QED
        BY <3>4, <4>2, <4>3
    <3>5. QED
      BY <1>5, <3>3, <3>4
  <2>2. CASE f # g
    BY <1>8, <1>10, <2>2, PoppingKeeps
  <2>3. QED
    BY <2>1, <2>2
<1>11. QED
  BY <1>0, <1>1, <1>6, <1>7, <1>9, <1>10, Steps

(* Up to the first fault, the allocator's loss of track included, a block  *)
(* in use is not lost: a call gives it back or leaves it where it can be   *)
(* reached.  Only a file that had shrunk below a level loses the level's   *)
(* pointer blocks, and a removed one.                                      *)
THEOREM UsedBlocksAreKeptAlways == Spec => UsedBlocksAreKept
<1>1. Kept /\ Kept' /\ [Next]_vars =>
        [fault' = {} =>
          /\ DataBlocks \subseteq free' \cup DataBlocks'
          /\ \A f \in named \cap named' :
                ~Shrunk(f) => KeptPtrBlks(f) \subseteq free' \cup KeptPtrBlks(f)']_vars
  BY StepKeepsDataBlocks, StepKeepsPtrBlks
<1>2. QED
  BY <1>1, KeptAlways, PTL DEF Spec, UsedBlocksAreKept
=============================================================================
