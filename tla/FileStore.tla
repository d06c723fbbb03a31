------------------------------ MODULE FileStore ------------------------------
(***************************************************************************)
(* Files that share an allocator (datalayer/file.c and the ftruncate       *)
(* system call), each operation as FileOps has it.                         *)
(***************************************************************************)
EXTENDS FileOps

CONSTANTS Lengths,      \* byte counts appended and discarded
          Targets       \* lengths ftruncate is asked for

ASSUME LengthAssumption == Lengths \subseteq Nat /\ Targets \subseteq Nat

VARIABLES named,        \* the files opened under a name and not removed
          meta,         \* the file metas
          slot,         \* the pointers in each pointer block
          free,         \* the blocks the allocator has
          fault,        \* what was accessed through a bad pointer, or the loss of track
          result        \* <<operation, file, what it returned>>

vars == <<named, meta, slot, free, fault, result>>

(* Operations work on one file: its meta m, and the memory they share.     *)
Opened(f) ==
    [m |-> meta[f], slot |-> slot, free |-> free, fault |-> fault, track |-> {"kept"}]

(* The end of an operation, if the allocator kept track or if it did not.  *)
Close(f, st) ==
    \/ /\ "kept" \in st.track
       /\ meta' = [meta EXCEPT ![f] = st.m]
       /\ slot' = st.slot
       /\ free' = st.free
       /\ fault' = st.fault
    \/ /\ "lost" \in st.track
       /\ fault' = {"lost track"}
       /\ UNCHANGED <<meta, slot, free>>

-----------------------------------------------------------------------------

Init ==
    /\ named = {}
    /\ meta = [f \in MetaIds |-> Blank]
    /\ slot = [b \in Blocks |-> Empty]
    /\ free = Blocks
    /\ fault = {}
    /\ result = <<"none", NULL, 0>>

(* The open system call of a new name, for which it blanks a meta.         *)
Open(f) ==
    /\ fault = {}
    /\ f \notin named
    /\ named' = named \cup {f}
    /\ meta' = [meta EXCEPT ![f] = Blank]
    /\ result' = <<"open", f, 0>>
    /\ UNCHANGED <<slot, free, fault>>

InUse(f) == fault = {} /\ f \in named

FileAppend(f, len) ==
    /\ InUse(f)
    /\ meta[f].size + len <= MaxSize
    /\ \E a \in Appends(Opened(f), len) :
          /\ Close(f, a.st)
          /\ result' = <<"append", f, a.ret>>
    /\ UNCHANGED named

DiscardTail(f, len) ==
    /\ InUse(f)
    /\ len <= meta[f].size
    /\ Close(f, Discarded(Opened(f), len))
    /\ result' = <<"discard", f, 0>>
    /\ UNCHANGED named

(* ftruncate: it appends as many bytes as the file shall have, the last    *)
(* Chunk of them also when fewer are missing.                              *)
Ftruncate(f, target) ==
    /\ InUse(f)
    /\ IF target > meta[f].size
       THEN /\ meta[f].size + target + Chunk - 1 <= MaxSize
            /\ \E a \in Grown(Opened(f), target) :
                 /\ Close(f, a.st)
                 /\ result' = <<"ftruncate", f, a.ret>>
       ELSE /\ Close(f, Discarded(Opened(f), meta[f].size - target))
            /\ result' = <<"ftruncate", f, 0>>
    /\ UNCHANGED named

(* file_removeFile: all data blocks go, and the meta stays as it is.       *)
RemoveFile(f) ==
    /\ InUse(f)
    /\ Close(f, [Pop(Opened(f), meta[f].blk) EXCEPT !.m = meta[f]])
    /\ named' = named \ {f}
    /\ result' = <<"remove", f, 0>>

Unfollowed == fault # {} /\ UNCHANGED vars

Next ==
    \/ \E f \in MetaIds, len \in Lengths : FileAppend(f, len)
    \/ \E f \in MetaIds, len \in Lengths : DiscardTail(f, len)
    \/ \E f \in MetaIds, target \in Targets : Ftruncate(f, target)
    \/ \E f \in MetaIds : Open(f) \/ RemoveFile(f)
    \/ Unfollowed

Spec == Init /\ [][Next]_vars

-----------------------------------------------------------------------------

(* Type invariant.                                                         *)
TypeOK ==
    /\ named \subseteq MetaIds
    /\ meta \in [MetaIds -> [size : Nat, blk : 0 .. BlocksFor(MaxSize),
                           first : Blocks \cup {NULL, FOREIGN},
                           ptr1 : Blocks \cup {NULL}, ptr2 : Blocks \cup {NULL}]]
    /\ slot \in [Blocks -> [0 .. F - 1 -> Blocks \cup {NULL, FOREIGN}]]
    /\ free \subseteq Blocks
    /\ fault \subseteq {"null read", "foreign release", "foreign write", "lost track"}

Data(f) == [i \in 0 .. meta[f].blk - 1 |-> DataBlkAt(Opened(f), i)]

(* The pointer blocks that hold the pointers to f's data.                  *)
PtrBlks(f) == PtrBlksOf(Opened(f))

(* Until the allocator loses track or a bad pointer is followed, every     *)
(* block has one use: it is free, or the data of one place of one file, or *)
(* a pointer block of one file.  Pushes, pops and failures half-way        *)
(* through either never make two of these of one block.  Holes in a file   *)
(* are null blocks or addresses outside the region, as TypeOK says.        *)
OneUse ==
    LET places == {p \in named \X (0 .. BlocksFor(MaxSize)) :
                      p[2] < meta[p[1]].blk /\ Data(p[1])[p[2]] \in Blocks}
        data   == {Data(p[1])[p[2]] : p \in places}
    IN  /\ TypeOK
        /\ fault = {} =>
              /\ Cardinality(data) = Cardinality(places)
              /\ free \cap data = {}
              /\ \A f \in named : PtrBlks(f) \cap (free \cup data) = {}
              /\ \A f, g \in named : f # g => PtrBlks(f) \cap PtrBlks(g) = {}

(* Until the allocator loses track data stays where it is: a block a file  *)
(* has before and after a call is at the same place of the file, through   *)
(* every change of level.  (When a block is data and a pointer block at    *)
(* once, a write moves other data.)                                        *)
DataStays ==
    [][fault' # {"lost track"} =>
          \A f \in named \cap named' : \A i \in 0 .. BlocksFor(MaxSize) :
             i < meta[f].blk /\ i < meta'[f].blk => Data(f)[i] = Data(f)'[i]]_vars

Holed(f) == \E i \in DOMAIN Data(f) : Data(f)[i] \notin Blocks

(* A file with bytes that no block of its own holds.                       *)
Torn(f) ==
    \E i \in 0 .. BlocksFor(MaxSize) :
       i * BlockBytes < meta[f].size /\ (i >= meta[f].blk \/ Data(f)[i] \notin Blocks)

(* Refused requests are not noticed, but what an access through a bad      *)
(* pointer needs is more than one of them.  A byte is only written to an   *)
(* address that was never allocated when the file had lost its blocks, and *)
(* a pop is only stopped by a hole in the file, or in a file of exactly L2 *)
(* blocks, which stops every pop: everything else can be appended to,      *)
(* discarded and removed, and nothing but the allocator's loss of track    *)
(* ends that.                                                              *)
FaultsHaveCause ==
    [][/\ "foreign write" \in fault' => \E f \in named : Torn(f)
       /\ fault' \notin {fault, {"lost track"}} =>
             \E f \in named : Torn(f) \/ Holed(f) \/ meta[f].blk = L2]_vars

DataBlocks == (UNION {Range(Data(f)) : f \in named}) \cap Blocks

(* The pointer blocks that can still be reached, also those a shrunk file  *)
(* keeps.                                                                  *)
KeptPtrBlks(f) ==
    LET m == meta[f]
    IN  ({m.ptr1, m.ptr2} \cup (IF m.ptr2 = NULL THEN {} ELSE Range(slot[m.ptr2]))) \cap Blocks

Shrunk(f) ==
    \/ meta[f].blk <= 1 /\ meta[f].ptr1 # NULL
    \/ meta[f].blk <= L2 /\ meta[f].ptr2 # NULL

(* Up to the first fault, the allocator's loss of track included, a block  *)
(* in use is never lost: data stays data until it is free again, and so do *)
(* pointer blocks, but for a removed file's and for those of a file that   *)
(* had shrunk below a level, which the next growth replaces.               *)
UsedBlocksAreKept ==
    [][fault' = {} =>
          /\ DataBlocks \subseteq free' \cup DataBlocks'
          /\ \A f \in named \cap named' :
                ~Shrunk(f) => KeptPtrBlks(f) \subseteq free' \cup KeptPtrBlks(f)']_vars

-----------------------------------------------------------------------------

(* datalayer/file.h:49: file_removeFile is to free all blocks of a file    *)
(* back to the allocator.                                                  *)
RemoveFreesAllBlocks ==
    [][\A f \in MetaIds : RemoveFile(f) /\ fault' = {} => KeptPtrBlks(f) \subseteq free']_vars

(* syscalls.c:98 names the call int ftruncate(int fd, off_t length): a     *)
(* call that returns 0 has given the file that length.                     *)
FtruncateSetsLength ==
    [][\A f \in MetaIds, target \in Targets :
         Ftruncate(f, target) /\ fault' = {} /\ result'[3] = 0 => meta'[f].size = target]_vars
=============================================================================
