------------------------------ MODULE Directory ------------------------------
(***************************************************************************)
(* A directory (datalayer/directory.c): an array of named references to    *)
(* metas, kept sorted by name in the blocks of a file, P to a block.       *)
(*                                                                         *)
(* A name stands for its place in the order of strcmp, which compares      *)
(* signed characters: names that start with a byte from 0x80 on sort       *)
(* before the empty name, BLANK, and the others behind it.  GONE is the    *)
(* name of 252 bytes 0xFF a deletion renames an entry to.  Of all names    *)
(* only those that start with another byte 0xFF sort between GONE and      *)
(* BLANK; no caller gives one.                                             *)
(*                                                                         *)
(* P is 16 in the code.  A directory of L2 (1025) blocks, where a pop      *)
(* fails (FileStore), is beyond MaxRefs.                                   *)
(***************************************************************************)
EXTENDS Integers

CONSTANTS Names,        \* the names callers give
          Metas,        \* the metas they lead to
          P,            \* entries in a block
          MaxRefs,      \* the largest number of entries
          NULL          \* the null pointer

GONE  == -1
BLANK == 0
INVAL == -1             \* dir_fileRefId_inval

ASSUME NamesAssumption == Names \subseteq Int \ {GONE, BLANK}
ASSUME SizeAssumption  == P \in Nat \ {0} /\ MaxRefs \in Nat

VARIABLES size,         \* the number of entries: fileSize / 0x100
          refs,         \* the entries
          blk,          \* the number of blocks they are kept in
          answer        \* what the last call returned

vars == <<size, refs, blk, answer>>

Ids == 0 .. size - 1

Ref(name, meta) == [name |-> name, meta |-> meta]

-----------------------------------------------------------------------------

(* Mutant: the upper half is entered one entry too late.                   *)
ProbeLate(rest, r, name, from, to) ==
    LET mid == (from + to) \div 2
    IN  CASE from > to             -> INVAL
          [] r[mid].name = name    -> mid
          [] r[mid].name < name    -> IF mid + 1 >= to THEN INVAL ELSE rest[<<mid + 2, to>>]
          [] OTHER                 -> IF mid = from THEN INVAL ELSE rest[<<from, mid - 1>>]

(* fileRefBinSearch between two bounds; rest is what the calls it makes    *)
(* return.                                                                 *)
ProbeStep(rest, r, name, from, to) ==
    LET mid == (from + to) \div 2
    IN  IF from > to THEN INVAL
        ELSE IF r[mid].name = name THEN mid
        ELSE IF r[mid].name < name
             THEN IF mid = to THEN INVAL ELSE rest[<<mid + 1, to>>]
             ELSE IF mid = from THEN INVAL ELSE rest[<<from, mid - 1>>]

Bounds(n) == (0 .. n) \X (-1 .. n - 1)

Probe(r, n, name) ==
    LET probe[w \in Bounds(n)] == ProbeStep(probe, r, name, w[1], w[2])
    IN  probe

(* dir_searchFileRef.  In an empty directory the upper bound is 0xFFFFFFFF *)
(* and there is no entry at the first probe.                               *)
Search(r, n, name) == IF n = 0 THEN INVAL ELSE Probe(r, n, name)[<<0, n - 1>>]

NameUsed(name) == Search(refs, size, name) # INVAL

-----------------------------------------------------------------------------

(* Mutant: a swap exchanges the names and leaves the metas.                *)
MovedNames(r, n, i, p) ==
    [j \in 0 .. n - 1 |->
        CASE j = p              -> Ref(r[i].name, r[j].meta)
          [] p < j /\ j <= i    -> Ref(r[j - 1].name, r[j].meta)
          [] i <= j /\ j < p    -> Ref(r[j + 1].name, r[j].meta)
          [] OTHER              -> r[j]]

(* Entry i taken to place p, the entries between shifted by one.           *)
Moved(r, n, i, p) ==
    [j \in 0 .. n - 1 |->
        CASE j = p              -> r[i]
          [] p < j /\ j <= i    -> r[j - 1]
          [] i <= j /\ j < p    -> r[j + 1]
          [] OTHER              -> r[j]]

Less(r, a, b) == r[a].name < r[b].name

SameName(r, a, b) == r[a].name = r[b].name

(* Where entry i stops when it is swapped with larger ones before it.      *)
StopsDown(r, i, p) ==
    /\ p <= i
    /\ \A j \in p .. i - 1 : Less(r, i, j)
    /\ p > 0 => ~Less(r, i, p - 1)

(* Where it stops when it is swapped with smaller ones behind it.          *)
StopsUp(r, n, i, p) ==
    /\ p >= i
    /\ \A j \in i + 1 .. p : Less(r, j, i)
    /\ p < n - 1 => ~Less(r, p + 1, i)

(* Mutant: only the way down is gone.                                      *)
RestsBelow(r, n, i, p) == StopsDown(r, i, p)

(* Where dir_rePosFileRef leaves entry i.  It turns back at an entry of    *)
(* the same name.                                                          *)
RestsAt(r, n, i, p) ==
    \/ /\ StopsDown(r, i, p)
       /\ p < i \/ (i > 0 /\ SameName(r, i, i - 1))
    \/ /\ StopsDown(r, i, i)
       /\ ~(i > 0 /\ SameName(r, i, i - 1))
       /\ StopsUp(r, n, i, p)

(* What it returns when it leaves the entry at place p of r.               *)
Placed(r, n, p) ==
    IF \E j \in {p - 1, p + 1} \cap (0 .. n - 1) : SameName(r, j, p) THEN INVAL ELSE p

Refused(value) ==
    /\ answer' = value
    /\ UNCHANGED <<size, refs, blk>>

(* The n entries of r, of which entry i is out of order.                   *)
Repositioned(r, n, i) ==
    \E p \in 0 .. n - 1 :
       /\ RestsAt(r, n, i, p)
       /\ refs' = Moved(r, n, i, p)
       /\ size' = n
       /\ answer' = Placed(Moved(r, n, i, p), n, p)

-----------------------------------------------------------------------------

Init ==
    /\ size = 0
    /\ refs = [j \in {} |-> Ref(BLANK, NULL)]
    /\ blk = 0
    /\ answer = INVAL

BlocksWith(n) == IF n % P = 0 THEN blk + 1 ELSE blk

(* dir_addFileRef.  The first entry of a block needs a block, and that may *)
(* need a pointer block; either may be refused.                            *)
AddFileRef(name, meta) ==
    /\ size < MaxRefs
    /\ \/ /\ NameUsed(name) \/ size % P = 0
          /\ Refused(INVAL)
       \/ /\ ~NameUsed(name)
          /\ Repositioned([j \in 0 .. size |-> IF j = size THEN Ref(name, meta) ELSE refs[j]],
                          size + 1, size)
          /\ blk' = BlocksWith(size)

Renamed(i, name) == [refs EXCEPT ![i] = Ref(name, refs[i].meta)]

(* dir_renameFileRef.                                                      *)
RenameFileRef(old, new) ==
    LET i == Search(refs, size, old)
    IN  IF i \notin Ids \/ NameUsed(new)
        THEN Refused(INVAL)
        ELSE Repositioned(Renamed(i, new), size, i) /\ UNCHANGED blk

(* Mutant: only the meta is cleared.                                       *)
BlankedMeta(r, n, p) == [j \in 0 .. n - 1 |-> IF j = p THEN Ref(r[j].name, NULL) ELSE r[j]]

Blanked(r, n, p) == [j \in 0 .. n - 1 |-> IF j = p THEN Ref(BLANK, NULL) ELSE r[j]]

(* Mutant: the block goes with the entry behind the last of a block.       *)
BlocksLate(n) == IF n % P = 1 THEN blk - 1 ELSE blk

BlocksWithout(n) == IF n % P = 0 THEN blk - 1 ELSE blk

(* dir_delFileRef: the entry is renamed to GONE, blanked where that left   *)
(* it, and the last entry of the directory is cut off.                     *)
DelFileRef(name) ==
    LET i == Search(refs, size, name)
    IN  IF i \notin Ids \/ NameUsed(GONE)
        THEN Refused(-1)
        ELSE \E p \in Ids :
                LET r == Moved(Renamed(i, GONE), size, i, p)
                IN  /\ RestsAt(Renamed(i, GONE), size, i, p)
                    /\ IF Placed(r, size, p) = INVAL
                       THEN /\ refs' = r
                            /\ answer' = -1
                            /\ UNCHANGED <<size, blk>>
                       ELSE /\ refs' = [j \in 0 .. size - 2 |-> Blanked(r, size, p)[j]]
                            /\ size' = size - 1
                            /\ blk' = BlocksWithout(size - 1)
                            /\ answer' = 0

Next ==
    \/ \E name \in Names, meta \in Metas : AddFileRef(name, meta)
    \/ \E old, new \in Names : RenameFileRef(old, new)
    \/ \E name \in Names : DelFileRef(name)

Spec == Init /\ [][Next]_vars

-----------------------------------------------------------------------------

(* Type invariant.  No entry keeps the name it was marked with.            *)
TypeOK ==
    /\ size \in Nat
    /\ refs \in [Ids -> [name : Names \cup {BLANK}, meta : Metas \cup {NULL}]]
    /\ blk \in Nat
    /\ answer \in Ids \cup {0, INVAL}

(* Entries are in order, and no two have the same name but those that      *)
(* deletions blanked: whatever an entry is renamed to, and wherever a      *)
(* deletion leaves its blank, the binary search may rely on it.            *)
Sorted ==
    \A i, j \in Ids :
       i < j => \/ Less(refs, i, j)
                \/ refs[i] = Ref(BLANK, NULL) /\ refs[j] = Ref(BLANK, NULL)

(* The binary search finds an entry of the name exactly when there is one, *)
(* also with blank entries between others, with bounds that meet, and in   *)
(* an empty directory, where its upper bound is the largest number.        *)
SearchFinds ==
    \A name \in Names \cup {GONE, BLANK} :
       LET i == Search(refs, size, name)
       IN  IF \E j \in Ids : refs[j].name = name
           THEN i \in Ids /\ refs[i].name = name
           ELSE i = INVAL

(* The directory has the blocks its entries are in, and no other: no entry *)
(* is looked up at a null block, and deletions give back what additions    *)
(* took.                                                                   *)
BlocksMatchSize == blk = (size + P - 1) \div P

Listed == {refs[j].name : j \in Ids}

MetaOf(name) == refs[CHOOSE j \in Ids : refs[j].name = name].meta

Map == INSTANCE NameMap WITH map <- [name \in Listed |-> MetaOf(name)]

(* The directory implements the map: a call adds, renames or deletes what  *)
(* it names, a deletion loses one more name at most, the one that sorts    *)
(* last, and no other name changes its meta.                               *)
ImplementsNameMap == Map!Spec

-----------------------------------------------------------------------------

(* test/directory0.c:59 calls it a failure when a name that was added is   *)
(* not detected: a name stays in use until it is renamed or deleted.       *)
AddedNamesDetected ==
    [][\A name \in Names :
          /\ NameUsed(name)
          /\ ~DelFileRef(name)
          /\ ~\E new \in Names : RenameFileRef(name, new)
          => NameUsed(name)']_vars
=============================================================================
