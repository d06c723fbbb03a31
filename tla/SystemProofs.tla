---------------------------- MODULE SystemProofs ----------------------------
(***************************************************************************)
(* Theorems about the whole system, for any number of blocks, metas,       *)
(* programs, lives, names and files, and any sizes of pages and of pointer *)
(* blocks.  First what a reset leaves of the datalayer's meta and which    *)
(* names share a file, then what the metas and blocks are used for, then   *)
(* what the program gets.                                                  *)
(***************************************************************************)
EXTENDS Syscalls, FileOpsProofs

-----------------------------------------------------------------------------
(* The record and the names: the inductive invariant.                      *)

Fields == {"geometry", "freeList", "kroot", "uroot", "metaList", "magic"}

BeforeKroot == {"allocator", "freeList", "kroot"}

BeforeUroot == BeforeKroot \cup {"uroot"}

BeforeMagic == BeforeUroot \cup {"metaList", "magic"}

Typed ==
    /\ life \in Nat \ {0}
    /\ record \in [Fields -> 0 .. life]
    /\ metas \in [MetaIds -> {"free", "dir", "file", "proc"}]
    /\ at \in [Roles -> MetaIds \cup {NULL}]
    /\ \A n \in DOMAIN names : names[n] \in MetaIds \ {0}

(* How far this life has written the record.  The magic number is older    *)
(* than the first fields until all are written.                            *)
Progress ==
    /\ pc = "allocator" => \A f \in Fields : record[f] < life
    /\ pc \in BeforeMagic \ {"allocator"} => record["geometry"] = life /\ record["magic"] < life
    /\ pc \in {"kroot", "uroot", "metaList", "magic"} => record["freeList"] = life
    /\ pc \in {"uroot", "metaList", "magic"} => record["kroot"] = life
    /\ pc \in {"metaList", "magic"} => record["uroot"] = life
    /\ pc = "magic" => record["metaList"] = life
    /\ pc \notin BeforeMagic => \A f \in Fields : record[f] = life

(* The root directories have the metas they were given.                    *)
RootsMade ==
    /\ pc \in {"freeList", "kroot"} => metaBlk = NULL /\ free \subseteq Nat
    /\ pc \notin BeforeKroot => metaBlk # NULL /\ at["kroot"] = 0 /\ metas[0] = "dir"
    /\ pc \notin BeforeUroot => at["uroot"] \in MetaIds \ {0} /\ metas[at["uroot"]] = "dir"

(* What the kernel itself names are files of their own.                    *)
KernelNames ==
    pc \notin BeforeUroot \cup {"user"} =>
       \A m, n \in DOMAIN names :
          /\ metas[names[n]] = "file"
          /\ m # n => names[m] # names[n]

(* Under a magic number all fields have been written, in its life or       *)
(* later, and the roots have metas.                                        *)
UnderMagic ==
    record["magic"] # 0 =>
       /\ \A f \in Fields : record["magic"] <= record[f]
       /\ at["kroot"] = 0 /\ at["uroot"] # 0

IInv ==
    /\ Typed /\ Progress /\ RootsMade /\ UnderMagic
    /\ KernelNames /\ RecordIsWritten /\ OnlyNewNamesShare

-----------------------------------------------------------------------------

(* A record whose first field is newer than its magic number is not said   *)
(* to be of one life; one that is all of this life has two directories.    *)
LEMMA WrittenInTime ==
    ASSUME Typed', Progress', RootsMade', UnderMagic', pc' # "allocator"
    PROVE  RecordIsWritten'
<1>0. record'["magic"] # 0 => /\ \A f \in DOMAIN record' : record'[f] >= record'["magic"]
                              /\ at'["kroot"] # at'["uroot"]
  <2>1. DOMAIN record' = Fields /\ "magic" \in Fields /\ \A f \in Fields : record'[f] \in Int
    BY DEF Typed, Fields
  <2>2. QED
    BY <2>1 DEF UnderMagic
<1>1. CASE pc' \in BeforeMagic
  <2>1. record'["geometry"] = life' /\ record'["magic"] < life'
    BY <1>1 DEF Progress
  <2>2. /\ "geometry" \in DOMAIN record'
        /\ record'["geometry"] \in Int /\ record'["magic"] \in Int /\ life' \in Int
    BY DEF Typed, Fields
  <2>3. record'["geometry"] # record'["magic"]
    BY <2>1, <2>2
  <2>4. QED
    BY <1>0, <2>3 DEF RecordIsWritten
<1>2. CASE pc' \notin BeforeMagic
  <2>1. \A f \in Fields : record'[f] = life'
    BY <1>2 DEF Progress
  <2>2. DOMAIN record' = Fields /\ "magic" \in Fields
    BY DEF Typed, Fields
  <2>3. at'["kroot"] = 0 /\ metas'[0] = "dir" /\ at'["uroot"] # 0 /\ metas'[at'["uroot"]] = "dir"
    BY <1>2 DEF RootsMade, BeforeKroot, BeforeUroot, BeforeMagic
  <2>4. QED
    BY <1>0, <2>1, <2>2, <2>3 DEF RecordIsWritten, RootDirs
<1>3. QED
  BY <1>1, <1>2

LEMMA InitIInv == SysInit => IInv
<1> SUFFICES ASSUME SysInit PROVE IInv
  OBVIOUS
<1> USE DEF SysInit, Init, Fields, BeforeKroot, BeforeUroot, BeforeMagic
<1>1. Typed
  BY DEF Typed
<1>2. Progress
  BY DEF Progress
<1>3. RootsMade
  BY DEF RootsMade
<1>4. KernelNames
  BY DEF KernelNames
<1>5. RecordIsWritten
  BY DEF RecordIsWritten
<1>6. OnlyNewNamesShare
  BY DEF OnlyNewNamesShare
<1>7. UnderMagic
  BY DEF UnderMagic
<1>8. QED
  BY <1>1, <1>2, <1>3, <1>4, <1>5, <1>6, <1>7 DEF IInv

-----------------------------------------------------------------------------
(* Creating the datalayer.                                                 *)

LEMMA AllocatorKeeps == IInv /\ CreateAllocator => IInv'
<1> SUFFICES ASSUME IInv, CreateAllocator PROVE IInv'
  OBVIOUS
<1> USE DEF CreateAllocator, Written, Goto, control, IInv
<1>1. Typed'
  BY DEF Typed, Fields
<1>2. Progress'
  BY DEF Progress, Typed, Fields, BeforeMagic, BeforeUroot, BeforeKroot
<1>3. RootsMade'
  <2>1. 1 .. size \subseteq Nat
    OBVIOUS
  <2>2. QED
    BY <2>1 DEF RootsMade, BeforeUroot, BeforeKroot
<1>4. KernelNames'
  BY DEF KernelNames, BeforeUroot, BeforeKroot
<1>5. UnderMagic'
  <2>1. record["magic"] <= life /\ record'["magic"] = record["magic"]
    BY DEF Typed, Fields
  <2>2. \A f \in Fields : record'[f] \in {record[f], life}
    BY DEF Typed
  <2>3. QED
    BY <2>1, <2>2 DEF UnderMagic
<1>6. RecordIsWritten'
  BY <1>1, <1>2, <1>3, <1>5, WrittenInTime
<1>7. OnlyNewNamesShare'
  BY DEF OnlyNewNamesShare
<1>8. QED
  BY <1>1, <1>2, <1>3, <1>4, <1>5, <1>6, <1>7

LEMMA WriteKeeps ==
    ASSUME IInv,
           \/ Write("freeList", "kroot")
           \/ Write("metaList", "magic")
           \/ Write("magic", "file0")
    PROVE  IInv'
<1> USE DEF Write, Written, Goto, control, memory, IInv
<1>1. Typed'
  BY DEF Typed, Fields
<1>2. Progress'
  BY DEF Progress, Typed, Fields, BeforeMagic, BeforeUroot, BeforeKroot
<1>3. RootsMade'
  BY DEF RootsMade, BeforeUroot, BeforeKroot
<1>4. KernelNames'
  BY DEF KernelNames, BeforeUroot, BeforeKroot
<1>5. pc' # "allocator"
  OBVIOUS
<1>6. UnderMagic'
  <2>1. CASE pc = "magic"
    <3>1. \A f \in Fields : record'[f] = life
      BY <2>1 DEF Progress, Typed, Fields, BeforeMagic, BeforeUroot, BeforeKroot
    <3>2. at'["kroot"] = 0 /\ at'["uroot"] # 0
      BY <2>1 DEF RootsMade, BeforeUroot, BeforeKroot
    <3>3. life \in Int /\ "magic" \in Fields
      BY DEF Typed, Fields
    <3>4. QED
      BY <3>1, <3>2, <3>3 DEF UnderMagic
  <2>2. CASE pc # "magic"
    <3>1. record["magic"] <= life /\ record'["magic"] = record["magic"]
      BY <2>2 DEF Typed, Fields
    <3>2. \A f \in Fields : record'[f] \in {record[f], life}
      BY <2>2 DEF Typed
    <3>3. at' = at
      OBVIOUS
    <3>4. QED
      BY <3>1, <3>2, <3>3 DEF UnderMagic
  <2>3. QED
    BY <2>1, <2>2
<1>7. RecordIsWritten'
  BY <1>1, <1>2, <1>3, <1>5, <1>6, WrittenInTime
<1>8. OnlyNewNamesShare'
  BY DEF OnlyNewNamesShare
<1>9. QED
  BY <1>1, <1>2, <1>3, <1>4, <1>6, <1>7, <1>8

(* A field other than the magic number is written.                         *)
LEMMA UnderAsBefore ==
    ASSUME Typed, UnderMagic, NEW field \in Fields \ {"magic"},
           record' = [record EXCEPT ![field] = life],
           record["magic"] # 0 => at'["kroot"] = 0 /\ at'["uroot"] # 0
    PROVE  UnderMagic'
<1>1. /\ record["magic"] <= life /\ record'["magic"] = record["magic"]
      /\ \A f \in Fields : record'[f] \in {record[f], life}
  BY DEF Typed, Fields
<1>2. QED
  BY <1>1 DEF UnderMagic

(* The first root is given the first meta, in a block of metas that are    *)
(* otherwise free.                                                         *)
LEMMA KrootKeeps == IInv /\ CreateRoot("kroot", "uroot") => IInv'
<1> SUFFICES ASSUME IInv, CreateRoot("kroot", "uroot") PROVE IInv'
  OBVIOUS
<1> USE DEF IInv
<1>1. pc = "kroot" /\ pc' = "uroot" /\ record' = [record EXCEPT !["kroot"] = life] /\ life' = life
      /\ names' = names
  BY DEF CreateRoot, Goto, Written, control
<1>2. TakeFirstMeta("kroot", "dir")
  BY <1>1 DEF CreateRoot, RootsMade
<1>3. metaBlk' # NULL
  <2>1. free \subseteq Nat
    BY <1>1 DEF RootsMade
  <2>2. PICK r \in Store!BestFits(free, 1) : metaBlk' = r[1]
    BY <1>2 DEF TakeFirstMeta
  <2>3. r \in free \X free
    BY DEF Store!BestFits, Store!Runs
  <2>4. QED
    BY <2>1, <2>2, <2>3, PointerAssumption
<1>4. metas' = [i \in MetaIds |-> IF i = 0 THEN "dir" ELSE "free"] /\ at' = [at EXCEPT !["kroot"] = 0]
  BY <1>2 DEF TakeFirstMeta
<1>5. Typed'
  <2>1. record' \in [Fields -> 0 .. life]
    <3>1. record \in [Fields -> 0 .. life] /\ life \in 0 .. life
      BY DEF Typed
    <3>2. QED
      BY <1>1, <3>1
  <2>2. at' \in [Roles -> MetaIds \cup {NULL}]
    BY <1>4, MetaAssumption DEF Typed
  <2>3. metas' \in [MetaIds -> {"free", "dir", "file", "proc"}]
    BY <1>4
  <2>4. QED
    BY <1>1, <2>1, <2>2, <2>3 DEF Typed
<1>6. Progress'
  BY <1>1 DEF Progress, Typed, Fields, BeforeMagic, BeforeUroot, BeforeKroot
<1>7. at'["kroot"] = 0 /\ metas'[0] = "dir"
  BY <1>4, MetaAssumption DEF Typed, Roles, RootDirs
<1>8. RootsMade'
  BY <1>1, <1>3, <1>7 DEF RootsMade, BeforeUroot, BeforeKroot
<1>9. KernelNames'
  BY <1>1 DEF KernelNames, BeforeUroot, BeforeKroot
<1>10. UnderMagic'
  <2>1. at'["kroot"] = 0 /\ at'["uroot"] = at["uroot"]
    BY <1>4, <1>7 DEF Typed, Roles, RootDirs
  <2>2. record["magic"] # 0 => at'["kroot"] = 0 /\ at'["uroot"] # 0
    BY <2>1 DEF UnderMagic
  <2>3. QED
    BY <1>1, <2>2, UnderAsBefore DEF Fields
<1>11. RecordIsWritten'
  BY <1>1, <1>5, <1>6, <1>8, <1>10, WrittenInTime
<1>12. OnlyNewNamesShare'
  <2>1. \A n \in DOMAIN names : metas'[names[n]] = "free"
    BY <1>4 DEF Typed
  <2>2. QED
    BY <1>1, <2>1 DEF OnlyNewNamesShare
<1>13. QED
  BY <1>5, <1>6, <1>8, <1>9, <1>10, <1>11, <1>12

(* The second is given another, and is a directory without names.          *)
LEMMA UrootKeeps == IInv /\ CreateRoot("uroot", "metaList") => IInv'
<1> SUFFICES ASSUME IInv, CreateRoot("uroot", "metaList") PROVE IInv'
  OBVIOUS
<1> USE DEF IInv
<1>1. pc = "uroot" /\ pc' = "metaList" /\ record' = [record EXCEPT !["uroot"] = life] /\ life' = life
      /\ names' = [n \in {} |-> NULL]
  BY DEF CreateRoot, Goto, Written, control
<1>2. TakeMeta("uroot", "dir") /\ metaBlk' = metaBlk
  BY <1>1 DEF CreateRoot, RootsMade, BeforeKroot
<1>3. PICK i \in MetaIds : /\ metas[i] = "free"
                           /\ metas' = [metas EXCEPT ![i] = "dir"]
                           /\ at' = [at EXCEPT !["uroot"] = i]
  BY <1>2 DEF TakeMeta, IsNextFree
<1>4. i # 0 /\ metas'[0] = "dir" /\ metas'[i] = "dir" /\ at'["kroot"] = 0 /\ at'["uroot"] = i
  BY <1>1, <1>3, MetaAssumption DEF RootsMade, BeforeKroot, Typed, Roles, RootDirs
<1>5. DOMAIN names' = {}
  BY <1>1
<1>6. Typed'
  <2>1. record' \in [Fields -> 0 .. life]
    <3>1. record \in [Fields -> 0 .. life] /\ life \in 0 .. life
      BY DEF Typed
    <3>2. QED
      BY <1>1, <3>1
  <2>2. at' \in [Roles -> MetaIds \cup {NULL}]
    BY <1>3 DEF Typed
  <2>3. metas' \in [MetaIds -> {"free", "dir", "file", "proc"}]
    BY <1>3 DEF Typed
  <2>4. QED
    BY <1>1, <1>5, <2>1, <2>2, <2>3 DEF Typed
<1>7. Progress'
  BY <1>1 DEF Progress, Typed, Fields, BeforeMagic, BeforeUroot, BeforeKroot
<1>8. RootsMade'
  BY <1>1, <1>2, <1>4 DEF RootsMade, BeforeUroot, BeforeKroot
<1>9. KernelNames'
  BY <1>5 DEF KernelNames
<1>10. UnderMagic'
  BY <1>1, <1>4, UnderAsBefore DEF Fields
<1>11. RecordIsWritten'
  BY <1>1, <1>6, <1>7, <1>8, <1>10, WrittenInTime
<1>12. OnlyNewNamesShare'
  BY <1>5 DEF OnlyNewNamesShare
<1>13. QED
  BY <1>6, <1>7, <1>8, <1>9, <1>10, <1>11, <1>12

LEMMA CreateKeeps == IInv /\ Create => IInv'
BY AllocatorKeeps, WriteKeeps, KrootKeeps, UrootKeeps DEF Create

-----------------------------------------------------------------------------
(* The rest of the boot, resets and calls.                                 *)

Later == pc \notin BeforeMagic

(* A step that leaves the metas, the parts and the names alone.            *)
LEMMA QuietKeeps ==
    ASSUME IInv, Later, Later', UNCHANGED metaVars, life' = life,
           pc = "user" => pc' = "user"
    PROVE  IInv'
<1> USE DEF IInv, metaVars, Later
<1>1. Typed'
  BY DEF Typed
<1>2. Progress'
  BY DEF Progress, BeforeMagic, BeforeUroot, BeforeKroot
<1>3. RootsMade'
  BY DEF RootsMade, BeforeMagic, BeforeUroot, BeforeKroot
<1>4. KernelNames'
  BY DEF KernelNames, BeforeMagic
<1>5. RecordIsWritten'
  BY DEF RecordIsWritten
<1>6. OnlyNewNamesShare'
  BY DEF OnlyNewNamesShare
<1>7. UnderMagic'
  BY DEF UnderMagic
<1>8. QED
  BY <1>1, <1>2, <1>3, <1>4, <1>5, <1>6, <1>7

(* A part is given a meta that was free, so neither a root's nor one that  *)
(* has a name.                                                             *)
LEMMA EnterKeeps ==
    ASSUME IInv, NEW role, NEW root, NEW flags, NEW next, Enter(role, root, flags, next),
           Later, pc # "user", next \notin BeforeMagic \cup {"user"},
           role \in Roles \ RootDirs, flags \in {"file", "proc"}, root = "uroot" => flags = "file"
    PROVE  IInv'
<1> USE DEF IInv
<1>1. PICK i \in MetaIds : /\ metas[i] = "free"
                           /\ metas' = [metas EXCEPT ![i] = flags]
                           /\ at' = [at EXCEPT ![role] = i]
  BY DEF Enter, TakeMeta, IsNextFree
<1>2. /\ record' = record /\ metaBlk' = metaBlk /\ life' = life
      /\ pc' \in {next, "end"}
      /\ \/ names' = names
         \/ /\ root = "uroot"
            /\ names' = [n \in DOMAIN names \cup {role} |-> IF n = role THEN at'[role] ELSE names[n]]
  BY DEF Enter, Goto, Close, control
<1>3. pc' \notin BeforeMagic \cup {"user"}
  BY <1>2 DEF BeforeMagic, BeforeUroot, BeforeKroot
<1>4. at'[role] = i /\ at'["kroot"] = at["kroot"] /\ at'["uroot"] = at["uroot"]
  BY <1>1 DEF Typed, Roles, RootDirs
<1>5. metas[0] = "dir" /\ at["uroot"] \in MetaIds \ {0} /\ metas[at["uroot"]] = "dir"
      /\ at["kroot"] = 0 /\ metaBlk # NULL
  BY DEF Later, RootsMade, BeforeMagic, BeforeUroot
<1>6. i # 0 /\ i # at["uroot"]
  BY <1>1, <1>5
<1>7. metas'[i] = flags /\ \A k \in MetaIds \ {i} : metas'[k] = metas[k]
  BY <1>1 DEF Typed
<1>8. \A n \in DOMAIN names : names[n] \in MetaIds \ {0} /\ metas[names[n]] = "file" /\ names[n] # i
  BY <1>1 DEF Typed, KernelNames, Later, BeforeMagic
<1>9. \A n \in DOMAIN names' : \/ n \in DOMAIN names /\ names'[n] = names[n]
                               \/ root = "uroot" /\ n = role /\ names'[n] = i
  BY <1>2, <1>4
<1>10. Typed'
  <2>1. at' \in [Roles -> MetaIds \cup {NULL}]
    BY <1>1 DEF Typed
  <2>2. metas' \in [MetaIds -> {"free", "dir", "file", "proc"}]
    BY <1>1 DEF Typed
  <2>3. \A n \in DOMAIN names' : names'[n] \in MetaIds \ {0}
    BY <1>6, <1>8, <1>9
  <2>4. QED
    BY <1>2, <2>1, <2>2, <2>3 DEF Typed
<1>11. Progress'
  BY <1>2, <1>3 DEF Progress, Later, BeforeMagic, BeforeUroot, BeforeKroot
<1>12. RootsMade'
  <2>1. metas'[0] = "dir" /\ metas'[at["uroot"]] = "dir"
    BY <1>5, <1>6, <1>7, MetaAssumption
  <2>2. QED
    BY <1>2, <1>3, <1>4, <1>5, <2>1 DEF RootsMade, BeforeMagic, BeforeUroot, BeforeKroot
<1>13. \A n \in DOMAIN names' : metas'[names'[n]] = "file"
  BY <1>7, <1>8, <1>9
<1>14. \A m, n \in DOMAIN names' : m # n => names'[m] # names'[n]
  <2>1. \A m, n \in DOMAIN names : m # n => names[m] # names[n]
    BY DEF KernelNames, Later, BeforeMagic
  <2>2. QED
    BY <1>8, <1>9, <2>1
<1>15. KernelNames'
  BY <1>13, <1>14 DEF KernelNames
<1>16. UnderMagic'
  BY <1>2, <1>4 DEF UnderMagic
<1>17. RecordIsWritten'
  BY <1>3, <1>10, <1>11, <1>12, <1>16, WrittenInTime DEF BeforeMagic, BeforeUroot, BeforeKroot
<1>18. OnlyNewNamesShare'
  BY <1>13, <1>14 DEF OnlyNewNamesShare
<1>19. QED
  BY <1>10, <1>11, <1>12, <1>15, <1>16, <1>17, <1>18

LEMMA AddFilesKeeps == IInv /\ AddFiles => IInv'
<1> SUFFICES ASSUME IInv, AddFiles PROVE IInv'
  OBVIOUS
<1> USE DEF BeforeMagic, BeforeUroot, BeforeKroot
<1>1. CASE Enter("file0", "uroot", "file", "blank file0")
  <2>1. Later /\ pc # "user"
    BY <1>1 DEF Enter, Later
  <2>2. QED
    BY <1>1, <2>1, EnterKeeps DEF Roles, RootDirs
<1>2. CASE Enter("demo", "uroot", "file", "blank demo")
  <2>1. Later /\ pc # "user"
    BY <1>2 DEF Enter, Later
  <2>2. QED
    BY <1>2, <2>1, EnterKeeps DEF Roles, RootDirs
<1>3. CASE BlankFile("file0", "blank file0", "write file0") \/ BlankFile("demo", "blank demo", "write demo")
  <2>1. pc # "user" /\ Later /\ Later' /\ UNCHANGED metaVars /\ life' = life
    BY <1>3 DEF BlankFile, Goto, Later, control
  <2>2. QED
    BY <2>1, QuietKeeps
<1>4. CASE AppendFile0 \/ AppendDemo
  <2>1. pc # "user" /\ Later /\ Later' /\ UNCHANGED metaVars /\ life' = life
    BY <1>4 DEF AppendFile0, AppendDemo, AppendTo, Goto, Later, control
  <2>2. QED
    BY <2>1, QuietKeeps
<1>5. QED
  BY <1>1, <1>2, <1>3, <1>4 DEF AddFiles

LEMMA ReturnedLater ==
    ASSUME NEW next, Returned(next), Later, next \notin BeforeMagic
    PROVE  Later'
BY DEF Returned, Goto, Later, BeforeMagic, BeforeUroot, BeforeKroot

LEMMA StartProc0Keeps == IInv /\ StartProc0 => IInv'
<1> SUFFICES ASSUME IInv, StartProc0 PROVE IInv'
  OBVIOUS
<1> USE DEF BeforeMagic, BeforeUroot, BeforeKroot
<1>1. CASE Enter("proc0", "kroot", "proc", "create proc0")
  <2>1. Later /\ pc # "user"
    BY <1>1 DEF Enter, Later
  <2>2. QED
    BY <1>1, <2>1, EnterKeeps DEF Roles, RootDirs
<1>2. CASE \/ CreateProc("proc0", "create proc0", "map kernel")
           \/ MapKernel("proc0", "map kernel", LowPage, "map file0")
           \/ AllocBlks("proc0", "stack", StackPage, "syscall stack")
  <2>1. pc # "user" /\ Later /\ Later' /\ UNCHANGED metaVars /\ life' = life
    BY <1>2 DEF CreateProc, MapKernel, AllocBlks, OthersStay, Returned, Goto, Later, control
  <2>2. QED
    BY <2>1, QuietKeeps
<1>3. CASE MapFile0 \/ MapSyscallStack
  <2>1. pc # "user" /\ Later /\ Later' /\ UNCHANGED metaVars /\ life' = life
    BY <1>3 DEF MapFile0, MapSyscallStack, OthersStay, Returned, Goto, Later, control
  <2>2. QED
    BY <2>1, QuietKeeps
<1>4. QED
  BY <1>1, <1>2, <1>3 DEF StartProc0

LEMMA StartDemoKeeps == IInv /\ StartDemo => IInv'
<1> SUFFICES ASSUME IInv, StartDemo PROVE IInv'
  OBVIOUS
<1> USE DEF BeforeMagic, BeforeUroot, BeforeKroot
<1>1. CASE Enter("demoProc", "kroot", "proc", "create demoProc")
  <2>1. Later /\ pc # "user"
    BY <1>1 DEF Enter, Later
  <2>2. QED
    BY <1>1, <2>1, EnterKeeps DEF Roles, RootDirs
<1>2. CASE \/ CreateProc("demoProc", "create demoProc", "header")
           \/ MapKernel("demoProc", "kstack", KstackPage, "low memory")
           \/ AllocBlks("demoProc", "ustack", UstackPage, "user")
  <2>1. pc # "user" /\ Later /\ Later' /\ UNCHANGED metaVars /\ life' = life
    BY <1>2 DEF CreateProc, MapKernel, AllocBlks, OthersStay, Returned, Goto, Later, control
  <2>2. QED
    BY <2>1, QuietKeeps
<1>3. CASE CheckHeader \/ LoadFile \/ LoadBss \/ Loaded
  <2>1. pc # "user" /\ Later /\ Later' /\ UNCHANGED metaVars /\ life' = life
    BY <1>3 DEF CheckHeader, LoadFile, LoadBss, Loaded, OthersStay, Returned, Goto, Later, control
  <2>2. QED
    BY <2>1, QuietKeeps
<1>4. CASE MapLow
  <2>1. pc # "user" /\ Later /\ Later' /\ UNCHANGED metaVars /\ life' = life
    BY <1>4 DEF MapLow, Goto, Later, control
  <2>2. QED
    BY <2>1, QuietKeeps
<1>5. QED
  BY <1>1, <1>2, <1>3, <1>4 DEF StartDemo

(* What a reset leaves is from lives that are over.                        *)
LEMMA ResetKeeps == IInv /\ Reset => IInv'
<1> SUFFICES ASSUME IInv, Reset PROVE IInv'
  OBVIOUS
<1> USE DEF IInv
<1>1. /\ pc' = "allocator" /\ life' = life + 1
      /\ record' = record /\ metas' = metas /\ names' = names
      /\ at' = [r \in Roles |-> IF r \in RootDirs THEN at[r] ELSE NULL]
  BY DEF Reset
<1>2. Typed'
  <2>1. at' \in [Roles -> MetaIds \cup {NULL}]
    BY <1>1 DEF Typed
  <2>2. record' \in [Fields -> 0 .. life']
    BY <1>1 DEF Typed
  <2>3. QED
    BY <1>1, <2>1, <2>2 DEF Typed
<1>3. Progress'
  BY <1>1 DEF Progress, Typed, BeforeMagic, BeforeUroot, BeforeKroot
<1>4. RootsMade'
  BY <1>1 DEF RootsMade, BeforeUroot, BeforeKroot
<1>5. KernelNames'
  BY <1>1 DEF KernelNames, BeforeUroot, BeforeKroot
<1>6. RecordIsWritten'
  BY <1>1 DEF RecordIsWritten, Roles, RootDirs
<1>7. OnlyNewNamesShare'
  BY <1>1 DEF OnlyNewNamesShare
<1>8. UnderMagic'
  BY <1>1 DEF UnderMagic, Roles, RootDirs
<1>9. QED
  BY <1>2, <1>3, <1>4, <1>5, <1>6, <1>7, <1>8

(* A new name leads to a meta that is free, as the names it shares it with *)
(* do.                                                                     *)
LEMMA OpenNewKeeps ==
    ASSUME IInv, NEW name, OpenNew(name)
    PROVE  IInv'
<1> USE DEF IInv
<1>1. PICK i \in MetaIds :
         /\ metas[i] = "free"
         /\ names' = [n \in DOMAIN names \cup {name} |-> IF n = name THEN i ELSE names[n]]
  BY DEF OpenNew, IsNewMeta, IsNextFree
<1>2. /\ pc = "user" /\ pc' = pc /\ life' = life
      /\ record' = record /\ metas' = metas /\ metaBlk' = metaBlk /\ at' = at
  BY DEF OpenNew, InUser, Stays, control
<1>3. i # 0
  BY <1>1, <1>2 DEF RootsMade, BeforeKroot
<1>4. \A n \in DOMAIN names' : names'[n] = i \/ (n \in DOMAIN names /\ names'[n] = names[n])
  BY <1>1
<1>5. Typed'
  <2>1. \A n \in DOMAIN names' : names'[n] \in MetaIds \ {0}
    BY <1>3, <1>4 DEF Typed
  <2>2. QED
    BY <1>2, <2>1 DEF Typed
<1>6. Progress'
  BY <1>2 DEF Progress, BeforeMagic, BeforeUroot, BeforeKroot
<1>7. RootsMade'
  BY <1>2 DEF RootsMade
<1>8. KernelNames'
  BY <1>2 DEF KernelNames
<1>9. RecordIsWritten'
  BY <1>2 DEF RecordIsWritten
<1>10. OnlyNewNamesShare'
  BY <1>1, <1>2, <1>4 DEF OnlyNewNamesShare
<1>11. UnderMagic'
  BY <1>2 DEF UnderMagic
<1>12. QED
  BY <1>5, <1>6, <1>7, <1>8, <1>9, <1>10, <1>11

LEMMA CallKeeps == IInv /\ Call => IInv'
<1> SUFFICES ASSUME IInv, Call PROVE IInv'
  OBVIOUS
<1>1. ASSUME NEW name \in Names, OpenNew(name)
      PROVE  IInv'
  BY <1>1, OpenNewKeeps
<1>2. ASSUME NEW name \in Names, OpenKnown(name)
      PROVE  pc = "user" /\ pc' = pc /\ UNCHANGED metaVars /\ life' = life
  BY <1>2 DEF OpenKnown, InUser, Stays, control, metaVars
<1>3. ASSUME NEW fd \in DOMAIN fds, NEW target \in Targets, Grow(fd, target) \/ Shrink(fd, target)
      PROVE  pc = "user" /\ pc' = pc /\ UNCHANGED metaVars /\ life' = life
  BY <1>3 DEF Grow, Shrink, InUser, Stays, control, metaVars
<1>4. ASSUME NEW fd \in DOMAIN fds, MmapAgain(fd)
      PROVE  pc = "user" /\ pc' = pc /\ UNCHANGED metaVars /\ life' = life
  BY <1>4 DEF MmapAgain, InUser, Stays, control, metaVars
<1>5. ASSUME NEW fd \in DOMAIN fds, NEW length \in Lengths, NEW off \in Offsets, Mmap(fd, length, off)
      PROVE  pc = "user" /\ pc' = pc /\ UNCHANGED metaVars /\ life' = life
  BY <1>5 DEF Mmap, InUser, Stays, control, metaVars
<1>6. ASSUME NEW fd \in DOMAIN fds, NEW length \in Lengths, Munmap(fd, RoundUp(length))
      PROVE  pc = "user" /\ pc' = pc /\ UNCHANGED metaVars /\ life' = life
  BY <1>6 DEF Munmap, InUser, Stays, control, metaVars
<1>7. ASSUME pc = "user", pc' = pc, UNCHANGED metaVars, life' = life
      PROVE  IInv'
  <2>1. Later /\ Later'
    BY <1>7 DEF Later, BeforeMagic, BeforeUroot, BeforeKroot
  <2>2. QED
    BY <1>7, <2>1, QuietKeeps
<1>8. QED
  BY <1>1, <1>2, <1>3, <1>4, <1>5, <1>6, <1>7 DEF Call

LEMMA NextKeeps == IInv /\ [Next]_sysVars => IInv'
<1> SUFFICES ASSUME IInv, [Next]_sysVars PROVE IInv'
  OBVIOUS
<1>1. CASE Kernel
  BY <1>1, CreateKeeps, AddFilesKeeps, StartProc0Keeps, StartDemoKeeps DEF Kernel, Step
<1>2. CASE ResetInBoot
  BY <1>2, ResetKeeps DEF ResetInBoot
<1>3. CASE Call
  BY <1>3, CallKeeps
<1>4. ASSUME UNCHANGED sysVars
      PROVE  IInv'
  <2>1. /\ pc' = pc /\ life' = life /\ record' = record /\ metas' = metas /\ metaBlk' = metaBlk
        /\ at' = at /\ names' = names /\ free' = free
    BY <1>4 DEF sysVars, vars, control, metaVars, memory
  <2>2. QED
    BY <2>1 DEF IInv, Typed, Progress, RootsMade, UnderMagic, KernelNames, RecordIsWritten, OnlyNewNamesShare
<1>5. QED
  BY <1>1, <1>2, <1>3, <1>4 DEF Next, Stay

(* The record of the datalayer, the roots and the names are as IInv says,  *)
(* at every step of every boot and every call.                             *)
THEOREM SystemInvariant == Spec => []IInv
BY InitIInv, NextKeeps, PTL DEF Spec

(* At whatever steps of datalayer_createDatalayer the machine is reset,    *)
(* and however often: under a magic number, which is all a load looks at,  *)
(* every field has been written and there are two roots; and a record      *)
(* whose first field is no newer than the number is all of one life.       *)
THEOREM RecordStaysWritten == Spec => []RecordIsWritten
BY SystemInvariant, PTL DEF IInv

(* Only names that open made share a file; those of the kernel never do.   *)
THEOREM KernelFilesUnshared == Spec => []OnlyNewNamesShare
BY SystemInvariant, PTL DEF IInv


-----------------------------------------------------------------------------
(* Metas, blocks and processes: the inductive invariant.                   *)

(* The files whose blocks are theirs: the root directories this life has   *)
(* created, and the files that are named and filled in.                    *)
Owns(i) ==
    \/ pc \notin BeforeKroot /\ i = at["kroot"]
    \/ pc \notin BeforeUroot /\ i = at["uroot"]
    \/ pc \notin BeforeUroot /\ \E n \in Filled : i = names[n]

Owned == {i \in MetaIds : Owns(i)}

Faults == {"null read", "foreign release", "foreign write", "null table", "endless loop",
           "outside release", "lost track"}

MemoryTypes ==
    /\ files \in [MetaIds -> Metas]
    /\ slot \in Slots
    /\ free \subseteq Blocks
    /\ fault \subseteq Faults
    /\ size \in Sizes /\ program \in Programs
    /\ DOMAIN tables = MetaIds /\ DOMAIN pages = MetaIds /\ DOMAIN pageDir = MetaIds
    /\ \A q \in MetaIds : DOMAIN tables[q] = PM!Tables /\ DOMAIN pages[q] = PM!Pages

(* Which metas the parts have.                                             *)
RoleMetas ==
    /\ at["kroot"] \in {NULL, 0} /\ at["uroot"] # 0
    /\ \A r \in {"file0", "demo"} : at[r] # NULL => metas[at[r]] = "file"
    /\ \A r \in {"proc0", "demoProc"} : at[r] # NULL => metas[at[r]] = "proc"
    /\ pc \in BeforeUroot => \A r \in Roles \ RootDirs : at[r] = NULL

(* The steps of the kernel that deal with its processes.                   *)
OfProc0 == {"map kernel", "map file0", "stack", "syscall stack"}

OfDemo == {"header", "segment", "bss", "kstack", "low memory", "ustack", "user"}

(* Those before the program runs that come after its file was entered.     *)
AfterDemo == {"blank demo", "write demo", "proc0", "create proc0", "demoProc", "create demoProc"}
                \cup OfProc0 \cup (OfDemo \ {"user"})

(* The kernel's files are the ones it has entered.                         *)
KernelFiles ==
    /\ pc \notin BeforeUroot \cup {"user", "end"} =>
          \A n \in DOMAIN names : n \in {"file0", "demo"} /\ names[n] = at[n]
    /\ pc \in {"blank file0", "write file0"} => "file0" \in DOMAIN names
    /\ pc \in AfterDemo => "demo" \in DOMAIN names
    /\ pc = "write demo" => files[at["demo"]] = Blank

(* The root directories have one block at most.                            *)
SmallRoots ==
    /\ pc \notin BeforeKroot => files[at["kroot"]].blk \in {0, 1}
    /\ pc \notin BeforeUroot => files[at["uroot"]].blk \in {0, 1}

(* Processes have metas of their own, and one that is not alive has        *)
(* nothing.                                                                *)
Alive ==
    /\ pc \in BeforeMagic => live = {}
    /\ \A q \in live : q \in MetaIds /\ metas[q] = "proc"
    /\ \A q \in MetaIds \ live :
          /\ \A t \in PM!Tables : tables[q][t] = NULL
          /\ \A p \in PM!Pages : pages[q][p].kind = "none"
    /\ pc = "create proc0" => at["proc0"] # NULL
    /\ pc = "create demoProc" => at["demoProc"] # NULL
    /\ pc \in OfProc0 => at["proc0"] \in live
    /\ pc \in OfDemo => at["demoProc"] \in live

(* What the calls keep.                                                    *)
Descriptors == [file : MetaIds, addr : Nat, blks : Nat]

Calls ==
    /\ fds \in Seq(Descriptors)
    /\ nextMmap \in Nat
    /\ \A fd \in DOMAIN fds : \E n \in DOMAIN names : fds[fd].file = names[n]
    /\ pc # "user" => fds = <<>>
    /\ fds = <<>> => DOMAIN shows = {}

Parts == MemoryTypes /\ RoleMetas /\ MetasApart /\ KernelFiles /\ SmallRoots /\ Alive /\ Calls

(* Each block has one use, own, and every part the blocks it uses.         *)
Used(own, b, tag) == b \in Blocks \ free /\ own[b] = tag

ProcHeld(q, own) ==
    /\ q \in live /\ pageDir[q] \in Blocks => Used(own, pageDir[q], <<q, "root", 0>>)
    /\ \A t \in PM!Tables : tables[q][t] \in Blocks => Used(own, tables[q][t], <<q, "leaf", t>>)
    /\ \A p \in PM!Pages :
          pages[q][p].kind \in {"anon", "kernel"} /\ pages[q][p].blk \in Blocks =>
             Used(own, pages[q][p].blk, <<q, "data", p>>)

Shared(own) ==
    /\ \A i \in Owned : Held(i, Opened(i), own)
    /\ \A q \in MetaIds : ProcHeld(q, own)
    /\ pc # "allocator" /\ metaBlk \in Blocks => Used(own, metaBlk, <<NULL, "root", 0>>)

SysInv == IInv /\ Parts /\ (fault = {} => \E own \in Owners : Shared(own))

-----------------------------------------------------------------------------
(* A step that changes the blocks of one part only.                        *)

(* Blocks of other parts stay in use, and as they are.                     *)
Keeps(who, own, own2) ==
    \A b \in Blocks \ free :
       own[b][1] # who => b \notin free' /\ own2[b] = own[b] /\ slot'[b] = slot[b]

LEMMA OpenedParts ==
    ASSUME NEW i
    PROVE  /\ Opened(i).m = files[i] /\ Opened(i).slot = slot
           /\ Opened(i).free = free /\ Opened(i).fault = fault
           /\ Opened(i)'.m = files'[i] /\ Opened(i)'.slot = slot'
           /\ Opened(i)'.free = free' /\ Opened(i)'.fault = fault'
BY DEF Opened

LEMMA OpenedState ==
    ASSUME MemoryTypes, fault = {}, NEW i \in MetaIds
    PROVE  Opened(i) \in States
BY DEF MemoryTypes, Opened, States

(* A file that is left alone keeps its blocks.                             *)
LEMMA FileFramed ==
    ASSUME MemoryTypes, fault = {}, NEW own, NEW own2, NEW who, Keeps(who, own, own2),
           NEW g \in MetaIds, g # who, files'[g] = files[g], Held(g, Opened(g), own)
    PROVE  /\ Held(g, Opened(g)', own2)
           /\ \A i \in 0 .. files[g].blk - 1 : DataBlkAt(Opened(g)', i) = DataBlkAt(Opened(g), i)
<1> DEFINE z == Opened(g)
           u == Opened(g)'
<1>1. z \in States /\ Held(g, z, own)
  BY OpenedState
<1>2. z.m = files[g] /\ z.slot = slot /\ z.free = free /\ u.m = z.m /\ u.slot = slot' /\ u.free = free'
  BY OpenedParts
<1> HIDE DEF z, u
<1>3. \A b \in Blocks \ z.free : own[b][1] # who => b \notin u.free /\ own2[b] = own[b] /\ u.slot[b] = z.slot[b]
  BY <1>2 DEF Keeps
<1>4. Frame(who, z, own, u, own2)
  BY <1>3 DEF Frame
<1>5. /\ Held(g, u, own2)
      /\ \A i \in 0 .. z.m.blk - 1 : DataBlkAt(u, i) = DataBlkAt(z, i)
  BY <1>1, <1>2, <1>4, StaysHeld
<1>6. QED
  BY <1>2, <1>5 DEF z, u

(* A file without blocks has what it needs.                                *)
LEMMA NoBlocksHeld ==
    ASSUME NEW i, NEW st, st.m.blk = 0, NEW own
    PROVE  Held(i, st, own)
BY Levels DEF Held, DataHeld, Paths, Rooted

(* A process that is left alone keeps its blocks, and one that is not      *)
(* alive has none.                                                         *)
LEMMA ProcFramed ==
    ASSUME NEW own, NEW own2, NEW who, Keeps(who, own, own2), NEW q, q # who, ProcHeld(q, own),
           tables'[q] = tables[q], pages'[q] = pages[q], pageDir'[q] = pageDir[q],
           q \in live' => q \in live
    PROVE  ProcHeld(q, own2)'
<1>1. \A b, x, y : Used(own, b, <<q, x, y>>) => Used(own2, b, <<q, x, y>>)'
  BY DEF Used, Keeps
<1>2. QED
  BY <1>1 DEF ProcHeld

LEMMA IdleHeld ==
    ASSUME Alive', NEW q \in MetaIds, q \notin live', NEW own
    PROVE  ProcHeld(q, own)'
<1>1. /\ \A t \in PM!Tables : tables'[q][t] = NULL
      /\ \A p \in PM!Pages : pages'[q][p].kind = "none"
  BY DEF Alive, OfProc0, OfDemo
<1>2. QED
  BY <1>1, NullAssumption DEF ProcHeld

LEMMA MetaBlkFramed ==
    ASSUME NEW own, NEW own2, NEW who, who # NULL, Keeps(who, own, own2), Shared(own),
           pc # "allocator", metaBlk' = metaBlk, metaBlk \in Blocks
    PROVE  Used(own2, metaBlk, <<NULL, "root", 0>>)'
BY DEF Used, Keeps, Shared

(* What one part did leaves the blocks of all parts apart.                 *)
LEMMA SharedOn ==
    ASSUME MemoryTypes, fault = {}, Alive', NEW own, Shared(own), NEW own2, NEW who,
           Keeps(who, own, own2),
           \A g \in Owned' : g # who => files'[g].blk = 0 \/ (g \in Owned /\ files'[g] = files[g]),
           who \in Owned' => Held(who, Opened(who)', own2),
           \A q \in live' : q # who => /\ q \in MetaIds /\ q \in live
                                       /\ tables'[q] = tables[q] /\ pages'[q] = pages[q]
                                       /\ pageDir'[q] = pageDir[q],
           who \in live' => ProcHeld(who, own2)',
           metaBlk' \in Blocks => Used(own2, metaBlk, <<NULL, "root", 0>>)'
    PROVE  Shared(own2)'
<1>1. ASSUME NEW g \in Owned' PROVE Held(g, Opened(g)', own2)
  <2>1. CASE g = who
    BY <1>1, <2>1
  <2>2. CASE g # who /\ files'[g].blk = 0
    <3>1. Opened(g)'.m.blk = 0
      BY <2>2, OpenedParts
    <3> QED
      BY <3>1, NoBlocksHeld
  <2>3. CASE g # who /\ g \in Owned /\ files'[g] = files[g]
    <3>1. Held(g, Opened(g), own) /\ g \in MetaIds
      BY <2>3 DEF Shared, Owned
    <3>2. QED
      BY <2>3, <3>1, FileFramed
  <2>4. QED
    BY <1>1, <2>1, <2>2, <2>3
<1>2. ASSUME NEW q \in MetaIds PROVE ProcHeld(q, own2)'
  <2>1. CASE q \notin live'
    BY <2>1, IdleHeld
  <2>2. CASE q \in live' /\ q = who
    BY <2>2
  <2>3. CASE q \in live' /\ q # who
    <3>1. ProcHeld(q, own)
      BY DEF Shared
    <3>2. QED
      BY <2>3, <3>1, ProcFramed
  <2>4. QED
    BY <2>1, <2>2, <2>3
<1>3. QED
  BY <1>1, <1>2 DEF Shared

LEMMA Quietly ==
    ASSUME MemoryTypes, fault = {}, Alive', NEW own, Shared(own),
           UNCHANGED <<slot, free, tables, pages, pageDir>>, live' \subseteq live,
           \A g \in Owned' : files'[g].blk = 0 \/ (g \in Owned /\ files'[g] = files[g]),
           pc # "allocator", metaBlk' = metaBlk
    PROVE  Shared(own)'
<1>1. Keeps(NULL, own, own)
  BY DEF Keeps
<1>2. metaBlk' \in Blocks => Used(own, metaBlk, <<NULL, "root", 0>>)'
  BY DEF Shared, Used
<1>3. NULL \notin MetaIds
  BY MetaAssumption, PointerAssumption
<1>4. NULL \notin Owned' /\ NULL \notin live'
  BY <1>3 DEF Owned, Alive
<1>5. \A q \in live' : q \in MetaIds /\ q \in live
  BY DEF Alive, OfProc0, OfDemo
<1>6. QED
  BY <1>1, <1>2, <1>4, <1>5, SharedOn

-----------------------------------------------------------------------------
(* The metas of files and of processes.                                    *)

LEMMA OwnedMetas ==
    ASSUME IInv, Parts
    PROVE  \A i \in Owned : i \in MetaIds /\ metas[i] \in {"dir", "file", "free"} /\ i \notin live
<1> SUFFICES ASSUME NEW i \in Owned PROVE i \in MetaIds /\ metas[i] \in {"dir", "file", "free"} /\ i \notin live
  OBVIOUS
<1>1. metas[i] \in {"dir", "file", "free"}
  <2>1. CASE pc \notin BeforeKroot /\ i = at["kroot"]
    BY <2>1 DEF IInv, RootsMade
  <2>2. CASE pc \notin BeforeUroot /\ i = at["uroot"]
    BY <2>2 DEF IInv, RootsMade
  <2>3. CASE \E n \in Filled : i = names[n]
    BY <2>3 DEF IInv, OnlyNewNamesShare, Filled
  <2>4. QED
    BY <2>1, <2>2, <2>3 DEF Owned, Owns
<1>2. QED
  BY <1>1 DEF Owned, Parts, Alive

(* A meta that is free is no part's, except files' that share one.         *)
LEMMA FreeMeta ==
    ASSUME IInv, Parts, NEW i, IsNextFree(i), pc \notin BeforeKroot
    PROVE  /\ i \in MetaIds /\ metas[i] = "free" /\ i \notin live
           /\ \A r \in Roles : at[r] = i => r = "uroot" /\ pc \in BeforeUroot
           /\ i # 0
<1>1. i \in MetaIds /\ metas[i] = "free"
  BY DEF IsNextFree
<1>2. i # NULL
  BY <1>1, MetaAssumption, PointerAssumption
<1>3. i \notin live
  BY <1>1 DEF Parts, Alive, OfProc0, OfDemo
<1>4. at["kroot"] # i /\ i # 0
  BY <1>1 DEF IInv, RootsMade
<1>5. at["uroot"] # i \/ pc \in BeforeUroot
  BY <1>1 DEF IInv, RootsMade
<1>6. ASSUME NEW r \in Roles \ RootDirs PROVE at[r] # i
  <2>1. at[r] # NULL => metas[at[r]] \in {"file", "proc"}
    BY DEF Parts, RoleMetas, Roles, RootDirs
  <2>2. QED
    BY <1>1, <1>2, <2>1
<1>7. QED
  BY <1>1, <1>3, <1>4, <1>5, <1>6 DEF Roles, RootDirs

(* Before the program runs there are no calls.                             *)
LEMMA NoCallsYet ==
    ASSUME Calls, pc # "user", UNCHANGED calls
    PROVE  Calls'
<1>1. fds' = <<>> /\ nextMmap' \in Nat /\ DOMAIN shows' = {} /\ fds' \in Seq(Descriptors)
  BY DEF Calls, calls
<1>2. DOMAIN fds' = {}
  BY <1>1
<1>3. QED
  BY <1>1, <1>2 DEF Calls

LEMMA TakenMeta ==
    ASSUME IInv, Parts, pc \notin BeforeKroot, NEW role \in Roles, NEW flags, TakeMeta(role, flags),
           role \in {"file0", "demo"} => flags = "file",
           role \in {"proc0", "demoProc"} => flags = "proc",
           role # "kroot", role = "uroot" \/ pc \notin BeforeUroot
    PROVE  /\ at'["kroot"] \in {NULL, 0} /\ at'["uroot"] # 0
           /\ \A r \in {"file0", "demo"} : at'[r] # NULL => metas'[at'[r]] = "file"
           /\ \A r \in {"proc0", "demoProc"} : at'[r] # NULL => metas'[at'[r]] = "proc"
           /\ MetasApart'
           /\ \A q \in MetaIds : metas[q] # "free" => metas'[q] = metas[q]
           /\ at'[role] # NULL /\ \A r \in Roles : r # role => at'[r] = at[r]
<1>1. PICK i : IsNextFree(i) /\ metas' = [metas EXCEPT ![i] = flags] /\ at' = [at EXCEPT ![role] = i]
  BY DEF TakeMeta
<1>2. /\ i \in MetaIds /\ metas[i] = "free" /\ i # 0
      /\ \A r \in Roles : at[r] = i => r = "uroot" /\ pc \in BeforeUroot
  BY <1>1, FreeMeta
<1>3. i # NULL
  BY <1>2, MetaAssumption, PointerAssumption
<1>4. /\ metas'[i] = flags /\ \A j \in MetaIds : j # i => metas'[j] = metas[j]
      /\ at'[role] = i /\ \A r \in Roles : r # role => at'[r] = at[r]
  BY <1>1, <1>2 DEF IInv, Typed
<1>5. \A r \in Roles : r # role => at'[r] # i
  BY <1>2, <1>4 DEF RootDirs
<1>6. \A r \in Roles : at[r] = NULL \/ at[r] \in MetaIds
  BY DEF IInv, Typed
<1>7. \A q \in MetaIds : metas[q] # "free" => metas'[q] = metas[q]
  BY <1>2, <1>4
<1>8. at'["kroot"] \in {NULL, 0} /\ at'["uroot"] # 0
  BY <1>2, <1>4 DEF Parts, RoleMetas, Roles, RootDirs
<1>9. ASSUME NEW r \in {"file0", "demo"}, at'[r] # NULL PROVE metas'[at'[r]] = "file"
  BY <1>4, <1>6, <1>7, <1>9 DEF Parts, RoleMetas, Roles
<1>10. ASSUME NEW r \in {"proc0", "demoProc"}, at'[r] # NULL PROVE metas'[at'[r]] = "proc"
  BY <1>4, <1>6, <1>7, <1>10 DEF Parts, RoleMetas, Roles
<1>11. MetasApart'
  <2> SUFFICES ASSUME NEW r \in Roles, NEW s \in Roles, r # s, at'[r] # NULL PROVE at'[r] # at'[s]
    BY DEF MetasApart
  <2>1. CASE r = role
    BY <1>4, <1>5, <2>1
  <2>2. CASE s = role
    BY <1>4, <1>5, <2>2
  <2>3. CASE r # role /\ s # role
    BY <1>4, <2>3 DEF Parts, MetasApart
  <2>4. QED
    BY <2>1, <2>2, <2>3
<1>12. QED
  BY <1>3, <1>4, <1>7, <1>8, <1>9, <1>10, <1>11

-----------------------------------------------------------------------------
(* A step that changes the blocks of a file.                               *)

LEMMA FileWritten ==
    ASSUME MemoryTypes, NEW own, NEW i \in MetaIds, NEW u \in States, NEW own2,
           Frame(i, Opened(i), own, u, own2), Close(i, u), UNCHANGED <<mappings, control>>
    PROVE  /\ MemoryTypes' /\ files'[i] \in {files[i], u.m}
           /\ \A g \in MetaIds : g # i => files'[g] = files[g]
           /\ fault' = {} => /\ files'[i] = u.m /\ slot' = u.slot /\ free' = u.free
                             /\ Keeps(i, own, own2)
<1>1. u.m \in Metas /\ u.slot \in Slots /\ u.free \subseteq Blocks /\ u.fault \subseteq Faults
  BY DEF States, Faults
<1>2. CASE files' = [files EXCEPT ![i] = u.m] /\ slot' = u.slot /\ free' = u.free /\ fault' = u.fault
  <2>1. files' \in [MetaIds -> Metas] /\ files'[i] = u.m /\ \A g \in MetaIds : g # i => files'[g] = files[g]
    BY <1>1, <1>2 DEF MemoryTypes
  <2>2. MemoryTypes'
    BY <1>1, <1>2, <2>1 DEF MemoryTypes, mappings, control
  <2>3. Keeps(i, own, own2)
    BY <1>2, OpenedParts DEF Frame, Keeps
  <2>4. QED
    BY <1>2, <2>1, <2>2, <2>3
<1>3. CASE fault' = {"lost track"} /\ UNCHANGED <<files, slot, free>>
  <2>1. MemoryTypes'
    BY <1>3 DEF MemoryTypes, mappings, control, Faults
  <2>2. QED
    BY <1>3, <2>1
<1>4. QED
  BY <1>2, <1>3 DEF Close

LEMMA FileShared ==
    ASSUME IInv, Parts, fault = {}, fault' = {}, Alive', NEW own, Shared(own), NEW i \in Owned,
           NEW u \in States, NEW own2, Held(i, u, own2), Frame(i, Opened(i), own, u, own2),
           Close(i, u), UNCHANGED <<mappings, control, metaBlk>>, Owned' \subseteq Owned
    PROVE  Shared(own2)'
<1>1. MemoryTypes /\ i \in MetaIds /\ i \notin live /\ i # NULL
  BY OwnedMetas, MetaAssumption, PointerAssumption DEF Parts
<1>2. /\ files'[i] = u.m /\ slot' = u.slot /\ free' = u.free /\ Keeps(i, own, own2)
      /\ \A g \in MetaIds : g # i => files'[g] = files[g]
  BY <1>1, FileWritten
<1>3. Held(i, Opened(i)', own2)
  <2> DEFINE v == Opened(i)'
  <2>1. v.m = u.m /\ v.slot = u.slot /\ v.free = u.free
    BY <1>2, OpenedParts
  <2> HIDE DEF v
  <2>2. Held(i, v, own2)
    BY <2>1, SameBlocks
  <2>3. QED
    BY <2>2 DEF v
<1>4. pc # "allocator"
  BY DEF Owned, Owns, BeforeKroot, BeforeUroot
<1>5. metaBlk' \in Blocks => Used(own2, metaBlk, <<NULL, "root", 0>>)'
  BY <1>1, <1>2, <1>4, MetaBlkFramed
<1>6. /\ live' = live /\ tables' = tables /\ pages' = pages /\ pageDir' = pageDir
      /\ \A q \in live : q \in MetaIds
  BY DEF mappings, Parts, Alive
<1>7. \A g \in Owned' : g # i => g \in Owned /\ files'[g] = files[g]
  BY <1>2 DEF Owned
<1>8. QED
  BY <1>1, <1>2, <1>3, <1>5, <1>6, <1>7, SharedOn

-----------------------------------------------------------------------------
(* Creating the datalayer.                                                 *)

LEMMA PartsOn ==
    ASSUME Parts, UNCHANGED <<metas, at, names, calls>>, pc' \in BeforeUroot => pc \in BeforeUroot,
           MemoryTypes', KernelFiles', SmallRoots', Alive', pc = "user" => pc' = "user"
    PROVE  Parts'
<1>1. RoleMetas' /\ MetasApart'
  BY DEF Parts, RoleMetas, MetasApart
<1>2. Calls'
  BY DEF Parts, Calls, calls
<1>3. QED
  BY <1>1, <1>2 DEF Parts

(* Whatever the blocks are used for, when nobody uses them.                *)
LEMMA SomeOwners == \E own \in Owners : TRUE
<1>1. <<NULL, "data", 0>> \in Tags
  BY DEF Tags
<1>2. [b \in Blocks |-> <<NULL, "data", 0>>] \in Owners
  BY <1>1 DEF Owners
<1>3. QED
  BY <1>2

LEMMA InitSysInv == SysInit => SysInv
<1> SUFFICES ASSUME SysInit PROVE SysInv
  OBVIOUS
<1>1. IInv
  BY InitIInv
<1> USE DEF SysInit, Init, BeforeKroot, BeforeUroot, BeforeMagic, PM!Init
<1>2. MemoryTypes
  <2>1. Blank \in Metas /\ Empty \in [0 .. F - 1 -> Ptrs]
    BY DEF Blank, Metas, Ptrs, Empty
  <2>2. QED
    BY <2>1 DEF MemoryTypes, Slots
<1>3. \A r \in Roles : at[r] = NULL
  OBVIOUS
<1>4. RoleMetas /\ MetasApart
  <2>1. 0 # NULL
    BY PointerAssumption
  <2>2. QED
    BY <1>3, <2>1 DEF RoleMetas, MetasApart, Roles, RootDirs
<1>5. KernelFiles /\ SmallRoots
  BY DEF KernelFiles, SmallRoots, AfterDemo, OfProc0, OfDemo
<1>6. Alive
  BY DEF Alive, OfProc0, OfDemo, PM!Absent
<1>7. Calls
  BY MetaAssumption, BootAssumption DEF Calls, MmapPage
<1>8. \A own : Shared(own)
  <2>1. Owned = {}
    BY DEF Owned, Owns
  <2>2. \A q \in MetaIds : /\ \A t \in PM!Tables : tables[q][t] = NULL
                           /\ \A p \in PM!Pages : pages[q][p].kind = "none"
    BY DEF PM!Absent
  <2>3. QED
    BY <2>1, <2>2, NullAssumption DEF Shared, ProcHeld
<1>9. \E own \in Owners : Shared(own)
  BY <1>8, SomeOwners
<1>10. QED
  BY <1>1, <1>2, <1>4, <1>5, <1>6, <1>7, <1>9 DEF SysInv, Parts

LEMMA AllocatorParts ==
    ASSUME SysInv, IInv', CreateAllocator, UNCHANGED calls
    PROVE  SysInv'
<1> USE DEF CreateAllocator, Goto, BeforeKroot, BeforeUroot, BeforeMagic
<1>1. Parts
  BY DEF SysInv
<1>2. 1 .. size \subseteq Blocks
  BY <1>1, BootAssumption DEF Parts, MemoryTypes
<1>3. MemoryTypes'
  BY <1>1, <1>2 DEF Parts, MemoryTypes, mappings, control
<1>4. KernelFiles' /\ SmallRoots'
  BY DEF KernelFiles, SmallRoots, AfterDemo, OfProc0, OfDemo
<1>5. Alive'
  BY <1>1 DEF Parts, Alive, OfProc0, OfDemo, mappings
<1>6. UNCHANGED <<metas, at, names>> /\ pc # "user"
  OBVIOUS
<1>7. Parts'
  BY <1>1, <1>3, <1>4, <1>5, <1>6, PartsOn
<1>8. PICK own \in Owners : TRUE
  BY SomeOwners
<1>9. Shared(own)'
  <2>1. Owned' = {}
    BY DEF Owned, Owns
  <2>2. \A q \in MetaIds : ProcHeld(q, own)'
    BY <1>5, IdleHeld DEF Alive, OfProc0, OfDemo
  <2>3. metaBlk' \notin Blocks
    BY NullAssumption
  <2>4. QED
    BY <2>1, <2>2, <2>3 DEF Shared
<1>10. QED
  BY <1>7, <1>8, <1>9 DEF SysInv

LEMMA WriteParts ==
    ASSUME SysInv, IInv', fault = {}, UNCHANGED calls,
           \/ Write("freeList", "kroot")
           \/ Write("metaList", "magic")
           \/ Write("magic", "file0")
    PROVE  SysInv'
<1> USE DEF Write, Goto, BeforeKroot, BeforeUroot, BeforeMagic
<1>1. Parts
  BY DEF SysInv
<1>2. MemoryTypes'
  BY <1>1 DEF Parts, MemoryTypes, memory, mappings, control
<1>3. KernelFiles'
  BY <1>1 DEF Parts, KernelFiles, AfterDemo, OfProc0, OfDemo
<1>4. SmallRoots'
  BY <1>1 DEF Parts, SmallRoots, memory
<1>5. Alive'
  BY <1>1 DEF Parts, Alive, OfProc0, OfDemo, mappings
<1>6. Parts'
  BY <1>1, <1>2, <1>3, <1>4, <1>5, PartsOn
<1>7. PICK own \in Owners : Shared(own)
  BY DEF SysInv
<1>8. Owned' \subseteq Owned
  BY DEF Owned, Owns, Filled
<1>9. Shared(own)'
  <2>1. MemoryTypes /\ pc # "allocator" /\ metaBlk' = metaBlk
    BY <1>1 DEF Parts
  <2>2. UNCHANGED <<files, slot, free, live, tables, pages, pageDir>>
    BY DEF memory, mappings
  <2>3. QED
    BY <1>5, <1>7, <1>8, <2>1, <2>2, Quietly
<1>10. QED
  BY <1>6, <1>7, <1>9 DEF SysInv

LEMMA KrootParts ==
    ASSUME SysInv, IInv', fault = {}, UNCHANGED calls, CreateRoot("kroot", "uroot")
    PROVE  SysInv'
<1> USE DEF Goto, BeforeKroot, BeforeUroot, BeforeMagic
<1>1. Parts /\ IInv
  BY DEF SysInv
<1>2. pc = "kroot" /\ pc' = "uroot" /\ metaBlk = NULL /\ TakeFirstMeta("kroot", "dir")
  BY <1>1 DEF CreateRoot, IInv, RootsMade
<1>3. /\ UNCHANGED <<slot, fault, ret, mappings, control>>
      /\ files' = [files EXCEPT ![at'["kroot"]] = Blank]
      /\ names' = names
  BY DEF CreateRoot
<1>4. PICK r \in Store!BestFits(free, 1) : metaBlk' = r[1] /\ free' = free \ {r[1]}
  BY <1>2 DEF TakeFirstMeta
<1> DEFINE b == r[1]
<1>5. b \in free /\ metaBlk' = b /\ free' = free \ {b} /\ b \in Blocks
  BY <1>1, <1>4 DEF Store!BestFits, Store!Runs, Parts, MemoryTypes
<1> HIDE DEF b
<1>6. at' = [at EXCEPT !["kroot"] = 0] /\ at'["kroot"] = 0
  BY <1>1, <1>2 DEF TakeFirstMeta, IInv, Typed, Roles, RootDirs
<1>7. \A x \in Roles : x # "kroot" => at'[x] = at[x]
  BY <1>1, <1>6 DEF IInv, Typed
<1>8. /\ files' \in [MetaIds -> Metas] /\ files'[0] = Blank
      /\ Blank \in Metas /\ Blank.blk = 0
  BY <1>1, <1>3, <1>6, MetaAssumption DEF Parts, MemoryTypes, Blank, Metas, Ptrs
<1>9. MemoryTypes'
  BY <1>1, <1>3, <1>5, <1>8 DEF Parts, MemoryTypes, mappings, control
<1>10. RoleMetas'
  BY <1>1, <1>2, <1>6, <1>7 DEF Parts, RoleMetas, Roles, RootDirs
<1>11. MetasApart'
  <2>1. \A x \in Roles \ RootDirs : at'[x] = NULL
    BY <1>1, <1>2, <1>7 DEF Parts, RoleMetas, RootDirs
  <2>2. at'["uroot"] # 0 /\ 0 # NULL
    BY <1>10, PointerAssumption DEF RoleMetas
  <2>3. QED
    BY <1>6, <2>1, <2>2 DEF MetasApart, Roles, RootDirs
<1>12. KernelFiles'
  BY <1>2 DEF KernelFiles, AfterDemo, OfProc0, OfDemo
<1>13. SmallRoots'
  BY <1>2, <1>6, <1>8 DEF SmallRoots
<1>14. Alive'
  BY <1>1, <1>2, <1>3 DEF Parts, Alive, OfProc0, OfDemo, mappings
<1>15. Calls'
  BY <1>1, <1>2, <1>3 DEF Parts, Calls, calls
<1>16. Parts'
  BY <1>9, <1>10, <1>11, <1>12, <1>13, <1>14, <1>15 DEF Parts
<1>17. PICK own \in Owners : Shared(own)
  BY DEF SysInv
<1> DEFINE own2 == [own EXCEPT ![b] = <<NULL, "root", 0>>]
<1>18. own2 \in Owners /\ own2[b] = <<NULL, "root", 0>>
  <2>1. <<NULL, "root", 0>> \in Tags
    BY DEF Tags
  <2>2. QED
    BY <1>5, <2>1 DEF Owners
<1> HIDE DEF own2
<1>19. Shared(own2)'
  <2>1. Used(own2, metaBlk, <<NULL, "root", 0>>)'
    BY <1>5, <1>18 DEF Used
  <2>2. \A q \in MetaIds : ProcHeld(q, own2)'
    <3>1. live' = {}
      BY <1>2, <1>14 DEF Alive, OfProc0, OfDemo
    <3>2. QED
      BY <1>14, <3>1, IdleHeld
  <2>3. ASSUME NEW i \in Owned' PROVE Held(i, Opened(i)', own2)
    <3>1. i = 0
      BY <1>2, <1>6, <2>3 DEF Owned, Owns
    <3>2. Opened(i)'.m.blk = 0
      BY <1>8, <3>1, OpenedParts
    <3>3. QED
      BY <3>2, NoBlocksHeld
  <2>4. QED
    BY <2>1, <2>2, <2>3 DEF Shared
<1>20. QED
  BY <1>16, <1>18, <1>19 DEF SysInv

LEMMA UrootParts ==
    ASSUME SysInv, IInv', fault = {}, UNCHANGED calls, CreateRoot("uroot", "metaList")
    PROVE  SysInv'
<1> USE DEF Goto, BeforeKroot, BeforeUroot, BeforeMagic
<1>1. Parts /\ IInv
  BY DEF SysInv
<1>2. /\ pc = "uroot" /\ pc' = "metaList" /\ TakeMeta("uroot", "dir")
      /\ UNCHANGED <<metaBlk, free>>
  BY <1>1 DEF CreateRoot, IInv, RootsMade
<1>3. /\ UNCHANGED <<slot, fault, ret, mappings, control>>
      /\ files' = [files EXCEPT ![at'["uroot"]] = Blank]
      /\ names' = [n \in {} |-> NULL]
  BY DEF CreateRoot
<1>4. /\ at'["kroot"] \in {NULL, 0} /\ at'["uroot"] # 0
      /\ \A r \in {"file0", "demo"} : at'[r] # NULL => metas'[at'[r]] = "file"
      /\ \A r \in {"proc0", "demoProc"} : at'[r] # NULL => metas'[at'[r]] = "proc"
      /\ MetasApart'
      /\ \A q \in MetaIds : metas[q] # "free" => metas'[q] = metas[q]
      /\ at'["uroot"] # NULL /\ \A r \in Roles : r # "uroot" => at'[r] = at[r]
  <2>1. "uroot" \in Roles /\ pc \notin BeforeKroot
    BY <1>2 DEF Roles, RootDirs
  <2> HIDE DEF BeforeKroot, BeforeUroot
  <2>2. QED
    BY <1>1, <1>2, <2>1, TakenMeta
<1>5. at'["uroot"] \in MetaIds /\ at'["kroot"] = 0 /\ at["kroot"] = 0
  <2>1. at["kroot"] = 0
    BY <1>1, <1>2 DEF IInv, RootsMade
  <2>2. at' \in [Roles -> MetaIds \cup {NULL}]
    BY DEF IInv, Typed
  <2>3. QED
    BY <1>4, <2>1, <2>2 DEF Roles, RootDirs
<1>6. /\ files' \in [MetaIds -> Metas] /\ files'[at'["uroot"]] = Blank
      /\ \A g \in MetaIds : g # at'["uroot"] => files'[g] = files[g]
      /\ Blank \in Metas /\ Blank.blk = 0
  BY <1>1, <1>3, <1>5 DEF Parts, MemoryTypes, Blank, Metas, Ptrs
<1>7. MemoryTypes'
  BY <1>1, <1>2, <1>3, <1>6 DEF Parts, MemoryTypes, mappings, control
<1>8. RoleMetas'
  BY <1>2, <1>4 DEF RoleMetas
<1>9. KernelFiles'
  BY <1>2, <1>3 DEF KernelFiles, AfterDemo, OfProc0, OfDemo
<1>10. SmallRoots'
  BY <1>1, <1>2, <1>4, <1>5, <1>6, MetaAssumption DEF SmallRoots, Parts
<1>11. Alive'
  BY <1>1, <1>2, <1>3 DEF Parts, Alive, OfProc0, OfDemo, mappings
<1>12. Calls'
  BY <1>1, <1>2, <1>3 DEF Parts, Calls, calls
<1>13. Parts'
  BY <1>4, <1>7, <1>8, <1>9, <1>10, <1>11, <1>12 DEF Parts
<1>14. PICK own \in Owners : Shared(own)
  BY DEF SysInv
<1>15. Shared(own)'
  <2>1. \A g \in Owned' : files'[g].blk = 0 \/ (g \in Owned /\ files'[g] = files[g])
    <3> SUFFICES ASSUME NEW g \in Owned', g # at'["uroot"] PROVE g \in Owned /\ files'[g] = files[g]
      BY <1>6
    <3>1. g = 0 /\ g \in MetaIds
      BY <1>2, <1>3, <1>5 DEF Owned, Owns, Filled
    <3>2. QED
      BY <1>2, <1>5, <1>6, <3>1 DEF Owned, Owns
  <2>2. MemoryTypes /\ pc # "allocator" /\ metaBlk' = metaBlk
    BY <1>1, <1>2 DEF Parts
  <2>3. UNCHANGED <<slot, free, live, tables, pages, pageDir>>
    BY <1>2, <1>3 DEF mappings
  <2>4. QED
    BY <1>11, <1>14, <2>1, <2>2, <2>3, Quietly
<1>16. QED
  BY <1>13, <1>14, <1>15 DEF SysInv

-----------------------------------------------------------------------------
(* Entering files and processes in the root directories.                   *)

WithFirstBlk(z, b) == WithBlk(WithFirst(WithFree(z, z.free \ {b}, z.track), b), 1)

LEMMA FirstBlkFields ==
    ASSUME NEW z \in States, NEW b \in z.free
    PROVE  LET t == WithFirstBlk(z, b)
           IN  /\ t \in States /\ t.slot = z.slot /\ t.fault = z.fault /\ t.free = z.free \ {b}
               /\ t.m.size = z.m.size /\ t.m.blk = 1 /\ t.m.first = b
<1> DEFINE u == WithFree(z, z.free \ {b}, z.track)
           v == WithFirst(u, b)
           t == WithBlk(v, 1)
<1>1. z.free \ {b} \in SUBSET Blocks /\ b \in Ptrs /\ z.track \in SUBSET {"kept", "lost"}
  BY StateFields DEF Ptrs, States
<1>2. u \in States /\ u.m = z.m /\ u.slot = z.slot /\ u.fault = z.fault /\ u.free = z.free \ {b}
  BY <1>1, SetFree
<1> HIDE DEF u
<1>3. /\ v \in States /\ v.slot = u.slot /\ v.fault = u.fault /\ v.free = u.free
      /\ v.m.first = b /\ v.m.size = u.m.size
  BY <1>1, <1>2, SetFirst
<1> HIDE DEF v
<1>4. /\ t \in States /\ t.slot = v.slot /\ t.fault = v.fault /\ t.free = v.free
      /\ t.m.first = v.m.first /\ t.m.size = v.m.size /\ t.m.blk = 1
  BY <1>3, SetBlk
<1>5. t = WithFirstBlk(z, b)
  BY DEF u, v, WithFirstBlk
<1> HIDE DEF t
<1>6. QED
  BY <1>2, <1>3, <1>4, <1>5

(* A directory gets its first block when it has none.                      *)
LEMMA EnteredKeeps ==
    ASSUME NEW f \in MetaIds, NEW st \in States, NEW own \in Owners, Held(f, st, own),
           st.m.blk \in {0, 1}, NEW e \in Entered(st)
    PROVE  /\ e.st \in States /\ e.st.m.blk \in {0, 1} /\ e.st.fault = st.fault /\ e.st.slot = st.slot
           /\ \E own2 \in Owners : Held(f, e.st, own2) /\ Frame(f, st, own, e.st, own2)
<1> DEFINE listed == WithSize(st, st.m.size + 1)
<1>1. /\ listed \in States /\ listed.slot = st.slot /\ listed.free = st.free
      /\ listed.fault = st.fault /\ listed.m.blk = st.m.blk
      /\ listed.m.first = st.m.first /\ listed.m.ptr1 = st.m.ptr1 /\ listed.m.ptr2 = st.m.ptr2
  <2>1. st.m.size + 1 \in Nat
    BY StateFields
  <2>2. QED
    BY <2>1, SetSize
<1>2. \/ st.m.blk = 1 /\ e = [st |-> listed, ok |-> TRUE]
      \/ e = [st |-> st, ok |-> FALSE]
      \/ /\ st.m.blk # 1
         /\ \E r \in Store!BestFits(st.free, 1) : e = [st |-> WithFirstBlk(listed, r[1]), ok |-> TRUE]
  <2> DEFINE first(b) == [listed EXCEPT !.free = @ \ {b}, !.m.first = b, !.m.blk = 1]
  <2>1. \A b : first(b) = WithFirstBlk(listed, b)
    <3>1. [listed EXCEPT !.track = listed.track] = listed
      BY <1>1 DEF States
    <3> HIDE DEF listed
    <3>2. \A b : WithFirstBlk(listed, b) = [[listed EXCEPT !.track = listed.track] EXCEPT !.free = @ \ {b}, !.m.first = b, !.m.blk = 1]
      BY <1>1 DEF WithFirstBlk, WithBlk, WithFirst, WithFree, States
    <3>3. QED
      BY <3>1, <3>2
  <2>2. e \in IF st.m.blk = 1 THEN {[st |-> listed, ok |-> TRUE]}
              ELSE IF st.free = {} THEN {[st |-> st, ok |-> FALSE]}
              ELSE {[st |-> first(r[1]), ok |-> TRUE] : r \in Store!BestFits(st.free, 1)}
    BY DEF Entered, WithSize
  <2> HIDE DEF first, listed
  <2>3. QED
    BY <2>1, <2>2
<1> HIDE DEF listed
<1>3. Frame(f, st, own, st, own)
  BY DEF Frame
<1>4. CASE e = [st |-> st, ok |-> FALSE]
  BY <1>3, <1>4
<1>5. CASE st.m.blk = 1 /\ e = [st |-> listed, ok |-> TRUE]
  <2>1. Held(f, listed, own)
    BY <1>1, SameBlocks
  <2>2. Frame(f, st, own, listed, own)
    BY <1>1 DEF Frame
  <2>3. QED
    BY <1>1, <1>5, <2>1, <2>2
<1>6. ASSUME st.m.blk # 1, NEW r \in Store!BestFits(st.free, 1),
             e = [st |-> WithFirstBlk(listed, r[1]), ok |-> TRUE]
      PROVE  /\ e.st \in States /\ e.st.m.blk \in {0, 1} /\ e.st.fault = st.fault /\ e.st.slot = st.slot
             /\ \E own2 \in Owners : Held(f, e.st, own2) /\ Frame(f, st, own, e.st, own2)
  <2> DEFINE b    == r[1]
             t    == e.st
             own2 == [own EXCEPT ![b] = <<f, "data", 0>>]
  <2>1. b \in st.free /\ b \in Blocks
    BY <1>6, StateFields DEF Store!BestFits, Store!Runs
  <2>2. t = WithFirstBlk(listed, b)
    BY <1>6
  <2> HIDE DEF b, t
  <2>3. /\ t \in States /\ t.slot = st.slot /\ t.fault = st.fault /\ t.free = st.free \ {b}
        /\ t.m.blk = 1 /\ t.m.first = b
    BY <1>1, <2>1, <2>2, FirstBlkFields
  <2>4. own2 \in Owners /\ own2[b] = <<f, "data", 0>> /\ \A x \in Blocks : x # b => own2[x] = own[x]
    <3>1. <<f, "data", 0>> \in Tags
      BY DEF Tags
    <3>2. QED
      BY <2>1, <3>1 DEF Owners
  <2> HIDE DEF own2
  <2>5. Marked(t, own2, b, <<f, "data", 0>>)
    BY <2>1, <2>3, <2>4 DEF Marked
  <2>6. Held(f, t, own2)
    <3>1. DataBlkAt(t, 0) = b
      BY <2>3 DEF DataBlkAt
    <3>2. DataHeld(f, t, own2)
      BY <2>3, <2>5, <3>1 DEF DataHeld
    <3>3. ~(1 > 1) /\ ~(1 > L2) /\ 1 <= MaxBlk
      <4>1. MaxSize \div BlockBytes \in Nat
        BY SizeAssumption, BytesAssumption, DivMod
      <4>2. QED
        BY <4>1, Levels DEF MaxBlk, BlocksFor
    <3>4. Paths(f, t, own2, 1)
      BY <3>3 DEF Paths, Rooted
    <3>5. QED
      BY <2>3, <3>2, <3>3, <3>4 DEF Held
  <2>7. Frame(f, st, own, t, own2)
    BY <2>1, <2>3, <2>4 DEF Frame
  <2>8. QED
    BY <2>3, <2>4, <2>6, <2>7 DEF t
<1>7. QED
  BY <1>2, <1>4, <1>5, <1>6

(* Which of the kernel's steps this is: a role that gets a meta, the root  *)
(* directory it is entered in, and what follows.                           *)
Entering(role, root, flags, next) ==
    \/ role = "file0" /\ root = "uroot" /\ flags = "file" /\ next = "blank file0"
    \/ role = "demo" /\ root = "uroot" /\ flags = "file" /\ next = "blank demo"
    \/ role = "proc0" /\ root = "kroot" /\ flags = "proc" /\ next = "create proc0"
    \/ role = "demoProc" /\ root = "kroot" /\ flags = "proc" /\ next = "create demoProc"

LEMMA EnterParts ==
    ASSUME SysInv, IInv', fault = {}, UNCHANGED calls, NEW role, NEW root, NEW flags, NEW next,
           Entering(role, root, flags, next), Enter(role, root, flags, next)
    PROVE  SysInv'
<1> DEFINE i == at[root]
           z == Opened(i)
<1>1. Parts /\ IInv
  BY DEF SysInv
<1>2. /\ pc = role /\ TakeMeta(role, flags)
      /\ UNCHANGED <<record, metaBlk, ret, mappings, control, seg>>
  BY DEF Enter
<1>3. PICK e \in Entered(z) :
         /\ Close(i, e.st)
         /\ pc' = IF e.ok THEN next ELSE "end"
         /\ names' = IF e.ok /\ root = "uroot"
                     THEN [n \in DOMAIN names \cup {role} |->
                             IF n = role THEN at'[role] ELSE names[n]]
                     ELSE names
  BY DEF Enter, Goto
<1>4. /\ pc \notin BeforeMagic /\ pc \notin BeforeUroot /\ pc \notin BeforeKroot /\ pc # "user"
      /\ pc' \notin BeforeMagic /\ pc' \notin BeforeUroot /\ pc' \notin BeforeKroot /\ pc' # "user"
      /\ pc \notin {"blank file0", "blank demo"}
      /\ role \in Roles \ RootDirs
  BY <1>2, <1>3 DEF Entering, BeforeMagic, BeforeUroot, BeforeKroot, Roles, RootDirs
<1>5. /\ at'["kroot"] \in {NULL, 0} /\ at'["uroot"] # 0
      /\ \A r \in {"file0", "demo"} : at'[r] # NULL => metas'[at'[r]] = "file"
      /\ \A r \in {"proc0", "demoProc"} : at'[r] # NULL => metas'[at'[r]] = "proc"
      /\ MetasApart'
      /\ \A q \in MetaIds : metas[q] # "free" => metas'[q] = metas[q]
      /\ at'[role] # NULL /\ \A r \in Roles : r # role => at'[r] = at[r]
  <2>1. /\ role \in {"file0", "demo"} => flags = "file"
        /\ role \in {"proc0", "demoProc"} => flags = "proc"
        /\ role # "kroot" /\ role # "uroot"
    BY DEF Entering
  <2>2. QED
    BY <1>1, <1>2, <1>4, <2>1, TakenMeta
<1>6. at'["kroot"] = at["kroot"] /\ at'["uroot"] = at["uroot"] /\ root \in {"kroot", "uroot"}
  BY <1>4, <1>5 DEF Roles, RootDirs, Entering
<1>7. i \in Owned /\ i \in MetaIds /\ files[i].blk \in {0, 1}
  <2>1. at["kroot"] = 0 /\ at["uroot"] \in MetaIds
    BY <1>1, <1>4 DEF IInv, RootsMade
  <2>2. i \in MetaIds
    BY <1>6, <2>1, MetaAssumption
  <2>3. Owns(i)
    BY <1>4, <1>6 DEF Owns
  <2>4. files[i].blk \in {0, 1}
    BY <1>1, <1>4, <1>6 DEF Parts, SmallRoots
  <2>5. QED
    BY <2>2, <2>3, <2>4 DEF Owned
<1>8. PICK own \in Owners : Shared(own)
  BY DEF SysInv
<1>9. z \in States /\ Held(i, z, own) /\ z.m.blk \in {0, 1}
  BY <1>1, <1>7, <1>8, OpenedState, OpenedParts DEF Parts, Shared
<1>10. /\ e.st \in States /\ e.st.m.blk \in {0, 1}
       /\ \E own2 \in Owners : Held(i, e.st, own2) /\ Frame(i, z, own, e.st, own2)
  <2> HIDE DEF i, z
  <2>1. QED
    BY <1>7, <1>9, EnteredKeeps
<1>11. PICK own2 \in Owners : Held(i, e.st, own2) /\ Frame(i, z, own, e.st, own2)
  BY <1>10
<1>12. /\ MemoryTypes' /\ files'[i] \in {files[i], e.st.m}
       /\ \A g \in MetaIds : g # i => files'[g] = files[g]
  BY <1>1, <1>2, <1>3, <1>7, <1>10, <1>11, FileWritten DEF Parts
<1> HIDE DEF i, z
<1>13. RoleMetas'
  BY <1>4, <1>5 DEF RoleMetas
<1>14. KernelFiles'
  <2>1. pc' # "end" => e.ok /\ pc' = next
    BY <1>3
  <2>2. ASSUME pc' # "end", NEW n \in DOMAIN names'
        PROVE  n \in {"file0", "demo"} /\ names'[n] = at'[n]
    <3>1. ASSUME n \in DOMAIN names, n # role PROVE n \in {"file0", "demo"} /\ names[n] = at'[n]
      <4>1. n \in {"file0", "demo"} /\ names[n] = at[n]
        BY <1>1, <1>2, <1>4, <3>1 DEF Parts, KernelFiles, AfterDemo, OfProc0, OfDemo, Entering
      <4>2. QED
        BY <1>5, <3>1, <4>1 DEF Roles
    <3>2. CASE root = "uroot"
      <4>1. role \in {"file0", "demo"}
        BY <3>2 DEF Entering
      <4>2. QED
        BY <1>3, <2>1, <2>2, <3>1, <3>2, <4>1
    <3>3. CASE root # "uroot"
      <4>1. names' = names /\ role \notin {"file0", "demo"}
        BY <1>3, <3>3 DEF Entering
      <4>2. n \in {"file0", "demo"}
        BY <1>1, <1>2, <1>4, <2>2, <4>1 DEF Parts, KernelFiles, AfterDemo, OfProc0, OfDemo, Entering
      <4>3. QED
        BY <2>2, <3>1, <4>1, <4>2
    <3>4. QED
      BY <3>2, <3>3
  <2>3. /\ pc' \in {"blank file0", "write file0"} => "file0" \in DOMAIN names'
        /\ pc' # "write demo"
    BY <1>3 DEF Entering
  <2>4. pc' \in AfterDemo => "demo" \in DOMAIN names'
    <3>1. CASE role = "file0"
      BY <1>3, <3>1 DEF Entering, AfterDemo, OfProc0, OfDemo
    <3>2. CASE role = "demo"
      BY <1>3, <3>2 DEF Entering, AfterDemo, OfProc0, OfDemo
    <3>3. CASE role \in {"proc0", "demoProc"}
      <4>1. names' = names
        BY <1>3, <3>3 DEF Entering
      <4>2. "demo" \in DOMAIN names
        BY <1>1, <1>2, <3>3 DEF Parts, KernelFiles, AfterDemo
      <4>3. QED
        BY <4>1, <4>2
    <3>4. QED
      BY <3>1, <3>2, <3>3 DEF Entering
  <2>5. QED
    BY <2>2, <2>3, <2>4 DEF KernelFiles
<1>15. SmallRoots'
  <2>1. \A r \in {"kroot", "uroot"} : files[at[r]].blk \in {0, 1} /\ at[r] \in MetaIds
    BY <1>1, <1>4, MetaAssumption DEF Parts, SmallRoots, IInv, RootsMade
  <2>2. \A r \in {"kroot", "uroot"} : files'[at[r]].blk \in {0, 1}
    BY <1>7, <1>10, <1>12, <2>1
  <2>3. QED
    BY <1>6, <2>2 DEF SmallRoots
<1>16. Alive'
  <2>1. UNCHANGED <<live, tables, pages>>
    BY <1>2 DEF mappings
  <2>2. \A q \in live : q \in MetaIds /\ metas'[q] = "proc"
    BY <1>1, <1>5 DEF Parts, Alive, OfProc0, OfDemo
  <2>3. /\ pc' = "create proc0" => at'["proc0"] # NULL
        /\ pc' = "create demoProc" => at'["demoProc"] # NULL
    BY <1>3, <1>5 DEF Entering
  <2>4. pc' \notin {"map kernel", "map file0", "stack", "syscall stack",
                     "header", "segment", "bss", "kstack", "low memory", "ustack", "user"}
    BY <1>3 DEF Entering
  <2>5. \A q \in MetaIds \ live' : /\ \A t \in PM!Tables : tables'[q][t] = NULL
                                   /\ \A p \in PM!Pages : pages'[q][p].kind = "none"
    BY <1>1, <2>1 DEF Parts, Alive, OfProc0, OfDemo
  <2>6. QED
    BY <1>4, <2>1, <2>2, <2>3, <2>4, <2>5 DEF Alive, OfProc0, OfDemo
<1>17. Calls'
  BY <1>1, <1>4, NoCallsYet DEF Parts
<1>18. Parts'
  BY <1>5, <1>12, <1>13, <1>14, <1>15, <1>16, <1>17 DEF Parts
<1>19. Owned' \subseteq Owned
  <2> SUFFICES ASSUME NEW g \in Owned' PROVE g \in Owned
    OBVIOUS
  <2>1. CASE \E n \in Filled' : g = names'[n]
    <3>1. PICK n \in Filled' : g = names'[n]
      BY <2>1
    <3>2. n \in DOMAIN names /\ names'[n] = names[n]
      BY <1>3, <3>1 DEF Filled, Entering
    <3>3. n \in Filled
      BY <1>4, <3>2 DEF Filled
    <3>4. QED
      BY <1>4, <3>1, <3>2, <3>3 DEF Owned, Owns
  <2>2. CASE g \in {at'["kroot"], at'["uroot"]}
    BY <1>4, <1>6, <2>2 DEF Owned, Owns
  <2>3. QED
    BY <2>1, <2>2 DEF Owned, Owns
<1>20. fault' = {} => Shared(own2)'
  BY <1>1, <1>2, <1>3, <1>7, <1>8, <1>10, <1>11, <1>16, <1>19, FileShared DEF z, Enter
<1>21. QED
  BY <1>11, <1>18, <1>20 DEF SysInv

-----------------------------------------------------------------------------
(* The kernel's files.                                                     *)

(* The meta of a file the kernel has entered.                              *)
LEMMA EnteredFile ==
    ASSUME IInv, Parts, NEW role \in {"file0", "demo"},
           pc \in IF role = "file0" THEN {"blank file0", "write file0"} ELSE {"blank demo", "write demo"}
    PROVE  /\ role \in DOMAIN names /\ names[role] = at[role]
           /\ at[role] \in MetaIds /\ metas[at[role]] = "file" /\ at[role] \notin live
           /\ at[role] # at["kroot"] /\ at[role] # at["uroot"]
           /\ at["kroot"] \in MetaIds /\ at["uroot"] \in MetaIds
<1>1. pc \notin BeforeUroot \cup {"user", "end"} /\ pc \notin BeforeKroot
  BY DEF BeforeUroot, BeforeKroot
<1>2. role \in DOMAIN names /\ names[role] = at[role]
  BY <1>1 DEF Parts, KernelFiles, AfterDemo, OfProc0, OfDemo
<1>3. at[role] \in MetaIds
  BY <1>2 DEF IInv, Typed
<1>4. metas[at[role]] = "file"
  BY <1>1, <1>2 DEF IInv, KernelNames
<1>5. at[role] \notin live
  BY <1>4 DEF Parts, Alive, OfProc0, OfDemo
<1>6. at["kroot"] = 0 /\ metas[0] = "dir" /\ at["uroot"] \in MetaIds /\ metas[at["uroot"]] = "dir"
  BY <1>1 DEF IInv, RootsMade
<1>7. QED
  BY <1>2, <1>3, <1>4, <1>5, <1>6, MetaAssumption

LEMMA BlankParts ==
    ASSUME SysInv, IInv', fault = {}, UNCHANGED calls,
           \/ BlankFile("file0", "blank file0", "write file0")
           \/ BlankFile("demo", "blank demo", "write demo")
    PROVE  SysInv'
<1> USE DEF BlankFile, Goto
<1>1. Parts /\ IInv
  BY DEF SysInv
<1>2. PICK role \in {"file0", "demo"} :
         /\ pc = IF role = "file0" THEN "blank file0" ELSE "blank demo"
         /\ pc' = IF role = "file0" THEN "write file0" ELSE "write demo"
         /\ files' = [files EXCEPT ![at[role]] = Blank]
  OBVIOUS
<1>3. UNCHANGED <<slot, free, fault, ret, mappings, metaVars, control>>
  OBVIOUS
<1>4. /\ role \in DOMAIN names /\ names[role] = at[role] /\ at[role] \in MetaIds
      /\ at[role] # at["kroot"] /\ at[role] # at["uroot"]
      /\ at["kroot"] \in MetaIds /\ at["uroot"] \in MetaIds
  BY <1>1, <1>2, EnteredFile
<1>5. /\ files' \in [MetaIds -> Metas] /\ files'[at[role]] = Blank
      /\ \A g \in MetaIds : g # at[role] => files'[g] = files[g]
      /\ Blank.blk = 0
  <2>1. Blank \in Metas
    BY DEF Blank, Metas, Ptrs
  <2>2. QED
    BY <1>1, <1>2, <1>4, <2>1 DEF Parts, MemoryTypes, Blank
<1>6. MemoryTypes'
  BY <1>1, <1>3, <1>5 DEF Parts, MemoryTypes, mappings, control
<1>7. KernelFiles'
  BY <1>1, <1>2, <1>3, <1>4, <1>5 DEF Parts, KernelFiles, AfterDemo, OfProc0, OfDemo, metaVars, BeforeUroot, BeforeKroot
<1>8. SmallRoots'
  BY <1>1, <1>2, <1>3, <1>4, <1>5 DEF Parts, SmallRoots, metaVars, BeforeUroot, BeforeKroot
<1>9. Alive'
  BY <1>1, <1>2, <1>3 DEF Parts, Alive, OfProc0, OfDemo, metaVars, mappings, BeforeMagic, BeforeUroot, BeforeKroot
<1>10. Parts'
  <2>1. UNCHANGED <<metas, at, names>> /\ pc # "user"
    BY <1>2, <1>3 DEF metaVars
  <2>2. pc' \notin BeforeUroot
    BY <1>2 DEF BeforeUroot, BeforeKroot
  <2>3. QED
    BY <1>1, <1>6, <1>7, <1>8, <1>9, <2>1, <2>2, PartsOn
<1>11. PICK own \in Owners : Shared(own)
  BY DEF SysInv
<1>12. Shared(own)'
  <2>1. UNCHANGED <<at, names, metaBlk, live, tables, pages, pageDir>>
    BY <1>3 DEF metaVars, mappings
  <2>2. \A g \in Owned' : files'[g].blk = 0 \/ (g \in Owned /\ files'[g] = files[g])
    <3> SUFFICES ASSUME NEW g \in Owned', g # at[role] PROVE g \in Owned /\ files'[g] = files[g]
      BY <1>5
    <3>1. pc \notin BeforeUroot /\ pc \notin BeforeKroot
      BY <1>2 DEF BeforeUroot, BeforeKroot
    <3>2. CASE \E n \in Filled' : g = names'[n]
      <4>1. PICK n \in Filled' : g = names'[n]
        BY <3>2
      <4>2. n \in DOMAIN names /\ g = names[n] /\ n # role
        BY <1>4, <2>1, <4>1 DEF Filled
      <4>3. n \in Filled
        <5>1. CASE role = "file0"
          BY <1>2, <4>2, <5>1 DEF Filled
        <5>2. CASE role = "demo"
          BY <1>2, <4>2, <5>2 DEF Filled
        <5>3. QED
          BY <5>1, <5>2
      <4>4. QED
        BY <1>5, <3>1, <4>2, <4>3 DEF Owned, Owns
    <3>3. CASE g \in {at["kroot"], at["uroot"]}
      BY <1>5, <3>1, <3>3 DEF Owned, Owns
    <3>4. QED
      BY <2>1, <3>2, <3>3 DEF Owned, Owns
  <2>3. MemoryTypes /\ pc # "allocator" /\ metaBlk' = metaBlk
    BY <1>1, <1>2, <2>1 DEF Parts
  <2>4. QED
    BY <1>3, <1>9, <1>11, <2>1, <2>2, <2>3, Quietly
<1>13. QED
  BY <1>10, <1>11, <1>12 DEF SysInv

LEMMA AppendParts ==
    ASSUME SysInv, IInv', fault = {}, UNCHANGED calls, NEW role \in {"file0", "demo"},
           pc = IF role = "file0" THEN "write file0" ELSE "write demo",
           NEW len \in Nat, files[at[role]].size + len <= MaxSize,
           NEW next \in {"write file0", "proc0"}, next = "write file0" <=> role = "file0",
           AppendTo(role, len, next)
    PROVE  SysInv'
<1> DEFINE i == at[role]
           z == Opened(i)
<1>1. Parts /\ IInv
  BY DEF SysInv
<1>2. PICK a \in Appends(z, len) : Close(i, a.st) /\ pc' \in {next, "end"}
  BY DEF AppendTo, Goto
<1>3. UNCHANGED <<ret, mappings, metaVars, control>>
  BY DEF AppendTo
<1>4. /\ role \in DOMAIN names /\ names[role] = i /\ i \in MetaIds
      /\ i # at["kroot"] /\ i # at["uroot"]
      /\ at["kroot"] \in MetaIds /\ at["uroot"] \in MetaIds
  BY <1>1, EnteredFile
<1>5. /\ pc \notin BeforeMagic /\ pc \notin BeforeUroot /\ pc \notin BeforeKroot
      /\ pc' \notin BeforeMagic /\ pc' \notin BeforeUroot /\ pc' \notin BeforeKroot
      /\ Filled = DOMAIN names
  BY <1>2 DEF BeforeMagic, BeforeUroot, BeforeKroot, Filled
<1>6. i \in Owned
  BY <1>4, <1>5 DEF Owned, Owns
<1>7. PICK own \in Owners : Shared(own)
  BY DEF SysInv
<1>8. z \in States /\ Held(i, z, own) /\ z.m = files[i]
  BY <1>1, <1>4, <1>6, <1>7, OpenedState, OpenedParts DEF Parts, Shared
<1>9. Outcome(i, z, own, len, a)
  <2>1. z.m.size + len <= MaxSize
    BY <1>8
  <2> HIDE DEF i, z
  <2>2. QED
    BY <1>2, <1>4, <1>8, <2>1, AppendsOutcome
<1>10. PICK own2 \in Owners : Held(i, a.st, own2) /\ Frame(i, z, own, a.st, own2)
  BY <1>9, TakesFrame DEF Outcome
<1>11. a.st \in States
  BY <1>9 DEF Outcome
<1>12. /\ MemoryTypes' /\ \A g \in MetaIds : g # i => files'[g] = files[g]
  BY <1>1, <1>2, <1>3, <1>4, <1>10, <1>11, FileWritten DEF Parts
<1> HIDE DEF i, z
<1>13. KernelFiles'
  <2>1. /\ pc' \notin {"blank file0", "blank demo", "write demo"}
        /\ pc' = "write file0" => pc = "write file0"
    BY <1>2
  <2>2. names' = names /\ at' = at
    BY <1>3 DEF metaVars
  <2>3. pc' \in AfterDemo => "demo" \in DOMAIN names'
    <3>1. pc' \in AfterDemo => pc \in AfterDemo
      BY <1>2 DEF AfterDemo, OfProc0, OfDemo
    <3>2. QED
      BY <1>1, <2>2, <3>1 DEF Parts, KernelFiles
  <2>4. QED
    BY <1>1, <1>5, <2>1, <2>2, <2>3 DEF Parts, KernelFiles
<1>14. SmallRoots'
  BY <1>1, <1>3, <1>4, <1>5, <1>12 DEF Parts, SmallRoots, metaVars
<1>15. Alive'
  <2>1. UNCHANGED <<metas, live, tables, pages>>
    BY <1>3 DEF metaVars, mappings
  <2>2. pc' \notin {"map kernel", "map file0", "stack", "syscall stack", "create proc0", "create demoProc",
                     "header", "segment", "bss", "kstack", "low memory", "ustack", "user"}
    BY <1>2
  <2>3. QED
    BY <1>1, <1>5, <2>1, <2>2 DEF Parts, Alive, OfProc0, OfDemo
<1>16. Parts'
  <2>1. UNCHANGED <<metas, at, names>> /\ pc # "user"
    BY <1>3 DEF metaVars
  <2>2. QED
    BY <1>1, <1>5, <1>12, <1>13, <1>14, <1>15, <2>1, PartsOn
<1>17. Owned' \subseteq Owned
  BY <1>3, <1>5 DEF Owned, Owns, Filled, metaVars
<1>18. fault' = {} => Shared(own2)'
  BY <1>1, <1>2, <1>3, <1>6, <1>7, <1>10, <1>11, <1>15, <1>17, FileShared DEF z, metaVars
<1>19. QED
  BY <1>10, <1>16, <1>18 DEF SysInv

LEMMA Divides ==
    ASSUME NEW n \in Nat \ {0}, NEW c \in Nat \ {0}, (n % c) = 0
    PROVE  c <= n
<1>1. n \in Nat /\ n < c => (n % c) = n
  OBVIOUS
<1>2. QED
  BY <1>1

LEMMA ThirdFits ==
    ASSUME NEW s \in Nat, NEW c \in Nat, NEW n \in Nat, NEW max \in Nat,
           s < 2 * n, c <= n, 3 * n <= max
    PROVE  s + c <= max
OBVIOUS

LEMMA ZeroPlus == \A n \in Nat : 0 + n = n
OBVIOUS

LEMMA AddFilesParts ==
    ASSUME SysInv, IInv', fault = {}, UNCHANGED calls, AddFiles
    PROVE  SysInv'
<1> USE DEF AddFiles
<1>1. ASSUME NEW role, NEW root, NEW flags, NEW next,
             Entering(role, root, flags, next), Enter(role, root, flags, next)
      PROVE  SysInv'
  BY <1>1, EnterParts
<1>2. CASE Enter("file0", "uroot", "file", "blank file0")
  BY <1>1, <1>2 DEF Entering
<1>3. CASE Enter("demo", "uroot", "file", "blank demo")
  BY <1>1, <1>3 DEF Entering
<1>4. CASE \/ BlankFile("file0", "blank file0", "write file0")
           \/ BlankFile("demo", "blank demo", "write demo")
  BY <1>4, BlankParts
<1>5. CASE AppendFile0 /\ files[at["file0"]].size < 2 * BlockBytes
  <2>1. AppendTo("file0", Chunk, "write file0") /\ pc = "write file0"
    BY <1>5 DEF AppendFile0
  <2>2. at["file0"] \in MetaIds
    BY <2>1, EnteredFile DEF SysInv
  <2> DEFINE s == files[at["file0"]].size
  <2>3. s \in Nat
    BY <2>2 DEF SysInv, Parts, MemoryTypes, Metas
  <2>4. s < 2 * BlockBytes
    BY <1>5
  <2> HIDE DEF s
  <2>5. Chunk <= BlockBytes
    BY BytesAssumption, Divides
  <2>6. s + Chunk <= MaxSize
    <3>1. 3 * BlockBytes <= MaxSize
      BY BootAssumption
    <3>2. Chunk \in Nat /\ BlockBytes \in Nat /\ MaxSize \in Nat
      BY BytesAssumption, SizeAssumption
    <3>3. QED
      BY <2>3, <2>4, <2>5, <3>1, <3>2, ThirdFits
  <2>7. QED
    BY <2>1, <2>6, AppendParts, BytesAssumption DEF s
<1>6. CASE AppendFile0 /\ ~(files[at["file0"]].size < 2 * BlockBytes)
  <2> USE <1>6 DEF AppendFile0, Goto
  <2>1. Parts
    BY DEF SysInv
  <2>2. UNCHANGED <<memory, mappings, metaVars, control>> /\ pc = "write file0" /\ pc' = "demo"
    OBVIOUS
  <2>3. MemoryTypes'
    BY <2>1, <2>2 DEF Parts, MemoryTypes, memory, mappings, control
  <2>4. KernelFiles' /\ SmallRoots'
    BY <2>1, <2>2 DEF Parts, KernelFiles, AfterDemo, OfProc0, OfDemo, SmallRoots, memory, metaVars, BeforeUroot, BeforeKroot
  <2>5. Alive'
    BY <2>1, <2>2 DEF Parts, Alive, OfProc0, OfDemo, metaVars, mappings, BeforeMagic, BeforeUroot, BeforeKroot
  <2>6. Parts'
    BY <2>1, <2>2, <2>3, <2>4, <2>5, PartsOn DEF metaVars, BeforeUroot, BeforeKroot
  <2>7. PICK own \in Owners : Shared(own)
    BY DEF SysInv
  <2>8. Owned' = Owned
    BY <2>2 DEF Owned, Owns, Filled, metaVars, BeforeUroot, BeforeKroot
  <2>9. Shared(own)'
    <3>1. UNCHANGED <<files, slot, free, live, tables, pages, pageDir, metaBlk>> /\ MemoryTypes
      BY <2>1, <2>2 DEF memory, mappings, metaVars, Parts
    <3>2. QED
      BY <2>2, <2>5, <2>7, <2>8, <3>1, Quietly
  <2>10. QED
    BY <2>6, <2>7, <2>9 DEF SysInv
<1>7. CASE AppendDemo
  <2>1. AppendTo("demo", program.size, "proc0") /\ pc = "write demo"
    BY <1>7 DEF AppendDemo
  <2>2. files[at["demo"]].size = 0
    <3>1. files[at["demo"]] = Blank
      BY <2>1 DEF SysInv, Parts, KernelFiles
    <3>2. Blank.size = 0
      BY DEF Blank
    <3>3. QED
      BY <3>1, <3>2
  <2>3. program.size \in Nat /\ program.size <= MaxSize
    BY BootAssumption DEF SysInv, Parts, MemoryTypes
  <2> DEFINE len == program.size
  <2>4. len \in Nat /\ len <= MaxSize
    BY <2>3
  <2> HIDE DEF len
  <2>5. 0 + len <= MaxSize
    BY <2>4, ZeroPlus
  <2>6. AppendTo("demo", len, "proc0")
    BY <2>1 DEF len
  <2>7. QED
    BY <2>1, <2>2, <2>4, <2>5, <2>6, AppendParts
<1>8. QED
  BY <1>2, <1>3, <1>4, <1>5, <1>6, <1>7 DEF AppendFile0

-----------------------------------------------------------------------------
(* A step that changes the blocks of a process.                            *)

Owning(q, p) == pages[q][p].kind \in {"anon", "kernel"} /\ pages[q][p].blk \in Blocks

NewTable(q, t) == tables'[q][t] \in Blocks /\ tables'[q][t] # tables[q][t]

NewPage(q, p) == Owning(q, p)' /\ pages'[q][p] # pages[q][p]

(* Page tables and pages a process is given.                               *)
LEMMA ProcGiven ==
    ASSUME NEW own \in Owners, NEW q \in MetaIds, ProcHeld(q, own),
           q \in live, pageDir'[q] = pageDir[q], slot' = slot, free' \subseteq free,
           \A t \in PM!Tables : NewTable(q, t) =>
              /\ tables'[q][t] \in free \ free'
              /\ \A u \in PM!Tables : NewTable(q, u) /\ tables'[q][u] = tables'[q][t] => u = t,
           \A p \in PM!Pages : NewPage(q, p) =>
              /\ pages'[q][p].blk \in free \ free'
              /\ \A r \in PM!Pages : NewPage(q, r) /\ pages'[q][r].blk = pages'[q][p].blk => r = p
              /\ \A t \in PM!Tables : NewTable(q, t) => tables'[q][t] # pages'[q][p].blk
    PROVE  \E own2 \in Owners : Keeps(q, own, own2) /\ ProcHeld(q, own2)'
<1> DEFINE IsT(b, t) == NewTable(q, t) /\ tables'[q][t] = b
           IsP(b, p) == NewPage(q, p) /\ pages'[q][p].blk = b
           tag(b) == IF \E t \in PM!Tables : IsT(b, t)
                     THEN <<q, "leaf", CHOOSE t \in PM!Tables : IsT(b, t)>>
                     ELSE IF \E p \in PM!Pages : IsP(b, p)
                          THEN <<q, "data", CHOOSE p \in PM!Pages : IsP(b, p)>>
                          ELSE own[b]
<1>1. PM!Tables \subseteq Nat /\ PM!Pages \subseteq Nat
  BY DEF PM!Tables, PM!Pages
<1>2. [b \in Blocks |-> tag(b)] \in Owners
  <2> SUFFICES ASSUME NEW b \in Blocks PROVE tag(b) \in Tags
    BY DEF Owners
  <2>1. CASE \E t \in PM!Tables : IsT(b, t)
    <3> DEFINE t0 == CHOOSE t \in PM!Tables : IsT(b, t)
    <3>1. t0 \in PM!Tables
      BY <2>1
    <3>2. <<q, "leaf", t0>> \in Tags
      BY <1>1, <3>1 DEF Tags
    <3>3. QED
      BY <2>1, <3>2
  <2>2. CASE ~(\E t \in PM!Tables : IsT(b, t)) /\ \E p \in PM!Pages : IsP(b, p)
    <3> DEFINE p0 == CHOOSE p \in PM!Pages : IsP(b, p)
    <3>1. p0 \in PM!Pages
      BY <2>2
    <3>2. <<q, "data", p0>> \in Tags
      BY <1>1, <3>1 DEF Tags
    <3>3. QED
      BY <2>2, <3>2
  <2>3. CASE ~(\E t \in PM!Tables : IsT(b, t)) /\ ~(\E p \in PM!Pages : IsP(b, p))
    BY <2>3 DEF Owners
  <2>4. QED
    BY <2>1, <2>2, <2>3
<1>10. PICK own2 \in Owners : own2 = [b \in Blocks |-> tag(b)]
  BY <1>2
<1>3. ASSUME NEW b \in Blocks \ free PROVE own2[b] = own[b] /\ b \notin free' /\ slot'[b] = slot[b]
  <2>1. ~(\E t \in PM!Tables : IsT(b, t)) /\ ~(\E p \in PM!Pages : IsP(b, p))
    OBVIOUS
  <2>2. QED
    BY <1>10, <2>1
<1>4. ASSUME NEW t \in PM!Tables, NewTable(q, t)
      PROVE  Used(own2, tables[q][t], <<q, "leaf", t>>)'
  <2> DEFINE b == tables'[q][t]
  <2>1. b \in Blocks /\ b \notin free' /\ IsT(b, t) /\ \A u \in PM!Tables : IsT(b, u) => u = t
    BY <1>4 DEF NewTable
  <2>2. (CHOOSE u \in PM!Tables : IsT(b, u)) = t
    BY <2>1
  <2>3. own2[b] = <<q, "leaf", t>>
    BY <1>10, <2>1, <2>2
  <2>4. QED
    BY <2>1, <2>3 DEF Used
<1>5. ASSUME NEW p \in PM!Pages, NewPage(q, p)
      PROVE  Used(own2, pages[q][p].blk, <<q, "data", p>>)'
  <2> DEFINE b == pages'[q][p].blk
  <2>1. /\ b \in Blocks /\ b \notin free' /\ IsP(b, p) /\ \A r \in PM!Pages : IsP(b, r) => r = p
        /\ ~(\E t \in PM!Tables : IsT(b, t))
    BY <1>5 DEF NewPage, Owning
  <2>2. (CHOOSE r \in PM!Pages : IsP(b, r)) = p
    BY <2>1
  <2>3. own2[b] = <<q, "data", p>>
    BY <1>10, <2>1, <2>2
  <2>4. QED
    BY <2>1, <2>3 DEF Used
<1>6. Keeps(q, own, own2)
  BY <1>3 DEF Keeps
<1>7. \A b, x : Used(own, b, x) => b \in Blocks \ free' /\ own2[b] = x
  BY <1>3 DEF Used
<1>8. ProcHeld(q, own2)'
  <2>1. \A t \in PM!Tables : tables'[q][t] \in Blocks => Used(own2, tables[q][t], <<q, "leaf", t>>)'
    <3> SUFFICES ASSUME NEW t \in PM!Tables, tables'[q][t] \in Blocks, ~NewTable(q, t)
                 PROVE  Used(own2, tables[q][t], <<q, "leaf", t>>)'
      BY <1>4
    <3>1. tables'[q][t] = tables[q][t]
      BY DEF NewTable
    <3>2. Used(own, tables[q][t], <<q, "leaf", t>>)
      BY <3>1 DEF ProcHeld
    <3>3. QED
      BY <1>7, <3>1, <3>2 DEF Used
  <2>2. \A p \in PM!Pages : Owning(q, p)' => Used(own2, pages[q][p].blk, <<q, "data", p>>)'
    <3> SUFFICES ASSUME NEW p \in PM!Pages, Owning(q, p)', ~NewPage(q, p)
                 PROVE  Used(own2, pages[q][p].blk, <<q, "data", p>>)'
      BY <1>5
    <3>1. pages'[q][p] = pages[q][p]
      BY DEF NewPage
    <3>2. Used(own, pages[q][p].blk, <<q, "data", p>>)
      BY <3>1 DEF ProcHeld, Owning
    <3>3. QED
      BY <1>7, <3>1, <3>2 DEF Used
  <2>3. pageDir'[q] \in Blocks => Used(own2, pageDir[q], <<q, "root", 0>>)'
    BY <1>7 DEF ProcHeld, Used
  <2>4. QED
    BY <2>1, <2>2, <2>3 DEF ProcHeld, Owning
<1>9. QED
  BY <1>6, <1>8

(* What a mapping changes: page tables that were absent are free blocks    *)
(* then, each once, and pages of the segment that were absent show its     *)
(* blocks.                                                                 *)
Mapping(q, start, len, kind, blks, rest) ==
    /\ free' \subseteq rest /\ fault' \subseteq Faults
    /\ DOMAIN tables' = MetaIds /\ DOMAIN pages' = MetaIds
    /\ DOMAIN tables'[q] = PM!Tables /\ DOMAIN pages'[q] = PM!Pages
    /\ \A g \in MetaIds : g # q => tables'[g] = tables[g] /\ pages'[g] = pages[g]
    /\ \A t \in PM!Tables : tables'[q][t] # tables[q][t] =>
          /\ tables[q][t] = NULL
          /\ tables'[q][t] \in rest \ free'
          /\ \A u \in PM!Tables :
                tables'[q][u] # tables[q][u] /\ tables'[q][u] = tables'[q][t] => u = t
    /\ \A p \in PM!Pages : pages'[q][p] # pages[q][p] =>
          /\ ~PM!Present(q, p) /\ p \in start .. start + len - 1
          /\ pages'[q][p] = PM!Entry(kind, blks[p - start])

LEMMA MapSteps ==
    ASSUME MemoryTypes, fault = {}, NEW q \in MetaIds, NEW start \in Nat, NEW len \in Nat,
           NEW kind, NEW blks, NEW rest, PM!MapSegment(q, start, len, kind, blks, rest)
    PROVE  Mapping(q, start, len, kind, blks, rest)
<1> DEFINE needed == {t \in PM!Stepped(start, len) : tables[q][t] = NULL}
<1>1. CASE UNCHANGED <<tables, pages>> /\ free' = rest /\ fault' \subseteq Faults
  BY <1>1 DEF MemoryTypes, Mapping
<1>2. ASSUME NEW new \in PM!NewTables(needed, rest), NEW tb, NEW mapped,
             tb = PM!Over(new, tables[q]), mapped = PM!Reached(q, tb, start, len),
             tables' = [tables EXCEPT ![q] = tb],
             pages' = [pages EXCEPT ![q] =
                PM!Over([page \in mapped |-> PM!Entry(kind, blks[page - start])], pages[q])],
             free' = rest \ PM!Range(new), UNCHANGED fault
      PROVE  Mapping(q, start, len, kind, blks, rest)
  <2>1. /\ DOMAIN tables = MetaIds /\ DOMAIN pages = MetaIds
        /\ DOMAIN tables[q] = PM!Tables /\ DOMAIN pages[q] = PM!Pages
    BY DEF MemoryTypes
  <2>2. /\ new \in [needed -> rest]
        /\ \A t, u \in needed : new[t] = new[u] => t = u
    BY <1>2 DEF PM!NewTables, PM!Injection, PM!IsInjective
  <2>3. \A t \in needed : tables[q][t] = NULL /\ new[t] \in rest /\ new[t] \notin free'
    BY <1>2, <2>2 DEF PM!Range
  <2>4. /\ DOMAIN tables' = MetaIds /\ tables'[q] = tb
        /\ \A g \in MetaIds : g # q => tables'[g] = tables[g]
    BY <1>2, <2>1
  <2>5. /\ DOMAIN tb = PM!Tables
        /\ \A t \in PM!Tables : tb[t] = IF t \in needed THEN new[t] ELSE tables[q][t]
    BY <1>2, <2>1, <2>2 DEF PM!Over
  <2> DEFINE given == [page \in mapped |-> PM!Entry(kind, blks[page - start])]
  <2>6. /\ DOMAIN pages' = MetaIds /\ pages'[q] = PM!Over(given, pages[q])
        /\ \A g \in MetaIds : g # q => pages'[g] = pages[g]
    BY <1>2, <2>1
  <2>7. /\ DOMAIN pages'[q] = PM!Pages
        /\ \A p \in PM!Pages : pages'[q][p] = IF p \in mapped THEN PM!Entry(kind, blks[p - start])
                                              ELSE pages[q][p]
    BY <2>1, <2>6 DEF PM!Over
  <2>8. \A p \in mapped : ~PM!Present(q, p) /\ p \in start .. start + len - 1
    <3> SUFFICES ASSUME NEW p \in mapped PROVE ~PM!Present(q, p) /\ p \in start .. start + len - 1
      OBVIOUS
    <3>1. /\ p \in start .. start + len - 1
          /\ \A x \in start .. p : ~PM!Present(q, x)
      BY <1>2 DEF PM!Reached, PM!Segment
    <3>2. p \in start .. p
      BY <3>1
    <3>3. QED
      BY <3>1, <3>2
  <2> HIDE DEF needed
  <2>9. \A t \in PM!Tables : tables'[q][t] # tables[q][t] =>
           /\ tables[q][t] = NULL
           /\ tables'[q][t] \in rest \ free'
           /\ \A u \in PM!Tables :
                 tables'[q][u] # tables[q][u] /\ tables'[q][u] = tables'[q][t] => u = t
    BY <2>2, <2>3, <2>4, <2>5
  <2>10. free' \subseteq rest /\ fault' \subseteq Faults
    BY <1>2
  <2>11. QED
    BY <2>4, <2>5, <2>6, <2>7, <2>8, <2>9, <2>10 DEF Mapping
<1>3. PM!Fail("endless loop") \/ PM!Fail("null table") \/ PM!Fail("lost track") => fault' \subseteq Faults
  BY DEF PM!Fail, Faults
<1> HIDE DEF needed
<1>4. \/ UNCHANGED <<tables, pages>> /\ free' = rest /\ fault' \subseteq Faults
      \/ \E new \in PM!NewTables(needed, rest) : \E tb, mapped :
            /\ tb = PM!Over(new, tables[q]) /\ mapped = PM!Reached(q, tb, start, len)
            /\ tables' = [tables EXCEPT ![q] = tb]
            /\ pages' = [pages EXCEPT ![q] =
                 PM!Over([page \in mapped |-> PM!Entry(kind, blks[page - start])], pages[q])]
            /\ free' = rest \ PM!Range(new) /\ UNCHANGED fault
  <2>1. \/ free' = rest /\ UNCHANGED <<tables, pages, fault>>
        \/ /\ PM!Fail("endless loop") \/ PM!Fail("null table") \/ PM!Fail("lost track")
           /\ free' = rest /\ UNCHANGED <<tables, pages>>
        \/ /\ \E new \in PM!NewTables(needed, rest) :
                 /\ tables' = [tables EXCEPT ![q] = PM!Over(new, tables[q])]
                 /\ pages' = [pages EXCEPT ![q] =
                      PM!Over([page \in PM!Reached(q, PM!Over(new, tables[q]), start, len) |->
                                 PM!Entry(kind, blks[page - start])], pages[q])]
                 /\ free' = rest \ PM!Range(new)
           /\ UNCHANGED fault
    BY Zenon DEF PM!MapSegment, needed
  <2>2. QED
    BY <1>3, <2>1
<1>5. QED
  BY <1>1, <1>2, <1>4

(* What a segment may be mapped to: blocks of the region that have been    *)
(* taken from those that are left free, each once, unless a file has them. *)
Available(kind, blks, len, rest) ==
    kind # "file" =>
       \A j \in 0 .. len - 1 : blks[j] \in Blocks =>
          /\ blks[j] \in free \ rest
          /\ \A k \in 0 .. len - 1 : blks[k] = blks[j] => k = j

LEMMA MappedHeld ==
    ASSUME Parts, fault = {}, NEW own \in Owners, Shared(own), NEW q \in live,
           NEW start \in Nat, NEW len \in Nat, NEW kind, NEW blks, NEW rest \in SUBSET free,
           Available(kind, blks, len, rest),
           PM!MapSegment(q, start, len, kind, blks, rest), UNCHANGED <<slot, pageDir>>
    PROVE  \E own2 \in Owners : Keeps(q, own, own2) /\ ProcHeld(q, own2)'
<1>1. q \in MetaIds /\ MemoryTypes
  BY DEF Parts, Alive, OfProc0, OfDemo
<1>2. /\ free' \subseteq rest
      /\ \A t \in PM!Tables : tables'[q][t] # tables[q][t] =>
            /\ tables'[q][t] \in rest \ free'
            /\ \A u \in PM!Tables :
                  tables'[q][u] # tables[q][u] /\ tables'[q][u] = tables'[q][t] => u = t
      /\ \A p \in PM!Pages : pages'[q][p] # pages[q][p] =>
            /\ p \in start .. start + len - 1
            /\ pages'[q][p] = PM!Entry(kind, blks[p - start])
  <2>1. MemoryTypes /\ fault = {} /\ q \in MetaIds
    BY <1>1
  <2>2. Mapping(q, start, len, kind, blks, rest)
    BY <2>1, MapSteps
  <2>3. QED
    BY <2>2 DEF Mapping
<1>3. ProcHeld(q, own)
  BY <1>1 DEF Shared
<1>4. ASSUME NEW t \in PM!Tables, NewTable(q, t)
      PROVE  /\ tables'[q][t] \in free \ free' /\ tables'[q][t] \in rest
             /\ \A u \in PM!Tables : NewTable(q, u) /\ tables'[q][u] = tables'[q][t] => u = t
  BY <1>2, <1>4 DEF NewTable
<1>5. ASSUME NEW p \in PM!Pages, NewPage(q, p)
      PROVE  /\ kind # "file" /\ p \in Int /\ p - start \in 0 .. len - 1
             /\ pages'[q][p].blk = blks[p - start] /\ blks[p - start] \in Blocks
  <2>1. /\ p \in start .. start + len - 1
        /\ pages'[q][p] = PM!Entry(kind, blks[p - start])
    BY <1>2, <1>5 DEF NewPage
  <2>2. p - start \in 0 .. len - 1 /\ p \in Int
    BY <2>1
  <2>3. pages'[q][p].kind = kind /\ pages'[q][p].blk = blks[p - start]
    BY <2>1 DEF PM!Entry
  <2>4. pages'[q][p].kind \in {"anon", "kernel"} /\ pages'[q][p].blk \in Blocks
    BY <1>5 DEF NewPage, Owning
  <2>5. kind # "file"
    BY <2>3, <2>4
  <2>6. QED
    BY <2>2, <2>3, <2>4, <2>5
<1>6. ASSUME NEW p \in PM!Pages, NewPage(q, p)
      PROVE  /\ pages'[q][p].blk \in free \ free'
             /\ \A r \in PM!Pages : NewPage(q, r) /\ pages'[q][r].blk = pages'[q][p].blk => r = p
             /\ \A t \in PM!Tables : NewTable(q, t) => tables'[q][t] # pages'[q][p].blk
  <2>1. /\ p - start \in 0 .. len - 1 /\ kind # "file" /\ p \in Int
        /\ pages'[q][p].blk = blks[p - start] /\ blks[p - start] \in Blocks
    BY <1>5, <1>6
  <2>2. /\ blks[p - start] \in free \ rest
        /\ \A k \in 0 .. len - 1 : blks[k] = blks[p - start] => k = p - start
    BY <2>1 DEF Available
  <2>3. \A t \in PM!Tables : NewTable(q, t) => tables'[q][t] # pages'[q][p].blk
    BY <1>4, <2>1, <2>2
  <2>4. ASSUME NEW r \in PM!Pages, NewPage(q, r), pages'[q][r].blk = pages'[q][p].blk
        PROVE  r = p
    <3>1. r - start \in 0 .. len - 1 /\ r \in Int /\ pages'[q][r].blk = blks[r - start]
      BY <1>5, <2>4
    <3>2. r - start = p - start
      BY <2>1, <2>2, <2>4, <3>1
    <3>3. QED
      BY <2>1, <3>1, <3>2
  <2>5. QED
    BY <1>2, <2>1, <2>2, <2>3, <2>4
<1>7. free' \subseteq free
  BY <1>2
<1>8. QED
  BY <1>1, <1>3, <1>4, <1>6, <1>7, ProcGiven

LEMMA AliveFacts ==
    ASSUME Alive
    PROVE  /\ pc \in OfProc0 => at["proc0"] \in live
           /\ pc \in OfDemo => at["demoProc"] \in live
           /\ \A q \in live : q \in MetaIds /\ metas[q] = "proc"
BY DEF Alive

(* What is said of a process that has no pages depends on nothing else.    *)
LEMMA EmptyOn ==
    ASSUME Alive, NEW g \in MetaIds \ live, tables'[g] = tables[g], pages'[g] = pages[g]
    PROVE  /\ \A t \in PM!Tables : tables'[g][t] = NULL
           /\ \A p \in PM!Pages : pages'[g][p].kind = "none"
<1>1. /\ \A t \in PM!Tables : tables[g][t] = NULL
      /\ \A p \in PM!Pages : pages[g][p].kind = "none"
  BY DEF Alive
<1>2. QED
  BY <1>1

LEMMA AliveOn ==
    ASSUME Alive, UNCHANGED <<live, at, metas>>, pc' \in OfProc0 \cup OfDemo \cup {"demoProc", "end"},
           pc' \in OfProc0 => pc \in OfProc0, pc' \in OfDemo => pc \in OfDemo,
           \A g \in MetaIds \ live : tables'[g] = tables[g] /\ pages'[g] = pages[g]
    PROVE  Alive'
<1>1. pc' \notin BeforeMagic \cup {"create proc0", "create demoProc"}
  BY DEF OfProc0, OfDemo, BeforeMagic, BeforeUroot, BeforeKroot
<1>2. pc' \in OfProc0 => at["proc0"] \in live
  BY AliveFacts
<1>3. pc' \in OfDemo => at["demoProc"] \in live
  BY AliveFacts
<1>4. \A g \in MetaIds \ live : /\ \A t \in PM!Tables : tables'[g][t] = NULL
                                /\ \A p \in PM!Pages : pages'[g][p].kind = "none"
  BY EmptyOn
<1>5. \A g \in live : g \in MetaIds /\ metas'[g] = "proc"
  BY AliveFacts
<1>6. pc' \notin BeforeMagic /\ pc' # "create proc0" /\ pc' # "create demoProc"
  BY <1>1
<1>7. QED
  BY <1>2, <1>3, <1>4, <1>5, <1>6 DEF Alive, OfProc0, OfDemo

(* A step that changes what process q has.                                 *)
LEMMA ProcParts ==
    ASSUME SysInv, IInv', fault = {}, UNCHANGED <<files, slot, metaVars, control>>,
           NEW q \in MetaIds, metas[q] = "proc",
           pc \in OfProc0 \cup OfDemo \cup {"create proc0", "create demoProc"},
           pc' \in OfProc0 \cup OfDemo \cup {"demoProc", "end"}, pc = "user" => pc' = "user",
           Alive', Calls', free' \subseteq Blocks, fault' \subseteq Faults,
           DOMAIN tables' = MetaIds, DOMAIN pages' = MetaIds, DOMAIN pageDir' = MetaIds,
           \A g \in MetaIds : DOMAIN tables'[g] = PM!Tables /\ DOMAIN pages'[g] = PM!Pages,
           \A g \in live' : g # q => /\ g \in live /\ tables'[g] = tables[g]
                                     /\ pages'[g] = pages[g] /\ pageDir'[g] = pageDir[g],
           NEW own, Shared(own), NEW own2 \in Owners, Keeps(q, own, own2),
           q \in live' => ProcHeld(q, own2)'
    PROVE  SysInv'
<1>1. Parts /\ IInv
  BY DEF SysInv
<1>2. UNCHANGED <<record, metas, metaBlk, at, names, size, program, files, slot>>
  BY DEF metaVars, control
<1>3. /\ pc \notin BeforeUroot /\ pc \notin BeforeKroot /\ pc # "end"
      /\ pc' \notin BeforeUroot /\ pc' \notin BeforeKroot
      /\ pc' \notin {"blank file0", "write file0", "blank demo", "write demo"}
      /\ pc \notin {"blank file0", "write file0", "blank demo", "write demo"}
  BY DEF OfProc0, OfDemo, BeforeUroot, BeforeKroot
<1>4. MemoryTypes'
  BY <1>1, <1>2 DEF Parts, MemoryTypes
<1>5. RoleMetas' /\ MetasApart'
  BY <1>1, <1>2, <1>3 DEF Parts, RoleMetas, MetasApart
<1>6. KernelFiles'
  <2>1. pc' \notin {"user", "end"} =>
           \A n \in DOMAIN names : n \in {"file0", "demo"} /\ names[n] = at[n]
    BY <1>1, <1>3 DEF Parts, KernelFiles, AfterDemo, OfProc0, OfDemo
  <2>2. pc' \in AfterDemo => "demo" \in DOMAIN names'
    <3>1. pc' \in AfterDemo => pc \in AfterDemo
      BY DEF AfterDemo, OfProc0, OfDemo
    <3>2. QED
      BY <1>1, <1>2, <3>1 DEF Parts, KernelFiles
  <2>3. QED
    BY <1>2, <1>3, <2>1, <2>2 DEF KernelFiles
<1>7. SmallRoots'
  BY <1>1, <1>2, <1>3 DEF Parts, SmallRoots
<1>8. Parts'
  BY <1>4, <1>5, <1>6, <1>7 DEF Parts
<1>9. q # NULL /\ q \notin Owned
  <2>1. metas[q] \notin {"dir", "file", "free"}
    OBVIOUS
  <2>2. QED
    BY <1>1, <2>1, OwnedMetas, MetaAssumption, PointerAssumption
<1>10. Owned' = Owned
  BY <1>2, <1>3 DEF Owned, Owns, Filled
<1>11. metaBlk' \in Blocks => Used(own2, metaBlk, <<NULL, "root", 0>>)'
  BY <1>2, <1>3, <1>9, MetaBlkFramed DEF BeforeKroot
<1>12. \A g \in Owned' : g # q => files'[g].blk = 0 \/ (g \in Owned /\ files'[g] = files[g])
  BY <1>2, <1>10
<1>13. \A g \in live' : g \in MetaIds
  BY DEF Alive, OfProc0, OfDemo
<1>14. MemoryTypes
  BY <1>1 DEF Parts
<1>15. Shared(own2)'
  BY <1>9, <1>10, <1>11, <1>12, <1>13, <1>14, SharedOn
<1>16. QED
  BY <1>8, <1>15 DEF SysInv

(* One that maps a segment for it.                                         *)
LEMMA MappingParts ==
    ASSUME SysInv, IInv', fault = {}, UNCHANGED <<files, slot, metaVars, control, live, pageDir>>,
           NEW q \in live, pc \in OfProc0 \cup OfDemo,
           pc' \in OfProc0 \cup OfDemo \cup {"demoProc", "end"}, pc = "user" => pc' = "user",
           pc' \in OfProc0 => pc \in OfProc0, pc' \in OfDemo => pc \in OfDemo, Calls',
           NEW start \in Nat, NEW len \in Nat, NEW kind, NEW blks, NEW rest \in SUBSET free,
           Available(kind, blks, len, rest), PM!MapSegment(q, start, len, kind, blks, rest)
    PROVE  SysInv'
<1>1. Parts /\ IInv
  BY DEF SysInv
<1>2. q \in MetaIds /\ metas[q] = "proc" /\ MemoryTypes
  BY <1>1 DEF Parts, Alive, OfProc0, OfDemo
<1>3. /\ free' \subseteq rest /\ fault' \subseteq Faults
      /\ DOMAIN tables' = MetaIds /\ DOMAIN pages' = MetaIds
      /\ DOMAIN tables'[q] = PM!Tables /\ DOMAIN pages'[q] = PM!Pages
      /\ \A g \in MetaIds : g # q => tables'[g] = tables[g] /\ pages'[g] = pages[g]
  <2>1. Mapping(q, start, len, kind, blks, rest)
    BY <1>2, MapSteps
  <2>2. QED
    BY <2>1 DEF Mapping
<1>4. Alive'
  BY <1>1, <1>3, AliveOn DEF Parts, metaVars
<1>5. PICK own \in Owners : Shared(own)
  BY DEF SysInv
<1>6. PICK own2 \in Owners : Keeps(q, own, own2) /\ ProcHeld(q, own2)'
  BY <1>1, <1>5, MappedHeld
<1>7. \A g \in MetaIds : DOMAIN tables'[g] = PM!Tables /\ DOMAIN pages'[g] = PM!Pages
  BY <1>2, <1>3 DEF MemoryTypes
<1>8. free' \subseteq Blocks /\ DOMAIN pageDir' = MetaIds
  BY <1>2, <1>3 DEF MemoryTypes
<1>9. \A g \in live' : g # q => /\ g \in live /\ tables'[g] = tables[g]
                                /\ pages'[g] = pages[g] /\ pageDir'[g] = pageDir[g]
  BY <1>1, <1>3 DEF Parts, Alive, OfProc0, OfDemo
<1>10. QED
  BY <1>2, <1>3, <1>4, <1>5, <1>6, <1>7, <1>8, <1>9, ProcParts

(* One that changes nothing but where the kernel is.                       *)
LEMMA IdleParts ==
    ASSUME SysInv, IInv', fault = {},
           UNCHANGED <<files, slot, free, mappings, metaVars, control, calls>>, fault' \subseteq Faults,
           pc \in OfProc0 \cup OfDemo,
           pc' \in OfProc0 \cup OfDemo \cup {"demoProc", "end"}, pc = "user" => pc' = "user",
           pc' \in OfProc0 => pc \in OfProc0, pc' \in OfDemo => pc \in OfDemo, Calls'
    PROVE  SysInv'
<1>1. Parts /\ IInv
  BY DEF SysInv
<1>2. PICK q \in live : TRUE
  BY <1>1 DEF Parts, Alive, OfProc0, OfDemo
<1>3. q \in MetaIds /\ metas[q] = "proc" /\ MemoryTypes
  BY <1>1, <1>2 DEF Parts, Alive, OfProc0, OfDemo
<1>4. UNCHANGED <<live, pageDir, tables, pages, at, metas>>
  BY DEF mappings, metaVars
<1>5. Alive'
  BY <1>1, <1>4, AliveOn DEF Parts
<1>6. PICK own \in Owners : Shared(own)
  BY DEF SysInv
<1>7. Keeps(q, own, own)
  BY DEF Keeps
<1>8. ProcHeld(q, own)'
  <2>1. ProcHeld(q, own)
    BY <1>3, <1>6 DEF Shared
  <2>2. Keeps(NULL, own, own) /\ q # NULL
    BY <1>3, MetaAssumption, PointerAssumption DEF Keeps
  <2>3. QED
    BY <1>4, <2>1, <2>2, ProcFramed
<1>9. /\ free' \subseteq Blocks /\ fault' \subseteq Faults
      /\ DOMAIN tables' = MetaIds /\ DOMAIN pages' = MetaIds /\ DOMAIN pageDir' = MetaIds
      /\ \A g \in MetaIds : DOMAIN tables'[g] = PM!Tables /\ DOMAIN pages'[g] = PM!Pages
  BY <1>3, <1>4 DEF MemoryTypes
<1>10. \A g \in live' : g # q => /\ g \in live /\ tables'[g] = tables[g]
                                 /\ pages'[g] = pages[g] /\ pageDir'[g] = pageDir[g]
  BY <1>4
<1>11. UNCHANGED <<files, slot, metaVars, control>>
  OBVIOUS
<1>12. pc \in OfProc0 \cup OfDemo \cup {"create proc0", "create demoProc"}
  OBVIOUS
<1>13. QED
  BY <1>3, <1>5, <1>6, <1>7, <1>8, <1>9, <1>10, <1>11, <1>12, ProcParts

(* One in which the allocator loses track and nothing else happens.        *)
LEMMA LostParts ==
    ASSUME SysInv, IInv', fault' = {"lost track"}, pc' = pc, pc # "user",
           UNCHANGED <<files, slot, free, mappings, metaVars, control, calls>>
    PROVE  SysInv'
<1>1. Parts
  BY DEF SysInv
<1>2. UNCHANGED <<metas, at, names, size, program, live, pageDir, tables, pages>>
  BY DEF metaVars, control, mappings
<1>3. MemoryTypes'
  BY <1>1, <1>2 DEF Parts, MemoryTypes, Faults
<1>4. KernelFiles'
  BY <1>1, <1>2 DEF Parts, KernelFiles
<1>5. SmallRoots'
  BY <1>1, <1>2 DEF Parts, SmallRoots
<1>6. Alive'
  BY <1>1, <1>2 DEF Parts, Alive
<1>7. Parts'
  BY <1>1, <1>2, <1>3, <1>4, <1>5, <1>6, PartsOn
<1>8. QED
  BY <1>7 DEF SysInv

LEMMA MinusOne == -1 # 0
OBVIOUS

LEMMA CreateProcParts ==
    ASSUME SysInv, IInv', fault = {}, UNCHANGED calls, NEW role, NEW step, NEW next,
           \/ role = "proc0" /\ step = "create proc0" /\ next = "map kernel"
           \/ role = "demoProc" /\ step = "create demoProc" /\ next = "header",
           CreateProc(role, step, next)
    PROVE  SysInv'
<1> DEFINE p == at[role]
<1>1. Parts /\ IInv /\ MemoryTypes
  BY DEF SysInv, Parts
<1>2. /\ pc = step /\ PM!CreateProc(p) /\ Returned(next)
      /\ UNCHANGED <<files, slot, metaVars, control>>
  BY DEF CreateProc, OthersStay
<1>3. p # NULL /\ p \in MetaIds /\ metas[p] = "proc"
  BY <1>1, <1>2 DEF Parts, Alive, OfProc0, OfDemo, RoleMetas, IInv, Typed, Roles
<1>4. PICK q \in MetaIds : q = p
  BY <1>3
<1>5. PM!CreateProc(q) /\ metas[q] = "proc" /\ q = at[role]
  BY <1>2, <1>3, <1>4
<1> HIDE DEF p
<1>6. CASE fault' # {}
  <2>1. ~(UNCHANGED fault)
    BY <1>6
  <2>2. fault' = {"lost track"} /\ UNCHANGED <<live, pageDir, free, tables, pages>>
    BY <1>5, <2>1 DEF PM!CreateProc, PM!Fail
  <2>3. pc' = pc /\ pc # "user"
    BY <1>2, <1>6 DEF Returned
  <2>4. QED
    BY <1>2, <2>2, <2>3, LostParts DEF mappings
<1> SUFFICES ASSUME fault' = {} PROVE SysInv'
  BY <1>6
<1>61. q \notin live /\ UNCHANGED <<tables, pages, fault>>
  BY <1>5 DEF PM!CreateProc
<1>7. UNCHANGED <<at, metas>>
  BY <1>2 DEF metaVars
<1>8. Calls'
  BY <1>1, <1>2, NoCallsYet DEF Parts
<1>9. pc' = (IF ret' = 0 THEN next ELSE "end")
  BY <1>2 DEF Returned, Goto
<1>10. /\ pc \in {"create proc0", "create demoProc"} /\ pc # "user"
       /\ pc' \in OfProc0 \cup OfDemo \cup {"demoProc", "end"}
       /\ pc' \notin BeforeMagic \cup {"create proc0", "create demoProc"}
       /\ pc' \in OfProc0 => ret' = 0 /\ role = "proc0"
       /\ pc' \in OfDemo => ret' = 0 /\ role = "demoProc"
  BY <1>2, <1>9 DEF OfProc0, OfDemo, BeforeMagic, BeforeUroot, BeforeKroot
<1>11. \A g \in MetaIds \ live : /\ \A t \in PM!Tables : tables[g][t] = NULL
                                 /\ \A x \in PM!Pages : pages[g][x].kind = "none"
  BY <1>1 DEF Parts, Alive, OfProc0, OfDemo
<1>12. \A g \in live : g \in MetaIds /\ metas[g] = "proc"
  BY <1>1 DEF Parts, Alive, OfProc0, OfDemo
<1>13. ASSUME live' \subseteq live \cup {q}, live \subseteq live', ret' = 0 => q \in live'
       PROVE  Alive'
  <2>1. \A g \in live' : g \in MetaIds /\ metas'[g] = "proc"
    BY <1>5, <1>7, <1>12, <1>13
  <2>2. \A g \in MetaIds \ live' : /\ \A t \in PM!Tables : tables'[g][t] = NULL
                                   /\ \A x \in PM!Pages : pages'[g][x].kind = "none"
    BY <1>61, <1>11, <1>13
  <2>3. pc' \in OfProc0 => at'["proc0"] \in live'
    BY <1>5, <1>7, <1>10, <1>13
  <2>4. pc' \in OfDemo => at'["demoProc"] \in live'
    BY <1>5, <1>7, <1>10, <1>13
  <2>5. pc' \notin BeforeMagic /\ pc' # "create proc0" /\ pc' # "create demoProc"
    BY <1>10
  <2>6. QED
    BY <2>1, <2>2, <2>3, <2>4, <2>5 DEF Alive, OfProc0, OfDemo
<1>14. PICK own \in Owners : Shared(own)
  BY DEF SysInv
<1>15. ASSUME Alive', free' \subseteq Blocks, DOMAIN pageDir' = MetaIds,
              \A g \in live' : g # q => g \in live /\ pageDir'[g] = pageDir[g],
              NEW own2 \in Owners, Keeps(q, own, own2), q \in live' => ProcHeld(q, own2)'
       PROVE  SysInv'
  <2>1. DOMAIN tables' = MetaIds /\ DOMAIN pages' = MetaIds /\ DOMAIN pageDir' = MetaIds
    BY <1>1, <1>61, <1>15 DEF MemoryTypes
  <2>2. fault' \subseteq Faults
    BY <1>61
  <2>3. \A g \in MetaIds : DOMAIN tables'[g] = PM!Tables /\ DOMAIN pages'[g] = PM!Pages
    BY <1>1, <1>61 DEF MemoryTypes
  <2>4. \A g \in live' : g # q => /\ g \in live /\ tables'[g] = tables[g]
                                  /\ pages'[g] = pages[g] /\ pageDir'[g] = pageDir[g]
    BY <1>61, <1>15
  <2>5. UNCHANGED <<files, slot, metaVars, control>>
    BY <1>2
  <2>6. pc \in OfProc0 \cup OfDemo \cup {"create proc0", "create demoProc"}
    BY <1>10
  <2>7. QED
    BY <1>5, <1>8, <1>10, <1>14, <1>15, <2>1, <2>2, <2>3, <2>4, <2>5, <2>6, ProcParts
<1>16. ASSUME NEW r \in PM!Store!OnlyFit(free, 1), pageDir' = [pageDir EXCEPT ![q] = r[1]],
              free' = free \ {r[1]}, live' = live \cup {q}
       PROVE  SysInv'
  <2> DEFINE b == r[1]
             own2 == [own EXCEPT ![b] = <<q, "root", 0>>]
  <2>1. b \in free /\ b \in Blocks
    BY <1>1, <1>16 DEF PM!Store!OnlyFit, PM!Store!BestFits, PM!Store!Runs, MemoryTypes
  <2>2. /\ DOMAIN pageDir = MetaIds /\ pageDir'[q] = b /\ free' = free \ {b}
        /\ \A g \in MetaIds : g # q => pageDir'[g] = pageDir[g]
        /\ DOMAIN pageDir' = MetaIds
    BY <1>1, <1>16 DEF MemoryTypes
  <2> HIDE DEF b
  <2>3. own2 \in Owners /\ own2[b] = <<q, "root", 0>> /\ \A x \in Blocks : x # b => own2[x] = own[x]
    <3>1. <<q, "root", 0>> \in Tags
      BY DEF Tags
    <3>2. QED
      BY <2>1, <3>1 DEF Owners
  <2> HIDE DEF own2
  <2>4. Keeps(q, own, own2)
    BY <1>2, <2>1, <2>2, <2>3 DEF Keeps
  <2>5. Alive'
    BY <1>13, <1>16
  <2>6. ProcHeld(q, own2)'
    <3>1. /\ \A t \in PM!Tables : tables'[q][t] = NULL
          /\ \A x \in PM!Pages : pages'[q][x].kind = "none"
      BY <1>61, <1>11
    <3>2. Used(own2, pageDir[q], <<q, "root", 0>>)'
      BY <2>1, <2>2, <2>3 DEF Used
    <3>3. QED
      BY <3>1, <3>2, NullAssumption DEF ProcHeld
  <2>7. free' \subseteq Blocks
    BY <1>1, <2>2 DEF MemoryTypes
  <2>8. DOMAIN pageDir' = MetaIds
    BY <1>1, <1>16 DEF MemoryTypes
  <2>9. \A g \in live' : g # q => g \in live /\ pageDir'[g] = pageDir[g]
    BY <1>12, <1>16, <2>2
  <2>10. QED
    BY <1>15, <2>3, <2>4, <2>5, <2>6, <2>7, <2>8, <2>9
<1>17. ASSUME pageDir' = [pageDir EXCEPT ![q] = NULL], ret' = -1, UNCHANGED <<live, free>>
       PROVE  SysInv'
  <2>1. Alive'
    <3>1. ret' # 0 /\ live' = live
      BY <1>17, MinusOne
    <3>2. QED
      BY <1>13, <3>1
  <2>2. Keeps(q, own, own)
    BY <1>2, <1>17 DEF Keeps
  <2>3. DOMAIN pageDir' = MetaIds
    BY <1>1, <1>17 DEF MemoryTypes
  <2>4. \A g \in live' : g # q => g \in live /\ pageDir'[g] = pageDir[g]
    BY <1>1, <1>12, <1>17 DEF MemoryTypes
  <2>5. q \notin live' /\ free' \subseteq Blocks
    BY <1>1, <1>61, <1>17 DEF MemoryTypes
  <2>6. QED
    BY <1>14, <1>15, <2>1, <2>2, <2>3, <2>4, <2>5
<1>18. ~PM!Fail("lost track")
  BY DEF PM!Fail
<1>19. QED
  BY <1>5, <1>16, <1>17, <1>18 DEF PM!CreateProc

-----------------------------------------------------------------------------
(* Starting the processes.                                                 *)

Starts(role, step, next) ==
    \/ role = "proc0" /\ step \in OfProc0 /\ next \in OfProc0 \cup {"demoProc"}
    \/ role = "demoProc" /\ step \in OfDemo \ {"user"} /\ next \in OfDemo

LEMMA StartStep ==
    ASSUME SysInv, UNCHANGED calls, NEW role, NEW step, NEW next, Starts(role, step, next),
           pc = step, pc' \in {pc, next, "end"}
    PROVE  /\ at[role] \in live
           /\ pc \in OfProc0 \cup OfDemo /\ pc # "user"
           /\ pc' \in OfProc0 \cup OfDemo \cup {"demoProc", "end"}
           /\ pc' \in OfProc0 => pc \in OfProc0
           /\ pc' \in OfDemo => pc \in OfDemo
           /\ Calls'
<1>1. pc # "user"
  BY DEF Starts, OfProc0, OfDemo
<1>2. Calls'
  BY <1>1, NoCallsYet DEF SysInv, Parts
<1>3. at[role] \in live
  <2>1. Alive
    BY DEF SysInv, Parts
  <2>2. CASE role = "proc0"
    BY <2>1, <2>2 DEF Alive, Starts, OfProc0, OfDemo
  <2>3. CASE role = "demoProc"
    BY <2>1, <2>3 DEF Alive, Starts, OfProc0, OfDemo
  <2>4. QED
    BY <2>2, <2>3 DEF Starts
<1>4. QED
  BY <1>1, <1>2, <1>3 DEF Starts, OfProc0, OfDemo

LEMMA ReturnedTo == ASSUME NEW next, Returned(next) PROVE pc' \in {pc, next, "end"}
BY DEF Returned, Goto

LEMMA ModNat == \A n \in Nat, m \in Nat \ {0} : (n % m) \in Nat
OBVIOUS

LEMMA TimesNat == \A n \in Nat, m \in Nat : n * m \in Nat
OBVIOUS

LEMMA TimesPositive == \A n \in Nat \ {0}, m \in Nat \ {0} : n * m \in Nat \ {0}
<1> SUFFICES ASSUME NEW n \in Nat \ {0}, NEW m \in Nat \ {0} PROVE n * m \in Nat \ {0}
  OBVIOUS
<1>1. n * m \in Nat
  OBVIOUS
<1>2. n * m # 0
  OBVIOUS
<1>3. QED
  BY <1>1, <1>2

LEMMA PagesFit ==
    /\ \A addr \in Nat : PM!PageUp(addr) \in Nat /\ RoundUp(addr) \in Nat
    /\ \A page \in Nat : Address(page) \in Nat
<1>1. PM!Span \in Nat \ {0}
  BY BootAssumption, TimesPositive DEF PM!Span
<1>2. ASSUME NEW addr \in Nat PROVE (addr + BlockBytes - 1) \div BlockBytes \in Nat
  <2>1. addr + BlockBytes - 1 \in Nat
    BY BytesAssumption
  <2>2. QED
    BY <2>1, BytesAssumption, DivMod
<1>3. ASSUME NEW addr \in Nat PROVE PM!PageUp(addr) \in Nat /\ RoundUp(addr) \in Nat
  <2>1. ((addr + BlockBytes - 1) \div BlockBytes) % PM!Span \in Nat
    BY <1>1, <1>2, ModNat
  <2>2. QED
    BY <1>2, <2>1 DEF PM!PageUp, RoundUp
<1>4. \A page \in Nat : Address(page) \in Nat
  BY BytesAssumption, TimesNat DEF Address
<1>5. QED
  BY <1>3, <1>4

(* What the allocator gives is taken from the free blocks.                 *)
LEMMA FitsAvailable ==
    ASSUME MemoryTypes, NEW n \in Nat, NEW r \in Store!BestFits(free, n), NEW kind
    PROVE  Available(kind, [i \in 0 .. n - 1 |-> r[1] + i], n, free \ (r[1] .. r[1] + n - 1))
<1>1. /\ r[1] \in free /\ r[2] \in free
      /\ r[1] .. r[2] \subseteq free
      /\ r[2] - r[1] + 1 >= n
  BY DEF Store!BestFits, Store!Runs, Store!Size
<1>2. r[1] \in Nat /\ r[2] \in Nat
  BY <1>1, BlocksAssumption DEF MemoryTypes
<1>3. ASSUME NEW j \in 0 .. n - 1
      PROVE  r[1] + j \in free /\ r[1] + j \in r[1] .. r[1] + n - 1
  <2>1. r[1] + j \in r[1] .. r[2] /\ r[1] + j \in r[1] .. r[1] + n - 1
    BY <1>1, <1>2
  <2>2. QED
    BY <1>1, <2>1
<1>4. \A j, k \in 0 .. n - 1 : r[1] + j = r[1] + k => k = j
  BY <1>2
<1>5. QED
  BY <1>3, <1>4 DEF Available

LEMMA OutsideAvailable ==
    ASSUME NEW n, NEW kind, NEW rest
    PROVE  Available(kind, PM!Outside(n), n, rest)
BY NullAssumption DEF Available, PM!Outside

LEMMA SameFits == \A S, n : PM!Store!BestFits(S, n) = Store!BestFits(S, n)
BY DEF PM!Store!BestFits, Store!BestFits, PM!Store!Runs, Store!Runs, PM!Store!Size, Store!Size

LEMMA OnlyFits == \A S, n : PM!Store!OnlyFit(S, n) \subseteq Store!BestFits(S, n)
BY SameFits DEF PM!Store!OnlyFit

(* The blocks proc_allocBlks is given.                                     *)
LEMMA AllocPartsOf ==
    ASSUME SysInv, IInv', fault = {}, UNCHANGED <<files, slot, metaVars, control, calls>>,
           NEW role, NEW step, NEW next, Starts(role, step, next), pc = step, pc' \in {pc, next, "end"},
           NEW addr \in Nat, NEW len \in Nat, PM!AllocBlks(at[role], addr, len)
    PROVE  SysInv'
<1>1. /\ at[role] \in live
      /\ pc \in OfProc0 \cup OfDemo /\ pc # "user"
      /\ pc' \in OfProc0 \cup OfDemo \cup {"demoProc", "end"}
      /\ pc' \in OfProc0 => pc \in OfProc0
      /\ pc' \in OfDemo => pc \in OfDemo
      /\ Calls'
  BY StartStep
<1>2. PICK q \in live : q = at[role]
  BY <1>1
<1>3. PICK start \in Nat : start = PM!PageUp(addr)
  BY PagesFit
<1>4. UNCHANGED <<live, pageDir>>
  BY DEF PM!AllocBlks
<1>5. MemoryTypes
  BY DEF SysInv, Parts
<1>6. ASSUME NEW blks, NEW rest \in SUBSET free, Available("anon", blks, len, rest),
             PM!MapSegment(q, start, len, "anon", blks, rest)
      PROVE  SysInv'
  BY <1>1, <1>4, <1>6, MappingParts
<1>7. \/ \E r \in Store!BestFits(free, len) :
            PM!MapSegment(q, start, len, "anon", [i \in 0 .. len - 1 |-> r[1] + i],
                          free \ (r[1] .. r[1] + len - 1))
      \/ PM!MapSegment(q, start, len, "anon", PM!Outside(len), free)
      \/ PM!Fail("lost track") /\ UNCHANGED <<tables, pages, free>>
  BY <1>2, <1>3, OnlyFits DEF PM!AllocBlks, PM!Segment
<1>8. CASE PM!MapSegment(q, start, len, "anon", PM!Outside(len), free)
  BY <1>6, <1>8, OutsideAvailable
<1>9. ASSUME NEW r \in Store!BestFits(free, len),
             PM!MapSegment(q, start, len, "anon", [i \in 0 .. len - 1 |-> r[1] + i],
                           free \ (r[1] .. r[1] + len - 1))
      PROVE  SysInv'
  <2>1. Available("anon", [i \in 0 .. len - 1 |-> r[1] + i], len, free \ (r[1] .. r[1] + len - 1))
    BY <1>5, FitsAvailable
  <2>2. QED
    BY <1>6, <1>9, <2>1
<1>10. CASE PM!Fail("lost track") /\ UNCHANGED <<tables, pages, free>>
  <2>1. fault' \subseteq Faults
    BY <1>10 DEF PM!Fail, Faults
  <2>2. UNCHANGED <<files, slot, free, mappings, metaVars, control, calls>>
    BY <1>4, <1>10 DEF mappings
  <2>3. QED
    BY <1>1, <2>1, <2>2, IdleParts
<1>11. QED
  BY <1>7, <1>8, <1>9, <1>10

(* Blocks that are given to be mapped.                                     *)
LEMMA BlocksPartsOf ==
    ASSUME SysInv, IInv', fault = {}, UNCHANGED <<files, slot, metaVars, control, calls>>,
           NEW role, NEW step, NEW next, Starts(role, step, next), pc = step, pc' \in {pc, next, "end"},
           NEW page \in Nat, NEW kind, NEW blks, NEW rest \in SUBSET free,
           Cardinality(DOMAIN blks) \in Nat, Available(kind, blks, Cardinality(DOMAIN blks), rest),
           MapBlocks(at[role], page, kind, blks, rest)
    PROVE  SysInv'
<1>1. /\ at[role] \in live
      /\ pc \in OfProc0 \cup OfDemo /\ pc # "user"
      /\ pc' \in OfProc0 \cup OfDemo \cup {"demoProc", "end"}
      /\ pc' \in OfProc0 => pc \in OfProc0
      /\ pc' \in OfDemo => pc \in OfDemo
      /\ Calls'
  BY StartStep
<1>2. PICK q \in live : q = at[role]
  BY <1>1
<1>3. /\ PM!MapSegment(q, page, Cardinality(DOMAIN blks), kind, blks, rest)
      /\ UNCHANGED <<live, pageDir>>
  BY <1>2 DEF MapBlocks
<1>4. PICK len \in Nat : len = Cardinality(DOMAIN blks)
  OBVIOUS
<1>5. QED
  BY <1>1, <1>3, <1>4, MappingParts

LEMMA KernelPartsOf ==
    ASSUME SysInv, IInv', fault = {}, UNCHANGED <<files, slot, metaVars, control, calls>>,
           NEW role, NEW step, NEW next, Starts(role, step, next), pc = step, pc' \in {pc, next, "end"},
           NEW addr \in Nat, NEW len \in Nat, PM!MapKernel(at[role], addr, len)
    PROVE  SysInv'
<1>1. /\ at[role] \in live
      /\ pc \in OfProc0 \cup OfDemo /\ pc # "user"
      /\ pc' \in OfProc0 \cup OfDemo \cup {"demoProc", "end"}
      /\ pc' \in OfProc0 => pc \in OfProc0
      /\ pc' \in OfDemo => pc \in OfDemo
      /\ Calls'
  BY StartStep
<1>2. PICK q \in live : q = at[role]
  BY <1>1
<1>3. PICK start \in Nat : start = PM!PageUp(addr)
  BY PagesFit
<1>4. /\ PM!MapSegment(q, start, len, "kernel", PM!Outside(len), free)
      /\ UNCHANGED <<live, pageDir>>
  BY <1>2, <1>3 DEF PM!MapKernel, PM!Map
<1>5. Available("kernel", PM!Outside(len), len, free)
  BY OutsideAvailable
<1>6. QED
  BY <1>1, <1>4, <1>5, MappingParts

(* What file_getMap gives is finite.                                       *)
LEMMA FileMapFinite ==
    ASSUME MemoryTypes, fault = {}, NEW i \in MetaIds, NEW from \in Nat, NEW len \in Nat
    PROVE  /\ IsFiniteSet(DOMAIN FileMap(i, from, len))
           /\ Cardinality(DOMAIN FileMap(i, from, len)) \in Nat
<1> DEFINE count == IF from + len > files[i].blk THEN files[i].blk - from ELSE len
<1>1. files[i].blk \in Nat
  BY DEF MemoryTypes, Metas
<1>2. count \in Int
  BY <1>1
<1>3. DOMAIN FileMap(i, from, len) \subseteq 0 .. count - 1
  BY OpenedParts DEF FileMap
<1> HIDE DEF count
<1>4. IsFiniteSet(0 .. count - 1)
  BY <1>2, FS_Interval
<1>5. QED
  BY <1>3, <1>4, FS_Subset, FS_CardinalityType

LEMMA StackBlocks ==
    /\ DOMAIN PM!Outside(2) = 0 .. 1
    /\ \A x : DOMAIN [k \in 0 .. 1 |-> x + k] = 0 .. 1
    /\ Cardinality(0 .. 1) = 2
    /\ 2 - 1 = 1
<1>1. Cardinality(0 .. 1) = 2
  <2>1. 0 \in Int /\ 1 \in Int /\ ~(0 > 1) /\ 1 - 0 + 1 = 2
    OBVIOUS
  <2>2. Cardinality(0 .. 1) = IF 0 > 1 THEN 0 ELSE 1 - 0 + 1
    BY <2>1, FS_Interval
  <2>3. QED
    BY <2>1, <2>2
<1>2. QED
  BY <1>1 DEF PM!Outside

LEMMA StartProc0Parts ==
    ASSUME SysInv, IInv', fault = {}, UNCHANGED calls, StartProc0
    PROVE  SysInv'
<1>1. ASSUME NEW role, NEW root, NEW flags, NEW next,
             Entering(role, root, flags, next), Enter(role, root, flags, next)
      PROVE  SysInv'
  BY <1>1, EnterParts
<1>2. CASE Enter("proc0", "kroot", "proc", "create proc0")
  BY <1>1, <1>2 DEF Entering
<1>3. CASE CreateProc("proc0", "create proc0", "map kernel")
  BY <1>3, CreateProcParts
<1>4. Parts /\ MemoryTypes
  BY DEF SysInv, Parts
<1>5. \A x \in Nat : Address(x) \in Nat
  BY PagesFit
<1>6. LowPage \in Nat /\ ExecPage \in Nat /\ StackPage \in Nat /\ UstackPage \in Nat
  BY BootAssumption DEF LowPage, ExecPage, StackPage, UstackPage
<1>7. CASE MapKernel("proc0", "map kernel", LowPage, "map file0")
  <2>1. /\ pc = "map kernel" /\ PM!MapKernel(at["proc0"], Address(LowPage), 2)
        /\ UNCHANGED <<files, slot, metaVars, control>>
    BY <1>7 DEF MapKernel, OthersStay
  <2>2. pc' \in {pc, "map file0", "end"}
    BY <1>7, ReturnedTo DEF MapKernel
  <2>3. Starts("proc0", "map kernel", "map file0")
    BY DEF Starts, OfProc0
  <2>4. QED
    BY <1>5, <1>6, <2>1, <2>2, <2>3, KernelPartsOf
<1>8. CASE AllocBlks("proc0", "stack", StackPage, "syscall stack")
  <2>1. /\ pc = "stack" /\ PM!AllocBlks(at["proc0"], Address(StackPage), 2)
        /\ UNCHANGED <<files, slot, metaVars, control>>
    BY <1>8 DEF AllocBlks, OthersStay
  <2>2. pc' \in {pc, "syscall stack", "end"}
    BY <1>8, ReturnedTo DEF AllocBlks
  <2>3. Starts("proc0", "stack", "syscall stack")
    BY DEF Starts, OfProc0
  <2>4. QED
    BY <1>5, <1>6, <2>1, <2>2, <2>3, AllocPartsOf
<1>9. CASE MapFile0
  <2> DEFINE blks == FileMap(at["file0"], 0, 2)
  <2>1. /\ pc = "map file0" /\ UNCHANGED <<files, slot, metaVars, control>>
        /\ \/ pc' = "end" /\ UNCHANGED <<free, fault, ret, mappings>>
           \/ /\ Cardinality(DOMAIN blks) = 2
              /\ MapBlocks(at["proc0"], ExecPage, "file", blks, free) /\ Returned("stack")
    BY <1>9 DEF MapFile0, OthersStay, Goto
  <2>2. Starts("proc0", "map file0", "stack")
    BY DEF Starts, OfProc0
  <2> HIDE DEF blks
  <2>3. CASE pc' = "end" /\ UNCHANGED <<free, fault, ret, mappings>>
    <3>1. pc' \in {pc, "stack", "end"}
      BY <2>3
    <3>2. /\ pc \in OfProc0 \cup OfDemo /\ pc # "user"
          /\ pc' \in OfProc0 \cup OfDemo \cup {"demoProc", "end"}
          /\ pc' \in OfProc0 => pc \in OfProc0
          /\ pc' \in OfDemo => pc \in OfDemo
          /\ Calls'
      BY <2>1, <2>2, <3>1, StartStep
    <3>3. UNCHANGED <<files, slot, free, mappings, metaVars, control, calls>> /\ fault' \subseteq Faults
      BY <1>4, <2>1, <2>3 DEF MemoryTypes
    <3>4. QED
      BY <3>2, <3>3, IdleParts
  <2>4. CASE /\ Cardinality(DOMAIN blks) = 2
             /\ MapBlocks(at["proc0"], ExecPage, "file", blks, free) /\ Returned("stack")
    <3>1. pc' \in {pc, "stack", "end"}
      BY <2>4, ReturnedTo
    <3>2. Cardinality(DOMAIN blks) \in Nat
      BY <2>4
    <3>3. Available("file", blks, Cardinality(DOMAIN blks), free)
      BY DEF Available
    <3>4. QED
      BY <1>6, <2>1, <2>2, <2>4, <3>1, <3>2, <3>3, BlocksPartsOf
  <2>5. QED
    BY <2>1, <2>3, <2>4
<1>10. CASE MapSyscallStack
  <2>1. /\ pc = "syscall stack" /\ UNCHANGED <<files, slot, metaVars, control>>
        /\ pc' \in {pc, "demoProc", "end"}
        /\ \/ MapBlocks(at["proc0"], UstackPage, "kernel", PM!Outside(2), free)
           \/ \E r \in Store!BestFits(free, 2) :
                 MapBlocks(at["proc0"], UstackPage, "kernel", [k \in 0 .. 1 |-> r[1] + k],
                           free \ {r[1], r[1] + 1})
    BY <1>10, ReturnedTo DEF MapSyscallStack, OthersStay
  <2>2. Starts("proc0", "syscall stack", "demoProc")
    BY DEF Starts, OfProc0
  <2>3. ASSUME NEW blks, NEW rest \in SUBSET free, DOMAIN blks = 0 .. 1,
               Available("kernel", blks, 2, rest),
               MapBlocks(at["proc0"], UstackPage, "kernel", blks, rest)
        PROVE  SysInv'
    <3>1. Cardinality(DOMAIN blks) \in Nat /\ Cardinality(DOMAIN blks) = 2
      BY <2>3, StackBlocks
    <3>2. Available("kernel", blks, Cardinality(DOMAIN blks), rest)
      BY <2>3, <3>1
    <3>3. QED
      BY <1>6, <2>1, <2>2, <2>3, <3>1, <3>2, BlocksPartsOf
  <2>4. CASE MapBlocks(at["proc0"], UstackPage, "kernel", PM!Outside(2), free)
    BY <2>3, <2>4, StackBlocks, OutsideAvailable
  <2>5. ASSUME NEW r \in Store!BestFits(free, 2),
               MapBlocks(at["proc0"], UstackPage, "kernel", [k \in 0 .. 1 |-> r[1] + k],
                         free \ {r[1], r[1] + 1})
        PROVE  SysInv'
    <3>1. r[1] \in Nat
      BY <1>4, <2>5, BlocksAssumption DEF Store!BestFits, Store!Runs, MemoryTypes
    <3>2. r[1] .. r[1] + 2 - 1 = {r[1], r[1] + 1}
      BY <3>1
    <3>3. Available("kernel", [k \in 0 .. 2 - 1 |-> r[1] + k], 2, free \ (r[1] .. r[1] + 2 - 1))
      BY <1>4, <2>5, FitsAvailable
    <3>4. [k \in 0 .. 2 - 1 |-> r[1] + k] = [k \in 0 .. 1 |-> r[1] + k]
      BY StackBlocks
    <3>5. PICK blks : blks = [k \in 0 .. 1 |-> r[1] + k]
      OBVIOUS
    <3>6. PICK rest \in SUBSET free : rest = free \ {r[1], r[1] + 1}
      OBVIOUS
    <3>7. DOMAIN blks = 0 .. 1 /\ Available("kernel", blks, 2, rest)
      BY <3>2, <3>3, <3>4, <3>5, <3>6
    <3>8. QED
      BY <2>3, <2>5, <3>5, <3>6, <3>7
  <2>6. QED
    BY <2>1, <2>4, <2>5
<1>11. QED
  BY <1>2, <1>3, <1>7, <1>8, <1>9, <1>10 DEF StartProc0

(* Where the loader is in the list of segments.                            *)
Loading ==
    /\ seg \in Nat /\ program \in Programs
    /\ pc = "bss" /\ fault = {} => seg < Len(program.segs)

LEMMA LoadingOn ==
    ASSUME Loading, UNCHANGED <<seg, program>>, pc' # "bss"
    PROVE  Loading'
BY DEF Loading

LEMMA LoadingKeeps == Loading /\ [Next]_sysVars => Loading'
<1> SUFFICES ASSUME Loading, [Next]_sysVars PROVE Loading'
  OBVIOUS
<1>1. ASSUME Create PROVE UNCHANGED <<seg, program>> /\ pc' # "bss"
  BY <1>1 DEF Create, CreateAllocator, Write, CreateRoot, Goto, control
<1>2. ASSUME AddFiles PROVE UNCHANGED <<seg, program>> /\ pc' # "bss"
  BY <1>2 DEF AddFiles, Enter, BlankFile, AppendFile0, AppendDemo, AppendTo, Goto, control
<1>3. ASSUME StartProc0 PROVE UNCHANGED <<seg, program>> /\ pc' # "bss"
  <2>1. CASE Enter("proc0", "kroot", "proc", "create proc0")
    BY <2>1 DEF Enter, Goto, control
  <2>2. CASE CreateProc("proc0", "create proc0", "map kernel")
    <3>1. pc' \in {pc, "map kernel", "end"}
      BY <2>2, ReturnedTo DEF CreateProc
    <3>2. pc = "create proc0" /\ UNCHANGED <<seg, program>>
      BY <2>2 DEF CreateProc, OthersStay, control
    <3>3. QED
      BY <3>1, <3>2
  <2>3. CASE MapKernel("proc0", "map kernel", LowPage, "map file0")
    <3>1. pc' \in {pc, "map file0", "end"}
      BY <2>3, ReturnedTo DEF MapKernel
    <3>2. pc = "map kernel" /\ UNCHANGED <<seg, program>>
      BY <2>3 DEF MapKernel, OthersStay, control
    <3>3. QED
      BY <3>1, <3>2
  <2>4. CASE MapFile0
    <3>1. pc' = "end" \/ Returned("stack")
      BY <2>4 DEF MapFile0, Goto
    <3>2. pc' \in {pc, "stack", "end"}
      BY <3>1, ReturnedTo
    <3>3. pc = "map file0" /\ UNCHANGED <<seg, program>>
      BY <2>4 DEF MapFile0, OthersStay, control
    <3>4. QED
      BY <3>2, <3>3
  <2>5. CASE AllocBlks("proc0", "stack", StackPage, "syscall stack")
    <3>1. pc' \in {pc, "syscall stack", "end"}
      BY <2>5, ReturnedTo DEF AllocBlks
    <3>2. pc = "stack" /\ UNCHANGED <<seg, program>>
      BY <2>5 DEF AllocBlks, OthersStay, control
    <3>3. QED
      BY <3>1, <3>2
  <2>6. CASE MapSyscallStack
    <3>1. pc' \in {pc, "demoProc", "end"}
      BY <2>6, ReturnedTo DEF MapSyscallStack
    <3>2. pc = "syscall stack" /\ UNCHANGED <<seg, program>>
      BY <2>6 DEF MapSyscallStack, OthersStay, control
    <3>3. QED
      BY <3>1, <3>2
  <2>7. QED
    BY <1>3, <2>1, <2>2, <2>3, <2>4, <2>5, <2>6 DEF StartProc0
<1>4. ASSUME StartDemo, fault = {} PROVE Loading'
  <2>1. CASE Enter("demoProc", "kroot", "proc", "create demoProc")
    BY <2>1, LoadingOn DEF Enter, Goto, control
  <2>2. CASE CreateProc("demoProc", "create demoProc", "header")
    <3>1. pc' \in {pc, "header", "end"}
      BY <2>2, ReturnedTo DEF CreateProc
    <3>2. pc = "create demoProc" /\ UNCHANGED <<seg, program>>
      BY <2>2 DEF CreateProc, OthersStay, control
    <3>3. QED
      BY <3>1, <3>2, LoadingOn
  <2>3. CASE CheckHeader
    BY <2>3 DEF CheckHeader, Goto, control, Loading
  <2>4. CASE LoadFile
    <3>1. seg < Len(program.segs) /\ UNCHANGED <<seg, program>>
      BY <2>4 DEF LoadFile, OthersStay, control
    <3>2. QED
      BY <3>1 DEF Loading
  <2>5. CASE LoadBss
    <3>1. pc = "bss" /\ seg' = seg + 1 /\ program' = program
      BY <2>5 DEF LoadBss, OthersStay, control
    <3>2. pc' = "segment" \/ Returned("segment")
      BY <2>5 DEF LoadBss, Goto
    <3>3. pc' = "bss" => fault' # {}
      BY <3>2 DEF Returned, Goto
    <3>4. QED
      BY <3>1, <3>3 DEF Loading
  <2>6. CASE Loaded
    BY <2>6, LoadingOn DEF Loaded, Goto, control
  <2>7. CASE MapKernel("demoProc", "kstack", KstackPage, "low memory")
    <3>1. pc' \in {pc, "low memory", "end"}
      BY <2>7, ReturnedTo DEF MapKernel
    <3>2. pc = "kstack" /\ UNCHANGED <<seg, program>>
      BY <2>7 DEF MapKernel, OthersStay, control
    <3>3. QED
      BY <3>1, <3>2, LoadingOn
  <2>8. CASE MapLow
    BY <2>8, LoadingOn DEF MapLow, Goto, control
  <2>9. CASE AllocBlks("demoProc", "ustack", UstackPage, "user")
    <3>1. pc' \in {pc, "user", "end"}
      BY <2>9, ReturnedTo DEF AllocBlks
    <3>2. pc = "ustack" /\ UNCHANGED <<seg, program>>
      BY <2>9 DEF AllocBlks, OthersStay, control
    <3>3. QED
      BY <3>1, <3>2, LoadingOn
  <2>10. QED
    BY <1>4, <2>1, <2>2, <2>3, <2>4, <2>5, <2>6, <2>7, <2>8, <2>9 DEF StartDemo
<1>5. CASE Kernel
  BY <1>1, <1>2, <1>3, <1>4, <1>5, LoadingOn DEF Kernel, Step
<1>6. CASE ResetInBoot
  BY <1>6 DEF ResetInBoot, Reset, Loading
<1>7. CASE Call
  <2>1. pc = "user" /\ Stays
    <3>1. ASSUME NEW name, OpenKnown(name) \/ OpenNew(name) PROVE pc = "user" /\ Stays
      BY <3>1 DEF OpenKnown, OpenNew, InUser
    <3>2. ASSUME NEW fd, NEW target, Grow(fd, target) \/ Shrink(fd, target) PROVE pc = "user" /\ Stays
      BY <3>2 DEF Grow, Shrink, InUser
    <3>3. ASSUME NEW fd, MmapAgain(fd) PROVE pc = "user" /\ Stays
      BY <3>3 DEF MmapAgain, InUser
    <3>4. ASSUME NEW fd, NEW length, NEW off, Mmap(fd, length, off) PROVE pc = "user" /\ Stays
      BY <3>4 DEF Mmap, InUser
    <3>5. ASSUME NEW fd, NEW length, Munmap(fd, RoundUp(length)) PROVE pc = "user" /\ Stays
      BY <3>5 DEF Munmap, InUser
    <3>6. QED
      BY <1>7, <3>1, <3>2, <3>3, <3>4, <3>5 DEF Call
  <2>2. QED
    BY <2>1, LoadingOn DEF Stays, control
<1>8. CASE UNCHANGED sysVars
  BY <1>8 DEF sysVars, vars, control, memory, Loading
<1>9. QED
  BY <1>5, <1>6, <1>7, <1>8 DEF Next, Stay

LEMMA SeqElement ==
    ASSUME NEW S, NEW l \in Seq(S), NEW n \in Nat, n < Len(l)
    PROVE  l[n + 1] \in S
<1>1. n + 1 \in 1 .. Len(l)
  OBVIOUS
<1>2. QED
  BY <1>1

(* The segment the loader is at.                                           *)
LEMMA SegmentNow ==
    ASSUME Loading, seg < Len(program.segs)
    PROVE  LET s == program.segs[seg + 1]
           IN  /\ s \in [off : Nat, vaddr : Nat, filesz : Nat, memsz : Nat]
               /\ FilePages(s) \in Nat /\ MemPages(s) \in Nat /\ FirstBlock(s) \in Nat
<1> DEFINE s == program.segs[seg + 1]
<1>1. program.segs \in Seq([off : Nat, vaddr : Nat, filesz : Nat, memsz : Nat])
  BY BootAssumption DEF Loading
<1>2. seg \in Nat
  BY DEF Loading
<1>3. s \in [off : Nat, vaddr : Nat, filesz : Nat, memsz : Nat]
  BY <1>1, <1>2, SeqElement
<1> HIDE DEF s
<1>4. s.off \in Nat /\ s.filesz \in Nat /\ s.memsz \in Nat
  BY <1>3
<1>5. (s.off % BlockBytes) \in Nat
  BY <1>4, BytesAssumption, ModNat
<1>6. (s.off % BlockBytes) + s.filesz \in Nat /\ (s.off % BlockBytes) + s.memsz \in Nat
  BY <1>4, <1>5
<1>7. FilePages(s) \in Nat /\ MemPages(s) \in Nat
  BY <1>6, PagesFit DEF FilePages, MemPages
<1>8. FirstBlock(s) \in Nat
  BY <1>4, BytesAssumption, DivMod DEF FirstBlock
<1>9. QED
  BY <1>3, <1>7, <1>8 DEF s

(* A segment that goes where the kernel's memory is.                       *)
LEMMA MapLowParts ==
    ASSUME SysInv, IInv', fault = {}, UNCHANGED calls, MapLow
    PROVE  SysInv'
<1>1. Parts /\ MemoryTypes
  BY DEF SysInv, Parts
<1>2. /\ pc = "low memory" /\ pc' \in {"low memory", "ustack", "end"}
      /\ UNCHANGED <<files, slot, free, fault, live, pageDir, metaVars, control>>
  BY DEF MapLow, Goto, memory
<1>3. Starts("demoProc", "low memory", "ustack")
  BY DEF Starts, OfDemo
<1>4. /\ at["demoProc"] \in live
      /\ pc \in OfProc0 \cup OfDemo /\ pc # "user"
      /\ pc' \in OfProc0 \cup OfDemo \cup {"demoProc", "end"}
      /\ pc' \in OfProc0 => pc \in OfProc0
      /\ pc' \in OfDemo => pc \in OfDemo
      /\ Calls'
  BY <1>2, <1>3, StartStep
<1>5. PICK q \in live : q = at["demoProc"]
  BY <1>4
<1>6. q \in MetaIds /\ metas[q] = "proc"
  BY <1>1 DEF Parts, Alive, OfProc0, OfDemo
<1> DEFINE low == [p \in {LowPage, LowPage + 1} |-> PM!Entry("kernel", FOREIGN)]
<1>7. \/ UNCHANGED <<tables, pages>>
      \/ /\ tables' = [tables EXCEPT ![q][0] = IF @ = NULL THEN FOREIGN ELSE @]
         /\ pages' = [pages EXCEPT ![q] = PM!Over(low, pages[q])]
  BY <1>5 DEF MapLow
<1>8. /\ DOMAIN tables' = MetaIds /\ DOMAIN pages' = MetaIds
      /\ DOMAIN tables'[q] = PM!Tables /\ DOMAIN pages'[q] = PM!Pages
      /\ \A g \in MetaIds : g # q => tables'[g] = tables[g] /\ pages'[g] = pages[g]
      /\ \A t \in PM!Tables : tables'[q][t] \in {tables[q][t], FOREIGN}
      /\ \A p \in PM!Pages : pages'[q][p] \in {pages[q][p], PM!Entry("kernel", FOREIGN)}
  <2>1. CASE UNCHANGED <<tables, pages>>
    BY <1>1, <1>6, <2>1 DEF MemoryTypes
  <2>2. CASE /\ tables' = [tables EXCEPT ![q][0] = IF @ = NULL THEN FOREIGN ELSE @]
             /\ pages' = [pages EXCEPT ![q] = PM!Over(low, pages[q])]
    <3>1. /\ DOMAIN tables = MetaIds /\ DOMAIN pages = MetaIds
          /\ DOMAIN tables[q] = PM!Tables /\ DOMAIN pages[q] = PM!Pages
      BY <1>1, <1>6 DEF MemoryTypes
    <3>2. /\ DOMAIN tables' = MetaIds /\ DOMAIN tables'[q] = PM!Tables
          /\ \A g \in MetaIds : g # q => tables'[g] = tables[g]
          /\ \A t \in PM!Tables : tables'[q][t] \in {tables[q][t], FOREIGN}
      BY <1>6, <2>2, <3>1
    <3>3. /\ DOMAIN pages' = MetaIds /\ pages'[q] = PM!Over(low, pages[q])
          /\ \A g \in MetaIds : g # q => pages'[g] = pages[g]
      BY <1>6, <2>2, <3>1
    <3>4. /\ DOMAIN pages'[q] = PM!Pages
          /\ \A p \in PM!Pages : pages'[q][p] \in {pages[q][p], PM!Entry("kernel", FOREIGN)}
      BY <3>1, <3>3 DEF PM!Over
    <3>5. QED
      BY <3>2, <3>3, <3>4
  <2>3. QED
    BY <1>7, <2>1, <2>2
<1>9. Alive'
  BY <1>1, <1>2, <1>4, <1>8, AliveOn DEF Parts, metaVars
<1>10. PICK own \in Owners : Shared(own)
  BY DEF SysInv
<1>11. \A t \in PM!Tables : ~NewTable(q, t)
  BY <1>8, NullAssumption DEF NewTable
<1>12. \A p \in PM!Pages : ~NewPage(q, p)
  <2>1. PM!Entry("kernel", FOREIGN).blk \notin Blocks
    BY NullAssumption DEF PM!Entry
  <2>2. QED
    BY <1>8, <2>1 DEF NewPage, Owning
<1>13. PICK own2 \in Owners : Keeps(q, own, own2) /\ ProcHeld(q, own2)'
  <2>1. ProcHeld(q, own)
    BY <1>6, <1>10 DEF Shared
  <2>2. pageDir'[q] = pageDir[q] /\ slot' = slot /\ free' \subseteq free
    BY <1>2
  <2>3. QED
    BY <1>6, <1>11, <1>12, <2>1, <2>2, ProcGiven
<1>14. \A g \in MetaIds : DOMAIN tables'[g] = PM!Tables /\ DOMAIN pages'[g] = PM!Pages
  BY <1>1, <1>6, <1>8 DEF MemoryTypes
<1>15. free' \subseteq Blocks /\ DOMAIN pageDir' = MetaIds /\ fault' \subseteq Faults
  BY <1>1, <1>2 DEF MemoryTypes
<1>16. \A g \in live' : g # q => /\ g \in live /\ tables'[g] = tables[g]
                                 /\ pages'[g] = pages[g] /\ pageDir'[g] = pageDir[g]
  BY <1>1, <1>2, <1>8 DEF Parts, Alive, OfProc0, OfDemo
<1>17. UNCHANGED <<files, slot, metaVars, control>>
  BY <1>2
<1>18. QED
  BY <1>4, <1>6, <1>8, <1>9, <1>10, <1>13, <1>14, <1>15, <1>16, <1>17, ProcParts

LEMMA StartDemoParts ==
    ASSUME SysInv, Loading, IInv', fault = {}, UNCHANGED calls, StartDemo
    PROVE  SysInv'
<1>1. CASE Enter("demoProc", "kroot", "proc", "create demoProc")
  BY <1>1, EnterParts DEF Entering
<1>2. CASE CreateProc("demoProc", "create demoProc", "header")
  BY <1>2, CreateProcParts
<1>3. Parts /\ MemoryTypes
  BY DEF SysInv, Parts
<1>4. \A x \in Nat : Address(x) \in Nat
  BY PagesFit
<1>5. KstackPage \in Nat /\ UstackPage \in Nat
  BY BootAssumption DEF KstackPage, UstackPage
<1>6. ASSUME NEW step, NEW next, Starts("demoProc", step, next), pc = step, pc' \in {pc, next, "end"},
             UNCHANGED <<files, slot, free, fault, mappings, metaVars, control>>
      PROVE  SysInv'
  <2>1. /\ pc \in OfProc0 \cup OfDemo /\ pc # "user"
        /\ pc' \in OfProc0 \cup OfDemo \cup {"demoProc", "end"}
        /\ pc' \in OfProc0 => pc \in OfProc0
        /\ pc' \in OfDemo => pc \in OfDemo
        /\ Calls'
    BY <1>6, StartStep
  <2>2. UNCHANGED <<files, slot, free, mappings, metaVars, control, calls>> /\ fault' \subseteq Faults
    BY <1>3, <1>6 DEF MemoryTypes
  <2>3. QED
    BY <2>1, <2>2, IdleParts
<1>7. CASE CheckHeader \/ Loaded
  <2>1. UNCHANGED <<files, slot, free, fault, mappings, metaVars, control>>
    BY <1>7 DEF CheckHeader, Loaded, memory
  <2>2. CASE pc = "header" /\ pc' \in {"segment", "end"}
    <3>1. Starts("demoProc", "header", "segment")
      BY DEF Starts, OfDemo
    <3>2. QED
      BY <1>6, <2>1, <2>2, <3>1
  <2>3. CASE pc = "segment" /\ pc' = "kstack"
    <3>1. Starts("demoProc", "segment", "kstack")
      BY DEF Starts, OfDemo
    <3>2. QED
      BY <1>6, <2>1, <2>3, <3>1
  <2>4. QED
    BY <1>7, <2>2, <2>3 DEF CheckHeader, Loaded, Goto
<1>8. CASE LoadFile
  <2> DEFINE s    == program.segs[seg + 1]
             blks == FileMap(at["demo"], FirstBlock(s), FilePages(s))
  <2>1. /\ pc = "segment" /\ seg < Len(program.segs) /\ UNCHANGED <<files, slot, metaVars, control>>
        /\ \/ /\ MapBlocks(at["demoProc"], PM!PageUp(s.vaddr), "file", blks, free)
              /\ Returned("bss")
           \/ pc' = "bss" /\ UNCHANGED <<free, fault, ret, mappings>>
    BY <1>8 DEF LoadFile, OthersStay, Goto
  <2>2. Starts("demoProc", "segment", "bss")
    BY DEF Starts, OfDemo
  <2>3. s.vaddr \in Nat /\ FirstBlock(s) \in Nat /\ FilePages(s) \in Nat
    BY <2>1, SegmentNow
  <2>4. PM!PageUp(s.vaddr) \in Nat
    BY <2>3, PagesFit
  <2>5. CASE pc' = "bss" /\ UNCHANGED <<free, fault, ret, mappings>>
    <3>1. UNCHANGED <<files, slot, free, fault, mappings, metaVars, control>>
      BY <2>1, <2>5
    <3>2. QED
      BY <1>6, <2>1, <2>2, <2>5, <3>1
  <2>6. CASE /\ MapBlocks(at["demoProc"], PM!PageUp(s.vaddr), "file", blks, free)
             /\ Returned("bss")
    <3>1. at["demo"] \in MetaIds
      <4>1. /\ pc \notin BeforeUroot \cup {"user", "end"} /\ "demo" \in DOMAIN names
        BY <2>1 DEF SysInv, Parts, KernelFiles, AfterDemo, OfProc0, OfDemo, BeforeUroot, BeforeKroot
      <4>2. names["demo"] = at["demo"]
        BY <4>1 DEF SysInv, Parts, KernelFiles
      <4>3. QED
        BY <4>1, <4>2 DEF SysInv, IInv, Typed
    <3>2. pc' \in {pc, "bss", "end"}
      BY <2>6, ReturnedTo
    <3>3. Available("file", blks, Cardinality(DOMAIN blks), free)
      BY DEF Available
    <3>4. Cardinality(DOMAIN blks) \in Nat
      BY <1>3, <2>3, <3>1, FileMapFinite
    <3> HIDE DEF blks, s
    <3>5. QED
      BY <2>1, <2>2, <2>4, <2>6, <3>2, <3>3, <3>4, BlocksPartsOf
  <2>7. QED
    BY <2>1, <2>5, <2>6
<1>9. CASE LoadBss
  <2> DEFINE s    == program.segs[seg + 1]
             addr == s.vaddr + Address(FilePages(s))
             len  == MemPages(s) - FilePages(s)
  <2>1. /\ pc = "bss" /\ UNCHANGED <<files, slot, metaVars, control>>
        /\ \/ /\ MemPages(s) > FilePages(s)
              /\ PM!AllocBlks(at["demoProc"], addr, len)
              /\ Returned("segment")
           \/ pc' = "segment" /\ UNCHANGED <<free, fault, ret, mappings>>
    BY <1>9 DEF LoadBss, OthersStay, Goto
  <2>2. Starts("demoProc", "bss", "segment")
    BY DEF Starts, OfDemo
  <2>3. s.vaddr \in Nat /\ FilePages(s) \in Nat /\ MemPages(s) \in Nat
    BY <2>1, SegmentNow DEF Loading
  <2>4. addr \in Nat
    <3>1. Address(FilePages(s)) \in Nat
      BY <1>4, <2>3
    <3>2. QED
      BY <2>3, <3>1
  <2>5. MemPages(s) > FilePages(s) => len \in Nat
    BY <2>3
  <2> HIDE DEF addr, len, s
  <2>6. CASE pc' = "segment" /\ UNCHANGED <<free, fault, ret, mappings>>
    <3>1. UNCHANGED <<files, slot, free, fault, mappings, metaVars, control>>
      BY <2>1, <2>6
    <3>2. QED
      BY <1>6, <2>1, <2>2, <2>6, <3>1
  <2>7. CASE /\ MemPages(s) > FilePages(s)
             /\ PM!AllocBlks(at["demoProc"], addr, len)
             /\ Returned("segment")
    <3>1. pc' \in {pc, "segment", "end"}
      BY <2>7, ReturnedTo
    <3>2. len \in Nat
      BY <2>5, <2>7
    <3>3. QED
      BY <2>1, <2>2, <2>4, <2>7, <3>1, <3>2, AllocPartsOf
  <2>8. QED
    BY <2>1, <2>6, <2>7
<1>10. CASE MapKernel("demoProc", "kstack", KstackPage, "low memory")
  <2>1. /\ pc = "kstack" /\ PM!MapKernel(at["demoProc"], Address(KstackPage), 2)
        /\ UNCHANGED <<files, slot, metaVars, control>>
    BY <1>10 DEF MapKernel, OthersStay
  <2>2. pc' \in {pc, "low memory", "end"}
    BY <1>10, ReturnedTo DEF MapKernel
  <2>3. Starts("demoProc", "kstack", "low memory")
    BY DEF Starts, OfDemo
  <2>4. QED
    BY <1>4, <1>5, <2>1, <2>2, <2>3, KernelPartsOf
<1>11. CASE MapLow
  BY <1>11, MapLowParts
<1>12. CASE AllocBlks("demoProc", "ustack", UstackPage, "user")
  <2>1. /\ pc = "ustack" /\ PM!AllocBlks(at["demoProc"], Address(UstackPage), 2)
        /\ UNCHANGED <<files, slot, metaVars, control>>
    BY <1>12 DEF AllocBlks, OthersStay
  <2>2. pc' \in {pc, "user", "end"}
    BY <1>12, ReturnedTo DEF AllocBlks
  <2>3. Starts("demoProc", "ustack", "user")
    BY DEF Starts, OfDemo
  <2>4. QED
    BY <1>4, <1>5, <2>1, <2>2, <2>3, AllocPartsOf
<1>13. QED
  BY <1>1, <1>2, <1>7, <1>8, <1>9, <1>10, <1>11, <1>12 DEF StartDemo

-----------------------------------------------------------------------------
(* A reset: nothing of an earlier life is used.                            *)
LEMMA ResetParts ==
    ASSUME SysInv, IInv', ResetInBoot
    PROVE  SysInv'
<1> USE DEF ResetInBoot, Reset
<1>1. Parts
  BY DEF SysInv
<1>2. MemoryTypes'
  BY <1>1 DEF Parts, MemoryTypes
<1>3. \A r \in Roles : at'[r] = IF r \in RootDirs THEN at[r] ELSE NULL
  OBVIOUS
<1>4. "kroot" \in RootDirs /\ "uroot" \in RootDirs /\ RootDirs \subseteq Roles
  BY DEF RootDirs, Roles
<1>5. RoleMetas'
  <2>1. at'["kroot"] = at["kroot"] /\ at'["uroot"] = at["uroot"]
    BY <1>3, <1>4
  <2>2. \A r \in Roles \ RootDirs : at'[r] = NULL
    BY <1>3
  <2>3. {"file0", "demo", "proc0", "demoProc"} \subseteq Roles \ RootDirs
    BY DEF Roles, RootDirs
  <2>4. \A r \in {"file0", "demo", "proc0", "demoProc"} : at'[r] = NULL
    BY <2>2, <2>3
  <2>5. QED
    BY <1>1, <2>1, <2>2, <2>4 DEF Parts, RoleMetas
<1>6. MetasApart'
  <2>1. ASSUME NEW r \in Roles, NEW s \in Roles, r # s, at'[r] # NULL PROVE at'[r] # at'[s]
    <3>1. r \in RootDirs /\ at'[r] = at[r]
      BY <1>3, <2>1
    <3>2. CASE s \in RootDirs
      BY <1>1, <1>3, <2>1, <3>1, <3>2 DEF Parts, MetasApart
    <3>3. CASE s \notin RootDirs
      BY <1>3, <2>1, <3>3
    <3>4. QED
      BY <3>2, <3>3
  <2>2. QED
    BY <2>1 DEF MetasApart
<1>7. KernelFiles' /\ SmallRoots'
  BY DEF KernelFiles, SmallRoots, BeforeUroot, BeforeKroot, AfterDemo, OfProc0, OfDemo
<1>8. \A q \in MetaIds : /\ \A t \in PM!Tables : tables'[q][t] = NULL
                         /\ \A p \in PM!Pages : pages'[q][p].kind = "none"
  BY DEF PM!Absent
<1>9. Alive'
  BY <1>8 DEF Alive, OfProc0, OfDemo
<1>10. Calls'
  <2>1. fds' = <<>> /\ nextMmap' \in Nat /\ DOMAIN shows' = {} /\ fds' \in Seq(Descriptors)
    BY <1>1 DEF Parts, Calls, calls
  <2>2. DOMAIN fds' = {}
    BY <2>1
  <2>3. QED
    BY <2>1, <2>2 DEF Calls
<1>11. PICK own \in Owners : TRUE
  BY SomeOwners
<1>12. Shared(own)'
  <2>1. Owned' = {}
    BY DEF Owned, Owns, BeforeKroot, BeforeUroot
  <2>2. \A q \in MetaIds : ProcHeld(q, own)'
    BY <1>8, NullAssumption DEF ProcHeld
  <2>3. QED
    BY <2>1, <2>2 DEF Shared
<1>13. QED
  BY <1>2, <1>5, <1>6, <1>7, <1>9, <1>10, <1>11, <1>12 DEF SysInv, Parts

-----------------------------------------------------------------------------
(* System calls.                                                           *)

LEMMA UserOwned ==
    ASSUME pc = "user"
    PROVE  /\ Filled = DOMAIN names
           /\ \A i : i \in Owned <=>
                 /\ i \in MetaIds
                 /\ \/ i \in {at["kroot"], at["uroot"]}
                    \/ \E n \in DOMAIN names : i = names[n]
<1>1. Filled = DOMAIN names
  BY DEF Filled
<1>2. QED
  BY <1>1 DEF Owned, Owns, BeforeKroot, BeforeUroot

(* The files of descriptors are no directories.                            *)
LEMMA OpenedFile ==
    ASSUME IInv, Parts, pc = "user", NEW fd \in DOMAIN fds
    PROVE  /\ fds[fd].file \in Owned /\ fds[fd].file \in MetaIds
           /\ fds[fd].file # at["kroot"] /\ fds[fd].file # at["uroot"]
           /\ fds # <<>>
<1>1. PICK n \in DOMAIN names : fds[fd].file = names[n]
  BY DEF Parts, Calls
<1>2. names[n] \in MetaIds /\ metas[names[n]] \in {"file", "free"}
  BY <1>1 DEF IInv, Typed, OnlyNewNamesShare
<1>3. metas[at["kroot"]] = "dir" /\ metas[at["uroot"]] = "dir"
  BY DEF IInv, RootsMade, BeforeKroot, BeforeUroot
<1>4. fds # <<>>
  OBVIOUS
<1>5. QED
  BY <1>1, <1>2, <1>3, <1>4, UserOwned

(* What the calls leave alone while the program runs.                      *)
LEMMA UserParts ==
    ASSUME Parts, InUser, Stays, UNCHANGED mappings, MemoryTypes', SmallRoots', Calls'
    PROVE  Parts'
<1>1. pc = "user" /\ pc' = "user" /\ UNCHANGED <<metas, at, live, tables, pages>>
  BY DEF InUser, Stays, mappings
<1>2. RoleMetas' /\ MetasApart'
  BY <1>1 DEF Parts, RoleMetas, MetasApart, BeforeUroot, BeforeKroot
<1>3. KernelFiles'
  BY <1>1 DEF KernelFiles, AfterDemo, OfProc0, OfDemo
<1>4. Alive'
  BY <1>1 DEF Parts, Alive, OfProc0, BeforeMagic, BeforeUroot, BeforeKroot
<1>5. QED
  BY <1>2, <1>3, <1>4 DEF Parts

(* A call that changes the blocks of the file it is for.                   *)
LEMMA FileCallParts ==
    ASSUME SysInv, IInv', InUser, Stays, UNCHANGED <<mappings, names, fds, nextMmap>>,
           NEW fd \in DOMAIN fds, NEW own \in Owners, Shared(own), NEW u \in States, NEW own2 \in Owners,
           Held(fds[fd].file, u, own2), Frame(fds[fd].file, Opened(fds[fd].file), own, u, own2),
           Close(fds[fd].file, u)
    PROVE  SysInv'
<1> DEFINE i == fds[fd].file
<1>1. Parts /\ IInv /\ pc = "user" /\ fault = {}
  BY DEF SysInv, InUser
<1>2. /\ i \in Owned /\ i \in MetaIds /\ i # at["kroot"] /\ i # at["uroot"]
      /\ fds # <<>>
  BY <1>1, OpenedFile
<1>3. pc' = "user" /\ UNCHANGED <<control, at, metaBlk>>
  BY <1>1 DEF Stays
<1> HIDE DEF i
<1>4. MemoryTypes' /\ \A g \in MetaIds : g # i => files'[g] = files[g]
  BY <1>1, <1>2, <1>3, FileWritten DEF Parts, i
<1>5. SmallRoots'
  <2>1. at["kroot"] \in MetaIds /\ at["uroot"] \in MetaIds
    BY <1>1, MetaAssumption DEF IInv, RootsMade, BeforeKroot, BeforeUroot
  <2>2. QED
    BY <1>1, <1>2, <1>3, <1>4, <2>1 DEF Parts, SmallRoots, BeforeKroot, BeforeUroot
<1>6. Calls'
  BY <1>1, <1>2, <1>3 DEF Parts, Calls
<1>7. Parts'
  BY <1>1, <1>4, <1>5, <1>6, UserParts
<1>8. Owned' \subseteq Owned
  BY <1>1, <1>3 DEF Owned, Owns, Filled
<1>9. Alive'
  BY <1>7 DEF Parts
<1>10. fault' = {} => Shared(own2)'
  BY <1>1, <1>2, <1>3, <1>8, <1>9, FileShared DEF i
<1>11. QED
  BY <1>7, <1>10 DEF SysInv

LEMMA CalledFile ==
    ASSUME SysInv, InUser, NEW fd \in DOMAIN fds, NEW own \in Owners, Shared(own)
    PROVE  LET i == fds[fd].file
           IN  /\ i \in MetaIds /\ Opened(i) \in States /\ Held(i, Opened(i), own)
               /\ Opened(i).m = files[i] /\ Opened(i).fault = {} /\ files[i].size \in Nat
<1> DEFINE i == fds[fd].file
<1>1. Parts /\ IInv /\ pc = "user" /\ fault = {} /\ MemoryTypes
  BY DEF SysInv, Parts, InUser
<1>2. i \in Owned /\ i \in MetaIds
  BY <1>1, OpenedFile
<1> HIDE DEF i
<1>3. Opened(i) \in States /\ Held(i, Opened(i), own)
  BY <1>1, <1>2, OpenedState DEF Shared
<1>4. Opened(i).m = files[i] /\ Opened(i).fault = {}
  BY <1>1, OpenedParts
<1>5. QED
  BY <1>2, <1>3, <1>4, StateFields DEF i

LEMMA GrowParts ==
    ASSUME SysInv, IInv', NEW fd \in DOMAIN fds, NEW target \in Nat, Grow(fd, target)
    PROVE  SysInv'
<1> DEFINE i == fds[fd].file
<1>1. PICK own \in Owners : Shared(own)
  BY DEF SysInv, Grow, InUser
<1>2. InUser /\ Stays /\ UNCHANGED <<mappings, names, fds, nextMmap>>
  BY DEF Grow
<1>3. PICK a \in Grown(Opened(i), target) : Close(i, a.st)
  BY DEF Grow
<1>4. /\ i \in MetaIds /\ Opened(i) \in States /\ Held(i, Opened(i), own)
      /\ Opened(i).m.size + target + Chunk - 1 <= MaxSize
  BY <1>1, <1>2, CalledFile DEF Grow
<1> HIDE DEF i
<1>5. Grew(i, Opened(i), own, a)
  BY <1>3, <1>4, GrownKeeps
<1>6. a.st \in States /\ \E own2 \in Owners : Held(i, a.st, own2) /\ Takes(i, Opened(i), own, a.st, own2)
  BY <1>5 DEF Grew
<1>7. PICK own2 \in Owners : Held(i, a.st, own2) /\ Frame(i, Opened(i), own, a.st, own2)
  BY <1>6, TakesFrame
<1>8. QED
  BY <1>1, <1>2, <1>3, <1>6, <1>7, FileCallParts DEF i

LEMMA ShrinkParts ==
    ASSUME SysInv, IInv', NEW fd \in DOMAIN fds, NEW target \in Nat, Shrink(fd, target)
    PROVE  SysInv'
<1> DEFINE i == fds[fd].file
           u == Discarded(Opened(i), files[i].size - target)
<1>1. PICK own \in Owners : Shared(own)
  BY DEF SysInv, Shrink, InUser
<1>2. InUser /\ Stays /\ UNCHANGED <<mappings, names, fds, nextMmap>> /\ Close(i, u)
  BY DEF Shrink
<1>3. /\ i \in MetaIds /\ Opened(i) \in States /\ Held(i, Opened(i), own)
      /\ Opened(i).m = files[i] /\ Opened(i).fault = {} /\ files[i].size \in Nat
  BY <1>1, <1>2, CalledFile
<1>4. files[i].size - target \in Nat /\ files[i].size - target <= Opened(i).m.size
  BY <1>3 DEF Shrink
<1>5. u \in States /\ Held(i, u, own) /\ Frame(i, Opened(i), own, u, own)
  BY <1>3, <1>4, DiscardedKeeps
<1> HIDE DEF u
<1>6. QED
  BY <1>1, <1>2, <1>5, FileCallParts DEF i

(* A call that changes no blocks.                                          *)
LEMMA QuietCallParts ==
    ASSUME SysInv, IInv', InUser, Stays, UNCHANGED <<slot, free, fault, mappings>>,
           MemoryTypes', SmallRoots', Calls',
           \A g \in Owned' : files'[g].blk = 0 \/ (g \in Owned /\ files'[g] = files[g])
    PROVE  SysInv'
<1>1. Parts /\ pc # "allocator" /\ fault = {} /\ metaBlk' = metaBlk /\ MemoryTypes
  BY DEF SysInv, Parts, InUser, Stays
<1>2. Parts'
  BY <1>1, UserParts
<1>3. PICK own \in Owners : Shared(own)
  BY <1>1 DEF SysInv
<1>4. UNCHANGED <<slot, free, tables, pages, pageDir>> /\ live' \subseteq live /\ Alive'
  BY <1>2 DEF mappings, Parts
<1>5. Shared(own)'
  BY <1>1, <1>3, <1>4, Quietly
<1>6. QED
  BY <1>2, <1>3, <1>5 DEF SysInv

LEMMA Appended1 ==
    ASSUME NEW S, NEW l \in Seq(S), NEW e \in S
    PROVE  /\ Append(l, e) \in Seq(S) /\ Append(l, e) # <<>>
           /\ \A k \in DOMAIN Append(l, e) : \/ k \in DOMAIN l /\ Append(l, e)[k] = l[k]
                                             \/ k \notin DOMAIN l /\ Append(l, e)[k] = e
OBVIOUS

LEMMA NewDescriptor ==
    ASSUME NEW i \in MetaIds
    PROVE  Descriptor(i) \in Descriptors /\ Descriptor(i).file = i
BY DEF Descriptor, Descriptors

LEMMA OpenKnownParts ==
    ASSUME SysInv, IInv', NEW name, OpenKnown(name)
    PROVE  SysInv'
<1>1. /\ InUser /\ Stays /\ UNCHANGED <<files, slot, free, fault, mappings, names, nextMmap>>
      /\ name \in DOMAIN names /\ fds' = Append(fds, Descriptor(names[name])) /\ pc' = "user"
  BY DEF OpenKnown, memory, InUser, Stays
<1>2. Parts /\ IInv /\ pc = "user"
  BY <1>1 DEF SysInv, InUser
<1>3. names[name] \in MetaIds /\ fds \in Seq(Descriptors)
  BY <1>1, <1>2 DEF IInv, Typed, Parts, Calls
<1>4. MemoryTypes'
  BY <1>1, <1>2 DEF Parts, MemoryTypes, mappings, Stays, control
<1>5. SmallRoots'
  BY <1>1, <1>2 DEF Parts, SmallRoots, Stays
<1>6. Calls'
  <2> DEFINE e == Descriptor(names[name])
  <2>1. e \in Descriptors /\ e.file = names[name]
    BY <1>3, NewDescriptor
  <2> HIDE DEF e
  <2>2. /\ fds' \in Seq(Descriptors) /\ fds' # <<>>
        /\ \A k \in DOMAIN fds' : (k \in DOMAIN fds /\ fds'[k] = fds[k]) \/ fds'[k] = e
    BY <1>1, <1>3, <2>1, Appended1 DEF e
  <2>3. \A k \in DOMAIN fds' : \E n \in DOMAIN names' : fds'[k].file = names'[n]
    BY <1>1, <1>2, <2>1, <2>2 DEF Parts, Calls
  <2>4. QED
    BY <1>1, <1>2, <2>2, <2>3 DEF Parts, Calls
<1>7. \A g \in Owned' : g \in Owned /\ files'[g] = files[g]
  BY <1>1 DEF Owned, Owns, Filled, Stays
<1>8. QED
  BY <1>1, <1>4, <1>5, <1>6, <1>7, QuietCallParts

LEMMA MmapAgainParts ==
    ASSUME SysInv, IInv', NEW fd \in DOMAIN fds, MmapAgain(fd)
    PROVE  SysInv'
<1>1. /\ InUser /\ Stays /\ pc' = "user"
      /\ UNCHANGED <<files, slot, free, fault, mappings, names, nextMmap, fds, shows>>
  BY DEF MmapAgain, memory, InUser, Stays
<1>2. Parts /\ pc = "user"
  BY <1>1 DEF SysInv, InUser
<1>3. MemoryTypes'
  BY <1>1, <1>2 DEF Parts, MemoryTypes, mappings, Stays, control
<1>4. SmallRoots'
  BY <1>1, <1>2 DEF Parts, SmallRoots, Stays
<1>5. Calls'
  BY <1>1, <1>2 DEF Parts, Calls
<1>6. \A g \in Owned' : g \in Owned /\ files'[g] = files[g]
  BY <1>1 DEF Owned, Owns, Filled, Stays
<1>7. QED
  BY <1>1, <1>3, <1>4, <1>5, <1>6, QuietCallParts

(* The new file has no blocks; the directory's are as they were.           *)
LEMMA OpenNewParts ==
    ASSUME SysInv, IInv', NEW name, OpenNew(name)
    PROVE  SysInv'
<1>0. PICK root : root = at["uroot"]
  OBVIOUS
<1>1. /\ InUser /\ Stays /\ UNCHANGED <<slot, free, fault, mappings, nextMmap>>
      /\ pc' = "user" /\ UNCHANGED <<at, metaBlk, control>>
  BY DEF OpenNew, InUser, Stays
<1>2. PICK i \in MetaIds : /\ IsNewMeta(i)
                           /\ names' = [n \in DOMAIN names \cup {name} |-> IF n = name THEN i ELSE names[n]]
                           /\ files' = [files EXCEPT ![i] = Blank, ![root].size = @ + 1]
                           /\ fds' = Append(fds, Descriptor(i))
  BY <1>0 DEF OpenNew
<1>3. Parts /\ IInv /\ MemoryTypes /\ pc = "user" /\ fault = {} /\ pc # "allocator"
      /\ pc \notin BeforeKroot /\ pc \notin BeforeUroot
  BY <1>1 DEF SysInv, Parts, InUser, BeforeKroot, BeforeUroot
<1>4. /\ i \notin live /\ i # at["kroot"] /\ i # root
      /\ root \in MetaIds /\ root \notin live /\ root \in Owned /\ root # NULL
      /\ at["kroot"] \in MetaIds /\ at["kroot"] # root
  <2>1. metas[i] = "free" /\ i \notin live
    BY <1>2, <1>3, FreeMeta DEF IsNewMeta
  <2>2. /\ metas[at["kroot"]] = "dir" /\ at["kroot"] = 0
        /\ metas[root] = "dir" /\ root \in MetaIds \ {0}
    BY <1>0, <1>3 DEF IInv, RootsMade
  <2>3. root \in Owned
    BY <1>0, <1>3, <2>2 DEF Owned, Owns
  <2>4. root \notin live
    BY <1>3, <2>3, OwnedMetas
  <2>5. root # NULL /\ 0 \in MetaIds
    BY <2>2, MetaAssumption, PointerAssumption
  <2>6. QED
    BY <2>1, <2>2, <2>3, <2>4, <2>5
<1>5. /\ files' \in [MetaIds -> Metas] /\ files'[i] = Blank
      /\ files'[root] = [files[root] EXCEPT !.size = @ + 1]
      /\ \A g \in MetaIds : g # i /\ g # root => files'[g] = files[g]
  <2>1. files \in [MetaIds -> Metas] /\ Blank \in Metas
    BY <1>3 DEF MemoryTypes, Blank, Metas, Ptrs
  <2>2. files[root] \in Metas
    BY <1>4, <2>1
  <2>3. [files[root] EXCEPT !.size = @ + 1] \in Metas
    BY <2>2 DEF Metas
  <2>4. QED
    BY <1>2, <1>4, <2>1, <2>3
<1>6. /\ files'[i].blk = 0 /\ files'[root].blk = files[root].blk
      /\ files'[root].first = files[root].first
      /\ files'[root].ptr1 = files[root].ptr1 /\ files'[root].ptr2 = files[root].ptr2
  <2>1. files[root] \in Metas
    BY <1>3, <1>4 DEF MemoryTypes
  <2>2. QED
    BY <1>5, <2>1 DEF Metas, Blank
<1>7. MemoryTypes'
  BY <1>1, <1>3, <1>5 DEF MemoryTypes, mappings, control
<1>8. SmallRoots'
  BY <1>0, <1>1, <1>3, <1>4, <1>5, <1>6 DEF Parts, SmallRoots
<1>9. Calls'
  <2> DEFINE e == Descriptor(i)
  <2>1. e \in Descriptors /\ e.file = i
    BY NewDescriptor
  <2>2. fds \in Seq(Descriptors)
    BY <1>3 DEF Parts, Calls
  <2> HIDE DEF e
  <2>3. /\ fds' \in Seq(Descriptors) /\ fds' # <<>>
        /\ \A k \in DOMAIN fds' : (k \in DOMAIN fds /\ fds'[k] = fds[k]) \/ fds'[k] = e
    BY <1>2, <2>1, <2>2, Appended1 DEF e
  <2>4. /\ name \in DOMAIN names' /\ names'[name] = i
        /\ \A n \in DOMAIN names : n # name => n \in DOMAIN names' /\ names'[n] = names[n]
    BY <1>2
  <2>5. name \notin DOMAIN names
    BY DEF OpenNew
  <2>6. \A k \in DOMAIN fds : \E n \in DOMAIN names' : fds[k].file = names'[n]
    BY <1>3, <2>4, <2>5 DEF Parts, Calls
  <2>7. \A k \in DOMAIN fds' : \E n \in DOMAIN names' : fds'[k].file = names'[n]
    BY <2>1, <2>3, <2>4, <2>6
  <2>8. nextMmap' \in Nat
    BY <1>1, <1>3 DEF Parts, Calls
  <2>9. QED
    BY <1>1, <2>3, <2>7, <2>8 DEF Calls
<1>10. Parts'
  BY <1>1, <1>3, <1>7, <1>8, <1>9, UserParts
<1>11. PICK own \in Owners : Shared(own)
  BY DEF SysInv, OpenNew, InUser
<1>12. \A g \in Owned' : g # root => files'[g].blk = 0 \/ (g \in Owned /\ files'[g] = files[g])
  <2>1. ASSUME NEW g \in Owned', g # root, g # i PROVE g \in Owned /\ files'[g] = files[g]
    <3>1. \A n \in DOMAIN names' : names'[n] = i \/ (n \in DOMAIN names /\ names'[n] = names[n])
      BY <1>2
    <3>2. g \in MetaIds /\ (g = at["kroot"] \/ \E n \in DOMAIN names' : g = names'[n])
      BY <1>0, <1>1, <2>1 DEF Owned, Owns, Filled
    <3>3. g = at["kroot"] \/ \E n \in DOMAIN names : g = names[n]
      BY <2>1, <3>1, <3>2
    <3>4. QED
      BY <1>3, <1>5, <2>1, <3>2, <3>3, UserOwned
  <2>2. QED
    BY <1>6, <2>1
<1>13. Keeps(root, own, own)
  BY <1>1 DEF Keeps
<1>14. Held(root, Opened(root)', own)
  <2> DEFINE z == Opened(root)
             w == Opened(root)'
  <2>1. Held(root, z, own)
    BY <1>4, <1>11 DEF Shared
  <2>2. /\ z.m = files[root] /\ z.slot = slot /\ z.free = free
        /\ w.m = files'[root] /\ w.slot = slot' /\ w.free = free'
    BY OpenedParts
  <2> HIDE DEF z, w
  <2>3. /\ w.slot = z.slot /\ w.free = z.free /\ w.m.blk = z.m.blk
        /\ w.m.first = z.m.first /\ w.m.ptr1 = z.m.ptr1 /\ w.m.ptr2 = z.m.ptr2
    BY <1>1, <1>6, <2>2
  <2>4. Held(root, w, own)
    BY <2>1, <2>3, SameBlocks
  <2>5. QED
    BY <2>4 DEF w
<1>15. /\ \A q \in live' : /\ q \in MetaIds /\ q \in live /\ tables'[q] = tables[q]
                           /\ pages'[q] = pages[q] /\ pageDir'[q] = pageDir[q]
       /\ root \notin live' /\ Alive'
  BY <1>1, <1>3, <1>4, <1>10 DEF mappings, Parts, Alive
<1>16. metaBlk' \in Blocks => Used(own, metaBlk, <<NULL, "root", 0>>)'
  BY <1>1, <1>3, <1>4, <1>11, <1>13, MetaBlkFramed
<1>17. Shared(own)'
  BY <1>3, <1>11, <1>12, <1>13, <1>14, <1>15, <1>16, SharedOn
<1>18. QED
  BY <1>10, <1>11, <1>17 DEF SysInv

LEMMA MmapParts ==
    ASSUME SysInv, IInv', NEW fd \in DOMAIN fds, NEW length \in Nat, NEW off \in Nat, Mmap(fd, length, off)
    PROVE  SysInv'
<1> DEFINE i    == fds[fd].file
           pgs  == RoundUp(IF length > files[i].size THEN files[i].size ELSE length)
           blks == MmapBlks(i, off, pgs)
           n    == Cardinality(DOMAIN blks)
           q    == at["demoProc"]
<1>1. /\ InUser /\ Stays /\ pc = "user" /\ pc' = "user" /\ fault = {}
      /\ UNCHANGED <<files, slot, names>>
  BY DEF Mmap, InUser, Stays
<1>2. Parts /\ IInv /\ MemoryTypes /\ nextMmap \in Nat /\ fds \in Seq(Descriptors)
  BY DEF SysInv, Parts, Calls
<1>3. i \in MetaIds /\ fds # <<>> /\ files[i].size \in Nat
  <2>1. i \in MetaIds /\ fds # <<>>
    BY <1>1, <1>2, OpenedFile
  <2>2. files[i] \in Metas
    BY <1>2, <2>1 DEF MemoryTypes
  <2>3. QED
    BY <2>1, <2>2 DEF Metas
<1>4. pgs \in Nat
  BY <1>3, PagesFit
<1>5. n \in Nat
  BY <1>1, <1>2, <1>3, <1>4, FileMapFinite DEF MmapBlks
<1>6. q \in live /\ pc \in OfProc0 \cup OfDemo /\ pc' \in OfProc0 \cup OfDemo \cup {"demoProc", "end"}
      /\ (pc' \in OfProc0 => pc \in OfProc0) /\ (pc' \in OfDemo => pc \in OfDemo)
  BY <1>1, <1>2 DEF Parts, Alive, OfProc0, OfDemo
<1>7. /\ PM!MapSegment(q, nextMmap, n, "file", blks, free)
      /\ UNCHANGED <<files, slot, metaVars, control, live, pageDir>>
  BY <1>1 DEF Mmap, MapBlocks, Stays, metaVars
<1>8. \/ /\ fds' = [fds EXCEPT ![fd].addr = nextMmap, ![fd].blks = pgs]
         /\ nextMmap' = nextMmap + pgs
      \/ UNCHANGED <<fds, nextMmap, shows>>
  BY DEF Mmap, Behind, calls
<1> HIDE DEF pgs, blks, n, q
<1>9. Calls'
  <2>1. CASE UNCHANGED <<fds, nextMmap, shows>>
    BY <1>1, <1>2, <2>1 DEF Parts, Calls
  <2>2. CASE /\ fds' = [fds EXCEPT ![fd].addr = nextMmap, ![fd].blks = pgs]
             /\ nextMmap' = nextMmap + pgs
    <3> DEFINE d == [fds[fd] EXCEPT !.addr = nextMmap, !.blks = pgs]
    <3>1. fds[fd] \in Descriptors
      BY <1>2
    <3>2. d \in Descriptors /\ d.file = i
      BY <1>2, <1>4, <3>1 DEF Descriptors
    <3>3. fds' = [fds EXCEPT ![fd] = d]
      BY <2>2
    <3> HIDE DEF d, i
    <3>4. /\ fds' \in Seq(Descriptors) /\ DOMAIN fds' = DOMAIN fds
          /\ \A k \in DOMAIN fds : fds'[k] = IF k = fd THEN d ELSE fds[k]
      BY <1>2, <3>2, <3>3
    <3>5. \A k \in DOMAIN fds : fds'[k].file = fds[k].file
      BY <3>2, <3>4 DEF i
    <3>6. \A k \in DOMAIN fds' : \E m \in DOMAIN names' : fds'[k].file = names'[m]
      BY <1>1, <1>2, <3>4, <3>5 DEF Parts, Calls
    <3>7. nextMmap' \in Nat
      BY <1>2, <1>4, <2>2
    <3>8. fds' # <<>>
      BY <3>4
    <3>9. QED
      BY <1>1, <3>4, <3>6, <3>7, <3>8 DEF Calls
  <2>3. QED
    BY <1>8, <2>1, <2>2
<1>10. Available("file", blks, n, free)
  BY DEF Available
<1>11. QED
  BY <1>1, <1>2, <1>5, <1>6, <1>7, <1>9, <1>10, MappingParts

LEMMA MunmapParts ==
    ASSUME SysInv, IInv', NEW fd \in DOMAIN fds, NEW len, Munmap(fd, len)
    PROVE  SysInv'
<1>0. PICK q : q = at["demoProc"]
  OBVIOUS
<1>1. /\ InUser /\ Stays /\ pc = "user" /\ pc' = "user" /\ fault = {}
      /\ UNCHANGED <<files, slot, names, fds, nextMmap, shows>>
  BY DEF Munmap, InUser, Stays
<1>2. Parts /\ IInv /\ MemoryTypes
  BY DEF SysInv, Parts
<1>3. q \in live /\ q \in MetaIds /\ metas[q] = "proc"
  BY <1>0, <1>1, <1>2 DEF Parts, Alive, OfDemo
<1>4. PICK some : /\ some = PM!OfKind(q, Address(fds[fd].addr), len, "file")
                  /\ pages' = [pages EXCEPT ![q] = PM!WithoutPages(q, some)]
                  /\ UNCHANGED <<live, pageDir, tables, free, fault>>
  BY <1>0 DEF Munmap, PM!UnmapFile, PM!Unmap
<1>5. \A p \in some : p \in PM!Pages /\ pages[q][p].kind = "file"
  BY <1>4 DEF PM!OfKind
<1>6. /\ \A g \in MetaIds : g # q => pages'[g] = pages[g]
      /\ DOMAIN pages' = MetaIds /\ DOMAIN pages'[q] = PM!Pages
      /\ \A p \in PM!Pages : pages'[q][p] = IF p \in some THEN PM!Absent ELSE pages[q][p]
  BY <1>2, <1>3, <1>4 DEF MemoryTypes, PM!WithoutPages, PM!Over
<1>7. PICK own \in Owners : Shared(own)
  BY <1>1 DEF SysInv
<1>8. Keeps(q, own, own)
  BY <1>1, <1>4 DEF Keeps
<1>9. ProcHeld(q, own)'
  <2>1. ProcHeld(q, own)
    BY <1>3, <1>7 DEF Shared
  <2>2. \A p \in PM!Pages : pages'[q][p].kind \in {"anon", "kernel"} => pages'[q][p] = pages[q][p]
    BY <1>6 DEF PM!Absent
  <2>3. QED
    BY <1>4, <2>1, <2>2 DEF ProcHeld, Used
<1>10. Calls'
  BY <1>1, <1>2 DEF Parts, Calls
<1>11. UNCHANGED <<files, slot, metaVars, control>>
  BY <1>1 DEF Stays, metaVars
<1>12. Alive'
  <2>1. \A g \in MetaIds \ live : tables'[g] = tables[g] /\ pages'[g] = pages[g]
    BY <1>3, <1>4, <1>6
  <2>2. pc' \in OfProc0 \cup OfDemo \cup {"demoProc", "end"} /\ pc' = pc
    BY <1>1 DEF OfDemo
  <2>3. UNCHANGED <<live, at, metas>>
    BY <1>4, <1>11 DEF metaVars
  <2>4. Alive
    BY <1>2 DEF Parts
  <2>5. QED
    BY <2>1, <2>2, <2>3, <2>4, AliveOn
<1>13. /\ free' \subseteq Blocks /\ fault' \subseteq Faults
       /\ DOMAIN tables' = MetaIds /\ DOMAIN pageDir' = MetaIds
       /\ \A g \in MetaIds : DOMAIN tables'[g] = PM!Tables /\ DOMAIN pages'[g] = PM!Pages
  BY <1>2, <1>4, <1>6 DEF MemoryTypes
<1>14. \A g \in live' : g # q => /\ g \in live /\ tables'[g] = tables[g]
                                 /\ pages'[g] = pages[g] /\ pageDir'[g] = pageDir[g]
  BY <1>2, <1>4, <1>6 DEF Parts, Alive
<1>15. /\ pc \in OfProc0 \cup OfDemo \cup {"create proc0", "create demoProc"}
       /\ pc' \in OfProc0 \cup OfDemo \cup {"demoProc", "end"} /\ (pc = "user" => pc' = "user")
  BY <1>1 DEF OfDemo
<1>16. QED
  BY <1>1, <1>3, <1>6, <1>7, <1>8, <1>9, <1>10, <1>11, <1>12, <1>13, <1>14, <1>15, ProcParts

LEMMA CallParts ==
    ASSUME SysInv, IInv', Call
    PROVE  SysInv'
<1>1. CASE \E name \in Names : OpenKnown(name) \/ OpenNew(name)
  BY <1>1, OpenKnownParts, OpenNewParts
<1>2. CASE \E fd \in DOMAIN fds, target \in Targets : Grow(fd, target) \/ Shrink(fd, target)
  BY <1>2, GrowParts, ShrinkParts, CallAssumption
<1>3. CASE \E fd \in DOMAIN fds : MmapAgain(fd)
  BY <1>3, MmapAgainParts
<1>4. CASE \E fd \in DOMAIN fds, length \in Lengths, off \in Offsets : Mmap(fd, length, off)
  BY <1>4, MmapParts, CallAssumption
<1>5. CASE \E fd \in DOMAIN fds, length \in Lengths : Munmap(fd, RoundUp(length))
  BY <1>5, MunmapParts
<1>6. QED
  BY <1>1, <1>2, <1>3, <1>4, <1>5 DEF Call

-----------------------------------------------------------------------------

LEMMA CreateParts ==
    ASSUME SysInv, IInv', fault = {}, UNCHANGED calls, Create
    PROVE  SysInv'
BY AllocatorParts, KrootParts, UrootParts, WriteParts DEF Create

LEMMA UnchangedParts == SysInv /\ UNCHANGED sysVars => SysInv'
<1> SUFFICES ASSUME SysInv, UNCHANGED sysVars PROVE SysInv'
  OBVIOUS
<1>1. UNCHANGED <<vars, calls>>
  BY DEF sysVars
<1>2. IInv'
  BY NextKeeps DEF SysInv, sysVars
<1> USE DEF vars, memory, mappings, metaVars, control, calls
<1>3. Parts'
  <2>1. MemoryTypes' /\ RoleMetas' /\ MetasApart'
    BY <1>1 DEF SysInv, Parts, MemoryTypes, RoleMetas, MetasApart
  <2>2. KernelFiles' /\ SmallRoots'
    BY <1>1 DEF SysInv, Parts, KernelFiles, SmallRoots
  <2>3. Alive'
    BY <1>1 DEF SysInv, Parts, Alive
  <2>4. Calls'
    BY <1>1 DEF SysInv, Parts, Calls
  <2>5. QED
    BY <2>1, <2>2, <2>3, <2>4 DEF Parts
<1>4. CASE fault # {}
  BY <1>1, <1>2, <1>3, <1>4 DEF SysInv
<1>5. Owned' = Owned
  BY <1>1 DEF Owned, Owns, Filled
<1>6. \A i : Opened(i)' = Opened(i)
  BY <1>1 DEF Opened
<1>7. CASE fault = {}
  <2>1. PICK own \in Owners : Shared(own)
    BY <1>7 DEF SysInv
  <2>2. \A q : ProcHeld(q, own) => ProcHeld(q, own)'
    BY <1>1 DEF ProcHeld, Used
  <2>3. Shared(own)'
    BY <1>1, <1>5, <1>6, <2>1, <2>2 DEF Shared, Used
  <2>4. QED
    BY <1>2, <1>3, <2>3 DEF SysInv
<1>8. QED
  BY <1>4, <1>7

LEMMA SysInvKeeps == SysInv /\ Loading /\ [Next]_sysVars => SysInv'
<1> SUFFICES ASSUME SysInv, Loading, [Next]_sysVars PROVE SysInv'
  OBVIOUS
<1>1. IInv'
  BY NextKeeps DEF SysInv
<1>2. CASE Kernel
  <2>1. fault = {} /\ UNCHANGED calls /\ (Create \/ AddFiles \/ StartProc0 \/ StartDemo)
    BY <1>2 DEF Kernel, Step
  <2>2. QED
    BY <1>1, <2>1, CreateParts, AddFilesParts, StartProc0Parts, StartDemoParts
<1>3. CASE ResetInBoot
  BY <1>1, <1>3, ResetParts
<1>4. CASE Call
  BY <1>1, <1>4, CallParts
<1>5. CASE UNCHANGED sysVars
  BY <1>5, UnchangedParts
<1>6. QED
  BY <1>2, <1>3, <1>4, <1>5 DEF Next, Stay

LEMMA InitLoading == SysInit => Loading
BY DEF SysInit, Init, Loading

(* What each meta is used for, in every reachable state, and what each     *)
(* block, until the allocator loses track.                                 *)
THEOREM SystemParts == Spec => [](SysInv /\ Loading)
<1>1. SysInit => SysInv /\ Loading
  BY InitSysInv, InitLoading
<1>2. SysInv /\ Loading /\ [Next]_sysVars => (SysInv /\ Loading)'
  BY SysInvKeeps, LoadingKeeps
<1>3. QED
  BY <1>1, <1>2, PTL DEF Spec

-----------------------------------------------------------------------------
(* What the blocks are used for.                                           *)

(* The use of a block, read from its owner.                                *)
UseOf(own, b) ==
    LET who == own[b][1]
    IN  CASE who = NULL                                          -> <<"metas", 0, b>>
          [] who # NULL /\ who \in live /\ own[b][2] = "root"    -> <<"directory", who, b>>
          [] who # NULL /\ who \in live /\ own[b][2] = "leaf"    -> <<"table", <<who, own[b][3]>>, b>>
          [] who # NULL /\ who \in live /\ own[b][2] = "data"    -> <<"page", <<who, own[b][3]>>, b>>
          [] who # NULL /\ who \notin live /\ own[b][2] = "data" -> <<"data", who, b>>
          [] OTHER                                               -> <<"pointers", who, b>>

LEMMA FileUsesOwn ==
    ASSUME SysInv, fault = {}, NEW own, Shared(own), NEW i \in Owned,
           NEW u, \/ \E b \in DataOf(i) : u = <<"data", i, b>>
                  \/ \E b \in PtrBlksOf(Opened(i)) : u = <<"pointers", i, b>>
    PROVE  u = UseOf(own, u[3]) /\ u[3] \notin free
<1>1. i \in MetaIds /\ i \notin live /\ i # NULL
  BY OwnedMetas, MetaAssumption, PointerAssumption DEF SysInv
<1> DEFINE z == Opened(i)
<1>2. z \in States /\ Held(i, z, own) /\ z.free = free /\ z.m = files[i]
  BY <1>1, OpenedState, OpenedParts DEF SysInv, Parts, Shared
<1>3. CASE \E b \in DataOf(i) : u = <<"data", i, b>>
  <2>1. PICK b \in DataOf(i) : u = <<"data", i, b>>
    BY <1>3
  <2>2. PICK k \in 0 .. files[i].blk - 1 : b = DataBlkAt(z, k) /\ b \in Blocks
    BY <2>1 DEF DataOf
  <2>3. Marked(z, own, b, <<i, "data", k>>)
    BY <1>2, <2>2 DEF Held, DataHeld
  <2>4. b \notin free /\ own[b][1] = i /\ own[b][2] = "data"
    BY <1>2, <2>3 DEF Marked
  <2>5. UseOf(own, b) = <<"data", i, b>>
    BY <1>1, <2>4 DEF UseOf
  <2>6. QED
    BY <2>1, <2>4, <2>5
<1>4. CASE \E b \in PtrBlksOf(z) : u = <<"pointers", i, b>>
  <2>1. PICK b \in PtrBlksOf(z) : u = <<"pointers", i, b>>
    BY <1>4
  <2> HIDE DEF z
  <2>2. b \notin free /\ own[b][1] = i /\ own[b][2] # "data"
    BY <1>2, <2>1, PtrBlkUse
  <2>3. UseOf(own, b) = <<"pointers", i, b>>
    BY <1>1, <2>2 DEF UseOf
  <2>4. QED
    BY <2>1, <2>2, <2>3
<1>5. QED
  BY <1>3, <1>4

LEMMA ProcUsesOwn ==
    ASSUME SysInv, NEW own, Shared(own), NEW u \in ProcUses, u[3] \in Blocks
    PROVE  u = UseOf(own, u[3]) /\ u[3] \notin free
<1>1. PICK q \in live : \/ u = <<"directory", q, pageDir[q]>>
                        \/ \E t \in PM!Tables : u = <<"table", <<q, t>>, tables[q][t]>>
                        \/ \E p \in PM!Pages : /\ pages[q][p].kind \in {"anon", "kernel"}
                                               /\ u = <<"page", <<q, p>>, pages[q][p].blk>>
  BY DEF ProcUses
<1>2. q \in MetaIds /\ q # NULL
  BY MetaAssumption, PointerAssumption DEF SysInv, Parts, Alive
<1>3. ProcHeld(q, own)
  BY <1>2 DEF Shared
<1>4. CASE u = <<"directory", q, pageDir[q]>>
  <2>1. u[3] = pageDir[q] /\ u[3] \notin free /\ own[u[3]] = <<q, "root", 0>>
    BY <1>3, <1>4 DEF ProcHeld, Used
  <2>2. own[u[3]][1] = q /\ own[u[3]][2] = "root"
    BY <2>1
  <2>3. UseOf(own, u[3]) = <<"directory", q, u[3]>>
    BY <1>2, <2>2 DEF UseOf
  <2>4. QED
    BY <1>4, <2>1, <2>3
<1>5. CASE \E t \in PM!Tables : u = <<"table", <<q, t>>, tables[q][t]>>
  <2>1. PICK t \in PM!Tables : u = <<"table", <<q, t>>, tables[q][t]>>
    BY <1>5
  <2>2. u[3] = tables[q][t] /\ u[3] \notin free /\ own[u[3]] = <<q, "leaf", t>>
    BY <1>3, <2>1 DEF ProcHeld, Used
  <2>3. own[u[3]][1] = q /\ own[u[3]][2] = "leaf" /\ own[u[3]][3] = t
    BY <2>2
  <2>4. UseOf(own, u[3]) = <<"table", <<q, t>>, u[3]>>
    BY <1>2, <2>3 DEF UseOf
  <2>5. QED
    BY <2>1, <2>2, <2>4
<1>6. CASE \E p \in PM!Pages : /\ pages[q][p].kind \in {"anon", "kernel"}
                               /\ u = <<"page", <<q, p>>, pages[q][p].blk>>
  <2>1. PICK p \in PM!Pages : /\ pages[q][p].kind \in {"anon", "kernel"}
                              /\ u = <<"page", <<q, p>>, pages[q][p].blk>>
    BY <1>6
  <2>2. u[3] = pages[q][p].blk /\ u[3] \notin free /\ own[u[3]] = <<q, "data", p>>
    BY <1>3, <2>1 DEF ProcHeld, Used
  <2>3. own[u[3]][1] = q /\ own[u[3]][2] = "data" /\ own[u[3]][3] = p
    BY <2>2
  <2>4. UseOf(own, u[3]) = <<"page", <<q, p>>, u[3]>>
    BY <1>2, <2>3 DEF UseOf
  <2>5. QED
    BY <2>1, <2>2, <2>4
<1>7. QED
  BY <1>1, <1>4, <1>5, <1>6

(* Uses that are told by their blocks are as many as the blocks.           *)
LEMMA AsMany ==
    ASSUME NEW S, NEW own, \A u \in S : u[3] \in Blocks /\ u = UseOf(own, u[3])
    PROVE  Cardinality({u[3] : u \in S}) = Cardinality(S)
<1> DEFINE used == {u[3] : u \in S}
           f    == [b \in used |-> UseOf(own, b)]
<1>1. \A b \in used : f[b] \in S /\ f[b][3] = b
  OBVIOUS
<1>2. f \in [used -> S]
  BY <1>1
<1>3. \A b, c \in used : f[b] = f[c] => b = c
  BY <1>1
<1>4. \A u \in S : \E b \in used : f[b] = u
  OBVIOUS
<1>5. f \in Bijection(used, S)
  <2> HIDE DEF f, used
  <2>1. QED
    BY <1>2, <1>3, <1>4 DEF Bijection, Injection, Surjection, IsInjective
<1>6. ExistsBijection(used, S)
  BY <1>5 DEF ExistsBijection
<1>7. IsFiniteSet(used)
  <2>1. used \subseteq Blocks
    OBVIOUS
  <2>2. QED
    BY <2>1, BlocksAssumption, FS_Subset
<1> HIDE DEF used
<1>8. Cardinality(S) = Cardinality(used)
  BY <1>6, <1>7, FS_Bijection
<1>9. QED
  BY <1>8 DEF used

LEMMA PartsAreApart == SysInv => PartsApart
<1> SUFFICES ASSUME SysInv PROVE PartsApart
  OBVIOUS
<1>1. MetasApart
  BY DEF SysInv, Parts
<1>2. ASSUME fault = {}, pc \notin Creation
      PROVE  BlocksApart({at[r] : r \in RootDirs} \cup {names[n] : n \in Filled})
  <2> DEFINE some == {at[r] : r \in RootDirs} \cup {names[n] : n \in Filled}
             uses == {u \in {<<"metas", 0, metaBlk>>} \cup FileUses(some) \cup ProcUses : u[3] \in Blocks}
  <2>1. pc \notin BeforeKroot /\ pc \notin BeforeUroot /\ pc # "allocator"
    BY <1>2 DEF Creation, BeforeKroot, BeforeUroot
  <2>2. some \subseteq Owned
    <3>1. \A r \in RootDirs : at[r] \in Owned
      BY <2>1, MetaAssumption DEF SysInv, IInv, RootsMade, RootDirs, Owned, Owns
    <3>2. \A n \in Filled : names[n] \in Owned
      BY <2>1 DEF SysInv, IInv, Typed, Owned, Owns, Filled
    <3>3. QED
      BY <3>1, <3>2
  <2>3. PICK own \in Owners : Shared(own)
    BY <1>2 DEF SysInv
  <2> HIDE DEF some
  <2>4. ASSUME NEW u \in uses PROVE u[3] \in Blocks /\ u = UseOf(own, u[3]) /\ u[3] \notin free
    <3>1. CASE u = <<"metas", 0, metaBlk>>
      <4>1. u[3] = metaBlk /\ metaBlk \in Blocks
        BY <2>4, <3>1
      <4>2. own[metaBlk] = <<NULL, "root", 0>> /\ metaBlk \notin free
        BY <2>1, <2>3, <4>1 DEF Shared, Used
      <4>3. own[metaBlk][1] = NULL
        BY <4>2
      <4>4. UseOf(own, metaBlk) = <<"metas", 0, metaBlk>>
        BY <4>3 DEF UseOf
      <4>5. QED
        BY <3>1, <4>1, <4>2, <4>4
    <3>2. CASE u \in FileUses(some)
      <4>1. PICK i \in some : \/ \E b \in DataOf(i) : u = <<"data", i, b>>
                              \/ \E b \in PtrBlksOf(Opened(i)) : u = <<"pointers", i, b>>
        BY <3>2 DEF FileUses
      <4>2. QED
        BY <1>2, <2>2, <2>3, <2>4, <4>1, FileUsesOwn
    <3>3. CASE u \in ProcUses
      BY <2>3, <2>4, <3>3, ProcUsesOwn
    <3>4. QED
      BY <2>4, <3>1, <3>2, <3>3
  <2> HIDE DEF uses
  <2>5. Cardinality({u[3] : u \in uses}) = Cardinality(uses)
    BY <2>4, AsMany
  <2>6. {u[3] : u \in uses} \cap free = {}
    BY <2>4
  <2>7. QED
    BY <2>5, <2>6 DEF BlocksApart, uses, some
<1>3. QED
  BY <1>1, <1>2 DEF PartsApart

(* In every reachable state each meta is one part's and, until the         *)
(* allocator loses track, each block has one use: the metas' block, files, *)
(* directories, page directories, tables and pages are apart, whatever was *)
(* refused and whatever the calls did.                                     *)
THEOREM PartsApartAlways == Spec => []PartsApart
<1>1. SysInv /\ Loading => PartsApart
  BY PartsAreApart
<1>2. QED
  BY <1>1, SystemParts, PTL

-----------------------------------------------------------------------------
(***************************************************************************)
(* The program the system runs: its file is in consecutive blocks when the *)
(* loader reads it, mmap gives it each address once, and the pages it has  *)
(* mapped show the blocks of its files.                                    *)
(***************************************************************************)

(* Addresses.                                                              *)

(* The ranges of the descriptors that have been mapped, one behind the     *)
(* other and in front of the next one.                                     *)
Placed ==
    /\ MmapPage <= nextMmap
    /\ \A a \in DOMAIN fds : fds[a].blks # 0 =>
          MmapPage <= fds[a].addr /\ fds[a].addr + fds[a].blks <= nextMmap
    /\ \A a, b \in DOMAIN fds : a # b /\ fds[a].blks # 0 /\ fds[b].blks # 0 =>
          \/ fds[a].addr + fds[a].blks <= fds[b].addr
          \/ fds[b].addr + fds[b].blks <= fds[a].addr

(* What a step may do to the descriptors.                                  *)
LEMMA DescriptorSteps ==
    ASSUME SysInv, [Next]_sysVars
    PROVE  \/ UNCHANGED <<fds, nextMmap>>
           \/ \E i \in MetaIds : fds' = Append(fds, Descriptor(i)) /\ nextMmap' = nextMmap
           \/ \E fd \in DOMAIN fds, pgs \in Nat :
                 /\ fds[fd].blks = 0
                 /\ fds' = [fds EXCEPT ![fd].addr = nextMmap, ![fd].blks = pgs]
                 /\ nextMmap' = nextMmap + pgs
<1>1. CASE Kernel \/ ResetInBoot \/ UNCHANGED sysVars
  BY <1>1 DEF Kernel, ResetInBoot, calls, sysVars
<1>2. CASE \E name \in Names : OpenKnown(name) \/ OpenNew(name)
  <2>1. PICK name \in Names : OpenKnown(name) \/ OpenNew(name)
    BY <1>2
  <2>2. \A n \in DOMAIN names : names[n] \in MetaIds
    BY DEF SysInv, IInv, Typed
  <2>3. QED
    BY <2>1, <2>2 DEF OpenKnown, OpenNew
<1>3. CASE \E fd \in DOMAIN fds : \/ \E target \in Targets : Grow(fd, target) \/ Shrink(fd, target)
                                  \/ MmapAgain(fd)
                                  \/ \E length \in Lengths : Munmap(fd, RoundUp(length))
  <2>1. PICK fd \in DOMAIN fds : \/ \E target \in Targets : Grow(fd, target) \/ Shrink(fd, target)
                                 \/ MmapAgain(fd)
                                 \/ \E length \in Lengths : Munmap(fd, RoundUp(length))
    BY <1>3
  <2>2. CASE \E target \in Targets : Grow(fd, target)
    BY <2>2 DEF Grow
  <2>3. CASE \E target \in Targets : Shrink(fd, target)
    BY <2>3 DEF Shrink
  <2>4. CASE MmapAgain(fd)
    BY <2>4 DEF MmapAgain
  <2>5. CASE \E length \in Lengths : Munmap(fd, RoundUp(length))
    BY <2>5 DEF Munmap
  <2>6. QED
    BY <2>1, <2>2, <2>3, <2>4, <2>5
<1>4. CASE \E fd \in DOMAIN fds, length \in Lengths, off \in Offsets : Mmap(fd, length, off)
  <2>1. PICK fd \in DOMAIN fds, length \in Lengths, off \in Offsets : Mmap(fd, length, off)
    BY <1>4
  <2> DEFINE i   == fds[fd].file
             pgs == RoundUp(IF length > files[i].size THEN files[i].size ELSE length)
  <2>2. i \in MetaIds /\ files[i] \in Metas
    BY <2>1, OpenedFile DEF Mmap, InUser, SysInv, Parts, MemoryTypes
  <2>3. pgs \in Nat
    <3>1. length \in Nat /\ files[i].size \in Nat
      BY <2>2, CallAssumption DEF Metas
    <3>2. QED
      BY <3>1, PagesFit
  <2>4. fds[fd].blks = 0
    BY <2>1 DEF Mmap
  <2>5. \/ /\ fds' = [fds EXCEPT ![fd].addr = nextMmap, ![fd].blks = pgs]
           /\ nextMmap' = nextMmap + pgs
        \/ UNCHANGED <<fds, nextMmap>>
    BY <2>1 DEF Mmap, Behind, calls
  <2> HIDE DEF pgs
  <2>6. QED
    BY <2>3, <2>4, <2>5
<1>5. QED
  BY <1>1, <1>2, <1>3, <1>4 DEF Next, Call, Stay

LEMMA DescriptorTypes ==
    ASSUME Calls
    PROVE  /\ fds \in Seq(Descriptors) /\ nextMmap \in Nat /\ MmapPage \in Nat
           /\ \A a \in DOMAIN fds : /\ fds[a].file \in MetaIds
                                    /\ fds[a].addr \in Nat /\ fds[a].blks \in Nat
<1>1. fds \in Seq(Descriptors) /\ nextMmap \in Nat
  BY DEF Calls
<1>2. MmapPage \in Nat
  BY BootAssumption DEF MmapPage
<1>3. ASSUME NEW a \in DOMAIN fds
      PROVE  fds[a].file \in MetaIds /\ fds[a].addr \in Nat /\ fds[a].blks \in Nat
  <2>1. fds[a] \in Descriptors
    BY <1>1
  <2>2. QED
    BY <2>1 DEF Descriptors
<1>4. QED
  BY <1>1, <1>2, <1>3

LEMMA PlacedKeeps ==
    ASSUME SysInv, SysInv', [Next]_sysVars, Placed
    PROVE  Placed'
<1>1. /\ fds \in Seq(Descriptors) /\ nextMmap \in Nat
      /\ fds' \in Seq(Descriptors) /\ nextMmap' \in Nat
  BY DEF SysInv, Parts, Calls
<1>2. /\ \A a \in DOMAIN fds : fds[a].addr \in Nat /\ fds[a].blks \in Nat
      /\ MmapPage \in Nat
  BY DescriptorTypes DEF SysInv, Parts
<1> HIDE DEF MmapPage
<1>3. CASE UNCHANGED <<fds, nextMmap>>
  BY <1>3 DEF Placed, MmapPage
<1>4. CASE \E i \in MetaIds : fds' = Append(fds, Descriptor(i)) /\ nextMmap' = nextMmap
  <2>1. PICK i \in MetaIds : fds' = Append(fds, Descriptor(i)) /\ nextMmap' = nextMmap
    BY <1>4
  <2>2. \A k \in DOMAIN fds' : \/ k \in DOMAIN fds /\ fds'[k] = fds[k]
                               \/ k \notin DOMAIN fds /\ fds'[k].blks = 0
    <3>1. Descriptor(i) \in Descriptors /\ Descriptor(i).blks = 0
      BY DEF Descriptor, Descriptors
    <3>2. QED
      BY <1>1, <2>1, <3>1, Appended1
  <2>3. QED
    BY <2>1, <2>2 DEF Placed
<1>5. CASE \E fd \in DOMAIN fds, pgs \in Nat :
              /\ fds[fd].blks = 0
              /\ fds' = [fds EXCEPT ![fd].addr = nextMmap, ![fd].blks = pgs]
              /\ nextMmap' = nextMmap + pgs
  <2>1. PICK fd \in DOMAIN fds, pgs \in Nat :
              /\ fds[fd].blks = 0
              /\ fds' = [fds EXCEPT ![fd].addr = nextMmap, ![fd].blks = pgs]
              /\ nextMmap' = nextMmap + pgs
    BY <1>5
  <2>2. /\ DOMAIN fds' = DOMAIN fds
        /\ fds'[fd].addr = nextMmap /\ fds'[fd].blks = pgs
        /\ \A k \in DOMAIN fds : k # fd => fds'[k] = fds[k]
    <3>1. fds[fd] \in Descriptors
      BY <1>1
    <3>2. QED
      BY <2>1, <3>1 DEF Descriptors
  <2>3. MmapPage <= nextMmap'
    BY <1>1, <1>2, <2>1 DEF Placed
  <2>4. ASSUME NEW a \in DOMAIN fds', fds'[a].blks # 0
        PROVE  MmapPage <= fds'[a].addr /\ fds'[a].addr + fds'[a].blks <= nextMmap'
    <3>1. CASE a = fd
      BY <1>1, <1>2, <2>1, <2>2, <3>1 DEF Placed
    <3>2. CASE a # fd
      BY <1>1, <1>2, <2>1, <2>2, <2>4, <3>2 DEF Placed
    <3>3. QED
      BY <3>1, <3>2
  <2>5. ASSUME NEW a \in DOMAIN fds', NEW b \in DOMAIN fds', a # b, fds'[a].blks # 0, fds'[b].blks # 0
        PROVE  \/ fds'[a].addr + fds'[a].blks <= fds'[b].addr
               \/ fds'[b].addr + fds'[b].blks <= fds'[a].addr
    <3>1. CASE a = fd
      BY <1>1, <1>2, <2>1, <2>2, <2>5, <3>1 DEF Placed
    <3>2. CASE b = fd
      BY <1>1, <1>2, <2>1, <2>2, <2>5, <3>2 DEF Placed
    <3>3. CASE a # fd /\ b # fd
      BY <1>1, <1>2, <2>1, <2>2, <2>5, <3>3 DEF Placed
    <3>4. QED
      BY <3>1, <3>2, <3>3
  <2>6. QED
    BY <2>3, <2>4, <2>5 DEF Placed, MmapPage
<1>6. QED
  BY <1>3, <1>4, <1>5, DescriptorSteps

LEMMA PlacedOnce ==
    ASSUME SysInv, Placed
    PROVE  AddressesOnce
<1>1. fds \in Seq(Descriptors) /\ nextMmap \in Nat /\ MmapPage \in Nat
  BY DescriptorTypes DEF SysInv, Parts
<1>2. \A a \in DOMAIN fds : fds[a].addr \in Nat /\ fds[a].blks \in Nat
  BY DescriptorTypes DEF SysInv, Parts
<1> HIDE DEF MmapPage
<1>3. ASSUME NEW a \in DOMAIN fds, NEW p \in Mapped(a)
      PROVE  /\ p \in Int /\ fds[a].blks # 0 /\ fds[a].addr <= p /\ p < fds[a].addr + fds[a].blks
             /\ MmapPage <= p /\ p < nextMmap
  <2>1. p \in Int /\ fds[a].addr <= p /\ p <= fds[a].addr + fds[a].blks - 1
    BY <1>2, <1>3 DEF Mapped
  <2>2. fds[a].blks # 0
    BY <1>2, <2>1
  <2>3. MmapPage <= fds[a].addr /\ fds[a].addr + fds[a].blks <= nextMmap
    BY <2>2 DEF Placed
  <2>4. QED
    BY <1>1, <1>2, <2>1, <2>2, <2>3
<1>4. ASSUME NEW a \in DOMAIN fds, NEW b \in DOMAIN fds, a # b, NEW p \in Mapped(a), p \in Mapped(b)
      PROVE  FALSE
  <2>1. /\ p \in Int /\ fds[a].blks # 0 /\ fds[b].blks # 0
        /\ fds[a].addr <= p /\ p < fds[a].addr + fds[a].blks
        /\ fds[b].addr <= p /\ p < fds[b].addr + fds[b].blks
    BY <1>3, <1>4
  <2>2. \/ fds[a].addr + fds[a].blks <= fds[b].addr
        \/ fds[b].addr + fds[b].blks <= fds[a].addr
    BY <1>4, <2>1 DEF Placed
  <2>3. QED
    BY <1>2, <2>1, <2>2
<1>5. QED
  BY <1>3, <1>4 DEF AddressesOnce

LEMMA InitPlaced == SysInit => Placed
<1> SUFFICES ASSUME SysInit PROVE Placed
  OBVIOUS
<1>1. fds = <<>> /\ nextMmap = MmapPage /\ MmapPage \in Nat
  BY BootAssumption DEF SysInit, MmapPage
<1>2. DOMAIN fds = {}
  BY <1>1
<1> HIDE DEF MmapPage
<1>3. QED
  BY <1>1, <1>2 DEF Placed

(* mmap gives no address twice: the ranges of any two descriptors are      *)
(* apart, and behind them no page was given.                               *)
THEOREM AddressesOnceAlways == Spec => []AddressesOnce
<1>1. SysInit => Placed
  BY InitPlaced
<1>2. (SysInv /\ Loading) /\ (SysInv /\ Loading)' /\ Placed /\ [Next]_sysVars => Placed'
  BY PlacedKeeps
<1>3. (SysInv /\ Loading) /\ Placed => AddressesOnce
  BY PlacedOnce
<1>4. QED
  BY <1>1, <1>2, <1>3, SystemParts, PTL DEF Spec

-----------------------------------------------------------------------------
(* The program's file.                                                     *)

(* A file's blocks are consecutive.                                        *)
InOrder(st) == \A k \in 1 .. st.m.blk - 1 : DataBlkAt(st, k) = st.m.first + k

(* It has n blocks, and none of them was refused.                          *)
Whole(st, n) == st.m.blk = n /\ \A k \in 0 .. n - 1 : DataBlkAt(st, k) \in Blocks

(* Copying into a new file that starts with a null block copies nothing.   *)
LEMMA RefusedAtOnce ==
    ASSUME NEW t, NEW old, old.size = 0, NEW len \in Nat \ {0}, DataBlkAt(t, 0) = NULL
    PROVE  Copied(t, old, len).ret = 0
<1> DEFINE touched == old.size \div BlockBytes .. (old.size + len - 1) \div BlockBytes
           nulls   == {i \in touched : DataBlkAt(t, i) = NULL}
           stop    == CHOOSE i \in nulls : \A j \in nulls : i <= j
<1>1. old.size \div BlockBytes = 0 /\ (old.size + len - 1) \div BlockBytes \in Nat
  <2>1. 0 \div BlockBytes = 0
    BY BytesAssumption
  <2>2. 0 + len - 1 \in Nat
    OBVIOUS
  <2>3. (0 + len - 1) \div BlockBytes \in Nat
    BY <2>2, BytesAssumption, DivMod
  <2>4. QED
    BY <2>1, <2>3
<1>2. 0 \in nulls /\ \A j \in nulls : j \in Nat
  BY <1>1
<1>3. stop = 0
  <2>1. \A j \in nulls : 0 <= j
    BY <1>2
  <2> HIDE DEF nulls
  <2>2. stop \in nulls /\ \A j \in nulls : stop <= j
    BY <1>2, <2>1
  <2>3. QED
    BY <1>2, <2>1, <2>2
<1>4. 0 * BlockBytes = 0
  BY BytesAssumption
<1>5. nulls # {}
  BY <1>2
<1>6. Copied(t, old, len).ret =
         IF nulls = {} THEN len
         ELSE IF stop * BlockBytes > old.size THEN stop * BlockBytes - old.size ELSE 0
  BY DEF Copied
<1> HIDE DEF nulls, stop
<1>7. QED
  BY <1>3, <1>4, <1>5, <1>6

(* It changes no block.                                                    *)
LEMMA CopiedInOrder ==
    ASSUME NEW t \in States, NEW old \in Metas, old.blk = 0, InOrder(t), NEW len
    PROVE  InOrder(Copied(t, old, len).st)
<1> DEFINE u == Copied(t, old, len).st
<1>1. \E m \in {t.m, old} : \E n : u.m = Resized(m, n) /\ u.slot = t.slot
  BY DEF Copied, Fail, States
<1>2. PICK m \in {t.m, old} : /\ u.m.blk = m.blk /\ u.m.first = m.first /\ u.m.ptr1 = m.ptr1
                              /\ u.m.ptr2 = m.ptr2 /\ u.slot = t.slot
  <2>1. t.m \in Metas
    BY DEF States
  <2>2. QED
    BY <1>1, <2>1 DEF Resized, Metas
<1> HIDE DEF u
<1>3. CASE m = t.m
  <2>1. \A k : DataBlkAt(u, k) = DataBlkAt(t, k)
    BY <1>2, <1>3 DEF DataBlkAt, Leaf
  <2>2. QED
    BY <1>2, <1>3, <2>1 DEF InOrder, u
<1>4. CASE m = old
  <2>1. u.m.blk = 0
    BY <1>2, <1>4
  <2>2. 1 .. u.m.blk - 1 = {}
    BY <2>1
  <2>3. QED
    BY <2>2 DEF InOrder, u
<1>5. QED
  BY <1>3, <1>4

(* Copying into a new file that has all blocks it needs keeps them.        *)
LEMMA CopiedWhole ==
    ASSUME NEW t \in States, NEW old, old.size = 0, NEW len \in Nat \ {0}, Whole(t, BlocksFor(len))
    PROVE  Whole(Copied(t, old, len).st, BlocksFor(len))
<1> DEFINE touched == old.size \div BlockBytes .. (old.size + len - 1) \div BlockBytes
           nulls   == {i \in touched : DataBlkAt(t, i) = NULL}
           u       == Copied(t, old, len).st
<1>1. old.size \div BlockBytes = 0
  <2>1. 0 \div BlockBytes = 0
    BY BytesAssumption
  <2>2. QED
    BY <2>1
<1>2. /\ (old.size + len - 1) \div BlockBytes \in Nat
      /\ (old.size + len - 1) \div BlockBytes <= BlocksFor(len) - 1
  <2>1. 0 + len - 1 \in Nat /\ 0 + len - 1 <= len
    OBVIOUS
  <2>2. /\ (0 + len - 1) \div BlockBytes \in Nat /\ len \div BlockBytes \in Nat
        /\ (0 + len - 1) \div BlockBytes <= len \div BlockBytes
    BY <2>1, BytesAssumption, DivMod, DivMonotone
  <2>3. BlocksFor(len) - 1 = len \div BlockBytes
    BY <2>2 DEF BlocksFor
  <2>4. QED
    BY <2>2, <2>3
<1>3. BlocksFor(len) \in Nat
  BY BytesAssumption, DivMod DEF BlocksFor
<1>4. touched \subseteq 0 .. BlocksFor(len) - 1
  BY <1>1, <1>2, <1>3
<1>5. nulls = {}
  BY <1>4, NullAssumption DEF Whole
<1>6. \E n : u.m = Resized(t.m, n) /\ u.slot = t.slot
  <2>1. Copied(t, old, len).st =
           [(IF {i \in touched : DataBlkAt(t, i) = FOREIGN /\ \A j \in nulls : i < j} = {}
             THEN t ELSE Fail(t, "foreign write"))
              EXCEPT !.m = Resized(IF nulls = {} THEN t.m ELSE old,
                                   old.size + (IF nulls = {} THEN len
                                               ELSE IF (CHOOSE i \in nulls : \A j \in nulls : i <= j) * BlockBytes > old.size
                                                    THEN (CHOOSE i \in nulls : \A j \in nulls : i <= j) * BlockBytes - old.size
                                                    ELSE 0))]
    BY DEF Copied
  <2> HIDE DEF nulls, touched
  <2>2. QED
    BY <1>5, <2>1 DEF Fail, States
<1>7. u.m.blk = t.m.blk /\ u.m.first = t.m.first /\ u.m.ptr1 = t.m.ptr1 /\ u.m.ptr2 = t.m.ptr2
      /\ u.slot = t.slot
  <2>1. t.m \in Metas
    BY DEF States
  <2>2. QED
    BY <1>6, <2>1 DEF Resized, Metas
<1> HIDE DEF u
<1>8. \A k : DataBlkAt(u, k) = DataBlkAt(t, k)
  BY <1>7 DEF DataBlkAt, Leaf
<1>9. QED
  BY <1>7, <1>8 DEF Whole, u

(* The first append to a file gives it consecutive blocks, all it needs,   *)
(* or less than was asked for.                                             *)
LEMMA AppendsInOrder ==
    ASSUME NEW f \in MetaIds, NEW st \in States, NEW own \in Owners, Held(f, st, own),
           st.m = Blank, NEW len \in Nat, len <= MaxSize, NEW a \in Appends(st, len), a.ret = len
    PROVE  InOrder(a.st) /\ (len > 0 => Whole(a.st, BlocksFor(len)))
<1> DEFINE need == BlocksNeeded(st.m, len)
           taken(s) == WithFree(st, st.free \ ToSet(s), TrackAfterRequest(st, need))
<1>0. /\ st.m \in Metas /\ st.m.blk = 0 /\ st.m.size = 0 /\ st.m.size + len = len
      /\ BlocksFor(st.m.size + len) \in Nat /\ BlocksFor(st.m.size + len) <= MaxBlk
  <2>1. st.m \in Metas /\ st.m.blk = 0 /\ st.m.size = 0
    BY StateFields DEF Blank
  <2>2. st.m.size + len = len
    BY <2>1
  <2>3. QED
    BY <2>1, <2>2, EnoughBlocks
<1>1. /\ need \in Nat
      /\ need # 0 => len > 0 /\ need = BlocksFor(st.m.size + len)
      /\ len > 0 => need # 0
  <2>1. BlocksFor(len) > 0
    <3>1. len \div BlockBytes \in Nat
      BY BytesAssumption, DivMod
    <3>2. QED
      BY <3>1 DEF BlocksFor
  <2>2. QED
    BY <1>0, <2>1 DEF BlocksNeeded
<1>2. a \in CASE need = 0 -> {Copied(st, st.m, len)}
              [] need > 0 /\ Segments(st, need) = {} -> Appended(st, len, NullSegment(need))
              [] OTHER -> UNION {Appended(taken(s), len, s) : s \in Segments(st, need)}
  BY DEF Appends, WithFree
<1> HIDE DEF need
<1>3. CASE need = 0
  <2>1. InOrder(st)
    <3>1. 1 .. st.m.blk - 1 = {}
      BY <1>0
    <3>2. QED
      BY <3>1 DEF InOrder
  <2>2. InOrder(a.st)
    BY <1>0, <1>2, <1>3, <2>1, CopiedInOrder
  <2>3. QED
    BY <1>1, <1>3, <2>2
<1>4. CASE need # 0 /\ Segments(st, need) = {}
  <2> DEFINE s == NullSegment(need)
  <2>1. a \in Appended(st, len, s)
    BY <1>1, <1>2, <1>4
  <2>2. need \in Nat \ {0} /\ len \in Nat \ {0}
    BY <1>1, <1>4
  <2>3. /\ s \in Seq({NULL, FOREIGN}) /\ Len(s) = need
        /\ \A j \in 1 .. need : s[j] = IF j = 1 THEN NULL ELSE FOREIGN
    BY <2>2, NullSegments
  <2> HIDE DEF s
  <2>4. s \in Seq(Ptrs) /\ s[1] = NULL /\ \A j \in 1 .. need : s[j] \notin Blocks
    BY <2>2, <2>3, NullAssumption DEF Ptrs
  <2>5. st.m.blk + Len(s) <= MaxBlk
    BY <1>0, <1>1, <1>4, <2>3
  <2>6. PICK p : Pushes(st, s) = {p} /\ Pushed(f, st, own, s, Len(s), p)
    BY <2>3, <2>4, <2>5, PushesKeep
  <2>7. a = IF p.failed THEN [st |-> p.st, ret |-> -1] ELSE Copied(p.st, st.m, len)
    BY <2>1, <2>6 DEF Appended
  <2>8. ~p.failed
    <3>1. -1 # len
      BY <2>2
    <3>2. QED
      BY <2>7, <3>1
  <2>9. DataBlkAt(p.st, 0) = NULL
    <3>1. 1 \in 1 .. Len(s) /\ st.m.blk + 1 - 1 = 0 /\ st.m.blk + 1 <= st.m.blk + Len(s)
      BY <1>0, <2>2, <2>3
    <3>2. p.st.m.blk = st.m.blk + Len(s)
      BY <2>6, <2>8 DEF Pushed
    <3>3. DataBlkAt(p.st, st.m.blk + 1 - 1) = s[1]
      BY <2>6, <3>1, <3>2 DEF Pushed
    <3>4. QED
      BY <2>4, <3>1, <3>3
  <2>10. a.ret = 0
    BY <1>0, <2>2, <2>7, <2>8, <2>9, RefusedAtOnce
  <2>11. QED
    BY <2>2, <2>10
<1>5. CASE need # 0 /\ Segments(st, need) # {}
  <2>1. PICK s \in Segments(st, need) : a \in Appended(taken(s), len, s)
    BY <1>1, <1>2, <1>5
  <2>2. need \in Nat \ {0} /\ len \in Nat \ {0}
    BY <1>1, <1>5
  <2>3. s \in Seq(Blocks) /\ Len(s) = need /\ \A j \in 1 .. need : s[j] \in Blocks
    BY <2>2, SegmentsAreFree, StateFields
  <2> DEFINE t == taken(s)
  <2>4. PICK own2 : /\ Extended(f, st, own, t, own2)
                    /\ \A j \in 1 .. need : Marked(t, own2, s[j], <<f, "data", st.m.blk + j - 1>>)
    BY <2>2, SegmentTaken
  <2>5. t.m = st.m /\ a \in Appended(t, len, s)
    BY <2>1, <2>2, SegmentTaken
  <2> HIDE DEF t
  <2>6. s \in Seq(Ptrs)
    BY <2>3 DEF Ptrs
  <2>7. t \in States /\ own2 \in Owners /\ Held(f, t, own2)
    BY <2>4 DEF Extended
  <2>8. /\ t.m.blk + Len(s) <= MaxBlk
        /\ \A j \in 1 .. Len(s) : s[j] \in Blocks => Marked(t, own2, s[j], <<f, "data", t.m.blk + j - 1>>)
    BY <1>0, <1>1, <1>5, <2>3, <2>4, <2>5
  <2>9. PICK p : Pushes(t, s) = {p} /\ Pushed(f, t, own2, s, Len(s), p)
    BY <2>6, <2>7, <2>8, PushesKeep
  <2>10. a = Copied(p.st, t.m, len)
    <3>1. a = IF p.failed THEN [st |-> p.st, ret |-> -1] ELSE Copied(p.st, t.m, len)
      BY <2>5, <2>9 DEF Appended
    <3>2. -1 # len
      BY <2>2
    <3>3. QED
      BY <3>1, <3>2
  <2>11. p.st \in States /\ t.m \in Metas /\ t.m.blk = 0
    <3>1. \E own3 : Extended(f, t, own2, p.st, own3)
      BY <2>9 DEF Pushed
    <3>2. QED
      BY <1>0, <2>5, <3>1 DEF Extended
  <2>12. p.st.m.blk \in Nat /\ p.st.m.blk <= need
    BY <2>2, <2>3, <2>9, <2>11, StateFields DEF Pushed
  <2>13. ASSUME NEW j \in 1 .. need, j <= p.st.m.blk PROVE DataBlkAt(p.st, j - 1) = s[j]
    <3>1. j \in 1 .. Len(s) /\ t.m.blk + j <= p.st.m.blk /\ t.m.blk + j - 1 = j - 1
      BY <2>2, <2>3, <2>11, <2>12, <2>13
    <3>2. DataBlkAt(p.st, t.m.blk + j - 1) = s[j]
      BY <2>9, <3>1 DEF Pushed
    <3>3. QED
      BY <3>1, <3>2
  <2>14. \A j \in 1 .. need : s[j] = s[1] + j - 1
    <3>1. PICK r \in Store!BestFits(st.free, need) : s = [j \in 1 .. need |-> r[1] + j - 1]
      BY <2>1 DEF Segments
    <3>2. r[1] \in Nat
      BY <3>1, StateFields, BlocksAssumption DEF Store!BestFits, Store!Runs
    <3>3. s[1] = r[1]
      BY <2>2, <3>1, <3>2
    <3>4. QED
      BY <3>1, <3>3
  <2>15. InOrder(p.st)
    <3> DEFINE end == p.st.m.blk
    <3> SUFFICES ASSUME NEW k \in 1 .. end - 1 PROVE DataBlkAt(p.st, k) = p.st.m.first + k
      BY DEF InOrder
    <3>1. end \in Nat /\ end <= need
      BY <2>12
    <3> HIDE DEF end
    <3>2. 1 \in 1 .. need /\ k + 1 \in 1 .. need /\ 1 <= end /\ k + 1 <= end /\ k + 1 - 1 = k /\ 1 - 1 = 0
      BY <2>2, <3>1
    <3>3. DataBlkAt(p.st, 0) = s[1] /\ DataBlkAt(p.st, k) = s[k + 1]
      <4>1. DataBlkAt(p.st, 1 - 1) = s[1]
        BY <2>13, <3>2 DEF end
      <4>2. DataBlkAt(p.st, k + 1 - 1) = s[k + 1]
        BY <2>13, <3>2 DEF end
      <4>3. QED
        BY <3>2, <4>1, <4>2
    <3>4. p.st.m.first = s[1]
      BY <3>3 DEF DataBlkAt
    <3>5. s[k + 1] = s[1] + k
      <4>1. s[k + 1] = s[1] + (k + 1) - 1 /\ s[1] \in Nat
        BY <2>3, <2>14, <3>2, BlocksAssumption
      <4>2. QED
        BY <4>1
    <3>6. QED
      BY <3>3, <3>4, <3>5
  <2>16. Whole(p.st, BlocksFor(len))
    <3>1. need = BlocksFor(len)
      BY <1>0, <1>1, <1>5
    <3>2. ~p.failed
      <4>1. a = IF p.failed THEN [st |-> p.st, ret |-> -1] ELSE Copied(p.st, t.m, len)
        BY <2>5, <2>9 DEF Appended
      <4>2. -1 # len
        BY <2>2
      <4>3. QED
        BY <4>1, <4>2
    <3>3. p.st.m.blk = need
      BY <2>2, <2>3, <2>9, <2>11, <3>2 DEF Pushed
    <3>4. ASSUME NEW k \in 0 .. need - 1 PROVE DataBlkAt(p.st, k) \in Blocks
      <4>1. k + 1 \in 1 .. need /\ k + 1 <= p.st.m.blk /\ k + 1 - 1 = k
        BY <2>2, <3>3
      <4>2. DataBlkAt(p.st, k + 1 - 1) = s[k + 1]
        BY <2>13, <4>1
      <4>3. QED
        BY <2>3, <4>1, <4>2
    <3>5. QED
      BY <3>1, <3>3, <3>4 DEF Whole
  <2>17. Whole(a.st, BlocksFor(len))
    BY <1>0, <2>2, <2>5, <2>10, <2>11, <2>16, CopiedWhole
  <2>18. InOrder(a.st)
    BY <2>10, <2>11, <2>15, CopiedInOrder
  <2>19. QED
    BY <2>17, <2>18
<1>6. QED
  BY <1>3, <1>4, <1>5

(* The steps after the program has been appended and before it runs.       *)
AfterAppend ==
    {"proc0", "create proc0"} \cup OfProc0 \cup {"demoProc", "create demoProc"} \cup (OfDemo \ {"user"})

(* The file that holds the program.                                        *)
ProgramFile(st) == InOrder(st) /\ (program.size > 0 => Whole(st, BlocksFor(program.size)))

Consecutive ==
    /\ fault = {} /\ pc \in AfterAppend => ProgramFile(Opened(at["demo"]))
    /\ pc = "header" => fault = {}

LEMMA ConsecutiveStays ==
    ASSUME Consecutive, fault = {}, pc' \in AfterAppend => pc \in AfterAppend,
           pc' = "header" => fault' = {}, at'["demo"] = at["demo"],
           slot' = slot, files'[at["demo"]] = files[at["demo"]], program' = program
    PROVE  Consecutive'
BY DEF Consecutive, ProgramFile, InOrder, Whole, Opened, DataBlkAt, Leaf

(* A step that leaves files and metas alone.                               *)
LEMMA ConsecutiveOn ==
    ASSUME Consecutive, fault = {}, OthersStay, pc \in AfterAppend \/ pc' \notin AfterAppend,
           pc' = "header" => fault' = {}
    PROVE  Consecutive'
BY ConsecutiveStays DEF OthersStay, metaVars, control

(* Calls are made by the program, and change nothing the kernel keeps for  *)
(* itself.                                                                 *)
LEMMA CallsStay == Call => pc = "user" /\ fault = {} /\ Stays
<1>1. ASSUME NEW name, OpenKnown(name) \/ OpenNew(name) PROVE InUser /\ Stays
  BY <1>1 DEF OpenKnown, OpenNew
<1>2. ASSUME NEW fd, NEW target, Grow(fd, target) \/ Shrink(fd, target) PROVE InUser /\ Stays
  BY <1>2 DEF Grow, Shrink
<1>3. ASSUME NEW fd, MmapAgain(fd) PROVE InUser /\ Stays
  BY <1>3 DEF MmapAgain
<1>4. ASSUME NEW fd, NEW length, NEW off, Mmap(fd, length, off) PROVE InUser /\ Stays
  BY <1>4 DEF Mmap
<1>5. ASSUME NEW fd, NEW length, Munmap(fd, RoundUp(length)) PROVE InUser /\ Stays
  BY <1>5 DEF Munmap
<1>6. QED
  BY <1>1, <1>2, <1>3, <1>4, <1>5 DEF Call, InUser

LEMMA AppendedConsecutive ==
    ASSUME SysInv, fault = {}, AppendDemo
    PROVE  Consecutive'
<1> DEFINE i == at["demo"]
           z == Opened(i)
<1>1. Parts /\ IInv /\ pc = "write demo"
  BY DEF SysInv, AppendDemo
<1>2. PICK a \in Appends(z, program.size) :
         /\ Close(i, a.st)
         /\ Goto(IF a.ret = program.size THEN "proc0" ELSE "end")
  BY DEF AppendDemo, AppendTo
<1>3. CASE a.ret # program.size
  BY <1>2, <1>3 DEF Consecutive, AfterAppend, OfProc0, OfDemo, Goto
<1>4. CASE fault' # {}
  BY <1>2, <1>4 DEF Consecutive, Goto
<1>5. CASE a.ret = program.size /\ fault' = {}
  <2>1. "demo" \in DOMAIN names /\ names["demo"] = i /\ i \in MetaIds
    BY <1>1, EnteredFile
  <2>2. Filled = DOMAIN names /\ pc \notin BeforeUroot
    BY <1>1 DEF BeforeUroot, BeforeKroot, Filled
  <2>3. i \in Owned
    BY <2>1, <2>2 DEF Owned, Owns
  <2>4. PICK own \in Owners : Shared(own)
    BY DEF SysInv
  <2>5. z \in States /\ Held(i, z, own) /\ z.m = files[i]
    BY <1>1, <2>1, <2>3, <2>4, OpenedState, OpenedParts DEF Parts, Shared
  <2>6. z.m = Blank
    BY <1>1, <2>5 DEF Parts, KernelFiles
  <2>7. program.size \in Nat /\ program.size <= MaxSize
    BY <1>1, BootAssumption DEF Parts, MemoryTypes
  <2>8. ProgramFile(a.st)
    <3> HIDE DEF i, z
    <3>1. QED
      BY <1>2, <1>5, <2>1, <2>4, <2>5, <2>6, <2>7, AppendsInOrder DEF ProgramFile
  <2>9. files'[i] = a.st.m /\ slot' = a.st.slot
    BY <1>1, <1>2, <1>5, <2>1 DEF Close, Parts, MemoryTypes
  <2>10. at' = at /\ program' = program
    BY DEF AppendDemo, AppendTo, metaVars, control
  <2>11. ProgramFile(Opened(at["demo"]))'
    BY <2>8, <2>9, <2>10 DEF ProgramFile, InOrder, Whole, Opened, DataBlkAt, Leaf
  <2>12. QED
    BY <1>5, <2>11 DEF Consecutive
<1>6. QED
  BY <1>3, <1>4, <1>5

(* A process gets a meta of its own, and its entry goes to the kernel's    *)
(* directory.                                                              *)
LEMMA EnteredConsecutive ==
    ASSUME SysInv, Consecutive, fault = {}, NEW role \in {"proc0", "demoProc"}, pc = role, NEW next,
           next \in {"create proc0", "create demoProc"}, Enter(role, "kroot", "proc", next)
    PROVE  Consecutive'
<1>1. Parts /\ IInv
  BY DEF SysInv
<1>2. pc \in AfterAppend /\ pc \in AfterDemo /\ pc \notin BeforeUroot /\ pc \notin BeforeKroot
      /\ pc \notin {"user", "end"}
  BY DEF AfterAppend, AfterDemo, BeforeUroot, BeforeKroot
<1>3. TakeMeta(role, "proc") /\ \E e \in Entered(Opened(at["kroot"])) : Close(at["kroot"], e.st)
  BY DEF Enter
<1>4. at'["demo"] = at["demo"]
  <2>1. role \in Roles /\ role # "kroot" /\ role # "demo" /\ "demo" \in Roles
    BY DEF Roles, RootDirs
  <2>2. \A r \in Roles : r # role => at'[r] = at[r]
    BY <1>1, <1>2, <1>3, <2>1, TakenMeta
  <2>3. QED
    BY <2>1, <2>2
<1>5. at["demo"] # at["kroot"]
  <2>1. "demo" \in DOMAIN names /\ names["demo"] = at["demo"]
    BY <1>1, <1>2 DEF Parts, KernelFiles
  <2>2. at["demo"] \in MetaIds
    BY <1>1, <2>1 DEF IInv, Typed
  <2>3. at["demo"] # NULL /\ "demo" \in Roles /\ "kroot" \in Roles /\ "demo" # "kroot"
    BY <2>2, MetaAssumption, PointerAssumption DEF Roles, RootDirs
  <2>4. QED
    BY <1>1, <2>3 DEF Parts, MetasApart
<1>6. PICK e \in Entered(Opened(at["kroot"])) : Close(at["kroot"], e.st)
  BY <1>3
<1>7. slot' = slot
  <2> DEFINE i == at["kroot"]
             z == Opened(i)
  <2>1. i \in MetaIds /\ i \in Owned
    <3>1. at["kroot"] = 0
      BY <1>1, <1>2 DEF IInv, RootsMade
    <3>2. QED
      BY <1>2, <3>1, MetaAssumption DEF Owned, Owns
  <2>2. PICK own \in Owners : Shared(own)
    BY DEF SysInv
  <2>3. z \in States /\ Held(i, z, own) /\ z.m = files[i] /\ z.slot = slot
    BY <1>1, <2>1, <2>2, OpenedState, OpenedParts DEF Parts, Shared
  <2>4. z.m.blk \in {0, 1}
    BY <1>1, <1>2, <2>3 DEF Parts, SmallRoots
  <2>5. e.st.slot = z.slot
    <3> HIDE DEF i, z
    <3>1. e \in Entered(z)
      BY <1>6 DEF i, z
    <3>2. QED
      BY <2>1, <2>2, <2>3, <2>4, <3>1, EnteredKeeps
  <2>6. QED
    BY <1>6, <2>3, <2>5 DEF Close
<1>8. files'[at["demo"]] = files[at["demo"]]
  <2>1. at["demo"] \in MetaIds
    BY <1>1, <1>2 DEF IInv, Typed, Parts, KernelFiles
  <2>2. DOMAIN files = MetaIds
    BY <1>1 DEF Parts, MemoryTypes
  <2>3. files' = files \/ files' = [files EXCEPT ![at["kroot"]] = e.st.m]
    BY <1>6 DEF Close
  <2>4. QED
    BY <1>5, <2>1, <2>2, <2>3
<1>9. program' = program
  BY DEF Enter, control
<1>10. pc' # "header"
  BY DEF Enter, Goto
<1>11. QED
  BY <1>2, <1>4, <1>7, <1>8, <1>9, <1>10, ConsecutiveStays

LEMMA ConsecutiveKeeps == SysInv /\ Consecutive /\ [Next]_sysVars => Consecutive'
<1> SUFFICES ASSUME SysInv, Consecutive, [Next]_sysVars PROVE Consecutive'
  OBVIOUS
<1> USE DEF AfterAppend, OfProc0, OfDemo
<1>1. ASSUME Create PROVE Consecutive'
  <2>1. pc' \in {"freeList", "kroot", "uroot", "metaList", "magic", "file0"}
    BY <1>1 DEF Create, CreateAllocator, Write, CreateRoot, Goto
  <2>2. QED
    BY <2>1 DEF Consecutive
<1>2. ASSUME AddFiles, fault = {} PROVE Consecutive'
  <2>1. CASE AppendDemo
    BY <1>2, <2>1, AppendedConsecutive
  <2>2. CASE ~AppendDemo
    <3>1. pc' \in {"blank file0", "write file0", "demo", "blank demo", "write demo", "end"}
      BY <1>2, <2>2 DEF AddFiles, Enter, BlankFile, AppendFile0, AppendTo, Goto
    <3>2. QED
      BY <3>1 DEF Consecutive
  <2>3. QED
    BY <2>1, <2>2
<1>3. ASSUME StartProc0, fault = {} PROVE Consecutive'
  <2>1. CASE Enter("proc0", "kroot", "proc", "create proc0")
    <3>1. pc = "proc0"
      BY <2>1 DEF Enter
    <3>2. QED
      BY <1>3, <2>1, <3>1, EnteredConsecutive
  <2>2. CASE CreateProc("proc0", "create proc0", "map kernel")
    BY <1>3, <2>2, ConsecutiveOn DEF CreateProc, Returned, Goto
  <2>3. CASE MapKernel("proc0", "map kernel", LowPage, "map file0")
    BY <1>3, <2>3, ConsecutiveOn DEF MapKernel, Returned, Goto
  <2>4. CASE MapFile0
    BY <1>3, <2>4, ConsecutiveOn DEF MapFile0, Returned, Goto
  <2>5. CASE AllocBlks("proc0", "stack", StackPage, "syscall stack")
    BY <1>3, <2>5, ConsecutiveOn DEF AllocBlks, Returned, Goto
  <2>6. CASE MapSyscallStack
    BY <1>3, <2>6, ConsecutiveOn DEF MapSyscallStack, Returned, Goto
  <2>7. QED
    BY <1>3, <2>1, <2>2, <2>3, <2>4, <2>5, <2>6 DEF StartProc0
<1>4. ASSUME StartDemo, fault = {} PROVE Consecutive'
  <2>1. CASE Enter("demoProc", "kroot", "proc", "create demoProc")
    <3>1. pc = "demoProc"
      BY <2>1 DEF Enter
    <3>2. QED
      BY <1>4, <2>1, <3>1, EnteredConsecutive
  <2>2. CASE CreateProc("demoProc", "create demoProc", "header")
    BY <1>4, <2>2, ConsecutiveOn DEF CreateProc, Returned, Goto
  <2>3. CASE CheckHeader \/ Loaded
    <3>1. pc \in {"header", "segment"} /\ UNCHANGED <<files, slot, at, program, fault>>
      BY <2>3 DEF CheckHeader, Loaded, memory, metaVars, control
    <3>2. QED
      BY <1>4, <3>1, ConsecutiveStays
  <2>4. CASE LoadFile
    BY <1>4, <2>4, ConsecutiveOn DEF LoadFile, Returned, Goto
  <2>5. CASE LoadBss
    BY <1>4, <2>5, ConsecutiveOn DEF LoadBss, Returned, Goto
  <2>6. CASE MapKernel("demoProc", "kstack", KstackPage, "low memory")
    BY <1>4, <2>6, ConsecutiveOn DEF MapKernel, Returned, Goto
  <2>7. CASE MapLow
    <3>1. pc = "low memory" /\ UNCHANGED <<files, slot, at, program, fault>>
      BY <2>7 DEF MapLow, memory, metaVars, control
    <3>2. QED
      BY <1>4, <3>1, ConsecutiveStays
  <2>8. CASE AllocBlks("demoProc", "ustack", UstackPage, "user")
    BY <1>4, <2>8, ConsecutiveOn DEF AllocBlks, Returned, Goto
  <2>9. QED
    BY <1>4, <2>1, <2>2, <2>3, <2>4, <2>5, <2>6, <2>7, <2>8 DEF StartDemo
<1>5. CASE Kernel
  BY <1>1, <1>2, <1>3, <1>4, <1>5 DEF Kernel, Step
<1>6. CASE ResetInBoot
  BY <1>6 DEF ResetInBoot, Reset, Consecutive
<1>7. CASE Call
  BY <1>7, CallsStay DEF Stays, Consecutive
<1>8. CASE UNCHANGED sysVars
  BY <1>8 DEF Consecutive, ProgramFile, InOrder, Whole, Opened, DataBlkAt, Leaf, sysVars, vars,
              memory, metaVars, control
<1>9. QED
  BY <1>5, <1>6, <1>7, <1>8 DEF Next, Stay

(* The program's file is in consecutive blocks when the loader, which does *)
(* not check it, reads the headers behind the first (elfloader.c:9).       *)
THEOREM ExecIsConsecutiveAlways == Spec => []ExecIsConsecutive
<1>1. SysInit => Consecutive
  BY DEF SysInit, Init, Consecutive, AfterAppend, OfProc0, OfDemo
<1>2. SysInv /\ SysInv' /\ Consecutive /\ [Next]_sysVars => Consecutive'
  BY ConsecutiveKeeps
<1>3. Consecutive => ExecIsConsecutive
  BY OpenedParts DEF Consecutive, AfterAppend, OfDemo, ExecIsConsecutive, ProgramFile, InOrder
<1>4. QED
  BY <1>1, <1>2, <1>3, SystemParts, PTL DEF Spec

-----------------------------------------------------------------------------
(* What mmap shows.                                                        *)

(* A page that mmap gave: it is in front of the next one, belongs to a     *)
(* file the root directory names, and shows a block the file has.          *)
ShownAt(p) ==
    LET i == shows[p][1]
        k == shows[p][2]
    IN  /\ p \in PM!Pages /\ MmapPage <= p /\ p < nextMmap
        /\ \E n \in DOMAIN names : i = names[n]
        /\ k \in Nat /\ k < files[i].blk
        /\ pages[at["demoProc"]][p] \in {PM!Absent, PM!Entry("file", DataBlkAt(Opened(i), k))}

Shown == fault = {} => \A p \in DOMAIN shows : ShownAt(p)

(* The program is started by the kernel's last step.                       *)
LEMMA StepsBeforeUser == Step => pc # "user"
<1>1. Create \/ AddFiles => pc # "user"
  BY DEF Create, CreateAllocator, Write, CreateRoot, AddFiles, Enter, BlankFile, AppendFile0, AppendDemo
<1>2. StartProc0 => pc # "user"
  BY DEF StartProc0, Enter, CreateProc, MapKernel, MapFile0, AllocBlks, MapSyscallStack
<1>3. StartDemo => pc # "user"
  BY DEF StartDemo, Enter, CreateProc, CheckHeader, LoadFile, LoadBss, Loaded, MapKernel, MapLow,
         AllocBlks
<1>4. QED
  BY <1>1, <1>2, <1>3 DEF Step

(* What file_getMap gives are the file's blocks from one on.               *)
LEMMA FileMapBlocks ==
    ASSUME MemoryTypes, NEW i \in MetaIds, NEW from \in Nat, NEW len \in Nat
    PROVE  LET n == Cardinality(DOMAIN FileMap(i, from, len))
           IN  /\ n \in Nat /\ n <= len
               /\ \A k \in 0 .. n - 1 : /\ from + k < files[i].blk
                                        /\ FileMap(i, from, len)[k] = DataBlkAt(Opened(i), from + k)
<1> DEFINE blk   == files[i].blk
           count == IF from + len > blk THEN blk - from ELSE len
           nulls == {k \in 0 .. count - 1 : DataBlkAt(Opened(i), from + k) = NULL}
           D     == {k \in 0 .. count - 1 : \A z \in nulls : k < z}
           n     == Cardinality(D)
<1>1. FileMap(i, from, len) = [k \in D |-> DataBlkAt(Opened(i), from + k)]
  BY OpenedParts DEF FileMap
<1>2. blk \in Nat
  BY DEF MemoryTypes, Metas
<1>3. count \in Int /\ count <= len /\ \A k \in 0 .. count - 1 : from + k < blk
  BY <1>2
<1> HIDE DEF count, blk
<1>4. \E m \in Nat : D = 0 .. m - 1 /\ m <= len
  <2>1. CASE nulls = {} /\ count >= 0
    <3>1. D = 0 .. count - 1
      BY <2>1
    <3>2. QED
      BY <1>3, <2>1, <3>1
  <2>2. CASE count < 0
    <3>1. D = 0 .. 0 - 1
      BY <1>3, <2>2
    <3>2. QED
      BY <3>1
  <2>3. CASE nulls # {}
    <3>1. nulls \in SUBSET Nat
      BY <1>3
    <3>2. PICK z \in nulls : \A y \in nulls : z <= y
      BY <2>3, <3>1, LeastNumber
    <3>3. z \in Nat /\ z <= count - 1
      BY <1>3, <3>2
    <3>4. \A k \in 0 .. count - 1 : k < z <=> k \in D
      <4>1. \A y \in nulls : y \in Nat /\ z <= y
        BY <3>1, <3>2
      <4> HIDE DEF nulls
      <4>2. QED
        BY <1>3, <3>2, <3>3, <4>1
    <3>5. D = 0 .. z - 1
      <4>1. D \subseteq 0 .. count - 1
        OBVIOUS
      <4> HIDE DEF D, nulls
      <4>2. \A k : k \in 0 .. z - 1 <=> k \in 0 .. count - 1 /\ k < z
        BY <1>3, <3>3
      <4>3. QED
        BY <3>4, <4>1, <4>2
    <3>6. QED
      BY <1>3, <3>3, <3>5
  <2>4. QED
    BY <1>3, <2>1, <2>2, <2>3
<1>5. PICK m \in Nat : D = 0 .. m - 1 /\ m <= len
  BY <1>4
<1>6. n = m
  <2>1. 0 \in Int /\ m - 1 \in Int /\ (IF 0 > m - 1 THEN 0 ELSE m - 1 - 0 + 1) = m
    OBVIOUS
  <2> HIDE DEF D
  <2>2. Cardinality(0 .. m - 1) = IF 0 > m - 1 THEN 0 ELSE m - 1 - 0 + 1
    BY <2>1, FS_Interval
  <2>3. QED
    BY <1>5, <2>1, <2>2
<1>7. \A k \in D : from + k < blk
  BY <1>3
<1> HIDE DEF D
<1>8. DOMAIN FileMap(i, from, len) = D /\ \A k \in D : FileMap(i, from, len)[k] = DataBlkAt(Opened(i), from + k)
  BY <1>1
<1>9. QED
  BY <1>5, <1>6, <1>7, <1>8 DEF blk

(* A mapping that returns 0, and does not reach the end of the address     *)
(* space, has mapped the whole segment.                                    *)
LEMMA MapWhole ==
    ASSUME MemoryTypes, NEW q \in MetaIds, NEW start \in Nat, NEW len \in Nat,
           NEW kind, NEW blks, NEW rest, PM!MapSegment(q, start, len, kind, blks, rest),
           start + len < PM!Span, ret' = 0, fault' = {}
    PROVE  \A p \in start .. start + len - 1 :
              p \in PM!Pages /\ pages'[q][p] = PM!Entry(kind, blks[p - start])
<1> DEFINE needed == {t \in PM!Stepped(start, len) : tables[q][t] = NULL}
<1>1. ~PM!Wraps(start, len)
  <2>1. PM!Span \in Nat
    BY BootAssumption DEF PM!Span
  <2>2. QED
    BY <2>1 DEF PM!Wraps
<1>2. ~PM!Fail("endless loop") /\ ~PM!Fail("null table") /\ ~PM!Fail("lost track") /\ -1 # 0
  <2>1. \A what : fault \cup {what} # {}
    OBVIOUS
  <2>2. ~PM!Fail("endless loop") /\ ~PM!Fail("null table") /\ ~PM!Fail("lost track")
    BY <2>1 DEF PM!Fail
  <2>3. QED
    BY <2>2, MinusOne
<1>3. PICK new \in PM!NewTables(needed, rest) :
         /\ pages' = [pages EXCEPT ![q] =
              PM!Over([page \in PM!Reached(q, PM!Over(new, tables[q]), start, len) |->
                         PM!Entry(kind, blks[page - start])], pages[q])]
         /\ ret' = IF PM!Reached(q, PM!Over(new, tables[q]), start, len) = PM!Segment(start, len)
                   THEN 0 ELSE -1
  BY <1>1, <1>2, Zenon DEF PM!MapSegment, needed
<1>4. PM!Reached(q, PM!Over(new, tables[q]), start, len) = start .. start + len - 1
  BY <1>2, <1>3 DEF PM!Segment
<1>5. pages' = [pages EXCEPT ![q] =
         PM!Over([page \in start .. start + len - 1 |-> PM!Entry(kind, blks[page - start])], pages[q])]
  BY <1>3, <1>4
<1>6. DOMAIN pages = MetaIds /\ DOMAIN pages[q] = PM!Pages
  BY DEF MemoryTypes
<1>7. start .. start + len - 1 \subseteq PM!Pages
  <2>1. PM!Span \in Nat
    BY BootAssumption DEF PM!Span
  <2>2. QED
    BY <2>1 DEF PM!Pages
<1>8. QED
  BY <1>5, <1>6, <1>7 DEF PM!Over

(* A page that is shown stays so when the file keeps the block and the     *)
(* page is not mapped anew.                                                *)
LEMMA ShownStays ==
    ASSUME NEW p, ShownAt(p), NEW i, NEW k, i = shows[p][1], k = shows[p][2],
           shows'[p] = shows[p], at' = at, nextMmap \in Int, nextMmap' \in Int, nextMmap <= nextMmap',
           \A n \in DOMAIN names : n \in DOMAIN names' /\ names'[n] = names[n],
           pages'[at["demoProc"]][p] \in {pages[at["demoProc"]][p], PM!Absent},
           k < files'[i].blk, DataBlkAt(Opened(i)', k) = DataBlkAt(Opened(i), k)
    PROVE  ShownAt(p)'
<1>1. /\ p \in PM!Pages /\ MmapPage <= p /\ p < nextMmap
      /\ \E n \in DOMAIN names : i = names[n]
      /\ k \in Nat /\ k < files[i].blk
      /\ pages[at["demoProc"]][p] \in {PM!Absent, PM!Entry("file", DataBlkAt(Opened(i), k))}
  BY DEF ShownAt
<1>2. p < nextMmap'
  <2>1. p \in Int
    BY <1>1, BootAssumption DEF PM!Pages, PM!Span
  <2>2. QED
    BY <1>1, <2>1
<1>3. \E n \in DOMAIN names' : i = names'[n]
  BY <1>1
<1>4. shows'[p][1] = i /\ shows'[p][2] = k
  OBVIOUS
<1>5. pages'[at'["demoProc"]][p] \in {PM!Absent, PM!Entry("file", DataBlkAt(Opened(i)', k))}
  BY <1>1
<1>6. QED
  BY <1>1, <1>2, <1>3, <1>4, <1>5 DEF ShownAt

LEMMA ShownFile ==
    ASSUME SysInv, pc = "user", NEW p, ShownAt(p)
    PROVE  LET i == shows[p][1]
           IN  /\ i \in Owned /\ i \in MetaIds /\ metas[i] \in {"file", "free"}
               /\ i # at["kroot"] /\ i # at["uroot"]
<1> DEFINE i == shows[p][1]
<1>1. IInv /\ Parts
  BY DEF SysInv
<1>2. PICK n \in DOMAIN names : i = names[n]
  BY DEF ShownAt
<1> HIDE DEF i
<1>3. i \in MetaIds /\ metas[i] \in {"file", "free"}
  BY <1>1, <1>2 DEF IInv, Typed, OnlyNewNamesShare
<1>4. metas[at["kroot"]] = "dir" /\ metas[at["uroot"]] = "dir"
  BY <1>1 DEF IInv, RootsMade, BeforeKroot, BeforeUroot
<1>5. i \in Owned
  BY <1>2, <1>3, UserOwned
<1>6. QED
  BY <1>3, <1>4, <1>5 DEF i

(* A call that changes one file shows as much of it as the file keeps, and *)
(* of other files what it showed before.                                   *)
LEMMA FileCallShown ==
    ASSUME SysInv, Shown, InUser, Stays, UNCHANGED <<mappings, names, nextMmap>>,
           NEW i \in MetaIds, NEW own \in Owners, Shared(own), NEW u \in States, NEW own2,
           Frame(i, Opened(i), own, u, own2), Close(i, u),
           \A p \in DOMAIN shows' :
              /\ p \in DOMAIN shows /\ shows'[p] = shows[p]
              /\ shows[p][1] = i => /\ shows[p][2] < u.m.blk
                                    /\ DataBlkAt(u, shows[p][2]) = DataBlkAt(Opened(i), shows[p][2])
    PROVE  Shown'
<1>1. Parts /\ MemoryTypes /\ pc = "user" /\ fault = {} /\ at' = at /\ nextMmap \in Nat
      /\ nextMmap' = nextMmap /\ names' = names /\ pages' = pages /\ UNCHANGED <<mappings, control>>
  BY DEF SysInv, Parts, Calls, InUser, Stays, mappings
<1> SUFFICES ASSUME fault' = {}, NEW p \in DOMAIN shows' PROVE ShownAt(p)'
  BY DEF Shown
<1>2. /\ files'[i] = u.m /\ slot' = u.slot /\ Keeps(i, own, own2)
      /\ \A g \in MetaIds : g # i => files'[g] = files[g]
  BY <1>1, FileWritten
<1>3. p \in DOMAIN shows /\ shows'[p] = shows[p] /\ ShownAt(p)
  BY <1>1 DEF Shown
<1>4. PICK g, k : g = shows[p][1] /\ k = shows[p][2]
  OBVIOUS
<1>5. /\ g \in Owned /\ g \in MetaIds
      /\ k \in Nat /\ k < files[g].blk
  BY <1>1, <1>3, <1>4, ShownFile DEF ShownAt
<1>6. k < files'[g].blk /\ DataBlkAt(Opened(g)', k) = DataBlkAt(Opened(g), k)
  <2>1. CASE g = i
    <3>1. \A x : DataBlkAt(Opened(i)', x) = DataBlkAt(u, x)
      BY <1>2, OpenedParts DEF DataBlkAt, Leaf
    <3>2. QED
      BY <1>2, <1>3, <1>4, <2>1, <3>1
  <2>2. CASE g # i
    <3>1. Held(g, Opened(g), own) /\ files'[g] = files[g]
      BY <1>2, <1>5, <2>2 DEF Shared
    <3>2. \A j \in 0 .. files[g].blk - 1 : DataBlkAt(Opened(g)', j) = DataBlkAt(Opened(g), j)
      BY <1>1, <1>2, <1>5, <2>2, <3>1, FileFramed
    <3>3. k \in 0 .. files[g].blk - 1
      <4>1. files[g].blk \in Nat
        BY <1>1, <1>5 DEF MemoryTypes, Metas
      <4>2. QED
        BY <1>5, <4>1
    <3>4. QED
      BY <1>5, <3>1, <3>2, <3>3
  <2>3. QED
    BY <2>1, <2>2
<1>7. nextMmap \in Int /\ nextMmap' \in Int /\ nextMmap <= nextMmap'
  BY <1>1
<1>8. QED
  BY <1>1, <1>3, <1>4, <1>6, <1>7, ShownStays

LEMMA GrowShown ==
    ASSUME SysInv, Shown, NEW fd \in DOMAIN fds, NEW target \in Nat, Grow(fd, target)
    PROVE  Shown'
<1> DEFINE i == fds[fd].file
<1>1. PICK own \in Owners : Shared(own)
  BY DEF SysInv, Grow, InUser
<1>2. InUser /\ Stays /\ UNCHANGED <<mappings, names, fds, nextMmap, shows>>
  BY DEF Grow
<1>3. PICK a \in Grown(Opened(i), target) : Close(i, a.st)
  BY DEF Grow
<1>4. /\ i \in MetaIds /\ Opened(i) \in States /\ Held(i, Opened(i), own)
      /\ Opened(i).m = files[i] /\ Opened(i).m.size + target + Chunk - 1 <= MaxSize
  BY <1>1, <1>2, CalledFile DEF Grow
<1> HIDE DEF i
<1>5. Grew(i, Opened(i), own, a)
  BY <1>3, <1>4, GrownKeeps
<1>6. a.st \in States /\ Grows(Opened(i), a.st)
      /\ \E own2 \in Owners : Takes(i, Opened(i), own, a.st, own2)
  BY <1>5 DEF Grew
<1>7. PICK own2 \in Owners : Frame(i, Opened(i), own, a.st, own2)
  BY <1>6, TakesFrame
<1>8. ASSUME NEW p \in DOMAIN shows, shows[p][1] = i
      PROVE  /\ shows[p][2] < a.st.m.blk
             /\ DataBlkAt(a.st, shows[p][2]) = DataBlkAt(Opened(i), shows[p][2])
  <2> DEFINE k == shows[p][2]
  <2>1. k \in Nat /\ k < files[i].blk
    BY <1>2, <1>8 DEF Shown, ShownAt, InUser
  <2>2. files[i].blk \in Nat /\ a.st.m.blk \in Nat
    BY <1>4, <1>6, StateFields
  <2> HIDE DEF k
  <2>3. k \in 0 .. Opened(i).m.blk - 1 /\ k < a.st.m.blk
    BY <1>4, <1>6, <2>1, <2>2 DEF Grows
  <2>4. QED
    BY <1>6, <2>3 DEF Grows, k
<1>9. QED
  BY <1>1, <1>2, <1>3, <1>4, <1>6, <1>7, <1>8, FileCallShown

LEMMA ShrinkShown ==
    ASSUME SysInv, Shown, NEW fd \in DOMAIN fds, NEW target \in Nat, Shrink(fd, target)
    PROVE  Shown'
<1> DEFINE i == fds[fd].file
           u == Discarded(Opened(i), files[i].size - target)
<1>1. PICK own \in Owners : Shared(own)
  BY DEF SysInv, Shrink, InUser
<1>2. InUser /\ Stays /\ UNCHANGED <<mappings, names, fds, nextMmap>> /\ Close(i, u)
  BY DEF Shrink
<1>3. /\ i \in MetaIds /\ Opened(i) \in States /\ Held(i, Opened(i), own)
      /\ Opened(i).m = files[i] /\ Opened(i).fault = {} /\ files[i].size \in Nat
      /\ files[i] \in Metas /\ MemoryTypes
  BY <1>1, <1>2, CalledFile DEF SysInv, Parts, MemoryTypes
<1>4. files[i].size - target \in Nat /\ files[i].size - target <= Opened(i).m.size
  BY <1>3 DEF Shrink
<1>5. /\ u \in States /\ Frame(i, Opened(i), own, u, own)
      /\ \A j \in 0 .. u.m.blk - 1 : DataBlkAt(u, j) = DataBlkAt(Opened(i), j)
  BY <1>3, <1>4, DiscardedKeeps
<1> SUFFICES ASSUME fault' = {} PROVE Shown'
  BY DEF Shown
<1>6. shows' = Kept(i, u.m.blk)
  <2>1. files'[i] = u.m
    BY <1>2, <1>3 DEF Close, MemoryTypes
  <2>2. shows' = Kept(i, files'[i].blk)
    BY DEF Shrink
  <2>3. QED
    BY <2>1, <2>2
<1> HIDE DEF u, i
<1>7. ASSUME NEW p \in DOMAIN shows'
      PROVE  /\ p \in DOMAIN shows /\ shows'[p] = shows[p]
             /\ shows[p][1] = i => /\ shows[p][2] < u.m.blk
                                   /\ DataBlkAt(u, shows[p][2]) = DataBlkAt(Opened(i), shows[p][2])
  <2>1. p \in DOMAIN shows /\ shows'[p] = shows[p] /\ ~(shows[p][1] = i /\ shows[p][2] >= u.m.blk)
    BY <1>6, <1>7 DEF Kept
  <2>2. shows[p][2] \in Nat
    BY <1>2, <2>1 DEF Shown, ShownAt, InUser
  <2>3. u.m.blk \in Nat
    BY <1>5, StateFields
  <2>4. shows[p][1] = i => shows[p][2] < u.m.blk /\ shows[p][2] \in 0 .. u.m.blk - 1
    BY <2>1, <2>2, <2>3
  <2>5. QED
    BY <1>5, <2>1, <2>4
<1>8. QED
  BY <1>1, <1>2, <1>3, <1>5, <1>7, FileCallShown DEF i

(* A call that changes no block and no mapping.                            *)
LEMMA QuietShown ==
    ASSUME SysInv, Shown, UNCHANGED <<slot, pages, at, nextMmap, fault>>, pc = "user",
           \A n \in DOMAIN names : n \in DOMAIN names' /\ names'[n] = names[n],
           \A p \in DOMAIN shows' : /\ p \in DOMAIN shows /\ shows'[p] = shows[p]
                                    /\ ShownAt(p) => files'[shows[p][1]] = files[shows[p][1]]
    PROVE  Shown'
<1> SUFFICES ASSUME fault = {}, NEW p \in DOMAIN shows' PROVE ShownAt(p)'
  BY DEF Shown
<1>1. p \in DOMAIN shows /\ shows'[p] = shows[p] /\ ShownAt(p)
  BY DEF Shown
<1>2. PICK g, k : g = shows[p][1] /\ k = shows[p][2]
  OBVIOUS
<1>3. files'[g] = files[g] /\ k < files'[g].blk
  BY <1>1, <1>2 DEF ShownAt
<1>4. Opened(g)' = Opened(g) \/ DataBlkAt(Opened(g)', k) = DataBlkAt(Opened(g), k)
  BY <1>3, OpenedParts DEF DataBlkAt, Leaf
<1>5. DataBlkAt(Opened(g)', k) = DataBlkAt(Opened(g), k)
  BY <1>4
<1>6. nextMmap \in Int /\ nextMmap' \in Int /\ nextMmap <= nextMmap'
  BY DEF SysInv, Parts, Calls
<1>7. QED
  BY <1>1, <1>2, <1>3, <1>5, <1>6, ShownStays

LEMMA KnownShown ==
    ASSUME SysInv, Shown,
           (\E name : OpenKnown(name)) \/ (\E fd : MmapAgain(fd))
    PROVE  Shown'
<1>1. /\ UNCHANGED <<memory, mappings, names, nextMmap, shows>> /\ Stays /\ pc = "user"
  BY DEF OpenKnown, MmapAgain, InUser
<1>2. UNCHANGED <<slot, pages, at, nextMmap, fault, names, files, shows>>
  BY <1>1 DEF memory, mappings, Stays
<1>3. QED
  BY <1>1, <1>2, QuietShown

(* The file of a new name shows nothing yet.                               *)
LEMMA NewShown ==
    ASSUME SysInv, Shown, NEW name, OpenNew(name)
    PROVE  Shown'
<1>0. PICK root : root = at["uroot"]
  OBVIOUS
<1>1. /\ pc = "user" /\ fault = {} /\ UNCHANGED <<slot, pages, at, nextMmap, fault>>
      /\ name \notin DOMAIN names
  BY DEF OpenNew, InUser, Stays, mappings
<1>2. PICK i \in MetaIds : /\ names' = [n \in DOMAIN names \cup {name} |-> IF n = name THEN i ELSE names[n]]
                           /\ files' = [files EXCEPT ![i] = Blank, ![root].size = @ + 1]
                           /\ shows' = Kept(i, 0)
  BY <1>0 DEF OpenNew
<1>3. \A n \in DOMAIN names : n \in DOMAIN names' /\ names'[n] = names[n]
  BY <1>1, <1>2
<1>4. ASSUME NEW p \in DOMAIN shows'
      PROVE  /\ p \in DOMAIN shows /\ shows'[p] = shows[p]
             /\ ShownAt(p) => files'[shows[p][1]] = files[shows[p][1]]
  <2>1. p \in DOMAIN shows /\ shows'[p] = shows[p] /\ ~(shows[p][1] = i /\ shows[p][2] >= 0)
    BY <1>2, <1>4 DEF Kept
  <2>2. ASSUME ShownAt(p) PROVE files'[shows[p][1]] = files[shows[p][1]]
    <3>1. PICK g : g = shows[p][1]
      OBVIOUS
    <3>2. g # root /\ g \in MetaIds
      BY <1>0, <1>1, <2>2, <3>1, ShownFile
    <3>3. shows[p][2] \in Nat
      BY <2>2 DEF ShownAt
    <3>4. g # i
      BY <2>1, <3>1, <3>3
    <3>5. DOMAIN files = MetaIds
      BY DEF SysInv, Parts, MemoryTypes
    <3>6. files'[g] = files[g]
      BY <1>2, <3>2, <3>4, <3>5
    <3>7. QED
      BY <3>1, <3>6
  <2>3. QED
    BY <2>1, <2>2
<1>5. QED
  BY <1>1, <1>3, <1>4, QuietShown

LEMMA MunmapShown ==
    ASSUME SysInv, Shown, NEW fd, NEW len, Munmap(fd, len)
    PROVE  Shown'
<1>0. PICK q : q = at["demoProc"]
  OBVIOUS
<1>1. /\ pc = "user" /\ fault = {} /\ at' = at
      /\ UNCHANGED <<files, slot, names, nextMmap, shows>>
  BY DEF Munmap, InUser, Stays
<1>2. Parts /\ IInv /\ MemoryTypes /\ nextMmap \in Nat
  BY DEF SysInv, Parts, Calls
<1>3. q \in MetaIds
  BY <1>0, <1>1, <1>2 DEF Parts, Alive, OfDemo
<1>4. PICK some : pages' = [pages EXCEPT ![q] = PM!WithoutPages(q, some)]
  BY <1>0 DEF Munmap, PM!UnmapFile, PM!Unmap
<1>5. \A p \in PM!Pages : pages'[q][p] \in {pages[q][p], PM!Absent}
  <2>1. DOMAIN pages = MetaIds /\ DOMAIN pages[q] = PM!Pages
    BY <1>2, <1>3 DEF MemoryTypes
  <2>2. QED
    BY <1>3, <1>4, <2>1 DEF PM!WithoutPages, PM!Over
<1> SUFFICES ASSUME NEW p \in DOMAIN shows PROVE ShownAt(p)'
  BY <1>1 DEF Shown
<1>6. ShownAt(p) /\ p \in PM!Pages
  BY <1>1 DEF Shown, ShownAt
<1>7. PICK g, k : g = shows[p][1] /\ k = shows[p][2]
  OBVIOUS
<1>8. k < files'[g].blk
  BY <1>1, <1>6, <1>7 DEF ShownAt
<1>9. DataBlkAt(Opened(g)', k) = DataBlkAt(Opened(g), k)
  BY <1>1, OpenedParts DEF DataBlkAt, Leaf
<1>10. nextMmap \in Int /\ nextMmap' \in Int /\ nextMmap <= nextMmap'
  BY <1>1, <1>2
<1>11. QED
  BY <1>0, <1>1, <1>5, <1>6, <1>7, <1>8, <1>9, <1>10, ShownStays

(* The pages of a new mapping show the blocks it was given, in order; the  *)
(* pages in front of it stay as they are.                                  *)
LEMMA MmapShown ==
    ASSUME SysInv, Placed, Shown, NEW fd \in DOMAIN fds, NEW length \in Nat, NEW off \in Nat,
           Mmap(fd, length, off)
    PROVE  Shown'
<1>0. PICK q, i : q = at["demoProc"] /\ i = fds[fd].file
  OBVIOUS
<1> DEFINE pgs  == RoundUp(IF length > files[i].size THEN files[i].size ELSE length)
           blks == MmapBlks(i, off, pgs)
           n    == Cardinality(DOMAIN blks)
           given == nextMmap .. nextMmap + n - 1
<1>1. /\ InUser /\ pc = "user" /\ fault = {} /\ at' = at
      /\ UNCHANGED <<files, slot, names>>
  BY DEF Mmap, InUser, Stays
<1>2. Parts /\ IInv /\ MemoryTypes /\ nextMmap \in Nat /\ MmapPage \in Nat /\ MmapPage <= nextMmap
  BY DescriptorTypes DEF SysInv, Parts, Calls, Placed
<1>3. i \in MetaIds /\ files[i].size \in Nat /\ files[i].blk \in Nat
      /\ \E m \in DOMAIN names : i = names[m]
  <2>1. i \in MetaIds
    BY <1>0, <1>1, <1>2, OpenedFile
  <2>2. files[i] \in Metas
    BY <1>2, <2>1 DEF MemoryTypes
  <2>3. \E m \in DOMAIN names : i = names[m]
    BY <1>0, <1>2 DEF Parts, Calls
  <2>4. QED
    BY <2>1, <2>2, <2>3 DEF Metas
<1>4. pgs \in Nat
  BY <1>3, PagesFit
<1>5. /\ n \in Nat /\ n <= pgs
      /\ \A k \in 0 .. n - 1 : off + k < files[i].blk /\ blks[k] = DataBlkAt(Opened(i), off + k)
  BY <1>2, <1>3, <1>4, FileMapBlocks DEF MmapBlks
<1>6. q \in MetaIds
  BY <1>0, <1>1, <1>2 DEF Parts, Alive, OfDemo
<1>7. PM!MapSegment(q, nextMmap, n, "file", blks, free) /\ nextMmap + pgs < PM!Span
  BY <1>0 DEF Mmap, MapBlocks
<1>8. \/ /\ fault' = {} /\ ret' = 0
         /\ nextMmap' = nextMmap + pgs
         /\ shows' = [p \in DOMAIN shows \cup given |-> IF p \in given THEN <<i, off + (p - nextMmap)>> ELSE shows[p]]
      \/ UNCHANGED <<nextMmap, shows>>
  BY <1>0 DEF Mmap, Behind, calls
<1> HIDE DEF pgs, blks, n, given
<1>9. Mapping(q, nextMmap, n, "file", blks, free)
  BY <1>1, <1>2, <1>5, <1>6, <1>7, MapSteps
<1>10. nextMmap' \in Nat /\ nextMmap <= nextMmap'
  BY <1>2, <1>4, <1>8
<1>11. \A g, k : DataBlkAt(Opened(g)', k) = DataBlkAt(Opened(g), k)
  BY <1>1, OpenedParts DEF DataBlkAt, Leaf
<1>12. ASSUME NEW p \in DOMAIN shows, shows'[p] = shows[p], fault' = {}
       PROVE  ShownAt(p)'
  <2>1. ShownAt(p) /\ p \in PM!Pages /\ p < nextMmap
    BY <1>1 DEF Shown, ShownAt
  <2>2. pages'[q][p] = pages[q][p]
    <3>1. p \notin nextMmap .. nextMmap + n - 1
      <4>1. p \in Int
        BY <2>1, BootAssumption DEF PM!Pages, PM!Span
      <4>2. QED
        BY <1>2, <2>1, <4>1
    <3>2. QED
      BY <1>9, <2>1, <3>1 DEF Mapping
  <2>3. PICK g, k : g = shows[p][1] /\ k = shows[p][2]
    OBVIOUS
  <2>4. k < files'[g].blk
    BY <1>1, <2>1, <2>3 DEF ShownAt
  <2>5. QED
    BY <1>0, <1>1, <1>2, <1>10, <1>11, <1>12, <2>1, <2>2, <2>3, <2>4, ShownStays
<1>13. CASE UNCHANGED <<nextMmap, shows>>
  BY <1>12, <1>13 DEF Shown
<1>14. CASE /\ fault' = {} /\ ret' = 0
            /\ nextMmap' = nextMmap + pgs
            /\ shows' = [p \in DOMAIN shows \cup given |-> IF p \in given THEN <<i, off + (p - nextMmap)>> ELSE shows[p]]
  <2>1. /\ DOMAIN shows' = (nextMmap .. nextMmap + n - 1) \cup DOMAIN shows
        /\ \A p \in DOMAIN shows' : shows'[p] = IF p \in nextMmap .. nextMmap + n - 1
                                                THEN <<i, off + (p - nextMmap)>> ELSE shows[p]
    BY <1>14 DEF given
  <2>2. ASSUME NEW p \in nextMmap .. nextMmap + n - 1 PROVE ShownAt(p)'
    <3>1. PICK k \in 0 .. n - 1 : k = p - nextMmap
      BY <1>2, <1>5
    <3>2. off + k < files[i].blk /\ blks[k] = DataBlkAt(Opened(i), off + k) /\ off + k \in Nat
      BY <1>5, <3>1
    <3>3. p \in PM!Pages /\ pages'[q][p] = PM!Entry("file", blks[k])
      <4>1. nextMmap + n < PM!Span
        <5>1. PM!Span \in Nat
          BY BootAssumption DEF PM!Span
        <5>2. QED
          BY <1>2, <1>4, <1>5, <1>7, <5>1
      <4>2. p \in PM!Pages /\ pages'[q][p] = PM!Entry("file", blks[p - nextMmap])
        BY <1>2, <1>5, <1>6, <1>7, <1>14, <4>1, MapWhole
      <4>3. QED
        BY <3>1, <4>2
    <3>4. MmapPage <= p /\ p < nextMmap'
      BY <1>2, <1>4, <1>5, <1>14
    <3>5. shows'[p][1] = i /\ shows'[p][2] = off + k
      <4>1. p \in DOMAIN shows'
        BY <2>1
      <4>2. shows'[p] = <<i, off + (p - nextMmap)>>
        BY <2>1, <4>1
      <4>3. QED
        BY <3>1, <4>2
    <3>6. pages'[q][p] = PM!Entry("file", DataBlkAt(Opened(i)', off + k))
      BY <1>11, <3>2, <3>3
    <3>7. off + k < files'[i].blk /\ \E m \in DOMAIN names' : i = names'[m]
      BY <1>1, <1>3, <3>2
    <3>8. QED
      BY <1>0, <1>1, <3>2, <3>3, <3>4, <3>5, <3>6, <3>7 DEF ShownAt
  <2>3. ASSUME NEW p \in DOMAIN shows, p \notin nextMmap .. nextMmap + n - 1 PROVE ShownAt(p)'
    BY <1>12, <1>14, <2>1, <2>3
  <2>4. QED
    BY <2>1, <2>2, <2>3 DEF Shown
<1>15. QED
  BY <1>8, <1>13, <1>14

LEMMA ShownKeeps == SysInv /\ SysInv' /\ Placed /\ Shown /\ [Next]_sysVars => Shown'
<1> SUFFICES ASSUME SysInv, SysInv', Placed, Shown, [Next]_sysVars PROVE Shown'
  OBVIOUS
<1>1. ASSUME fds = <<>>, UNCHANGED calls PROVE Shown'
  BY <1>1 DEF SysInv, Parts, Calls, calls, Shown
<1>2. CASE Kernel
  <2>1. pc # "user" /\ UNCHANGED calls
    BY <1>2, StepsBeforeUser DEF Kernel
  <2>2. QED
    BY <1>1, <2>1 DEF SysInv, Parts, Calls
<1>3. CASE ResetInBoot
  BY <1>1, <1>3 DEF ResetInBoot
<1>4. CASE Call
  <2>1. CASE \E name \in Names : OpenKnown(name) \/ OpenNew(name)
    BY <2>1, KnownShown, NewShown
  <2>2. CASE \E fd \in DOMAIN fds, target \in Targets : Grow(fd, target) \/ Shrink(fd, target)
    BY <2>2, GrowShown, ShrinkShown, CallAssumption
  <2>3. CASE \E fd \in DOMAIN fds : MmapAgain(fd)
    BY <2>3, KnownShown
  <2>4. CASE \E fd \in DOMAIN fds, length \in Lengths, off \in Offsets : Mmap(fd, length, off)
    BY <2>4, MmapShown, CallAssumption
  <2>5. CASE \E fd \in DOMAIN fds, length \in Lengths : Munmap(fd, RoundUp(length))
    BY <2>5, MunmapShown
  <2>6. QED
    BY <1>4, <2>1, <2>2, <2>3, <2>4, <2>5 DEF Call
<1>5. CASE UNCHANGED sysVars
  BY <1>5 DEF sysVars, vars, memory, mappings, metaVars, calls, Shown, ShownAt, Opened, DataBlkAt, Leaf
<1>6. QED
  BY <1>2, <1>3, <1>4, <1>5 DEF Next, Stay

(* Until the allocator loses track a page that mmap gave shows the block   *)
(* it was mapped for, whatever other files do, or it was unmapped; pages   *)
(* of blocks that ftruncate or open of a new name took from the file are   *)
(* no longer counted.                                                      *)
THEOREM PagesShowFileAlways == Spec => []PagesShowFile
<1>1. SysInit => Placed /\ Shown
  BY InitPlaced DEF SysInit, Shown
<1>2. SysInv /\ SysInv' /\ Placed /\ Shown /\ [Next]_sysVars => Placed' /\ Shown'
  BY PlacedKeeps, ShownKeeps
<1>3. Shown => PagesShowFile
  BY DEF Shown, ShownAt, PagesShowFile
<1>4. QED
  BY <1>1, <1>2, <1>3, SystemParts, PTL DEF Spec

-----------------------------------------------------------------------------
(* What is in place when the program is started.                           *)

AfterSegments == {"kstack", "low memory", "ustack"}

(* Segments are put in place one after the other, and what follows them    *)
(* moves none of them.                                                     *)
AsLoaded ==
    fault = {} =>
       /\ pc \in {"segment", "bss"} \cup AfterSegments => \A i \in 1 .. seg : SegmentInPlace(i)
       /\ pc = "bss" => FileInPlace(program.segs[seg + 1])
       /\ pc \in AfterSegments => seg = Len(program.segs)
       /\ pc \in {"low memory", "ustack"} => TwoPages(KstackPage, "kernel")
       /\ pc = "ustack" => TwoPages(LowPage, "kernel")

(* A page of the program that is present stays as it is.                   *)
Undisturbed ==
    \A p \in PM!Pages :
       PM!Present(at["demoProc"], p) => pages'[at["demoProc"]][p] = pages[at["demoProc"]][p]

LEMMA PageOf ==
    ASSUME NEW n \in Nat, n < PM!Span
    PROVE  /\ PM!PageUp(Address(n)) = n
           /\ n \in PM!Pages
<1>1. PM!Span \in Nat /\ BlockBytes \in Nat \ {0}
  BY BootAssumption, BytesAssumption DEF PM!Span
<1>2. (n * BlockBytes + BlockBytes - 1) \div BlockBytes = n
  <2>1. n * BlockBytes \in Nat /\ n * BlockBytes = BlockBytes * n
    BY <1>1
  <2> DEFINE a == n * BlockBytes + BlockBytes - 1
  <2>2. a \in Nat
    BY <1>1, <2>1
  <2>3. /\ a \div BlockBytes \in Nat
        /\ BlockBytes * (a \div BlockBytes) <= a
        /\ a < BlockBytes * (a \div BlockBytes) + BlockBytes
    BY <1>1, <2>2, DivMod
  <2>4. PICK d \in Nat : d = a \div BlockBytes
    BY <2>3
  <2>5. BlockBytes * d < BlockBytes * (n + 1) /\ BlockBytes * n < BlockBytes * (d + 1)
    <3>1. BlockBytes * (n + 1) = BlockBytes * n + BlockBytes /\ BlockBytes * (d + 1) = BlockBytes * d + BlockBytes
      BY <1>1, <2>4
    <3>2. BlockBytes * d \in Nat
      BY <1>1, <2>4
    <3>3. a = BlockBytes * n + BlockBytes - 1
      BY <2>1
    <3> HIDE DEF a
    <3>4. QED
      BY <1>1, <2>1, <2>2, <2>3, <2>4, <3>1, <3>2, <3>3
  <2>6. \A x, y \in Nat : BlockBytes * x < BlockBytes * y => x < y
    BY <1>1
  <2>7. d < n + 1 /\ n < d + 1
    BY <2>4, <2>5, <2>6
  <2>8. QED
    BY <2>4, <2>7
<1>3. n % PM!Span = n
  BY <1>1
<1>4. PM!PageUp(Address(n)) = n
  BY <1>2, <1>3 DEF PM!PageUp, Address
<1>5. QED
  BY <1>1, <1>4 DEF PM!Pages

LEMMA Tops ==
    ASSUME NEW bytes \in Nat, NEW k \in Nat, k < RoundUp(bytes)
    PROVE  BlockBytes * k + 1 <= bytes
<1> DEFINE a == bytes + BlockBytes - 1
<1>1. BlockBytes \in Nat \ {0} /\ a \in Nat
  BY BytesAssumption
<1>2. PICK d \in Nat : d = a \div BlockBytes /\ BlockBytes * d <= a
  <2> HIDE DEF a
  <2>1. /\ a \div BlockBytes \in Nat /\ a % BlockBytes \in Nat
        /\ a = BlockBytes * (a \div BlockBytes) + (a % BlockBytes)
    BY <1>1, DivMod, ModNat
  <2>2. BlockBytes * (a \div BlockBytes) \in Nat
    BY <1>1, <2>1, TimesNat
  <2>3. BlockBytes * (a \div BlockBytes) <= a
    BY <2>1, <2>2
  <2>4. QED
    BY <2>1, <2>3
<1>3. k + 1 <= d
  BY <1>2 DEF RoundUp
<1>4. BlockBytes * (k + 1) <= BlockBytes * d
  BY <1>1, <1>3
<1>5. BlockBytes * (k + 1) = BlockBytes * k + BlockBytes /\ BlockBytes * k \in Nat /\ BlockBytes * d \in Nat
  BY <1>1
<1>6. QED
  BY <1>1, <1>2, <1>4, <1>5

(* Where a segment that starts with a page goes, and which blocks of the   *)
(* file are its pages'.                                                    *)
Placeable(s) ==
    LET page == s.vaddr \div BlockBytes
    IN  /\ page \in Nat /\ FilePages(s) \in Nat /\ MemPages(s) \in Nat
        /\ s.vaddr = Address(page)
        /\ s.vaddr + Address(FilePages(s)) = Address(page + FilePages(s))
        /\ FilePages(s) <= MemPages(s) /\ page + MemPages(s) < PM!Span
        /\ \A k \in 0 .. MemPages(s) - 1 : page + k \in PM!Pages
        /\ \A k \in 0 .. FilePages(s) - 1 :
              program.size > 0 /\ s.off \div BlockBytes + k < BlocksFor(program.size)

LEMMA SegmentPlaceable ==
    ASSUME program \in Programs, EndsInSpace(program), NEW i \in DOMAIN program.segs,
           program.segs[i].vaddr % BlockBytes = 0
    PROVE  Placeable(program.segs[i])
<1>0. PICK s : s = program.segs[i]
  OBVIOUS
<1>1. /\ s \in [off : Nat, vaddr : Nat, filesz : Nat, memsz : Nat]
      /\ s.memsz >= s.filesz /\ s.off + s.filesz <= program.size
      /\ program.size \in Nat
  <2>1. /\ program.segs \in Seq([off : Nat, vaddr : Nat, filesz : Nat, memsz : Nat])
        /\ s.memsz >= s.filesz /\ s.off + s.filesz <= program.size /\ program.size \in Nat
    BY <1>0, BootAssumption
  <2>2. \A l, S : l \in Seq(S) => \A j \in DOMAIN l : l[j] \in S
    OBVIOUS
  <2>3. s \in [off : Nat, vaddr : Nat, filesz : Nat, memsz : Nat]
    BY <1>0, <2>1, <2>2
  <2>4. QED
    BY <2>1, <2>3
<1>2. s.off \in Nat /\ s.vaddr \in Nat /\ s.filesz \in Nat /\ s.memsz \in Nat
  BY <1>1
<1>3. BlockBytes \in Nat \ {0} /\ PM!Span \in Nat
  BY BytesAssumption, BootAssumption DEF PM!Span
<1>4. PICK page \in Nat : page = s.vaddr \div BlockBytes /\ s.vaddr = Address(page)
  <2>1. /\ s.vaddr \div BlockBytes \in Nat
        /\ s.vaddr = BlockBytes * (s.vaddr \div BlockBytes) + (s.vaddr % BlockBytes)
    BY <1>2, <1>3, DivMod
  <2>2. s.vaddr % BlockBytes = 0
    BY <1>0
  <2>3. \A x \in Nat : BlockBytes * x + 0 = x * BlockBytes
    BY <1>3
  <2>4. QED
    BY <2>1, <2>2, <2>3 DEF Address
<1>5. PICK d \in Nat, m \in Nat : /\ d = s.off \div BlockBytes /\ m = s.off % BlockBytes
                                  /\ s.off = BlockBytes * d + m
  <2>1. /\ s.off \div BlockBytes \in Nat
        /\ s.off % BlockBytes \in 0 .. BlockBytes - 1
        /\ s.off = BlockBytes * (s.off \div BlockBytes) + (s.off % BlockBytes)
    BY <1>2, <1>3, DivMod
  <2>2. s.off % BlockBytes \in Nat
    BY <1>3, <2>1
  <2>3. QED
    BY <2>1, <2>2
<1>6. PICK fp \in Nat, mp \in Nat : fp = FilePages(s) /\ mp = MemPages(s)
  <2>1. m + s.filesz \in Nat /\ m + s.memsz \in Nat
    BY <1>2
  <2>2. RoundUp(m + s.filesz) \in Nat /\ RoundUp(m + s.memsz) \in Nat
    BY <2>1, PagesFit
  <2>3. QED
    BY <1>5, <2>2 DEF FilePages, MemPages
<1>7. fp <= mp
  <2>1. /\ m + s.filesz + BlockBytes - 1 \in Nat /\ m + s.memsz + BlockBytes - 1 \in Nat
        /\ m + s.filesz + BlockBytes - 1 <= m + s.memsz + BlockBytes - 1
    BY <1>1, <1>2, <1>3
  <2>2. (m + s.filesz + BlockBytes - 1) \div BlockBytes <= (m + s.memsz + BlockBytes - 1) \div BlockBytes
    BY <1>3, <2>1, DivMonotone
  <2>3. QED
    BY <1>5, <1>6, <2>2 DEF FilePages, MemPages, RoundUp
<1>8. page + mp < PM!Span
  BY <1>0, <1>4, <1>6 DEF EndsInSpace
<1>9. \A k \in 0 .. mp - 1 : page + k \in PM!Pages
  BY <1>3, <1>8 DEF PM!Pages
<1>10. s.vaddr + Address(fp) = Address(page + fp)
  BY <1>3, <1>4 DEF Address
<1>11. ASSUME NEW k \in 0 .. fp - 1
       PROVE  program.size > 0 /\ d + k < BlocksFor(program.size)
  <2>1. BlockBytes * k + 1 <= m + s.filesz
    <3>1. k \in Nat /\ m + s.filesz \in Nat /\ k < fp
      BY <1>2
    <3>2. k < RoundUp(m + s.filesz)
      BY <1>5, <1>6, <3>1 DEF FilePages
    <3>3. QED
      BY <3>1, <3>2, Tops
  <2>2. k \in Nat /\ BlockBytes * k \in Nat /\ BlockBytes * d \in Nat
    BY <1>3
  <2>3. BlockBytes * d + BlockBytes * k + 1 <= program.size
    BY <1>1, <1>2, <1>5, <2>1, <2>2
  <2>4. /\ program.size \div BlockBytes \in Nat
        /\ program.size < BlockBytes * (program.size \div BlockBytes) + BlockBytes
    <3>1. /\ program.size \div BlockBytes \in Nat /\ program.size % BlockBytes \in 0 .. BlockBytes - 1
          /\ program.size = BlockBytes * (program.size \div BlockBytes) + (program.size % BlockBytes)
      BY <1>1, <1>3, DivMod
    <3>2. BlockBytes * (program.size \div BlockBytes) \in Nat
      BY <1>3, <3>1, TimesNat
    <3>3. QED
      BY <1>3, <3>1, <3>2
  <2>5. PICK e \in Nat : e = program.size \div BlockBytes /\ program.size < BlockBytes * e + BlockBytes
    BY <2>4
  <2>6. BlockBytes * (d + k) < BlockBytes * (e + 1)
    <3>1. BlockBytes * (d + k) = BlockBytes * d + BlockBytes * k /\ BlockBytes * (e + 1) = BlockBytes * e + BlockBytes
      BY <1>3, <2>2
    <3>2. BlockBytes * e \in Nat
      BY <1>3
    <3>3. QED
      BY <1>1, <1>3, <2>2, <2>3, <2>5, <3>1, <3>2
  <2>7. \A x, y \in Nat : BlockBytes * x < BlockBytes * y => x < y
    BY <1>3
  <2>8. d + k < e + 1
    BY <2>2, <2>6, <2>7
  <2>9. program.size > 0
    BY <1>1, <2>2, <2>3
  <2>10. QED
    BY <2>5, <2>8, <2>9 DEF BlocksFor
<1>12. QED
  BY <1>0, <1>4, <1>5, <1>6, <1>7, <1>8, <1>9, <1>10, <1>11 DEF Placeable

(* What is in place stays there.                                           *)
LEMMA SegmentStays ==
    ASSUME program \in Programs, EndsInSpace(program), NEW i \in DOMAIN program.segs, SegmentInPlace(i),
           UNCHANGED <<files, slot, at, program>>, Undisturbed
    PROVE  SegmentInPlace(i)'
<1>0. PICK s, q, f : s = program.segs[i] /\ q = at["demoProc"] /\ f = at["demo"]
  OBVIOUS
<1>1. CASE s.vaddr % BlockBytes # 0
  BY <1>0, <1>1 DEF SegmentInPlace, FileInPlace, MemInPlace
<1>2. CASE s.vaddr % BlockBytes = 0
  <2>1. PICK page \in Nat, fp \in Nat, mp \in Nat :
           /\ page = s.vaddr \div BlockBytes /\ fp = FilePages(s) /\ mp = MemPages(s)
           /\ fp <= mp /\ \A k \in 0 .. mp - 1 : page + k \in PM!Pages
    BY <1>0, <1>2, SegmentPlaceable DEF Placeable
  <2>2. \A k : DataBlkAt(Opened(f)', k) = DataBlkAt(Opened(f), k)
    BY OpenedParts DEF DataBlkAt, Leaf
  <2>3. \A p \in PM!Pages : pages[q][p].kind # "none" => pages'[q][p] = pages[q][p]
    BY <1>0 DEF Undisturbed, PM!Present
  <2>4. FileInPlace(s) /\ MemInPlace(s)
    BY <1>0 DEF SegmentInPlace
  <2>5. ASSUME NEW k \in 0 .. fp - 1
        PROVE  LET blk == DataBlkAt(Opened(f)', s.off \div BlockBytes + k)
               IN  blk \in Blocks /\ pages'[q][page + k] = PM!Entry("file", blk)
    <3>1. k \in 0 .. mp - 1
      BY <2>1
    <3>2. PICK blk : blk = DataBlkAt(Opened(f), s.off \div BlockBytes + k)
      OBVIOUS
    <3>3. blk \in Blocks /\ pages[q][page + k] = PM!Entry("file", blk)
      BY <1>0, <1>2, <2>1, <2>4, <3>2 DEF FileInPlace, DemoPage
    <3>4. pages[q][page + k].kind = "file"
      BY <3>3 DEF PM!Entry
    <3>5. QED
      BY <2>1, <2>2, <2>3, <3>1, <3>2, <3>3, <3>4
  <2>6. ASSUME NEW k \in fp .. mp - 1 PROVE pages'[q][page + k].kind = "anon"
    <3>1. k \in 0 .. mp - 1
      BY <2>1
    <3>2. pages[q][page + k].kind = "anon"
      BY <1>0, <1>2, <2>1, <2>4 DEF MemInPlace, DemoPage
    <3>3. QED
      BY <2>1, <2>3, <3>1, <3>2
  <2>7. FileInPlace(s)' /\ MemInPlace(s)'
    BY <1>0, <2>1, <2>5, <2>6 DEF FileInPlace, MemInPlace, DemoPage
  <2>8. QED
    BY <1>0, <2>7 DEF SegmentInPlace
<1>3. QED
  BY <1>1, <1>2

LEMMA TwoStay ==
    ASSUME NEW n \in Nat, n + 1 < PM!Span, NEW kind, kind # "none", TwoPages(n, kind), at' = at, Undisturbed
    PROVE  TwoPages(n, kind)'
<1>1. PICK q : q = at["demoProc"]
  OBVIOUS
<1>2. PM!Span \in Nat
  BY BootAssumption DEF PM!Span
<1>3. n \in PM!Pages /\ n + 1 \in PM!Pages
  BY <1>2 DEF PM!Pages
<1>4. \A p \in PM!Pages : pages[q][p].kind # "none" => pages'[q][p] = pages[q][p]
  BY <1>1 DEF Undisturbed, PM!Present
<1>5. QED
  BY <1>1, <1>3, <1>4 DEF TwoPages, DemoPage

(* A mapping disturbs no page that is present.                             *)
LEMMA MapUndisturbs ==
    ASSUME MemoryTypes, fault = {}, at["demoProc"] \in MetaIds, NEW start \in Nat, NEW len \in Nat,
           NEW kind, NEW blks, NEW rest, PM!MapSegment(at["demoProc"], start, len, kind, blks, rest)
    PROVE  Undisturbed
<1>1. PICK q \in MetaIds : q = at["demoProc"]
  OBVIOUS
<1>2. Mapping(q, start, len, kind, blks, rest)
  BY <1>1, MapSteps
<1>3. QED
  BY <1>1, <1>2 DEF Mapping, Undisturbed

(* The map of a part of the file that is there is as long as the part.     *)
LEMMA WholeMap ==
    ASSUME MemoryTypes, NEW i \in MetaIds, NEW from \in Nat, NEW len \in Nat \ {0},
           \A k \in 0 .. len - 1 : from + k < files[i].blk /\ DataBlkAt(Opened(i), from + k) \in Blocks
    PROVE  /\ Cardinality(DOMAIN FileMap(i, from, len)) = len
           /\ \A k \in 0 .. len - 1 : FileMap(i, from, len)[k] = DataBlkAt(Opened(i), from + k)
<1> DEFINE blk   == files[i].blk
           count == IF from + len > blk THEN blk - from ELSE len
           nulls == {k \in 0 .. count - 1 : DataBlkAt(Opened(i), from + k) = NULL}
           D     == {k \in 0 .. count - 1 : \A z \in nulls : k < z}
<1>1. FileMap(i, from, len) = [k \in D |-> DataBlkAt(Opened(i), from + k)]
  BY OpenedParts DEF FileMap
<1>2. blk \in Nat
  BY DEF MemoryTypes, Metas
<1>3. count = len
  <2>1. len - 1 \in 0 .. len - 1
    OBVIOUS
  <2>2. from + (len - 1) < blk
    BY <2>1
  <2>3. QED
    BY <1>2, <2>2
<1> HIDE DEF count, blk
<1>4. nulls = {}
  BY <1>3, NullAssumption
<1> HIDE DEF nulls
<1>5. D = 0 .. len - 1
  BY <1>3, <1>4
<1> HIDE DEF D
<1>6. DOMAIN FileMap(i, from, len) = 0 .. len - 1
  BY <1>1, <1>5
<1>7. Cardinality(0 .. len - 1) = len
  <2>1. 0 \in Int /\ len - 1 \in Int /\ (IF 0 > len - 1 THEN 0 ELSE len - 1 - 0 + 1) = len
    OBVIOUS
  <2>2. Cardinality(0 .. len - 1) = IF 0 > len - 1 THEN 0 ELSE len - 1 - 0 + 1
    BY <2>1, FS_Interval
  <2>3. QED
    BY <2>1, <2>2
<1>8. QED
  BY <1>1, <1>5, <1>6, <1>7

(* While the program is loaded.                                            *)
LEMMA LoadingParts ==
    ASSUME SysInv, Loading, pc \in OfDemo
    PROVE  /\ MemoryTypes /\ program \in Programs /\ at["demoProc"] \in MetaIds
           /\ pc # "user" => at["demo"] \in MetaIds
<1>1. Parts /\ IInv
  BY DEF SysInv
<1>2. MemoryTypes /\ program \in Programs /\ at["demoProc"] \in MetaIds
  BY <1>1 DEF Parts, MemoryTypes, Alive
<1>3. ASSUME pc # "user" PROVE at["demo"] \in MetaIds
  <2>1. /\ pc \notin BeforeUroot \cup {"user", "end"} /\ "demo" \in DOMAIN names
    BY <1>1, <1>3 DEF Parts, KernelFiles, AfterDemo, OfProc0, OfDemo, BeforeUroot, BeforeKroot
  <2>2. names["demo"] = at["demo"]
    BY <1>1, <2>1 DEF Parts, KernelFiles
  <2>3. QED
    BY <1>1, <2>1, <2>2 DEF IInv, Typed
<1>4. QED
  BY <1>2, <1>3

LEMMA LoadFilePlaced ==
    ASSUME SysInv, Loading, Consecutive, AsLoaded, fault = {}, fault' = {}, EndsInSpace(program),
           LoadFile, pc' = "bss"
    PROVE  AsLoaded'
<1>1. /\ pc = "segment" /\ seg < Len(program.segs) /\ seg \in Nat /\ seg' = seg
      /\ UNCHANGED <<files, slot, at, program>>
  BY DEF LoadFile, OthersStay, metaVars, control, Loading
<1>2. /\ MemoryTypes /\ program \in Programs /\ at["demoProc"] \in MetaIds /\ at["demo"] \in MetaIds
  BY <1>1, LoadingParts DEF OfDemo
<1>3. program.segs \in Seq([off : Nat, vaddr : Nat, filesz : Nat, memsz : Nat])
  BY <1>2, BootAssumption
<1>4. seg + 1 \in DOMAIN program.segs /\ \A i \in 1 .. seg : i \in DOMAIN program.segs
  BY <1>1, <1>3
<1>0. PICK s : s = program.segs[seg + 1]
  OBVIOUS
<1>5. PICK q \in MetaIds, f \in MetaIds : q = at["demoProc"] /\ f = at["demo"]
  BY <1>2
<1>6. s.vaddr \in Nat /\ s.off \div BlockBytes \in Nat /\ FilePages(s) \in Nat
      /\ PM!PageUp(s.vaddr) \in Nat
  <2>1. s.vaddr \in Nat /\ FirstBlock(s) \in Nat /\ FilePages(s) \in Nat
    BY <1>1, <1>0, <1>5, SegmentNow
  <2>2. QED
    BY <2>1, PagesFit DEF FirstBlock
<1> DEFINE blks == FileMap(f, s.off \div BlockBytes, FilePages(s))
           n    == Cardinality(DOMAIN blks)
<1>7. \/ /\ FilePages(s) > 0
         /\ PM!MapSegment(q, PM!PageUp(s.vaddr), n, "file", blks, free)
         /\ ret' = 0
      \/ /\ ~(FilePages(s) > 0)
         /\ pages' = pages
  <2>1. Returned("bss") => ret' = 0
    BY <1>1 DEF Returned, Goto
  <2>2. QED
    BY <1>0, <1>5, <2>1 DEF LoadFile, MapBlocks, FirstBlock, mappings
<1>8. n \in Nat
  BY <1>2, <1>0, <1>5, <1>6, FileMapBlocks
<1> HIDE DEF blks, n
<1>9. Undisturbed
  BY <1>2, <1>0, <1>5, <1>6, <1>7, <1>8, MapUndisturbs DEF Undisturbed
<1>10. \A i \in 1 .. seg' : SegmentInPlace(i)'
  BY <1>1, <1>2, <1>4, <1>9, SegmentStays DEF AsLoaded
<1>11. FileInPlace(s)'
  <2>1. CASE s.vaddr % BlockBytes # 0
    BY <2>1 DEF FileInPlace
  <2>2. CASE ~(FilePages(s) > 0)
    <3>1. 0 .. FilePages(s) - 1 = {}
      BY <1>6, <2>2
    <3>2. QED
      BY <3>1 DEF FileInPlace
  <2>3. CASE s.vaddr % BlockBytes = 0 /\ FilePages(s) > 0
    <3>1. Placeable(s)
      BY <1>2, <1>4, <1>0, <1>5, <2>3, SegmentPlaceable
    <3>2. PICK page \in Nat, fp \in Nat \ {0}, d \in Nat :
             /\ page = s.vaddr \div BlockBytes /\ fp = FilePages(s) /\ d = s.off \div BlockBytes
             /\ s.vaddr = Address(page) /\ page + fp < PM!Span
             /\ program.size > 0
             /\ \A k \in 0 .. fp - 1 : d + k < BlocksFor(program.size)
      <4>1. PM!Span \in Nat
        BY BootAssumption DEF PM!Span
      <4>2. FilePages(s) - 1 \in 0 .. FilePages(s) - 1
        BY <1>6, <2>3
      <4>3. s.vaddr \div BlockBytes + FilePages(s) < PM!Span
        BY <3>1, <4>1 DEF Placeable
      <4>4. /\ s.vaddr \div BlockBytes \in Nat /\ FilePages(s) \in Nat \ {0}
            /\ s.vaddr = Address(s.vaddr \div BlockBytes)
        BY <1>6, <2>3, <3>1 DEF Placeable
      <4>5. \A k \in 0 .. FilePages(s) - 1 :
               program.size > 0 /\ s.off \div BlockBytes + k < BlocksFor(program.size)
        BY <3>1 DEF Placeable
      <4>6. program.size > 0
        BY <4>2, <4>5
      <4>7. QED
        BY <1>6, <4>3, <4>4, <4>5, <4>6
    <3>3. page < PM!Span
      <4>1. PM!Span \in Nat
        BY BootAssumption DEF PM!Span
      <4>2. QED
        BY <3>2, <4>1
    <3>4. PM!PageUp(s.vaddr) = page
      BY <3>2, <3>3, PageOf
    <3>5. PICK need \in Nat : /\ need = BlocksFor(program.size) /\ Whole(Opened(f), need)
      <4>1. Whole(Opened(f), BlocksFor(program.size))
        BY <1>1, <1>0, <1>5, <3>2 DEF Consecutive, AfterAppend, OfDemo, ProgramFile
      <4>2. BlocksFor(program.size) \in Nat
        <5>1. program.size \in Nat
          BY <1>2, BootAssumption
        <5>2. program.size \div BlockBytes \in Nat
          BY <5>1, BytesAssumption, DivMod
        <5>3. QED
          BY <5>2 DEF BlocksFor
      <4>3. QED
        BY <4>1, <4>2
    <3>6. \A k \in 0 .. fp - 1 : d + k < files[f].blk /\ DataBlkAt(Opened(f), d + k) \in Blocks
      <4>1. files[f].blk = need /\ \A k \in 0 .. need - 1 : DataBlkAt(Opened(f), k) \in Blocks
        BY <3>5, OpenedParts DEF Whole
      <4>2. \A k \in 0 .. fp - 1 : d + k < need /\ d + k \in 0 .. need - 1
        BY <3>2, <3>5
      <4>3. QED
        BY <4>1, <4>2
    <3>7. n = fp /\ \A k \in 0 .. fp - 1 : blks[k] = DataBlkAt(Opened(f), d + k)
      <4>1. blks = FileMap(f, d, fp)
        BY <3>2 DEF blks
      <4>2. Cardinality(DOMAIN FileMap(f, d, fp)) = fp /\ \A k \in 0 .. fp - 1 : FileMap(f, d, fp)[k] = DataBlkAt(Opened(f), d + k)
        BY <1>2, <3>2, <3>6, WholeMap
      <4>3. QED
        BY <4>1, <4>2 DEF n
    <3>8. \A p \in page .. page + fp - 1 : pages'[q][p] = PM!Entry("file", blks[p - page])
      BY <1>2, <1>7, <2>3, <3>2, <3>4, <3>7, MapWhole
    <3>9. \A k : DataBlkAt(Opened(f)', k) = DataBlkAt(Opened(f), k)
      BY <1>1, OpenedParts DEF DataBlkAt, Leaf
    <3>10. ASSUME NEW k \in 0 .. fp - 1
           PROVE  LET blk == DataBlkAt(Opened(f)', d + k)
                  IN  blk \in Blocks /\ pages'[q][page + k] = PM!Entry("file", blk)
      <4>1. PICK p \in page .. page + fp - 1 : p = page + k /\ p - page = k
        OBVIOUS
      <4>2. pages'[q][p] = PM!Entry("file", blks[k])
        BY <3>8, <4>1
      <4>3. QED
        BY <3>6, <3>7, <3>9, <4>1, <4>2
    <3>11. \A k \in 0 .. FilePages(s) - 1 :
              LET blk == DataBlkAt(Opened(at["demo"])', s.off \div BlockBytes + k)
              IN  blk \in Blocks /\ pages'[at["demoProc"]][s.vaddr \div BlockBytes + k] = PM!Entry("file", blk)
      <4>1. /\ page = s.vaddr \div BlockBytes /\ fp = FilePages(s) /\ d = s.off \div BlockBytes
            /\ q = at["demoProc"] /\ f = at["demo"]
        BY <1>5, <3>2
      <4>2. Opened(f)' = Opened(at["demo"])'
        BY <1>1, <4>1 DEF Opened
      <4>3. QED
        BY <3>10, <4>1, <4>2
    <3>12. QED
      BY <1>1, <3>11 DEF FileInPlace, DemoPage
  <2>4. QED
    BY <2>1, <2>2, <2>3
<1>12. QED
  BY <1>1, <1>0, <1>5, <1>10, <1>11 DEF AsLoaded, AfterSegments

(* Pages are allocated when the allocator keeps track.                     *)
LEMMA AllocatedMaps ==
    ASSUME fault' = {}, NEW q, NEW addr, NEW len, PM!AllocBlks(q, addr, len)
    PROVE  \E blks, rest : PM!MapSegment(q, PM!PageUp(addr), len, "anon", blks, rest)
<1>1. ~PM!Fail("lost track")
  BY DEF PM!Fail
<1>2. CASE \E r \in PM!Store!OnlyFit(free, len) :
              PM!MapSegment(q, PM!PageUp(addr), len, "anon", [i \in 0 .. len - 1 |-> r[1] + i],
                            free \ PM!Segment(r[1], len))
  BY <1>2
<1>3. CASE PM!MapSegment(q, PM!PageUp(addr), len, "anon", PM!Outside(len), free)
  BY <1>3
<1>4. QED
  BY <1>1, <1>2, <1>3, Zenon DEF PM!AllocBlks

(* Pages that are allocated or mapped as the kernel's.                     *)
LEMMA PagesMapped ==
    ASSUME MemoryTypes, fault = {}, fault' = {}, ret' = 0, at["demoProc"] \in MetaIds,
           NEW page \in Nat, NEW len \in Nat, page + len < PM!Span, NEW kind \in {"anon", "kernel"},
           \/ kind = "anon" /\ PM!AllocBlks(at["demoProc"], Address(page), len)
           \/ kind = "kernel" /\ PM!MapKernel(at["demoProc"], Address(page), len)
    PROVE  /\ Undisturbed
           /\ \A k \in 0 .. len - 1 : pages'[at["demoProc"]][page + k].kind = kind
<1>1. PICK q \in MetaIds : q = at["demoProc"]
  OBVIOUS
<1>2. PM!Span \in Nat
  BY BootAssumption DEF PM!Span
<1>3. page < PM!Span
  BY <1>2
<1>4. PM!PageUp(Address(page)) = page
  BY <1>3, PageOf
<1>5. \E blks, rest : PM!MapSegment(q, page, len, kind, blks, rest)
  <2>1. CASE kind = "anon" /\ PM!AllocBlks(at["demoProc"], Address(page), len)
    <3>1. \E blks, rest : PM!MapSegment(q, PM!PageUp(Address(page)), len, "anon", blks, rest)
      BY <1>1, <2>1, AllocatedMaps
    <3>2. QED
      BY <1>4, <2>1, <3>1
  <2>2. CASE kind = "kernel" /\ PM!MapKernel(at["demoProc"], Address(page), len)
    <3>1. \E blks, rest : PM!MapSegment(q, PM!PageUp(Address(page)), len, "kernel", blks, rest)
      BY <1>1, <2>2 DEF PM!MapKernel, PM!Map
    <3>2. QED
      BY <1>4, <2>2, <3>1
  <2>3. QED
    BY <2>1, <2>2
<1>6. PICK blks, rest : PM!MapSegment(q, page, len, kind, blks, rest)
  BY <1>5
<1>7. Undisturbed
  BY <1>1, <1>6, MapUndisturbs
<1>8. \A p \in page .. page + len - 1 : pages'[q][p] = PM!Entry(kind, blks[p - page])
  BY <1>1, <1>6, MapWhole
<1>9. \A k \in 0 .. len - 1 : pages'[q][page + k].kind = kind
  <2> SUFFICES ASSUME NEW k \in 0 .. len - 1 PROVE pages'[q][page + k].kind = kind
    OBVIOUS
  <2>1. page + k \in page .. page + len - 1
    OBVIOUS
  <2>2. PICK blk : pages'[q][page + k] = PM!Entry(kind, blk)
    BY <1>8, <2>1
  <2>3. QED
    BY <2>2 DEF PM!Entry
<1>10. QED
  BY <1>1, <1>7, <1>9

LEMMA LoadBssPlaced ==
    ASSUME SysInv, Loading, AsLoaded, fault = {}, fault' = {}, EndsInSpace(program),
           LoadBss, pc' = "segment"
    PROVE  AsLoaded'
<1>1. /\ pc = "bss" /\ seg < Len(program.segs) /\ seg \in Nat /\ seg' = seg + 1
      /\ UNCHANGED <<files, slot, at, program>>
  BY DEF LoadBss, OthersStay, metaVars, control, Loading
<1>2. /\ MemoryTypes /\ program \in Programs /\ at["demoProc"] \in MetaIds
  BY <1>1, LoadingParts DEF OfDemo
<1>3. program.segs \in Seq([off : Nat, vaddr : Nat, filesz : Nat, memsz : Nat])
  BY <1>2, BootAssumption
<1>4. PICK m \in Nat : m = seg + 1 /\ m \in DOMAIN program.segs /\ seg' = m
                       /\ \A i \in 1 .. m : i \in DOMAIN program.segs
  BY <1>1, <1>3
<1>5. PICK s : s = program.segs[m]
  OBVIOUS
<1>6. s.vaddr \in Nat /\ FilePages(s) \in Nat /\ MemPages(s) \in Nat
  BY <1>1, <1>4, <1>5, SegmentNow
<1> DEFINE addr == s.vaddr + Address(FilePages(s))
           len  == MemPages(s) - FilePages(s)
<1>7. \/ /\ MemPages(s) > FilePages(s)
         /\ PM!AllocBlks(at["demoProc"], addr, len)
         /\ ret' = 0
      \/ /\ ~(MemPages(s) > FilePages(s))
         /\ pages' = pages
  <2>1. Returned("segment") => ret' = 0
    BY <1>1 DEF Returned, Goto
  <2>2. QED
    BY <1>4, <1>5, <2>1 DEF LoadBss, mappings
<1>8. MemPages(s) > FilePages(s) => len \in Nat
  BY <1>6
<1>9. addr \in Nat
  BY <1>6, PagesFit
<1> HIDE DEF addr, len
<1>10. Undisturbed
  <2>1. CASE pages' = pages
    BY <2>1 DEF Undisturbed
  <2>2. CASE MemPages(s) > FilePages(s) /\ PM!AllocBlks(at["demoProc"], addr, len)
    <3>1. \E blks, rest : PM!MapSegment(at["demoProc"], PM!PageUp(addr), len, "anon", blks, rest)
      BY <2>2, AllocatedMaps
    <3>2. PM!PageUp(addr) \in Nat
      BY <1>9, PagesFit
    <3>3. QED
      BY <1>2, <1>8, <2>2, <3>1, <3>2, MapUndisturbs
  <2>3. QED
    BY <1>7, <2>1, <2>2
<1>11. FileInPlace(s) /\ \A i \in 1 .. m - 1 : SegmentInPlace(i)
  <2>1. m - 1 = seg
    BY <1>1, <1>4
  <2>2. QED
    BY <1>1, <1>4, <1>5, <2>1 DEF AsLoaded
<1>12. \A i \in 1 .. m - 1 : SegmentInPlace(i)'
  <2>1. \A i \in 1 .. m - 1 : i \in DOMAIN program.segs
    BY <1>4
  <2>2. QED
    BY <1>1, <1>2, <1>10, <1>11, <2>1, SegmentStays
<1>13. SegmentInPlace(m)'
  <2>1. CASE s.vaddr % BlockBytes # 0
    BY <1>1, <1>5, <2>1 DEF SegmentInPlace, FileInPlace, MemInPlace
  <2>2. CASE s.vaddr % BlockBytes = 0
    <3>1. Placeable(s)
      BY <1>2, <1>4, <1>5, <2>2, SegmentPlaceable
    <3>0. PICK q, f : q = at["demoProc"] /\ f = at["demo"]
      OBVIOUS
    <3>2. PICK page \in Nat, fp \in Nat, mp \in Nat :
             /\ page = s.vaddr \div BlockBytes /\ fp = FilePages(s) /\ mp = MemPages(s)
             /\ addr = Address(page + fp)
             /\ fp <= mp /\ page + mp < PM!Span
             /\ \A k \in 0 .. mp - 1 : page + k \in PM!Pages
      BY <1>6, <3>1 DEF Placeable, addr
    <3>3. \A p \in PM!Pages : pages[q][p].kind # "none" => pages'[q][p] = pages[q][p]
      BY <1>10, <3>0, <3>2 DEF Undisturbed, PM!Present
    <3>4. \A k : DataBlkAt(Opened(f)', k) = DataBlkAt(Opened(f), k)
      BY <1>1, OpenedParts DEF DataBlkAt, Leaf
    <3>5. ASSUME NEW k \in 0 .. fp - 1
          PROVE  LET blk == DataBlkAt(Opened(f)', s.off \div BlockBytes + k)
                 IN  blk \in Blocks /\ pages'[q][page + k] = PM!Entry("file", blk)
      <4>1. k \in 0 .. mp - 1
        BY <3>0, <3>2
      <4>2. PICK blk : blk = DataBlkAt(Opened(f), s.off \div BlockBytes + k)
        OBVIOUS
      <4>3. blk \in Blocks /\ pages[q][page + k] = PM!Entry("file", blk)
        BY <1>11, <2>2, <3>0, <3>2, <4>2 DEF FileInPlace, DemoPage
      <4>4. pages[q][page + k].kind = "file"
        BY <4>3 DEF PM!Entry
      <4>5. QED
        BY <3>0, <3>2, <3>3, <3>4, <4>1, <4>2, <4>3, <4>4
    <3>6. ASSUME NEW k \in fp .. mp - 1 PROVE pages'[q][page + k].kind = "anon"
      <4>1. mp > fp /\ mp - fp \in Nat /\ page + fp \in Nat
        OBVIOUS
      <4>2. PM!AllocBlks(q, Address(page + fp), mp - fp) /\ ret' = 0
        BY <1>7, <3>0, <3>2, <4>1 DEF len
      <4>3. (page + fp) + (mp - fp) < PM!Span
        BY <3>0, <3>2
      <4>4. \A j \in 0 .. mp - fp - 1 : pages'[q][page + fp + j].kind = "anon"
        BY <1>2, <3>0, <3>2, <4>1, <4>2, <4>3, PagesMapped
      <4>5. PICK j \in 0 .. mp - fp - 1 : j = k - fp /\ page + fp + j = page + k
        <5>1. k - fp \in 0 .. mp - fp - 1 /\ page + fp + (k - fp) = page + k
          OBVIOUS
        <5>2. QED
          BY <5>1
      <4>6. QED
        BY <4>4, <4>5
    <3>7. FileInPlace(s)' /\ MemInPlace(s)'
      BY <1>1, <3>0, <3>2, <3>5, <3>6 DEF FileInPlace, MemInPlace, DemoPage
    <3>8. QED
      BY <1>1, <1>5, <3>7 DEF SegmentInPlace
  <2>3. QED
    BY <2>1, <2>2
<1>14. \A i \in 1 .. m : SegmentInPlace(i)'
  <2>1. \A i \in 1 .. m : i \in 1 .. m - 1 \/ i = m
    BY <1>4
  <2>2. QED
    BY <1>12, <1>13, <2>1
<1>15. QED
  BY <1>4, <1>14 DEF AsLoaded, AfterSegments

LEMMA PagesOfKernel ==
    /\ KstackPage \in Nat /\ UstackPage \in Nat /\ LowPage \in Nat
    /\ KstackPage + 2 < PM!Span /\ UstackPage + 2 < PM!Span /\ LowPage + 2 < PM!Span
<1>1. E \in Nat \ {0} /\ PM!Span \in Nat
  BY BootAssumption DEF PM!Span
<1>2. UstackPage + 2 < PM!Span
  BY GeometryAssumption
<1>3. KstackPage = 5 * E /\ UstackPage = 7 * E /\ LowPage = 0
  BY DEF KstackPage, UstackPage, LowPage
<1>4. QED
  BY <1>1, <1>2, <1>3

(* Two pages put in place when all segments are.                           *)
LEMMA TwoPlaced ==
    ASSUME MemoryTypes, fault = {}, fault' = {}, ret' = 0, at["demoProc"] \in MetaIds, at' = at,
           NEW page \in Nat, page + 2 < PM!Span, NEW kind \in {"anon", "kernel"},
           \/ kind = "anon" /\ PM!AllocBlks(at["demoProc"], Address(page), 2)
           \/ kind = "kernel" /\ PM!MapKernel(at["demoProc"], Address(page), 2)
    PROVE  Undisturbed /\ TwoPages(page, kind)'
<1>1. /\ Undisturbed
      /\ \A k \in 0 .. 2 - 1 : pages'[at["demoProc"]][page + k].kind = kind
  BY PagesMapped
<1>2. 0 \in 0 .. 2 - 1 /\ 1 \in 0 .. 2 - 1 /\ page + 0 = page
  OBVIOUS
<1>3. pages'[at["demoProc"]][page].kind = kind /\ pages'[at["demoProc"]][page + 1].kind = kind
  BY <1>1, <1>2
<1>4. QED
  BY <1>1, <1>3 DEF TwoPages, DemoPage

LEMMA SegmentsStay ==
    ASSUME program \in Programs, EndsInSpace(program), seg = Len(program.segs),
           \A i \in 1 .. seg : SegmentInPlace(i),
           UNCHANGED <<files, slot, at, program, seg>>, Undisturbed
    PROVE  (\A i \in 1 .. seg : SegmentInPlace(i))' /\ (\A i \in DOMAIN program.segs : SegmentInPlace(i))'
<1>1. program.segs \in Seq([off : Nat, vaddr : Nat, filesz : Nat, memsz : Nat])
  BY BootAssumption
<1>2. DOMAIN program.segs = 1 .. seg
  BY <1>1
<1>3. \A i \in 1 .. seg : SegmentInPlace(i)'
  BY <1>2, SegmentStays
<1>4. QED
  BY <1>2, <1>3

LEMMA KstackPlaced ==
    ASSUME SysInv, Loading, AsLoaded, fault = {}, fault' = {}, EndsInSpace(program),
           MapKernel("demoProc", "kstack", KstackPage, "low memory"), pc' = "low memory"
    PROVE  AsLoaded'
<1>1. /\ pc = "kstack" /\ UNCHANGED <<files, slot, at, program, seg>>
      /\ PM!MapKernel(at["demoProc"], Address(KstackPage), 2) /\ Returned("low memory")
  BY DEF MapKernel, OthersStay, metaVars, control
<1>2. ret' = 0
  BY <1>1 DEF Returned, Goto
<1>3. MemoryTypes /\ program \in Programs /\ at["demoProc"] \in MetaIds
  BY <1>1, LoadingParts DEF OfDemo
<1>4. Undisturbed /\ TwoPages(KstackPage, "kernel")'
  BY <1>1, <1>2, <1>3, PagesOfKernel, TwoPlaced
<1>5. seg = Len(program.segs) /\ \A i \in 1 .. seg : SegmentInPlace(i)
  BY <1>1 DEF AsLoaded, AfterSegments
<1>6. (\A i \in 1 .. seg : SegmentInPlace(i))'
  BY <1>1, <1>3, <1>4, <1>5, SegmentsStay
<1>7. QED
  BY <1>1, <1>4, <1>5, <1>6 DEF AsLoaded, AfterSegments

(* The kernel's own memory, which is mapped only where nothing else is.    *)
LEMMA LowPlaced ==
    ASSUME SysInv, Loading, AsLoaded, fault = {}, EndsInSpace(program), MapLow, pc' = "ustack"
    PROVE  AsLoaded'
<1>1. /\ pc = "low memory" /\ UNCHANGED <<files, slot, at, program, seg>>
  BY DEF MapLow, memory, metaVars, control
<1>2. MemoryTypes /\ program \in Programs /\ at["demoProc"] \in MetaIds
  BY <1>1, LoadingParts DEF OfDemo
<1>3. PICK q \in MetaIds : q = at["demoProc"]
  BY <1>2
<1>4. /\ ~PM!InUse(q, LowPage, 2)
      /\ pages' = [pages EXCEPT ![q] =
                     PM!Over([p \in {LowPage, LowPage + 1} |-> PM!Entry("kernel", FOREIGN)], pages[q])]
  BY <1>3 DEF MapLow, Goto
<1>5. LowPage = 0 /\ 0 \in PM!Pages /\ 0 + 1 \in PM!Pages
  <2>1. PM!Span \in Nat /\ LowPage + 2 < PM!Span /\ LowPage = 0
    BY BootAssumption, PagesOfKernel DEF PM!Span, LowPage
  <2>2. QED
    BY <2>1 DEF PM!Pages
<1>6. \A p \in PM!Pages :
         pages'[q][p] = IF p \in {0, 0 + 1} THEN PM!Entry("kernel", FOREIGN) ELSE pages[q][p]
  <2>1. DOMAIN pages = MetaIds /\ DOMAIN pages[q] = PM!Pages
    BY <1>2 DEF MemoryTypes
  <2>2. QED
    BY <1>4, <1>5, <2>1 DEF PM!Over
<1>7. ~PM!Present(q, 0) /\ ~PM!Present(q, 0 + 1)
  <2>1. 0 \in 0 .. 0 + 2 - 1 /\ 0 + 1 \in 0 .. 0 + 2 - 1
    OBVIOUS
  <2>2. \A p \in 0 .. 0 + 2 - 1 : ~PM!Present(q, p)
    BY <1>4, <1>5 DEF PM!InUse, PM!Segment
  <2>3. QED
    BY <2>1, <2>2
<1>8. Undisturbed
  BY <1>3, <1>6, <1>7 DEF Undisturbed
<1>9. TwoPages(LowPage, "kernel")'
  <2>1. pages'[q][0] = PM!Entry("kernel", FOREIGN) /\ pages'[q][0 + 1] = PM!Entry("kernel", FOREIGN)
    BY <1>5, <1>6
  <2>2. pages'[q][LowPage].kind = "kernel" /\ pages'[q][LowPage + 1].kind = "kernel"
    BY <1>5, <2>1 DEF PM!Entry
  <2>3. QED
    BY <1>1, <1>3, <2>2 DEF TwoPages, DemoPage
<1>10. TwoPages(KstackPage, "kernel")'
  <2>1. TwoPages(KstackPage, "kernel")
    BY <1>1 DEF AsLoaded
  <2>2. KstackPage \in Nat /\ KstackPage + 1 < PM!Span
    <3>1. PM!Span \in Nat
      BY BootAssumption DEF PM!Span
    <3>2. QED
      BY <3>1, PagesOfKernel
  <2>3. QED
    BY <1>1, <1>8, <2>1, <2>2, TwoStay
<1>11. seg = Len(program.segs) /\ \A i \in 1 .. seg : SegmentInPlace(i)
  BY <1>1 DEF AsLoaded, AfterSegments
<1>12. (\A i \in 1 .. seg : SegmentInPlace(i))'
  BY <1>1, <1>2, <1>8, <1>11, SegmentsStay
<1>13. QED
  BY <1>1, <1>9, <1>10, <1>11, <1>12 DEF AsLoaded, AfterSegments

(* The last step of the kernel.                                            *)
LEMMA StartPlaced ==
    ASSUME SysInv, Loading, AsLoaded, fault = {}, EndsInSpace(program),
           AllocBlks("demoProc", "ustack", UstackPage, "user"), pc' = "user"
    PROVE  InPlace'
<1>1. /\ pc = "ustack" /\ UNCHANGED <<files, slot, at, program, seg>>
      /\ PM!AllocBlks(at["demoProc"], Address(UstackPage), 2) /\ Returned("user")
  BY DEF AllocBlks, OthersStay, metaVars, control
<1>2. ret' = 0 /\ fault' = {}
  BY <1>1 DEF Returned, Goto
<1>3. MemoryTypes /\ program \in Programs /\ at["demoProc"] \in MetaIds
  BY <1>1, LoadingParts DEF OfDemo
<1>4. Undisturbed /\ TwoPages(UstackPage, "anon")'
  BY <1>1, <1>2, <1>3, PagesOfKernel, TwoPlaced
<1>5. /\ seg = Len(program.segs) /\ \A i \in 1 .. seg : SegmentInPlace(i)
      /\ TwoPages(KstackPage, "kernel") /\ TwoPages(LowPage, "kernel")
  BY <1>1 DEF AsLoaded, AfterSegments
<1>6. (\A i \in DOMAIN program.segs : SegmentInPlace(i))'
  BY <1>1, <1>3, <1>4, <1>5, SegmentsStay
<1>7. /\ KstackPage \in Nat /\ KstackPage + 1 < PM!Span
      /\ LowPage \in Nat /\ LowPage + 1 < PM!Span
  <2>1. PM!Span \in Nat
    BY BootAssumption DEF PM!Span
  <2>2. QED
    BY <2>1, PagesOfKernel
<1>8. TwoPages(KstackPage, "kernel")' /\ TwoPages(LowPage, "kernel")'
  BY <1>1, <1>4, <1>5, <1>7, TwoStay
<1>9. QED
  BY <1>4, <1>6, <1>8 DEF InPlace

(* What a step of the loader leaves to show.                               *)
LoadedBy == AsLoaded' /\ (pc # "user" /\ pc' = "user" => InPlace')

LEMMA NotLoading ==
    ASSUME pc' \notin {"segment", "bss", "kstack", "low memory", "ustack", "user"}
    PROVE  LoadedBy
BY DEF LoadedBy, AsLoaded, AfterSegments

LEMMA FaultLoaded ==
    ASSUME fault' # {}, pc' # "user" \/ pc = "user"
    PROVE  LoadedBy
BY DEF LoadedBy, AsLoaded

LEMMA ReturnedWell ==
    ASSUME NEW next, Returned(next)
    PROVE  \/ fault' # {} /\ pc' = pc
           \/ fault' = {} /\ pc' = next
           \/ fault' = {} /\ pc' = "end"
BY DEF Returned, Goto

LEMMA StartProc0Elsewhere == StartProc0 => LoadedBy
<1> SUFFICES ASSUME StartProc0 PROVE LoadedBy
  OBVIOUS
<1>1. CASE Enter("proc0", "kroot", "proc", "create proc0")
  BY <1>1, NotLoading DEF Enter, Goto
<1>2. CASE CreateProc("proc0", "create proc0", "map kernel")
  <2>1. pc = "create proc0" /\ pc' \in {pc, "map kernel", "end"}
    BY <1>2, ReturnedTo DEF CreateProc
  <2>2. QED
    BY <2>1, NotLoading
<1>3. CASE MapKernel("proc0", "map kernel", LowPage, "map file0")
  <2>1. pc = "map kernel" /\ pc' \in {pc, "map file0", "end"}
    BY <1>3, ReturnedTo DEF MapKernel
  <2>2. QED
    BY <2>1, NotLoading
<1>4. CASE MapFile0
  <2>1. pc = "map file0" /\ (pc' = "end" \/ Returned("stack"))
    BY <1>4 DEF MapFile0, Goto
  <2>2. pc' \in {"map file0", "stack", "end"}
    BY <2>1, ReturnedTo
  <2>3. QED
    BY <2>2, NotLoading
<1>5. CASE AllocBlks("proc0", "stack", StackPage, "syscall stack")
  <2>1. pc = "stack" /\ pc' \in {pc, "syscall stack", "end"}
    BY <1>5, ReturnedTo DEF AllocBlks
  <2>2. QED
    BY <2>1, NotLoading
<1>6. CASE MapSyscallStack
  <2>1. pc = "syscall stack" /\ pc' \in {pc, "demoProc", "end"}
    BY <1>6, ReturnedTo DEF MapSyscallStack
  <2>2. QED
    BY <2>1, NotLoading
<1>7. QED
  BY <1>1, <1>2, <1>3, <1>4, <1>5, <1>6 DEF StartProc0

LEMMA StartDemoLoads ==
    ASSUME SysInv, Loading, Consecutive, AsLoaded, fault = {}, EndsInSpace(program), StartDemo
    PROVE  LoadedBy
<1>1. CASE Enter("demoProc", "kroot", "proc", "create demoProc")
  BY <1>1, NotLoading DEF Enter, Goto
<1>2. CASE CreateProc("demoProc", "create demoProc", "header")
  <2>1. pc = "create demoProc" /\ pc' \in {pc, "header", "end"}
    BY <1>2, ReturnedTo DEF CreateProc
  <2>2. QED
    BY <2>1, NotLoading
<1>3. CASE CheckHeader
  <2>1. pc' \in {"segment", "end"} /\ seg' = 0 /\ 1 .. 0 = {}
    BY <1>3 DEF CheckHeader, Goto
  <2>2. QED
    BY <2>1 DEF LoadedBy, AsLoaded, AfterSegments
<1>4. CASE LoadFile
  <2>1. pc = "segment" /\ (Returned("bss") \/ (pc' = "bss" /\ fault' = fault))
    BY <1>4 DEF LoadFile, Goto
  <2>2. \/ fault' # {} /\ pc' = "segment"
        \/ fault' = {} /\ pc' = "bss"
        \/ pc' = "end"
    BY <2>1, ReturnedWell
  <2>3. CASE fault' = {} /\ pc' = "bss"
    BY <1>4, <2>3, LoadFilePlaced DEF LoadedBy
  <2>4. QED
    BY <2>2, <2>3, NotLoading, FaultLoaded
<1>5. CASE LoadBss
  <2>1. pc = "bss" /\ (Returned("segment") \/ (pc' = "segment" /\ fault' = fault))
    BY <1>5 DEF LoadBss, Goto
  <2>2. \/ fault' # {} /\ pc' = "bss"
        \/ fault' = {} /\ pc' = "segment"
        \/ pc' = "end"
    BY <2>1, ReturnedWell
  <2>3. CASE fault' = {} /\ pc' = "segment"
    BY <1>5, <2>3, LoadBssPlaced DEF LoadedBy
  <2>4. QED
    BY <2>2, <2>3, NotLoading, FaultLoaded
<1>6. CASE Loaded
  <2>1. /\ pc = "segment" /\ pc' = "kstack" /\ seg = Len(program.segs)
        /\ UNCHANGED <<files, slot, fault, pages, at, program, seg>>
    BY <1>6 DEF Loaded, Goto, memory, mappings, metaVars, control
  <2>2. \A i \in 1 .. seg : SegmentInPlace(i)
    BY <2>1 DEF AsLoaded
  <2>3. program \in Programs
    BY DEF Loading
  <2>4. Undisturbed
    BY <2>1 DEF Undisturbed
  <2>5. (\A i \in 1 .. seg : SegmentInPlace(i))'
    BY <2>1, <2>2, <2>3, <2>4, SegmentsStay
  <2>6. QED
    BY <2>1, <2>5 DEF LoadedBy, AsLoaded, AfterSegments
<1>7. CASE MapKernel("demoProc", "kstack", KstackPage, "low memory")
  <2>1. pc = "kstack" /\ Returned("low memory")
    BY <1>7 DEF MapKernel
  <2>2. \/ fault' # {} /\ pc' = "kstack"
        \/ fault' = {} /\ pc' = "low memory"
        \/ pc' = "end"
    BY <2>1, ReturnedWell
  <2>3. CASE fault' = {} /\ pc' = "low memory"
    BY <1>7, <2>3, KstackPlaced DEF LoadedBy
  <2>4. QED
    BY <2>2, <2>3, NotLoading, FaultLoaded
<1>8. CASE MapLow
  <2>1. pc' \in {"ustack", "end"}
    BY <1>8 DEF MapLow, Goto
  <2>2. CASE pc' = "ustack"
    BY <1>8, <2>2, LowPlaced DEF LoadedBy
  <2>3. QED
    BY <2>1, <2>2, NotLoading
<1>9. CASE AllocBlks("demoProc", "ustack", UstackPage, "user")
  <2>1. pc = "ustack" /\ Returned("user")
    BY <1>9 DEF AllocBlks
  <2>2. \/ fault' # {} /\ pc' = "ustack"
        \/ fault' = {} /\ pc' = "user"
        \/ pc' = "end"
    BY <2>1, ReturnedWell
  <2>3. CASE pc' = "user"
    <3>1. InPlace'
      BY <1>9, <2>3, StartPlaced
    <3>2. AsLoaded'
      BY <2>3 DEF AsLoaded, AfterSegments
    <3>3. QED
      BY <3>1, <3>2 DEF LoadedBy
  <2>4. QED
    BY <2>2, <2>3, NotLoading, FaultLoaded
<1>10. QED
  BY <1>1, <1>2, <1>3, <1>4, <1>5, <1>6, <1>7, <1>8, <1>9 DEF StartDemo

LEMMA StepsLoad ==
    ASSUME SysInv, Loading, Consecutive, AsLoaded, EndsInSpace(program), [Next]_sysVars
    PROVE  LoadedBy
<1>1. ASSUME Create PROVE LoadedBy
  <2>1. pc' \in {"freeList", "kroot", "uroot", "metaList", "magic", "file0"}
    BY <1>1 DEF Create, CreateAllocator, Write, CreateRoot, Goto
  <2>2. QED
    BY <2>1, NotLoading
<1>2. ASSUME AddFiles PROVE LoadedBy
  <2>1. pc' \in {"blank file0", "write file0", "demo", "blank demo", "write demo", "proc0", "end"}
    BY <1>2 DEF AddFiles, Enter, BlankFile, AppendFile0, AppendDemo, AppendTo, Goto
  <2>2. QED
    BY <2>1, NotLoading
<1>3. CASE Kernel
  BY <1>1, <1>2, <1>3, StartProc0Elsewhere, StartDemoLoads DEF Kernel, Step
<1>4. CASE ResetInBoot
  BY <1>4, NotLoading DEF ResetInBoot, Reset
<1>5. CASE Call
  <2>1. pc = "user" /\ pc' = "user"
    BY <1>5, CallsStay DEF Stays
  <2>2. QED
    BY <2>1 DEF LoadedBy, AsLoaded, AfterSegments
<1>6. CASE UNCHANGED sysVars
  <2>1. UNCHANGED <<files, slot, fault, pages, at, program, seg, pc, free>>
    BY <1>6 DEF sysVars, vars, memory, mappings, metaVars, control
  <2>2. AsLoaded'
    <3>1. ASSUME NEW s PROVE (FileInPlace(s)' <=> FileInPlace(s)) /\ (MemInPlace(s)' <=> MemInPlace(s))
      BY <2>1 DEF FileInPlace, MemInPlace, DemoPage, Opened, DataBlkAt, Leaf
    <3>2. \A i : SegmentInPlace(i) => SegmentInPlace(i)'
      BY <2>1, <3>1 DEF SegmentInPlace
    <3>3. \A page, kind : TwoPages(page, kind) => TwoPages(page, kind)'
      BY <2>1 DEF TwoPages, DemoPage
    <3>4. FileInPlace(program.segs[seg + 1]) => FileInPlace(program.segs[seg + 1])'
      BY <2>1, <3>1
    <3>5. QED
      BY <2>1, <3>2, <3>3, <3>4 DEF AsLoaded, AfterSegments
  <2>3. QED
    BY <2>1, <2>2 DEF LoadedBy
<1>7. QED
  BY <1>3, <1>4, <1>5, <1>6 DEF Next, Stay

(* The processor enters user mode only with the program in place, for      *)
(* every program whose parts end in the address space.                     *)
THEOREM UserModeReadyAlways ==
    ASSUME \A p \in Programs : EndsInSpace(p)
    PROVE  Spec => UserModeReady
<1>1. SysInit => Consecutive /\ AsLoaded
  BY DEF SysInit, Init, Consecutive, AfterAppend, OfProc0, OfDemo, AsLoaded, AfterSegments
<1>2. SysInv /\ Loading /\ Consecutive /\ AsLoaded /\ [Next]_sysVars =>
         Consecutive' /\ AsLoaded' /\ [pc # "user" /\ pc' = "user" => InPlace']_vars
  <2> SUFFICES ASSUME SysInv, Loading, Consecutive, AsLoaded, [Next]_sysVars
               PROVE  Consecutive' /\ LoadedBy
    BY DEF LoadedBy
  <2>1. EndsInSpace(program)
    BY DEF Loading
  <2>2. QED
    BY <2>1, ConsecutiveKeeps, StepsLoad
<1>3. QED
  BY <1>1, <1>2, SystemParts, PTL DEF Spec, UserModeReady
=============================================================================
