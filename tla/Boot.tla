-------------------------------- MODULE Boot --------------------------------
(***************************************************************************)
(* What kernel_main does from the datalayer on (kernel.c:171): it creates  *)
(* the datalayer (datalayer.c) and its metas (meta.c), two files and two   *)
(* processes in it, and has the ELF loader (elfloader.c) start the second. *)
(*                                                                         *)
(* Files and processes are those of FileOps and ProcMemory, each known by  *)
(* the number of its meta; all share one allocator, that of BlockStore.    *)
(* A page shows one block.  The kernel itself releases nothing, so what it *)
(* requests while it boots comes from one run of free blocks, and cannot   *)
(* make the allocator lose track.                                          *)
(*                                                                         *)
(* Memory keeps its contents when the machine is reset, and a kernel that  *)
(* starts again creates the datalayer over what it finds there.            *)
(*                                                                         *)
(* The datalayer takes all memory up to PROC_KSTACK_ADDR; the model lets   *)
(* its allocator have any number of blocks of Sizes.  The META_BLOCK (93)  *)
(* metas of the first block are more than the kernel takes.                *)
(***************************************************************************)
EXTENDS FileOps

CONSTANTS Sizes,        \* how many blocks the allocator may have
          Programs,     \* the files that may be given as the demo program
          T, E,         \* page tables in a directory, pages in a table
          MaxLives      \* how often the machine is started

ASSUME PointerAssumption == NULL \notin Nat /\ FOREIGN \notin Nat
ASSUME MetaAssumption    == MetaIds \subseteq Nat /\ 0 \in MetaIds
ASSUME BootAssumption    ==
    /\ \A n \in Sizes : n \in Nat \ {0} /\ 1 .. n \subseteq Blocks
    /\ T \in Nat \ {0} /\ E \in Nat \ {0}
    /\ 3 * BlockBytes <= MaxSize
    /\ \A p \in Programs :
          /\ p.size \in Nat /\ p.size <= MaxSize
          /\ p.segs \in Seq([off : Nat, vaddr : Nat, filesz : Nat, memsz : Nat])
          /\ \A i \in DOMAIN p.segs :
                p.segs[i].memsz >= p.segs[i].filesz /\ p.segs[i].off + p.segs[i].filesz <= p.size

VARIABLES size,         \* the number of blocks the allocator has
          program,      \* the demo program
          life,         \* how often the machine has been started
          pc,           \* what kernel_main does next
          seg,          \* program headers the loader is done with
          record,       \* the life each field of the datalayer's meta is from
          metas,        \* the flags of each meta
          metaBlk,      \* the block of the metas
          at,           \* the meta each part has been given
          names,        \* the user root directory
          files, slot,                       \* FileOps
          live, pageDir, tables, pages,      \* ProcMemory
          free, fault, ret                   \* both

memory   == <<files, slot, free, fault, ret>>
mappings == <<live, pageDir, tables, pages>>
metaVars == <<record, metas, metaBlk, at, names>>
control  == <<size, program, life>>
vars     == <<memory, mappings, metaVars, control, pc, seg>>

(* The file of a meta, for the operations of FileOps.                      *)
Opened(i) ==
    [m |-> files[i], slot |-> slot, free |-> free, fault |-> fault, track |-> {"kept"}]

PM == INSTANCE ProcMemory WITH
        Procs <- MetaIds, PageBytes <- BlockBytes, OUTSIDE <- FOREIGN,
        Addresses <- {}, Lengths <- {}

(* The pages the code names, two tables for the program and two for what   *)
(* it maps.                                                                *)
LowPage    == 0             \* the kernel's own memory
ExecPage   == E             \* PROC_EXEC_ADDR
MmapPage   == 3 * E         \* PROC_INIT_MMAP_ADDR
KstackPage == 5 * E         \* PROC_KSTACK_ADDR
StackPage  == 6 * E         \* 0xC0000000
UstackPage == 7 * E         \* PROC_USTACK_ADDR, and 0xE0000000 of proc0

ASSUME GeometryAssumption == UstackPage + 2 < PM!Span

Address(page) == page * BlockBytes

RootDirs == {"kroot", "uroot"}
Roles == RootDirs \cup {"file0", "demo", "proc0", "demoProc"}

-----------------------------------------------------------------------------
(* Creating the datalayer.                                                 *)

Init ==
    /\ size \in Sizes
    /\ program \in Programs
    /\ life = 1
    /\ pc = "allocator"
    /\ seg = 0
    /\ record = [f \in {"geometry", "freeList", "kroot", "uroot", "metaList", "magic"} |-> 0]
    /\ metas = [i \in MetaIds |-> "free"]
    /\ metaBlk = NULL
    /\ at = [r \in Roles |-> NULL]
    /\ names = [n \in {} |-> NULL]
    /\ files = [i \in MetaIds |-> Blank]
    /\ slot = [b \in Blocks |-> Empty]
    /\ PM!Init

Goto(next) == pc' = next

Written(field) == record' = [record EXCEPT ![field] = life]

(* Mutant: the magic number is written with the first fields.              *)
MagicFirst ==
    /\ pc = "allocator"
    /\ record' = [record EXCEPT !["geometry"] = life, !["magic"] = life]
    /\ free' = 1 .. size
    /\ metaBlk' = NULL
    /\ Goto("freeList")
    /\ UNCHANGED <<metas, at, names, files, slot, fault, ret, mappings, control, seg>>

(* The fields that describe the region, and the allocator.                 *)
CreateAllocator ==
    /\ pc = "allocator"
    /\ Written("geometry")
    /\ free' = 1 .. size
    /\ metaBlk' = NULL
    /\ Goto("freeList")
    /\ UNCHANGED <<metas, at, names, files, slot, fault, ret, mappings, control, seg>>

Write(field, next) ==
    /\ pc = field
    /\ Written(field)
    /\ Goto(next)
    /\ UNCHANGED <<metas, metaBlk, at, names, memory, mappings, control, seg>>

(* The meta meta_getNextFreeMeta finds: the first of those that are free.  *)
IsNextFree(i) ==
    /\ i \in MetaIds /\ metas[i] = "free"
    /\ \A k \in MetaIds : metas[k] = "free" => i <= k

(* A meta for a role, and the flags its caller gives the meta.  When no    *)
(* meta is free the code follows the block's next pointer, which nothing   *)
(* has set; the kernel does not take as many.                              *)
TakeMeta(role, flags) ==
    \E i \in MetaIds :
       /\ IsNextFree(i)
       /\ metas' = [metas EXCEPT ![i] = flags]
       /\ at' = [at EXCEPT ![role] = i]

(* The first call makes the block of metas.                                *)
TakeFirstMeta(role, flags) ==
    /\ \E r \in Store!BestFits(free, 1) :
          /\ metaBlk' = r[1]
          /\ free' = free \ {r[1]}
    /\ metas' = [i \in MetaIds |-> IF i = 0 THEN flags ELSE "free"]
    /\ at' = [at EXCEPT ![role] = 0]

(* A root directory.                                                       *)
CreateRoot(root, next) ==
    /\ pc = root
    /\ IF metaBlk = NULL
       THEN TakeFirstMeta(root, "dir")
       ELSE TakeMeta(root, "dir") /\ UNCHANGED <<metaBlk, free>>
    /\ files' = [files EXCEPT ![at'[root]] = Blank]
    /\ names' = IF root = "uroot" THEN [n \in {} |-> NULL] ELSE names
    /\ Written(root)
    /\ Goto(next)
    /\ UNCHANGED <<slot, fault, ret, mappings, control, seg>>

-----------------------------------------------------------------------------
(* Files and processes.                                                    *)

(* The end of an operation on a file, if the allocator kept track or not.  *)
Close(i, st) ==
    \/ /\ "kept" \in st.track
       /\ files' = [files EXCEPT ![i] = st.m]
       /\ slot' = st.slot
       /\ free' = st.free
       /\ fault' = st.fault
    \/ /\ "lost" \in st.track
       /\ fault' = {"lost track"}
       /\ UNCHANGED <<files, slot, free>>

(* dir_addFileRef of an entry to one of the root directories, whose first  *)
(* block is enough for what they hold: the outcomes.                       *)
Entered(st) ==
    LET listed == [st EXCEPT !.m.size = @ + 1]
        first(b) == [listed EXCEPT !.free = @ \ {b}, !.m.first = b, !.m.blk = 1]
    IN  IF st.m.blk = 1 THEN {[st |-> listed, ok |-> TRUE]}
        ELSE IF st.free = {} THEN {[st |-> st, ok |-> FALSE]}
        ELSE {[st |-> first(r[1]), ok |-> TRUE] : r \in Store!BestFits(st.free, 1)}

(* A new meta and its entry in a root directory.                           *)
Enter(role, root, flags, next) ==
    /\ pc = role
    /\ metaBlk # NULL
    /\ TakeMeta(role, flags)
    /\ \E e \in Entered(Opened(at[root])) :
          /\ Close(at[root], e.st)
          /\ Goto(IF e.ok THEN next ELSE "end")
          /\ names' = IF e.ok /\ root = "uroot"
                      THEN [n \in DOMAIN names \cup {role} |->
                              IF n = role THEN at'[role] ELSE names[n]]
                      ELSE names
    /\ UNCHANGED <<record, metaBlk, ret, mappings, control, seg>>

(* The fields of a new file's meta.                                        *)
BlankFile(role, step, next) ==
    /\ pc = step
    /\ files' = [files EXCEPT ![at[role]] = Blank]
    /\ Goto(next)
    /\ UNCHANGED <<slot, free, fault, ret, mappings, metaVars, control, seg>>

(* Mutant: what file_append returns is not looked at.                      *)
AppendAnyway(role, len, next) ==
    /\ \E a \in Appends(Opened(at[role]), len) :
          /\ Close(at[role], a.st)
          /\ Goto(next)
    /\ UNCHANGED <<ret, mappings, metaVars, control, seg>>

(* file_append of len bytes; anything else than len ends the boot.         *)
AppendTo(role, len, next) ==
    /\ \E a \in Appends(Opened(at[role]), len) :
          /\ Close(at[role], a.st)
          /\ Goto(IF a.ret = len THEN next ELSE "end")
    /\ UNCHANGED <<ret, mappings, metaVars, control, seg>>

(* file0, 0x2000 bytes by 8.                                               *)
AppendFile0 ==
    /\ pc = "write file0"
    /\ IF files[at["file0"]].size < 2 * BlockBytes
       THEN AppendTo("file0", Chunk, pc)
       ELSE /\ Goto("demo")
            /\ UNCHANGED <<memory, mappings, metaVars, control, seg>>

(* Mutant: the demo program is appended as file0 is.                       *)
AppendDemoByChunks ==
    /\ pc = "write demo"
    /\ IF files[at["demo"]].size < program.size
       THEN AppendTo("demo", Chunk, pc)
       ELSE /\ Goto("proc0")
            /\ UNCHANGED <<memory, mappings, metaVars, control, seg>>

(* The demo program, at once.                                              *)
AppendDemo ==
    /\ pc = "write demo"
    /\ AppendTo("demo", program.size, "proc0")

(* The process calls return 0, or the boot ends; some do not return.       *)
Returned(next) ==
    CASE fault' # {}              -> UNCHANGED pc
      [] fault' = {} /\ ret' = 0 -> Goto(next)
      [] OTHER                    -> Goto("end")

OthersStay == UNCHANGED <<files, slot, metaVars, control>>

CreateProc(role, step, next) ==
    /\ pc = step
    /\ PM!CreateProc(at[role])
    /\ Returned(next)
    /\ OthersStay /\ UNCHANGED seg

MapBlocks(q, page, kind, blks, rest) ==
    /\ PM!MapSegment(q, page, Cardinality(DOMAIN blks), kind, blks, rest)
    /\ UNCHANGED <<live, pageDir>>

MapKernel(role, step, page, next) ==
    /\ pc = step
    /\ PM!MapKernel(at[role], Address(page), 2)
    /\ Returned(next)
    /\ OthersStay /\ UNCHANGED seg

AllocBlks(role, step, page, next) ==
    /\ pc = step
    /\ PM!AllocBlks(at[role], Address(page), 2)
    /\ Returned(next)
    /\ OthersStay /\ UNCHANGED seg

(* What file_getMap gives of a file: its data blocks from one on, up to    *)
(* the first null block.                                                   *)
FileMap(i, from, len) ==
    LET st    == Opened(i)
        count == IF from + len > st.m.blk THEN st.m.blk - from ELSE len
        nulls == {k \in 0 .. count - 1 : DataBlkAt(st, from + k) = NULL}
    IN  [k \in {k \in 0 .. count - 1 : \A z \in nulls : k < z} |-> DataBlkAt(st, from + k)]

MapFile0 ==
    /\ pc = "map file0"
    /\ LET blks == FileMap(at["file0"], 0, 2)
       IN  IF Cardinality(DOMAIN blks) # 2
           THEN Goto("end") /\ UNCHANGED <<free, fault, ret, mappings>>
           ELSE MapBlocks(at["proc0"], ExecPage, "file", blks, free) /\ Returned("stack")
    /\ OthersStay /\ UNCHANGED seg

(* Blocks for a kernel stack, which may be refused without notice.         *)
MapSyscallStack ==
    /\ pc = "syscall stack"
    /\ IF Store!BestFits(free, 2) = {}
       THEN MapBlocks(at["proc0"], UstackPage, "kernel", PM!Outside(2), free)
       ELSE \E r \in Store!BestFits(free, 2) :
               MapBlocks(at["proc0"], UstackPage, "kernel", [k \in 0 .. 1 |-> r[1] + k],
                         free \ {r[1], r[1] + 1})
    /\ Returned("demoProc")
    /\ OthersStay /\ UNCHANGED seg

-----------------------------------------------------------------------------
(* The ELF loader.                                                         *)

RoundUp(bytes) == (bytes + BlockBytes - 1) \div BlockBytes

FilePages(s) == RoundUp((s.off % BlockBytes) + s.filesz)

MemPages(s) == RoundUp((s.off % BlockBytes) + s.memsz)

Pages(s) == IF FilePages(s) > MemPages(s) THEN FilePages(s) ELSE MemPages(s)

(* Mutant: a segment is taken from the start of the file.                  *)
StartOfFile(s) == 0

(* The block a segment's first byte is in.                                 *)
FirstBlock(s) == s.off \div BlockBytes

(* elf_check_supported of the file's header, and the end of elf_loadExec,  *)
(* which returns the number of pages; none is taken for a failure.         *)
CheckHeader ==
    /\ pc = "header"
    /\ Goto(IF program.supported /\ \E i \in DOMAIN program.segs : Pages(program.segs[i]) > 0
            THEN "segment" ELSE "end")
    /\ seg' = 0
    /\ UNCHANGED <<memory, mappings, metaVars, control>>

Loaded ==
    /\ pc = "segment"
    /\ seg = Len(program.segs)
    /\ Goto("kstack")
    /\ UNCHANGED <<memory, mappings, metaVars, control, seg>>

(* The pages of a segment that the file has.  The block is the one its     *)
(* first byte is in, but the page is the next whole one.                   *)
LoadFile ==
    /\ pc = "segment"
    /\ seg < Len(program.segs)
    /\ LET s    == program.segs[seg + 1]
           blks == FileMap(at["demo"], FirstBlock(s), FilePages(s))
       IN  IF FilePages(s) > 0
           THEN MapBlocks(at["demoProc"], PM!PageUp(s.vaddr), "file", blks, free) /\ Returned("bss")
           ELSE Goto("bss") /\ UNCHANGED <<free, fault, ret, mappings>>
    /\ OthersStay /\ UNCHANGED seg

(* The pages behind them.                                                  *)
LoadBss ==
    /\ pc = "bss"
    /\ LET s == program.segs[seg + 1]
       IN  IF MemPages(s) > FilePages(s)
           THEN /\ PM!AllocBlks(at["demoProc"], s.vaddr + Address(FilePages(s)), MemPages(s) - FilePages(s))
                /\ Returned("segment")
           ELSE Goto("segment") /\ UNCHANGED <<free, fault, ret, mappings>>
    /\ seg' = seg + 1
    /\ OthersStay

(* elf_exec maps the kernel's memory with the address of its parameter for *)
(* an allocator.  What follows the parameter on the stack is taken for the *)
(* tree of free blocks: the datalayer's meta, no root of a tree since its  *)
(* magic number stands for the parent.  The request is refused, and the    *)
(* page table put at address 0.                                            *)
MapLow ==
    LET q == at["demoProc"]
    IN  /\ pc = "low memory"
        /\ IF PM!InUse(q, LowPage, 2)
           THEN Goto("end") /\ UNCHANGED <<tables, pages>>
           ELSE /\ tables' = [tables EXCEPT ![q][0] = IF @ = NULL THEN FOREIGN ELSE @]
                /\ pages' = [pages EXCEPT ![q] =
                               PM!Over([p \in {LowPage, LowPage + 1} |-> PM!Entry("kernel", FOREIGN)], @)]
                /\ Goto("ustack")
        /\ UNCHANGED <<memory, live, pageDir, metaVars, control, seg>>

-----------------------------------------------------------------------------

Create ==
    \/ CreateAllocator
    \/ Write("freeList", "kroot")
    \/ CreateRoot("kroot", "uroot")
    \/ CreateRoot("uroot", "metaList")
    \/ Write("metaList", "magic")
    \/ Write("magic", "file0")

AddFiles ==
    \/ Enter("file0", "uroot", "file", "blank file0")
    \/ BlankFile("file0", "blank file0", "write file0")
    \/ AppendFile0
    \/ Enter("demo", "uroot", "file", "blank demo")
    \/ BlankFile("demo", "blank demo", "write demo")
    \/ AppendDemo

StartProc0 ==
    \/ Enter("proc0", "kroot", "proc", "create proc0")
    \/ CreateProc("proc0", "create proc0", "map kernel")
    \/ MapKernel("proc0", "map kernel", LowPage, "map file0")
    \/ MapFile0
    \/ AllocBlks("proc0", "stack", StackPage, "syscall stack")
    \/ MapSyscallStack

StartDemo ==
    \/ Enter("demoProc", "kroot", "proc", "create demoProc")
    \/ CreateProc("demoProc", "create demoProc", "header")
    \/ CheckHeader \/ LoadFile \/ LoadBss \/ Loaded
    \/ MapKernel("demoProc", "kstack", KstackPage, "low memory")
    \/ MapLow
    \/ AllocBlks("demoProc", "ustack", UstackPage, "user")

(* The next step of the kernel.                                            *)
Step ==
    /\ fault = {}
    /\ Create \/ AddFiles \/ StartProc0 \/ StartDemo

(* The machine is reset: what is in the datalayer stays, what the kernel   *)
(* keeps in variables does not.                                            *)
Reset ==
    /\ life < MaxLives
    /\ life' = life + 1
    /\ pc' = "allocator"
    /\ seg' = 0
    /\ at' = [r \in Roles |-> IF r \in RootDirs THEN at[r] ELSE NULL]
    /\ live' = {}
    /\ pageDir' = [i \in MetaIds |-> NULL]
    /\ tables' = [i \in MetaIds |-> [t \in PM!Tables |-> NULL]]
    /\ pages' = [i \in MetaIds |-> [p \in PM!Pages |-> PM!Absent]]
    /\ free' = {}
    /\ fault' = {}
    /\ ret' = 0
    /\ UNCHANGED <<files, slot, record, metas, metaBlk, names, size, program>>

(* The kernel has nothing more to do by itself.                            *)
Done == pc \in {"user", "end"} \/ fault # {}

-----------------------------------------------------------------------------

DataOf(i) == {DataBlkAt(Opened(i), k) : k \in 0 .. files[i].blk - 1} \cap Blocks

Creation == {"allocator", "freeList", "kroot", "uroot", "metaList", "magic", "file0"}

(* The files the root directory names whose meta has been filled in: the   *)
(* kernel does that after it entered them.                                 *)
Filled ==
    {n \in DOMAIN names : /\ n = "file0" => pc # "blank file0"
                          /\ n = "demo" => pc # "blank demo"}

(* What the blocks of the region are used for, when some metas are files.  *)
FileUses(some) ==
    UNION {{<<"data", i, b>> : b \in DataOf(i)} \cup
           {<<"pointers", i, b>> : b \in PtrBlksOf(Opened(i))} : i \in some}

ProcUses ==
    UNION {{<<"directory", i, pageDir[i]>>} \cup
           {<<"table", <<i, t>>, tables[i][t]>> : t \in PM!Tables} \cup
           {<<"page", <<i, p>>, pages[i][p].blk>> :
               p \in {p \in PM!Pages : pages[i][p].kind \in {"anon", "kernel"}}} : i \in live}

(* No block has two uses, and none in use is free.                         *)
BlocksApart(some) ==
    LET uses == {u \in {<<"metas", 0, metaBlk>>} \cup FileUses(some) \cup ProcUses : u[3] \in Blocks}
        used == {u[3] : u \in uses}
    IN  /\ Cardinality(used) = Cardinality(uses)
        /\ used \cap free = {}

(* No meta is given to two parts: each call marks the meta it was given    *)
(* before the next call looks for a free one, also over the metas that an  *)
(* earlier life marked.                                                    *)
MetasApart == \A r, s \in Roles : r # s /\ at[r] # NULL => at[r] # at[s]

(* What datalayer_loadDatalayer would take for a datalayer: it looks at    *)
(* the magic number and at nothing else.  When the number is there all     *)
(* fields have been written, since the life that wrote it or later, and    *)
(* there are two roots; as long as no later creation has begun, the record *)
(* is of one life and the roots are directories.  A reset before the magic *)
(* number is written the first time leaves nothing to load.  One in a      *)
(* later creation leaves a mixture under the old number, its first field   *)
(* newer than the number: nothing that is looked at tells it from a whole  *)
(* record.                                                                 *)
RecordIsWritten ==
    record["magic"] # 0 =>
       /\ \A f \in DOMAIN record : record[f] >= record["magic"]
       /\ at["kroot"] # at["uroot"]
       /\ record["geometry"] = record["magic"] =>
             /\ \A f \in DOMAIN record : record[f] = record["magic"]
             /\ \A r \in RootDirs : metas[at[r]] = "dir"

DemoPage(page) == pages[at["demoProc"]][page]

(* The pages of segment s that the file has show the blocks of the file    *)
(* they are loaded from, and those behind them are allocated (from address *)
(* 0 on when the blocks were refused, proc.c:47).                          *)
FileInPlace(s) ==
    s.vaddr % BlockBytes = 0 =>
       \A k \in 0 .. FilePages(s) - 1 :
          LET blk == DataBlkAt(Opened(at["demo"]), s.off \div BlockBytes + k)
          IN  blk \in Blocks /\ DemoPage(s.vaddr \div BlockBytes + k) = PM!Entry("file", blk)

MemInPlace(s) ==
    s.vaddr % BlockBytes = 0 =>
       \A k \in FilePages(s) .. MemPages(s) - 1 :
          DemoPage(s.vaddr \div BlockBytes + k).kind = "anon"

SegmentInPlace(i) == FileInPlace(program.segs[i]) /\ MemInPlace(program.segs[i])

(* Two pages of one kind from a page on.                                   *)
TwoPages(page, kind) == DemoPage(page).kind = kind /\ DemoPage(page + 1).kind = kind

InPlace ==
    /\ \A i \in DOMAIN program.segs : SegmentInPlace(i)
    /\ TwoPages(KstackPage, "kernel") /\ TwoPages(LowPage, "kernel")
    /\ TwoPages(UstackPage, "anon")

(* The processor enters user mode only with the program in place: every    *)
(* part of the file at its address, memory behind it, and the stacks and   *)
(* the kernel mapped.  A part whose address is not the start of a page is  *)
(* left out, since the loader puts it at the next one; and memory counts   *)
(* that is mapped from address 0 on because the blocks were refused.       *)
UserModeReady == [][pc # "user" /\ pc' = "user" => InPlace']_vars

(* Programs of which this holds: the parts that start with a page end      *)
(* before the end of the address space.  A mapping that reaches it maps    *)
(* nothing and returns 0 (Wraps of ProcMemory), and nobody looks.          *)
EndsInSpace(p) ==
    \A i \in DOMAIN p.segs :
       LET s == p.segs[i]
       IN  s.vaddr % BlockBytes = 0 => s.vaddr \div BlockBytes + MemPages(s) < PM!Span

(* elfloader.c:9 assumes what nothing there checks, that the program's     *)
(* file is in consecutive blocks: it reads the headers behind the first.   *)
ExecIsConsecutive ==
    pc = "header" =>
       \A k \in 1 .. files[at["demo"]].blk - 1 :
          DataBlkAt(Opened(at["demo"]), k) = files[at["demo"]].first + k
=============================================================================
