------------------------------ MODULE Syscalls ------------------------------
(***************************************************************************)
(* The system: the kernel boots and the program it started makes system    *)
(* calls on files (syscalls.c): open, ftruncate, mmap and munmap.  A call  *)
(* runs with paging and interrupts off and is one step.                    *)
(*                                                                         *)
(* What a call keeps is in the kernel stack's first page: the table of     *)
(* opened files, which only grows, and the address the next mmap gets.     *)
(*                                                                         *)
(* Left out are print and halt, a descriptor that was never given out,     *)
(* which the calls look up all the same, an mmap from behind the last      *)
(* block of the file, for which file_getMap subtracts below zero, and one  *)
(* that reaches the end of the address space (Wraps of ProcMemory).        *)
(***************************************************************************)
EXTENDS Boot

CONSTANTS Names,        \* the names the program opens
          MaxFds,       \* how many files it opens
          Targets,      \* the lengths it asks ftruncate for
          Lengths,      \* the lengths it asks mmap for, in bytes
          Offsets       \* and the offsets, in pages

ASSUME CallAssumption ==
    /\ MaxFds \in Nat
    /\ Targets \subseteq Nat /\ Lengths \subseteq Nat /\ Offsets \subseteq Nat

VARIABLES fds,          \* the table of opened files
          nextMmap,     \* the page the next mmap starts at
          shows,        \* the file and block each page mmap gave is to show
          answer        \* what the last call returned

calls == <<fds, nextMmap, shows, answer>>
sysVars == <<vars, calls>>

SysInit ==
    /\ Init
    /\ fds = <<>>
    /\ nextMmap = MmapPage
    /\ shows = <<>>
    /\ answer = 0

InUser == pc = "user" /\ fault = {}

Stays == UNCHANGED <<control, pc, seg, record, metas, metaBlk, at>>

(* What is left of shows when file i keeps its first count blocks only.    *)
Kept(i, count) ==
    LET gone == {p \in DOMAIN shows : shows[p][1] = i /\ shows[p][2] >= count}
    IN  [p \in DOMAIN shows \ gone |-> shows[p]]

(* Mutant: any meta that is no directory is taken for a free one.          *)
IsNoDirectory(i) == i \in MetaIds /\ metas[i] # "dir"

(* meta_getNextFreeMeta; open does not mark the meta, so a later call gets *)
(* the same.                                                               *)
IsNewMeta(i) == IsNextFree(i)

Descriptor(i) == [file |-> i, addr |-> 0, blks |-> 0]

OpenKnown(name) ==
    /\ InUser /\ Len(fds) < MaxFds
    /\ name \in DOMAIN names
    /\ fds' = Append(fds, Descriptor(names[name]))
    /\ answer' = Len(fds)
    /\ UNCHANGED <<memory, mappings, names, nextMmap, shows>> /\ Stays

(* A new name.  The root directory has its first block, which is enough    *)
(* for all names.                                                          *)
OpenNew(name) ==
    /\ InUser /\ Len(fds) < MaxFds
    /\ name \notin DOMAIN names
    /\ \E i \in MetaIds :
          /\ IsNewMeta(i)
          /\ names' = [n \in DOMAIN names \cup {name} |-> IF n = name THEN i ELSE names[n]]
          /\ files' = [files EXCEPT ![i] = Blank, ![at["uroot"]].size = @ + 1]
          /\ fds' = Append(fds, Descriptor(i))
          /\ shows' = Kept(i, 0)
    /\ answer' = Len(fds)
    /\ UNCHANGED <<slot, free, fault, ret, mappings, nextMmap>> /\ Stays

(* ftruncate appends as many bytes as the file is to have when that is     *)
(* more than it has, and discards its tail otherwise.                      *)
Grow(fd, target) ==
    LET i == fds[fd].file
    IN  /\ InUser
        /\ files[i].size < target
        /\ files[i].size + target + Chunk - 1 <= MaxSize
        /\ \E a \in Grown(Opened(i), target) :
              /\ Close(i, a.st)
              /\ answer' = a.ret
        /\ UNCHANGED <<ret, mappings, names, fds, nextMmap, shows>> /\ Stays

Shrink(fd, target) ==
    LET i == fds[fd].file
    IN  /\ InUser
        /\ target <= files[i].size
        /\ Close(i, Discarded(Opened(i), files[i].size - target))
        /\ shows' = Kept(i, files'[i].blk)
        /\ answer' = 0
        /\ UNCHANGED <<ret, mappings, names, fds, nextMmap>> /\ Stays

(* A descriptor that has been mapped is not mapped again.                  *)
MmapAgain(fd) ==
    /\ InUser
    /\ fds[fd].blks # 0
    /\ answer' = 0
    /\ UNCHANGED <<memory, mappings, names, fds, nextMmap, shows>> /\ Stays

(* Mutants: the next address is behind the pages that were mapped; the     *)
(* offset is not used.                                                     *)
BehindMapped(pgs, blks) == nextMmap + Cardinality(DOMAIN blks)

FromTheStart(i, off, pgs) == FileMap(i, 0, pgs)

Behind(pgs, blks) == nextMmap + pgs

MmapBlks(i, off, pgs) == FileMap(i, off, pgs)

(* The pages asked for, and not those that were mapped, are counted for    *)
(* the descriptor and for the next address.                                *)
Mmap(fd, length, off) ==
    LET i    == fds[fd].file
        pgs  == RoundUp(IF length > files[i].size THEN files[i].size ELSE length)
        blks == MmapBlks(i, off, pgs)
        given == nextMmap .. nextMmap + Cardinality(DOMAIN blks) - 1
        placed(p) == <<i, off + (p - nextMmap)>>
    IN  /\ InUser
        /\ fds[fd].blks = 0
        /\ off <= files[i].blk
        /\ nextMmap + pgs < PM!Span
        /\ MapBlocks(at["demoProc"], nextMmap, "file", blks, free)
        /\ \/ /\ fault' = {} /\ ret' = 0
              /\ fds' = [fds EXCEPT ![fd].addr = nextMmap, ![fd].blks = pgs]
              /\ nextMmap' = Behind(pgs, blks)
              /\ shows' = [p \in DOMAIN shows \cup given |-> IF p \in given THEN placed(p) ELSE shows[p]]
              /\ answer' = Address(nextMmap)
           \/ /\ fault' = {} /\ ret' # 0
              /\ answer' = 0
              /\ UNCHANGED <<fds, nextMmap, shows>>
           \/ fault' # {} /\ UNCHANGED calls
        /\ UNCHANGED <<files, slot, names>> /\ Stays

(* munmap, of as many pages from where a file was mapped.  It answers 999, *)
(* and the descriptor stays as it is.                                      *)
Munmap(fd, len) ==
    /\ InUser
    /\ fds[fd].blks # 0
    /\ PM!UnmapFile(at["demoProc"], Address(fds[fd].addr), len)
    /\ answer' = 999
    /\ UNCHANGED <<files, slot, names, fds, nextMmap, shows>> /\ Stays

Call ==
    \/ \E name \in Names : OpenKnown(name) \/ OpenNew(name)
    \/ \E fd \in DOMAIN fds :
          \/ \E target \in Targets : Grow(fd, target) \/ Shrink(fd, target)
          \/ MmapAgain(fd)
          \/ \E length \in Lengths, off \in Offsets : Mmap(fd, length, off)
          \/ \E length \in Lengths : Munmap(fd, RoundUp(length))

Kernel == Step /\ UNCHANGED calls

(* Resets are of interest while the kernel boots.                          *)
ResetInBoot == Reset /\ fds = <<>> /\ UNCHANGED calls

(* The loop at endProc, or whatever the program does by itself.            *)
Stay == Done /\ UNCHANGED sysVars

Next == Kernel \/ ResetInBoot \/ Call \/ Stay

(* Nothing but a reset interrupts the kernel while it boots.  No call is   *)
(* owed.                                                                   *)
Spec == SysInit /\ [][Next]_sysVars /\ WF_sysVars(Kernel)

-----------------------------------------------------------------------------

(* Metas and, until the allocator loses track, blocks are each used once,  *)
(* by all parts together: the metas' block, files and directories, page    *)
(* directories, page tables, allocated pages and the kernel stack of proc0 *)
(* are apart and none of them is free, whatever was refused while booting  *)
(* and whatever files are opened, grown and shrunk by calls.               *)
PartsApart ==
    /\ MetasApart
    /\ fault = {} /\ pc \notin Creation =>
          BlocksApart({at[r] : r \in RootDirs} \cup {names[n] : n \in Filled})

(* Until the allocator loses track, a page that mmap gave shows the block  *)
(* of the file it was mapped for, or it was unmapped, as long as the file  *)
(* has the block: growing a file, and all calls on other files, move no    *)
(* block.  What the page shows once ftruncate or an open of a new name has *)
(* taken the block from the file (syscalls.c:151) is not spoken of: it is  *)
(* the old block, whatever that is used for.                               *)
PagesShowFile ==
    fault = {} =>
       \A p \in DOMAIN shows :
          pages[at["demoProc"]][p] \in
             {PM!Absent, PM!Entry("file", DataBlkAt(Opened(shows[p][1]), shows[p][2]))}

Mapped(fd) == fds[fd].addr .. fds[fd].addr + fds[fd].blks - 1

(* mmap gives no page twice: the ranges of two descriptors are apart, and  *)
(* behind them no page was given, also when fewer pages were mapped than   *)
(* asked for and when mappings are refused half-way.  (The range of a file *)
(* without bytes has no pages, and the next call gets the same address.)   *)
AddressesOnce ==
    \A a, b \in DOMAIN fds :
       /\ a # b => Mapped(a) \cap Mapped(b) = {}
       /\ \A p \in Mapped(a) : MmapPage <= p /\ p < nextMmap

(* A name leads to a meta of a file.  Two names lead to the same only when *)
(* both were new to open, which leaves the meta it takes free              *)
(* (syscalls.c:79): the files of the kernel are not affected.              *)
OnlyNewNamesShare ==
    \A m, n \in DOMAIN names :
       /\ metas[names[n]] \in {"file", "free"}
       /\ m # n /\ names[m] = names[n] => metas[names[m]] = "free"

(* Every boot ends, in user mode, in the loop at endProc or with a page    *)
(* table at address 0, also when the machine was reset on the way: no      *)
(* refusal leaves the loop that appends to file0 without progress.  Up to  *)
(* there the free blocks are one run, so that no request makes the         *)
(* allocator lose track.                                                   *)
BootEnds ==
    /\ []<>(pc \in {"user", "end"} \/ fault = {"null table"})
    /\ [](pc # "user" => ~Store!Split(free))
=============================================================================
