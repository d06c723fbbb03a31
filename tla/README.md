# nvmos: a verification project

nvmos is a kernel for 32-bit x86 that keeps its files, directories and
processes in one *datalayer*: a region of memory (non-volatile in the design)
cut into 4 KB blocks. This directory holds TLA+ models of the parts of the
kernel that keep state, TLC configurations that check them on small instances,
and proofs, checked by TLAPS, of what holds for instances of any size.

Paths are relative to the repository root. `src/kernel/arch/noarch/datalayer`
is written `datalayer/`, `src/kernel/arch/noarch/mman` `mman/`.

## 1. The system

### How it runs

One processor, one thread. The boot code enters `kernel_main` (kernel.c), which
builds the heap and the datalayer, runs a sequence of operations on them, maps a
program and leaves for user mode. User programs come back through system calls
(syscalls.c), which turn paging off, do their work to the end and turn paging on
again. Interrupts are never enabled. So every operation of a component is one
atomic step and nothing in the models interleaves inside an operation. What is
hard here is not concurrency: it is **long sequences of legal calls**, **requests
refused half-way through an operation**, **what is left in memory that is never
cleared**, and **boundaries of 32-bit arithmetic and of the levels of the block
lists**.

The models of single components have as environment a set of callers that call
any operation at any time within what it asks of its callers (give back only
what you hold, use only files and processes you opened); no call is owed, so
they assume no fairness. `Syscalls` composes the components the way the
kernel does: `kernel_main` is the caller while the kernel boots, the program it
started is afterwards, and a reset may come at any step of the boot. There one
thing must happen eventually: the boot ends.

### Components

| component | code | state it keeps | operations | uses |
|---|---|---|---|---|
| red-black tree | datalayer/allocator/redBlackTree | nodes inside free blocks, a root pointer | insert, remove, find at or above a value | |
| block allocator | datalayer/allocator/allocator.c | headers in the first and last block of each free segment, chains of segments of one length | create, allocate, deallocate | the tree |
| pointer blocks, files | datalayer/ptrBlks.c, file.c | file metas, two (nominally three) levels of pointer blocks | push, pop, read, write, append, discard, remove, map | the allocator |
| directories | datalayer/directory.c | a sorted array of named entries in the blocks of a file | add, search, rename, delete | pointer blocks |
| metas | datalayer/meta.c | blocks of 93 metas, linked, each free, file, directory or process | get a free one, set its kind | the allocator |
| datalayer | datalayer/datalayer.c | the root record: magic number, free list root, metas, two root directories | create, load, resize | allocator, metas |
| page directories, process memory | src/kernel/arch/i386/datalayer/pageDir.c, datalayer/proc.c | a page directory and page tables per process | create, allocate, free, map and unmap files and kernel memory, remove | the allocator, files |
| heap | mman/Heap.c, HeapFreeBlockList.c | a linked list through the free 8-byte blocks, a header per segment | construct, malloc, calloc, free | |
| system calls | src/kernel/arch/i386/syscalls/syscalls.c | a table of open files, the next address to map at | open, ftruncate, mmap, munmap, print | directories, files, process memory |
| ELF loader | src/kernel/arch/i386/userland/elfloader.c, src/kernel/arch/noarch/userland/elf.c | | check a header, map the segments of a program | files, process memory |
| boot | src/kernel/kernel/kernel.c | | the sequence described above | all |
| interrupts, devices, segments, memory map, C library, tests | src/kernel/arch/i386/{int,io,mman}, src/libc, src/kernel/test | | | |

Components interact by calls only, and by **shared memory**: the allocator's
headers lie in the blocks it manages, nobody clears them when a block is handed
out, and pointer blocks, page tables, data and headers are the same blocks at
different times.

### What makes each component correct, and what is hard

- *Tree.* Links that agree with each other, search order, a ceiling search that
  finds the smallest sufficient value; balance. Hard: exchanging a node with its
  successor when that is its child; removals that repaint and rebalance wrongly
  (rbt.c:437, 513) while insertions rely on what they find; the refused removal of
  a root with one child (rbt.c:389).
- *Allocator.* A block is in one place only: held by one caller or in one free
  segment. Free neighbours are merged. A request takes a shortest sufficient
  segment and is refused only when there is none. Hard: headers left over from
  earlier lives of a block; merging with neighbours that are in the middle of a
  chain; results that are ignored.
- *Files.* Every block has one use; data keeps its place through all changes of
  level; what is taken is given back. Hard: requests refused in the middle of a
  push, at each level; sizes at the boundaries of the levels.
- *Process memory.* Every block has one use over all processes; a page shows the
  same memory until it is unmapped; page tables are there. Hard: refused requests,
  segments across tables and at the end of the address space.
- *Heap.* The free list and the segments divide the heap. Hard: the list is not
  sorted, so neighbours in the list and in memory differ.
- *Directories.* Entries are sorted, every name in use is found and leads to its
  meta, the blocks match the entries. Hard: `strcmp` compares signed characters, so
  the name a deletion marks with (252 bytes 0xFF) sorts before ordinary names and
  not behind them; deletions leave blanks, which all have one name.
- *Datalayer, metas, boot, ELF loader.* No meta and no block is given to two parts,
  the program is in place when it starts, a record of the datalayer with a magic number
  has been written whole. Hard: any of a dozen calls may be refused, some are not looked
  at; memory survives a reset, and a second creation starts under the magic number of the
  first.
- *System calls.* A page that was mapped shows its file, an address is given out
  once, two names share a file only where open itself makes them. Hard: what a call
  leaves when it is refused half-way, open's meta that stays free, files that are
  cut while they are mapped.

## 2. Modules

| module | models | kind |
|---|---|---|
| `RbtOps` | rbt.c and rbtHelper.c | operators on a tree value, one per function |
| `RedBlackTree` | any sequence of insertions and removals | state machine over `RbtOps` |
| `OrderedSet` | what the tree promises | abstract specification |
| `BlockAllocator` | allocator.c, with the pointers of tree and chains in the blocks | state machine over `RbtOps` |
| `SegmentAllocator` | allocator.c, with tree and chains as sets of segments | state machine; what `BlockAllocator` implements |
| `BlockStore` | what the allocator promises, and which calls may end the promise | abstract specification, used by `FileOps` and `ProcMemory` |
| `FileOps` | file.c, ptrBlks.c and the loop of ftruncate | operators on the state of one file, over `BlockStore` |
| `FileStore` | files that share an allocator; open (of a new name) and ftruncate | state machine over `FileOps` |
| `ProcMemory` | proc.c, pageDir.c | state machine over `BlockStore` |
| `Heap` | Heap.c, HeapFreeBlockList.c | state machine |
| `Directory` | directory.c | state machine |
| `NameMap` | what a directory promises | abstract specification |
| `Boot` | kernel.c from the datalayer on, datalayer.c, meta.c, elfloader.c, elf.c's check of the header | actions over `FileOps` and an instance of `ProcMemory` |
| `Syscalls` | open, ftruncate, mmap and munmap of syscalls.c | the whole system: extends `Boot` |
| `RedBlackTreeProofs`, `SegmentAllocatorProofs`, `HeapProofs`, `ProcMemoryProofs`, `DirectoryProofs` | each one component | theorems |
| `FileOpsProofs`, `FileStoreProofs` | the operations on a file; files | lemmas; theorems |
| `SystemProofs` | the whole system and what its program gets | theorems |
| `MCxxx` | | instances for TLC |

The allocator is modelled in three layers. `BlockAllocator` has every pointer where the
code has it and implements `SegmentAllocator` (checked), which has the same operations on
sets of segments and implements `BlockStore` (proved). Files and process memory are
modelled over `BlockStore`, so that their state stays small.

`BlockStore` is best fit **until the allocator loses track** of a segment, which the code
does in three ways (below). It says which calls may do that: a request that has two
shortest runs to choose from always does (`OnlyFit` has none: they are a chain, and
allocator.c:96-107 hands one out that it keeps), a granted request may while the free
blocks are in several runs (`RequestMayLose`), and so may a release beside a free block
then (`ReleaseMayLose`). That the allocator of segments loses track nowhere else is part of
what is proved of it. `FileOps`, `ProcMemory`, `Boot` and `Syscalls` take both outcomes of
such a call: the one in which track is kept, and one that records `"lost track"` in
`fault` and ends the run. After a loss the code may hand out a block that is in use, or lose
blocks, within a few calls. So every property and theorem about blocks of files, processes
and the system holds **up to the allocator's first loss of track**, and is stated so; what
comes after it in the code is not followed and nothing is claimed of it.

### From code to model

*Tree.* A tree is a record of functions from node addresses (`parent`, `left`,
`right`, `color`, `value`) and the root pointer. `Set` is one link write of the
code, so operators such as `Rotate` and `SwapNode` write in the order the C code
does. A write through a null pointer, and a read whose value is used, would be an
application outside a function's domain, which TLC reports: no run reports one. Two reads
through a pointer that may be null are passed over by the model, because what they read
changes no link: rbt.c:456 reads the parent of a sibling that is tested only at rbt.c:500
(insert 2, 1, 3, 0, remove 1, remove 3), and rbt.c:213 the value of a search that found
nothing. Both happen in the code; that they go well where address 0 can be read is
assumed.
A loop that goes from a node to the next until there is none is `Ends` of the function that
says which is next: the ways down (`Farthest`), the search (`Descent`) and its way back up
(`Climb`). The balancing functions call themselves once, as the last thing they do; one
call is a round (`InsertRound`, `RemoveRound`), which hands on a tree and a node or is done,
and the rounds are a function on 0 .. `Rounds`.

*Allocator.* Block addresses are block numbers. `mem` is what the headers hold, also
in blocks that are held or belong to somebody else (blocks 0 and N + 1). `Stale`
blocks start with a header of an earlier life. `Clear` is a holder overwriting its
block with zeroes; a holder that writes something else is not modelled. Three
paths of the code lose a segment or hand one out twice; the model takes each as
written and names it in `mem.fault`:
  - `"half root"`: the result -1 of `rbt_removeNode` is ignored (allocator.c:94,
    177, 229), and the segment stays in the tree;
  - `"chain"`: a request that meets a chain of segments of one length returns the
    last but one of it (allocator.c:96-107), and leaves it there when there are two;
  - `"chain head"`: merging with the head of a chain takes it out of the tree with
    everything chained behind it (allocator.c:176, 228).

  A release is three steps of one action: `JoinBefore`, `JoinAfter`, `Filed`. The
  segment a request takes is `Taken`; `Allocate` releases the rest of it.

  After a fault the program goes on with a corrupted tree; the model stops.

  `SegmentAllocator` keeps the headers as they are, since what a release reads in the blocks
  beside it is where the difficulty lies, and replaces parent, child and chain pointers by
  what they lead to: `tree`, one segment `<<first block, length>>` of each length, and
  `chained`, the others. The three faults are one value `Lost`. When the tree refuses to give up
  a segment depends on its shape (a root with one child), so here it may refuse whenever it has
  another segment (`Refusal`); what is shown of this module holds for every such choice.

*Files.* What the operations do to one file is in `FileOps`, on a record of its meta `m` and
the memory all files share: `slot`, the pointers in each block used for pointers, `free` and
`fault`. `FileStore` has the metas of all files, opens one, applies an operator and closes
it with what came out; `Boot` and `Syscalls` do the same with the same operators. An
operation follows the outcome in which the allocator keeps track, and notes in `track` what
its requests (`TrackAfterRequest`) and releases (`GivenBack`) may have made of that:
`"kept"`, `"lost"` or either. `Close` then has an outcome for each of them. `Pushes` and
`Pop` fold one block at a time as the loops do, with every early return: what a failed push
came to is saved in the meta (file.c:76), what was pushed before the copying loop stops at a
null block is not (file.c:92). `F` (1024 in the code) is the number of pointers in a block,
so level boundaries are at `L2 = 1 + F`. The third level needs more data blocks than a
32-bit size allows and is not modelled. Refused requests are pushed as `NULL` followed by
`FOREIGN` blocks: the code does not test for them.

*Process memory.* An entry of `pages` is the block and the kind, which the code keeps
in flag bits. The T * E pages are the whole address space, so an end that reaches
`Span` is the address 0, as in 32-bit arithmetic (`Wraps`). The loop that checks a
segment skips absent tables; from the last table it steps to address 0 again
(`StepsOver`), and the loops over the last table do not end (`Endless`).
`Stepped` are the tables the preallocating loop looks at, `NewTables` the blocks they get one
after the other. Pages and tables are given back one at a time in the order of the code
(`ReleasesMayLose`, `TableReleasesMayLose`). `live` is which processes
callers use: it is the callers' discipline, not a variable of the code.

*Directories.* A name is a number, its place in the order `strcmp` makes: `GONE`, the
name that marks a deletion, is below `BLANK`, the empty name, and names that start
with a byte below 0x80 are above it. `RestsAt` says where the swapping loops of
`dir_rePosFileRef` leave an entry; the search is a recursive function, as the code
has it. `AddFileRef` may be refused wherever it needs a block.

*The system.* `Boot` has the files of `FileOps` and the variables of `ProcMemory` and gives
both one set of free blocks; a file or process is known by the number of its meta. `pc`
is the next step of `kernel_main`, one step for each call it makes; the record of the
datalayer is written field by field (`record` holds the life a field is from). A
root directory is the map `names` (`Entered` counts its block); `shows` is not in
the code: it remembers what a page was mapped for. A page is one block; the pages
the code names (`LowPage` to `UstackPage`) keep their order and distances are cut to
what fits nine page tables of two pages (`GeometryAssumption` is all that is asked of them).
`Reset` forgets what the kernel keeps in variables and keeps
what is in memory.

Three parts of the code are followed although they look unintended, because what
comes after depends on them: `elf_exec` passes the address of its parameter for the
allocator (elfloader.c:131), so the page table for the kernel's own memory is put at
address 0 (`MapLow`); segments that do not start with a page land one page late
(`PageUp` in `LoadFile`); and the blocks for a stack are not tested, so with too few of
them a process gets memory from address 0 on.

*Heap.* `list` is the free list from its head; `header` what was last written as
`blocksAllocated`. Sizes are added modulo `WordSize`.

In each model an access through a bad pointer, a loop that does not end, or the
allocator's loss of track sets `fault`, `wild`, `mem.fault` or `mem.lost`, and `Unfollowed` is
all that happens afterwards.
These are ordinary reachable states, so deadlock checking stays on in every run.

## 3. Runs that pass

| run | instance | states |
|---|---|---|
| `rbt` | 7 nodes, 6 values, one duplicate | 32 360 |
| `alloc` | 5 blocks, stale headers in 3 places | 248 769 |
| `segments` | 5 blocks, stale headers in 4 places | 79 060 |
| `heap` | 9 blocks, 4 sizes, `size_t` of 128 values | 1 698 976 |
| `files` | 2 files, 7 blocks, F = 2 | 1 788 146 (symmetric) |
| `procmem` | 2 processes, 5 blocks, 3 tables of 2 pages | 73 534 |
| `dir` | 6 names, 2 metas, 6 entries, 2 to a block | 10 044 |
| `system` | 1 to 28 blocks, 4 programs, 7 metas, 2 lives, 3 opened files | 219 512 |

**rbt.** *IsSearchTree*: the links form one tree, in order, after every sequence of
calls. *FindIsCeiling*: the search the allocator uses finds a
smallest sufficient value, also in trees that removals have left unbalanced.
*RootIsBlack*: the removals, which paint children red where they should be black, never leave
a red root, so an insertion never meets a red node without a parent.
*InsertKeepsRedBlack*: an insertion into a red-black tree leaves one; removals do not,
and no property says they do. *RefusesOnlyHalfRoot*: a removal is refused exactly
for a root with one child, and then moves no node. *ImplementsOrderedSet*: the tree
implements `OrderedSet`, members being the nodes under the root. Seven nodes reach
every case of the removal: a successor that is the child and one that is not, red
and black siblings and nephews on both sides, the recursion upwards; every one of
the operators' branches is needed by some reachable state.

**alloc.** *PointersInOrder*: the pointers of tree and chains lie in blocks nobody holds,
whatever was left there by earlier lives; a child's parent is its parent, and what is chained
behind a node has the node's length. *ImplementsSegments*: with these pointers every request
and release is a step of `SegmentAllocator`, which decides by segments where the code
decides by the headers, the links of the neighbours and the shape of the tree. A lost segment
or a stale header taken for a free segment would be a step that is none.

**segments.** *FreeSpaceInOrder*: the segments in tree and chains are disjoint and are
exactly the blocks nobody holds, and no two are neighbours. *HeadersFindSegments*: what a
later release reads in the blocks before and after itself leads to the segment.
*OneSegmentIsSafe*: a loss needs two free segments; a caller that only requests, or releases
last-in first-out, never sees one. *KeepsPromise*: the allocator implements `BlockStore`,
and loses track in no other calls than `BlockStore` says; its free blocks are mapped to
those nobody holds, which *FreeSpaceInOrder* ties to the segments. In five blocks three free
segments fit, two of one length (a chain), with one in front of, behind and between held
ones, and a release can merge on both sides.

**heap.** *Accounting*: no block is linked twice, segments share no block with each
other or the list, none is lost. *RoomForRequest*: a segment has the bytes asked
for unless the sum with the header wraps around. *WildOnlyWhenFull*: the null head
is read only when every block is taken. *SegmentsStay*: no call rewrites the header
of a segment that stays. Nine blocks take three segments of different lengths and
leave runs between them; the sizes are at both sides of a block boundary and one
wraps.

**files.** All of them up to the allocator's loss of track. *OneUse*: no block is free, data
of one place and pointer block of one file in more than one way. *DataStays*: a block that
is data before and after a call is at the same place of the file. *FaultsHaveCause*: an
access through a bad pointer needs a file that lost blocks or has a hole, or a pop at
exactly `L2` blocks; that pop does go wrong, and the property says that no other size
does. *UsedBlocksAreKept*: a block in use before a call is in use or free after it, but
for a removed file's pointer blocks and those of a shrunk file, which the code loses. What
a push that fails half-way loses of its own new blocks is not spoken of. With F = 2 the
second level starts at three blocks and is full at seven; seven blocks are enough for one
file to reach it and too few for both, so requests are refused at every place of a push.
Calls that lose track are frequent here (a request that meets two single blocks freed apart
from each other is enough), and so are calls over several free runs that do not.

**procmem.** Those about blocks up to the allocator's loss of track. *OneUse*: no block of
the region is free and in use, or used twice, over all processes. *PagesHaveTables*: no page
without its table, no table without a living process. *PagesKept*: a present page changes
only by a call for pages of its kind or with its process. *LostOnlyThere*: in a step in
which the allocator keeps track, blocks are lost only by a refused allocation (or one that
wraps around) and as the page directory a removed process left in a meta that is used again.
(A release of one page beside the head of a chain loses what is chained behind it: that is a
loss of track.) The segments lie within a table, across two, at the last table and at the
end of the address space, and five blocks are too few for two processes with all they want.

**dir.** *Sorted*: entries are in order, blanks of deletions side by side. *SearchFinds*:
the binary search finds what there is and nothing else, with blanks, and in an empty
directory, whose upper bound is the largest number. *BlocksMatchSize*: neither a block
too few nor one too many. *ImplementsNameMap*: no call changes what another name leads
to, but for the one name a deletion may lose. Names sort before `GONE` and behind
`BLANK`, so deletions that lose a name and that do not both happen; six entries fill
three blocks, and the search has three levels.

**system.** *PartsApart*: metas, and until the allocator loses track blocks, are each used once
by all parts together. *RecordIsWritten*: a load looks at the magic number alone
(datalayer.c:6). A record that has one was once written whole: no field is from an earlier
life, there are two roots, and as long as no later creation has begun it is all of one life.
So a reset in the first creation leaves nothing to load. A reset in a later one leaves new
fields under the old number, which nothing tells from a whole record; the property allows
that, as the code does it (the load has no caller).
*ExecIsConsecutive*: the demo program is in consecutive blocks, as elfloader.c:9 assumes
and nothing tests. *UserModeReady*: when the processor enters user mode the program is in
place: every segment that starts with a page is mapped from its place in the file, with
memory behind it, and the stacks and the kernel are mapped; a segment that does not start with
a page is not spoken of, and a stack that was refused and so mapped from address 0 on counts
as mapped. *BootEnds*: every boot ends, in user mode, in
the loop at endProc, or with a page table at address 0, and until then the free blocks are
one run, so no boot loses track. *PagesShowFile*: until track is lost a page mmap gave
shows its file's block as long as the file has the block; the pages of blocks that were cut
off stay mapped to released blocks. *AddressesOnce*: the ranges of two descriptors are
apart, whatever was refused (an mmap of no pages does not advance the address, and the next
one gets it again). *OnlyNewNamesShare*: two names lead to one file only
when both were new to open.

The sizes up to 24 make each request of the boot be refused in turn. From 25 blocks on (26
for the longer of the programs) user mode is reached with a stack that was refused and
mapped from address 0 on; the next size leaves the table of that stack without a block; from
27 (28) blocks on nothing is refused. None or one block is free then, so that the program's
calls run out of blocks unless a file shrinks first. The second program's file has two
blocks: when it gives one back beside the free one the allocator has two runs of one block,
and the next request loses track. Bounds: `Sizes`, `MaxLives` (one reset: what a second life
finds is what any later life finds), `MaxFds` (three descriptors: two names that share a
file and one more), `MaxSize` (a file's size stays within its pointer blocks, as that of a
32-bit file does in the code). The programs have two segments with memory behind the second;
a segment that does not start with a page and one without file; a segment where the kernel's
memory goes; and a header that is refused. Resets come while the kernel boots: after that
nothing is written in an order that would matter to a later start.

*Fairness.* `Syscalls!Spec` has weak fairness of `Kernel`, the steps of the boot: there is
one processor, interrupts are never enabled, and every call of the boot returns or is
recorded as a fault. System calls have none: a program need not make any.

Each property has a mutant: a changed definition, in the same module, for which
TLC finds the property violated. They stand next to what they change and are
commented as mutants.

## 4. Disagreements between the code and its comments, headers and tests

Each has a run that checks one property and ends in a violation.

| run | the code | the text |
|---|---|---|
| `files_remove` | pointer blocks are not given back | "Free all blocks of a file back to allocator" (file.h:49) |
| `files_ftruncate` | growing appends the whole new length | `int ftruncate(int fd, off_t length)` (syscalls.c:98) |
| `procmem_prealloc` | a segment across a 4 MB boundary may lack its last table and is refused half-way | "Pre-allocate page tables" (pageDir.c:69) |
| `dir_delete` | a deletion marks its entry with a name that sorts first and cuts off the last entry, another file's (directory.c:248) | "Directory Name 1 not detected" is a failure (src/kernel/test/directory0.c:59) |

Further deviations are part of the models without a run of their own: the three ways in
which the allocator loses track, after which one block may be given out twice; a refused
request that is pushed as a null data block (file.c:71) and the short write that then leaves
a size without its blocks (file.c:92); a pop at 1025 blocks, which reads through the root of
a level that is not there (ptrBlks.c:379); releases in the heap that link at the ends of the
list only, so that a request can be refused although blocks that follow each other are free
(HeapFreeBlockList.c:76); the wrap-around of size and header in the heap (Heap.c:68); the
null head of a full heap (HeapFreeBlockList.c:101); refused blocks mapped from address 0 on
(proc.c:47) and a refused page table (pageDir.c:81); a meta that open takes and leaves free
(syscalls.c:79); and the three of *The system* in section 2.

## 5. Proofs

TLAPS checks eight modules. Their theorems hold for every value of the constants that
satisfies the named assumptions. Every safety property of the passing runs is proved, but for
those of the pointers in the blocks (`alloc`). The inductive
invariants of `RedBlackTreeProofs`, `SegmentAllocatorProofs` and `SystemProofs` were checked with
TLC as well, on the instances of `rbt`, `segments` and `system`.

**RedBlackTreeProofs**: `TreeInvariant`, `SearchTreeAlways`, `FindsCeiling`, `RootStaysBlack`,
`InsertionsKeepRedBlack`, `BalancingEnds`, `OnlyHalfRootIsRefused`, `TreeImplementsSet`, for any finite set of nodes and any values
(`NodesAssumption`, `ValueOfAssumption`). *IsSearchTree* speaks of what is reached from the
root, which every rotation changes for several nodes at once. The proof carries a map `sub`
beside the tree, what hangs under each node, and says locally, node by node, that links and
map agree (`Linked`) and that what hangs on a side of a node belongs there (`InOrder`);
together they are `Shaped`. The invariant is `Shaped` with a black root.
  - Each write of the code has a lemma of its own that says which map goes with the new
    links: a rotation (`RotateShaped`), a new leaf (`AttachShaped`), taking out a node with at
    most one child (`LastShaped`, `SplicedShaped`), exchanging two nodes, of which one may be
    the other's child (`SwapNodeIs`, with the names of the two exchanged, `Renamed`).
  - While a node is exchanged with its successor the tree is out of order. It is in order for
    the weights that give each of the two the other's value; so `InOrder` has the weights as a
    parameter, and once the node is out the values order what is left (`ReorderShaped`).
  - Walks end because what hangs under a node has fewer nodes than the node has
    (`SizesGrow`, `EndsExist`, `EndsReached`); where the search ends is the ceiling (`FindIs`),
    and the free link a new leaf gets is next to it (`PredecessorIs`).
  - A round of the balancing keeps the tree `Shaped` (`InsertRoundKeeps`, `RemoveRoundKeeps`), so
    all rounds do. A removal's rounds never move the node that is to go from under its
    ancestors and leave it at most one child (`Keeps`).
  - *InsertKeepsRedBlack* counts black nodes with a recursive function. The proof has a number
    `h` per node instead, and says locally that a node's is its child's plus its own shade
    (`Even`). Before each round of an insertion the numbers are right and only the node that
    the round is about may be red under a red one (`Pending`); a recolouring hands that to the
    grandparent, the rotations end it (`RotateEven`, `InsertRoundEven`). That such numbers exist
    exactly when the specification's sets of heights have one element is `RedBlackIs`; it needs
    that the recursive definition means what it shows (`CountsExist`).
  - The balancing functions call themselves; the model gives them `Rounds` calls. An insertion
    needs fewer, as the node climbs (`InsertBalanceKeeps`). A removal climbs while the parent is
    black; once a rotation has made the parent red it never climbs again, and what hangs under
    the parent shrinks (`Within`, `RoundsShrink`). So twice as many calls as nodes are enough
    in every tree, red-black or not (`BalancingEnds`): the model's bound cuts nothing off.
  - `MembersAre` says at last that there is one such map, and that it is the recursive
    `Under` of the specification. The refinement then has a case per call and answer.

**SegmentAllocatorProofs**: `SegmentInvariant`, `FreeSpaceStaysInOrder`, `HeadersStayRight`,
`OneSegmentStaysSafe`, `PromiseIsKept`, for a region of any size and any blocks in it that
start with headers of earlier lives (`NAssumption`, `StaleAssumption`, `NullAssumption`). They
hold up to the loss; *KeepsPromise* also says which calls may bring it. None of the properties is inductive alone: that a release merges with all its free neighbours
needs the headers of the neighbours to be right, and that headers stay right needs the
segments to be disjoint, so that writing those of one does not overwrite those of another. The
invariant `IInv` says of a memory that is not lost that it is `Tidy`: its segments are `Apart`,
`Covers` exactly what nobody holds, `Merged`, marked at their first block and, once something
is held, at their last (createAllocator does not mark it), and `Hung`, one of each length in
the tree.
  - What a release reads is right: `Before` and `After` hold the segment that ends or starts
    there if there is one and nothing otherwise (`BeforeIs`, `AfterIs`). A stale header is
    refuted because the block that has it is held or inside a segment, and tree and chains have
    no segment that starts or ends there.
  - A release takes the segments beside it out and files one for the whole; taking out and
    filing each keep memory tidy (`OutTidy`, `FiledTidy`), so a release and a request do, of
    which the rest is released (`ReleaseTidy`, `GrantedTidy`).
  - The abstract store speaks of runs of free blocks, the code of segments: a segment is a
    maximal run because its neighbours are not free, and a run of free blocks lies in one
    segment (`SegmentIsRun`, `RunIsSegment`). So a best fit among segments is a best fit
    among runs, and a request that finds no segment long enough is one no run can serve.
  - A request that loses track has met a chain or been refused a node of the tree, and a release
    that does has met a free block beside its own; each needs two free segments. So every loss
    is one that `BlockStore` allows for, and of two equal shortest runs one is chained, which
    always loses.
  - *OneSegmentIsSafe* is an action property about the number of segments: with one free segment
    it is the tree, nothing is chained, and the tree gives up its last segment.

**HeapProofs**: `HeapInvariant`, `TypeCorrect`, `AccountingHolds`, `RoomHolds`,
`WildOnlyWhenFullHolds`, `SegmentsStayHolds`, for any number of blocks, any sizes and
any word size (`BlockCountAssumption`, `WordSizeAssumption`, `SizesAssumption`,
`NULLAssumption`). *Accounting* is not inductive with the types alone: that a null
head is read only in a full heap needs that the list, when empty, has lost
nothing; that no block is lost by a request needs that the run taken from the list
is the segment recorded in the header. The argument is about lists as functions on
1 .. n: taking a run of k consecutive numbers out of a list without duplicates
leaves the other elements (`TakingARun`), and joining two lists without common
elements keeps both properties. The six theorems then follow from one step lemma
with a case per action.

**ProcMemoryProofs**: `MemInvariant`, `TypeCorrect`, `OneUseHolds`,
`PagesHaveTablesHolds`, `PagesKeptHolds`, `LostOnlyThereHolds`, for any processes, any set
of blocks and any geometry of the address space (`SizesAssumption`, `BlocksAssumption`,
`AddressesAssumption`, `LengthsAssumption`, `PointersAssumption`). The inductive
invariant `MemInv` is the types, `PagesHaveTables`, and, while there is no fault (the
allocator's loss of track is one), `Apart`: `OneUse` spelled out
for directories, tables and pages separately, because the union of the three kinds
of uses hides from the prover which kind a use is. `OneUseIsApart` brings it back.
Five lemmas about `Apart` alone carry the argument: blocks leaving the free set
disturb nothing (`FewerFree`); taking a free block for a directory, for tables one
each, or for pages keeps it (`TakingADirectory`, `TakingTables`, `TakingPages`);
uses that end free their blocks (`EndingUses`). A mapping is `TakingPages` followed
by `TakingTables`, a removal is `EndingUses` of everything of one process. The types
must say that only pages of kind `"anon"` show blocks of the region: that is why
unmapping a file does not free, or lose, one. `PagesKeptHolds` is an action
property: mapping reaches only absent pages (`MapKeeps`), unmapping only pages of
its kind (`UnmapKeeps`). `LostOnlyThereHolds` asks what becomes of each block: it stays in
the region when some directory, table or page still has it (`Has`, `RegionByUse`). A
mapping gives every block it takes to a table, so it can lose only what its caller took
before (`MapLoses`), and that is all of a refused allocation's blocks at most.

**DirectoryProofs**: `DirInvariant`, `TypeCorrect`, `StaysSorted`, `SearchIsExact`,
`BlocksAreEnough`, `DirectoryImplements`, for any set of names, any number of entries and
any number of entries to a block (`NamesAssumption`, `SizeAssumption`). That the recursive
search has values at all is shown first: a function that answers rightly for bounds less
than k apart exists for every k, by the least k for which there would be none
(`AnswersExist`); then `SearchFinds` follows from `Sorted` in the same way. `Sorted` is
preserved because where an entry comes to rest is between smaller and larger ones. The
refinement has a case per action; a deletion needs `Sorted` to say which name is lost.

**FileOpsProofs** and **FileStoreProofs**: `KeptAlways`, `TypeCorrect`, `OneUseAlways`,
`DataStaysAlways`, `FaultsHaveCauseAlways`, `UsedBlocksAreKeptAlways`, for any set of files,
any finite set of blocks, and any number of pointers to a block and of bytes to a block
(`FAssumption`, `BlocksAssumption`, `NullAssumption`, `BytesAssumption`, `SizeAssumption`,
`LengthAssumption`), up to the allocator's loss of track. No property of files is inductive:
which blocks are a file's own is known only along the paths of pointers that lead to them,
and a push or pop changes paths and blocks together. The invariant `Kept` therefore says
that, until track is lost (`OnTrack`), there is a map `own` from blocks to owner, kind and
place, one for all files, and every path of a file leads to the block that `own` gives this
place (`Held`); two paths to one block are then the same path. What an operation must leave
alone is `Frame`: blocks in use that belong to others keep contents and owner, so that it is
enough to follow the one file (`OthersHeld`).

The rounds of a push and a pop are functions on 0 .. n, about which a set of numbers that
contains 0 and with k - 1 also k says what a fold does (`CountingUp`): that each round
extends `own` by the blocks it takes (`PushOneKeeps`), and that a push that failed is stuck,
without free blocks, so that later rounds fail too (`Stuck`) and the loop of ftruncate ends.
`HoleFirst`, the invariant's other part, says that the first of the blocks of a refused
request is null and the foreign ones follow it: that is why the copying loop stops before
it writes to one, unless the file had lost blocks. The proof of *TypeOK* found that a call of
ftruncate appends up to a chunk more than it is asked for, which the guard of `Ftruncate`
now allows for.

**SystemProofs**, first part: `SystemInvariant`, `RecordStaysWritten`, `KernelFilesUnshared`, for any
number of blocks, metas, programs, lives, names and files (`PointerAssumption`,
`MetaAssumption`). The invariant `IInv` adds to the two properties how far the record is
written at each step (`Progress`: the first fields of a life are newer than the magic
number until the rest is written), that every field has been written in the life of a magic
number or later (`UnderMagic`), that the roots keep the metas they were given
(`RootsMade`) and that the kernel names files of their own (`KernelNames`).
*OnlyNewNamesShare* alone is not inductive: a reset keeps the names of the life before
while the new metas are all made free under them, and that this disturbs nothing needs
that no name leads to the first meta. Every step that leaves record, metas and names alone
is one lemma (`QuietKeeps`); what it takes to see that a step is one of these is that its
program counter stays behind the creation. The free blocks matter once, for the first
block of metas not to be null.

**SystemProofs**, second part: `SystemParts`, `PartsApartAlways`. The invariant `SysInv` is
`IInv`, what each step of the kernel can rely on (`Parts`: types, which meta a role has,
that the two roots have at most one block, which processes are alive, what descriptors
name), and, while there is no fault (the allocator's loss of track is one), one map `own`
for the whole region: files and directories are `Held` in it as above, page directories,
tables and allocated pages are the blocks of a process's meta (`ProcHeld`), and the block of
the metas has an owner of its own. An operation on a file is known from `FileOpsProofs` to
leave the blocks of others alone; a mapping gives new tables and pages blocks that were
free, each one (`MapSteps`, `ProcGiven`). `SharedOn` puts the two together, and every action
of the boot and every call is a case of one or the other. That *PartsApart* follows is a
count: each use of a block can be read off `own` (`UseOf`), so no two uses have one block.
Two things had to be named for this: a file is counted only once its meta has been blanked
(`Filled`), because between the entry and the blanking it still has the blocks of an earlier
life; and mmap is asked only for segments in front of the end of the address space, where a
mapping does nothing and returns 0.

**SystemProofs**, third part: what the program gets.
  - `AddressesOnceAlways`: the ranges of descriptors lie one behind the other and in front of
    the next address (`Placed`), because the next address moves by the pages asked for.
  - `ExecIsConsecutiveAlways`: the program's file is filled by one append to a blank file,
    so its data is one segment, and the pointer blocks lie outside it (`AppendsInOrder`);
    until the program runs nothing touches the file (`Consecutive`). The append that is not
    refused also gives the file all blocks its size needs (`Whole`), which the next one but
    one uses.
  - `PagesShowFileAlways`: what a page was mapped for is a block the file has (`Shown`). A call
    on another file leaves it by `Frame`, growing a file leaves its blocks in place by
    `Grows`, and mmap reaches only pages that no descriptor has, by `Placed`.
  - `UserModeReadyAlways`: segments are put in place one after the other, and since a mapping
    changes only pages that were absent, what is in place stays (`AsLoaded`, `Undisturbed`).
    That the loader gets as many blocks as it has pages to fill needs `Whole`; that page and
    block of a segment belong together is arithmetic about its offset, its address and the
    size of a page (`SegmentPlaceable`). The theorem has a hypothesis beside the
    assumptions: every program's segments end in front of the end of the address space
    (`EndsInSpace`), which nothing in the loader tests; a segment that wraps around is
    mapped nowhere and the loader goes on. All programs of `MCSystem` satisfy it.

These three use `BootAssumption`: a program's segments lie in its file, with at least as much
memory as file, and three blocks are not more than the largest file; and
`GeometryAssumption`: the user's stack lies in the address space.

Model-checked only: *PointersInOrder* and *ImplementsSegments*, and `BootEnds`, which is
liveness. `BlockAllocator` uses the tree with more fields in its nodes and a set of nodes
that changes, which the lemmas about the tree, stated for fixed nodes with a fixed value
each, do not cover. Beyond this the proofs of files, process memory and the system rest on
`BlockStore` as `FileOps` and `ProcMemory` use it, its losses included, and end with the
first of them: that the segments keep that promise, and lose track in no other calls, is
proved; that the pointers keep to the segments is what `alloc` shows for five blocks.

## 6. What is not modelled, and why

- *Contents of data blocks, reads and overwrites* (`file_read`, `file_write` inside a
  file): they move no block. Bytes are right when blocks are a file's own and stay.
- `rbt_findLowerNearestNode`, `printTree`, `pageDir_getMap`: no caller that changes state.
- `datalayer_loadDatalayer`, `datalayer_resizeDatalayer`, `datalayer_getAllocator`: no
  caller. What a load would find is *RecordIsWritten*.
- *What follows the allocator's loss of track*: a block handed out that is in use, or blocks
  lost. Which calls it can come with is in `BlockStore`; what files, processes and page
  tables make of such blocks afterwards depends on bytes of all kinds of blocks at once.
- *Access rights in page entries*: the code sets the same ones always.
- *What is outside a call's contract*: a descriptor that was never given out (mmap reads
  the table there all the same), an mmap from behind the last block of a file (`file_getMap`
  subtracts below zero), a program segment with less memory than file or beyond the
  file (the loader subtracts as well), more than 93 metas in use. The code then
  follows whatever memory holds.
- *The bytes of the descriptor table*: it grows towards the stack of the calls, and nothing
  counts its entries (syscalls.c:91).
- *print and halt*: characters to the terminal and the end of the machine.
- *Devices, descriptor tables, serial line, terminal, multiboot tables, C library*:
  encodings and port accesses without state others rely on. Of `strcmp` the order is
  modelled, with the directories.
- *Resets in user mode*: no order of writes is kept there, and no code reads the
  datalayer back.

## 7. What could come next

1. Descriptors out of range and offsets behind a file, as reads of a memory that holds the
   kernel stack's bytes, with the growth of the table into the stack.
2. The lemmas of `RedBlackTreeProofs` for nodes that come and go with their values, so that
   *PointersInOrder* and *ImplementsSegments* can be proved.
3. More than 28 blocks in `system`, once the calls' state is reduced by symmetry between
   the names.
