----------------------------- MODULE ProcMemory -----------------------------
(***************************************************************************)
(* The memory of processes (datalayer/proc.c, datalayer/pageDir.c).        *)
(*                                                                         *)
(* A process has a page directory of T entries, each naming a page table   *)
(* of E pages or none.  Its pages hold blocks it has allocated, blocks of  *)
(* a file or memory of the kernel, told apart by flags in the entry.  Page *)
(* directories, page tables and allocated pages all come from the block    *)
(* allocator, here the one BlockStore describes, with its losses of track: *)
(* a call that may lose it has an outcome in which it does.                *)
(*                                                                         *)
(* T and E are 1024 in the code, so the T * E pages are the whole 32-bit   *)
(* address space and the address behind the last page is 0.  An address is *)
(* counted in parts of a page, PageBytes to a page.                        *)
(*                                                                         *)
(* Blocks outside the allocator's region are all OUTSIDE: those of files   *)
(* and of the kernel, and the addresses from 0 on that are mapped when a   *)
(* request for blocks was refused, which nobody tests.  fault records that *)
(* such a block is given to the allocator, that a page table is put at     *)
(* address 0, that a loop does not end or that the allocator loses track;  *)
(* the model follows the program no further.                               *)
(***************************************************************************)
EXTENDS Integers, FiniteSets, Functions

CONSTANTS Procs,        \* process metas
          Blocks,       \* the blocks of the allocator's region
          T,            \* page tables in a page directory
          E,            \* pages in a page table
          PageBytes,    \* addresses in a page
          Addresses,    \* the addresses callers name
          Lengths,      \* the lengths callers name, in pages
          NULL,         \* the null pointer
          OUTSIDE       \* a block outside the region

Span   == T * E
Tables == 0 .. T - 1
Pages  == 0 .. Span - 1

ASSUME SizesAssumption     == T \in Nat \ {0} /\ E \in Nat \ {0} /\ PageBytes \in Nat \ {0}
ASSUME BlocksAssumption    == Blocks \subseteq Nat
ASSUME AddressesAssumption == Addresses \subseteq 0 .. Span * PageBytes - 1
ASSUME LengthsAssumption   == Lengths \subseteq 1 .. Span - 1
ASSUME PointersAssumption  == NULL \notin Nat /\ OUTSIDE \notin Nat

VARIABLES live,         \* the processes created and not removed
          pageDir,      \* the page directory each process meta names
          tables,       \* the page tables each page directory names
          pages,        \* the pages each process has
          free,         \* the blocks the allocator has
          fault,        \* what the program has run into
          ret           \* what the last call returned

vars == <<live, pageDir, tables, pages, free, fault, ret>>

Store == INSTANCE BlockStore WITH lost <- FALSE, answer <- NULL

Absent == [kind |-> "none", blk |-> NULL]

Entry(kind, blk) == [kind |-> kind, blk |-> blk]

(* The page a mapping starts at, and the one an unmapping starts at.       *)
PageUp(addr)   == ((addr + PageBytes - 1) \div PageBytes) % Span
PageDown(addr) == addr \div PageBytes

Table(page) == page \div E

Present(q, page) == pages[q][page].kind # "none"

Segment(start, len) == start .. start + len - 1

Fail(what) == fault' = fault \cup {what}

(* g with the values of f where f has any.                                 *)
Over(f, g) == [x \in DOMAIN g |-> IF x \in DOMAIN f THEN f[x] ELSE g[x]]

-----------------------------------------------------------------------------

(* The end of the segment is not behind its start: the loops over it do    *)
(* nothing.                                                                *)
Wraps(start, len) == start + len >= Span

(* The last page table is absent where the segment reaches it: the check   *)
(* for used pages steps over it to address 0.                              *)
StepsOver(q, start, len) ==
    Table(start + len - 1) = T - 1 /\ tables[q][T - 1] = NULL

(* What pageDir_isSegmentUnmapped finds used.                              *)
InUse(q, start, len) ==
    \/ \E page \in Segment(start, len) : Present(q, page)
    \/ /\ StepsOver(q, start, len)
       /\ \E page \in 0 .. start + len - 1 : Present(q, page)

(* The page tables the preallocation looks at, in steps of a whole table   *)
(* from the segment's first page.                                          *)
Stepped(start, len) ==
    {t \in Tables : t >= Table(start) /\ (t - Table(start)) * E < len}

(* Either loop starts again at address 0 and does not end.                 *)
Endless(q, start, len) == StepsOver(q, start, len) \/ T - 1 \in Stepped(start, len)

(* Mutant: a page is mapped whether its table is there or not.             *)
ReachedAnyway(q, tb, start, len) ==
    {page \in Segment(start, len) : \A p \in start .. page : ~Present(q, p)}

(* The pages the mapping loop reaches with the page tables tb before it    *)
(* meets a page without a table or one that is used.                       *)
Reached(q, tb, start, len) ==
    {page \in Segment(start, len) :
        \A p \in start .. page : tb[Table(p)] # NULL /\ ~Present(q, p)}

(* Page tables are requested one at a time from the first on: the blocks   *)
(* that some of them get when the allocator has those of rest.             *)
NewTables(some, rest) ==
    {new \in Injection(some, rest) :
        \A t \in some :
           \E r \in Store!OnlyFit(rest \ {new[u] : u \in {u \in some : u < t}}, 1) : new[t] = r[1]}

(* What the allocator has when it is asked for table t of those needed.    *)
LeftFor(t, needed, rest) ==
    {rest \ Range(new) : new \in NewTables({u \in needed : u < t}, rest)}

(* pageDir_mapSegment of the blocks blks, when the allocator has the       *)
(* blocks of rest.                                                         *)
MapSegment(q, start, len, kind, blks, rest) ==
    LET needed == {t \in Stepped(start, len) : tables[q][t] = NULL}
    IN  \/ /\ Wraps(start, len)
           /\ ret' = 0
           /\ free' = rest
           /\ UNCHANGED <<tables, pages, fault>>
        \/ /\ ~Wraps(start, len)
           /\ InUse(q, start, len)
           /\ ret' = -1
           /\ free' = rest
           /\ UNCHANGED <<tables, pages, fault>>
        \/ /\ ~Wraps(start, len)
           /\ ~InUse(q, start, len)
           /\ \/ Endless(q, start, len) /\ Fail("endless loop")
              \/ /\ ~Endless(q, start, len)
                 /\ \E t \in needed : \E left \in LeftFor(t, needed, rest) :
                       \/ left = {} /\ Fail("null table")
                       \/ Store!RequestMayLose(left, 1) /\ Fail("lost track")
           /\ free' = rest
           /\ UNCHANGED <<tables, pages, ret>>
        \/ /\ ~Wraps(start, len)
           /\ ~InUse(q, start, len)
           /\ ~Endless(q, start, len)
           /\ \E new \in NewTables(needed, rest) :
                 LET tb     == Over(new, tables[q])
                     mapped == Reached(q, tb, start, len)
                 IN  /\ tables' = [tables EXCEPT ![q] = tb]
                     /\ pages' = [pages EXCEPT ![q] =
                          Over([page \in mapped |-> Entry(kind, blks[page - start])], @)]
                     /\ free' = rest \ Range(new)
                     /\ ret' = IF mapped = Segment(start, len) THEN 0 ELSE -1
           /\ UNCHANGED fault

-----------------------------------------------------------------------------

Init ==
    /\ live = {}
    /\ pageDir = [q \in Procs |-> NULL]
    /\ tables = [q \in Procs |-> [t \in Tables |-> NULL]]
    /\ pages = [q \in Procs |-> [page \in Pages |-> Absent]]
    /\ free = Blocks
    /\ fault = {}
    /\ ret = 0

(* Callers use a process that was created (kernel.c:282 tests that it was) *)
(* and not removed.                                                        *)
Live(q) == fault = {} /\ q \in live

(* proc_createProc.  A meta that is not in use has no page tables, so its  *)
(* cleared page directory is as before; the one it names from an earlier   *)
(* process is overwritten.                                                 *)
CreateProc(q) ==
    /\ fault = {}
    /\ q \notin live
    /\ \/ \E r \in Store!OnlyFit(free, 1) :
             /\ pageDir' = [pageDir EXCEPT ![q] = r[1]]
             /\ free' = free \ {r[1]}
             /\ live' = live \cup {q}
             /\ ret' = 0
             /\ UNCHANGED fault
       \/ /\ Store!BestFits(free, 1) = {}
          /\ pageDir' = [pageDir EXCEPT ![q] = NULL]
          /\ ret' = -1
          /\ UNCHANGED <<live, free, fault>>
       \/ /\ Store!RequestMayLose(free, 1)
          /\ Fail("lost track")
          /\ UNCHANGED <<live, pageDir, free, ret>>
    /\ UNCHANGED <<tables, pages>>

Outside(len) == [i \in 0 .. len - 1 |-> OUTSIDE]

(* proc_allocBlks.                                                         *)
AllocBlks(q, addr, len) ==
    /\ Live(q)
    /\ \/ \E r \in Store!OnlyFit(free, len) :
             MapSegment(q, PageUp(addr), len, "anon", [i \in 0 .. len - 1 |-> r[1] + i],
                        free \ Segment(r[1], len))
       \/ /\ Store!BestFits(free, len) = {}
          /\ MapSegment(q, PageUp(addr), len, "anon", Outside(len), free)
       \/ /\ Store!RequestMayLose(free, len)
          /\ Fail("lost track")
          /\ UNCHANGED <<tables, pages, free, ret>>
    /\ UNCHANGED <<live, pageDir>>

(* proc_mapFile of blocks the file has, and proc_mapKernel.                *)
Map(q, addr, len, kind) ==
    /\ Live(q)
    /\ MapSegment(q, PageUp(addr), len, kind, Outside(len), free)
    /\ UNCHANGED <<live, pageDir>>

MapFile(q, addr, len) == Map(q, addr, len, "file")

MapKernel(q, addr, len) == Map(q, addr, len, "kernel")

(* Mutant: the flags of an entry are not looked at.                        *)
OfAnyKind(q, addr, len, kind) ==
    {page \in Pages : (page - PageDown(addr)) % Span < len /\ Present(q, page)}

(* The pages of one kind among len pages from an address on, which go      *)
(* around the end of the address space.                                    *)
OfKind(q, addr, len, kind) ==
    {page \in Pages : /\ (page - PageDown(addr)) % Span < len
                      /\ pages[q][page].kind = kind}

BlksOf(q, some) == {pages[q][page].blk : page \in some}

(* Mutant: the entries of the pages stay.                                  *)
WithStalePages(q, some) == pages[q]

WithoutPages(q, some) == Over([page \in some |-> Absent], pages[q])

(* The blocks of some pages are given back one at a time, in the order of  *)
(* the pages from an address on: one of these releases may lose track.     *)
ReleasesMayLose(q, some, addr) ==
    LET place(page) == (page - PageDown(addr)) % Span
    IN  \E page \in some :
           Store!ReleaseMayLose(free \cup BlksOf(q, {p \in some : place(p) < place(page)}),
                                pages[q][page].blk, 1)

(* proc_freeBlks.                                                          *)
FreeBlks(q, addr, len) ==
    LET gone == OfKind(q, addr, len, "anon")
    IN  /\ Live(q)
        /\ \/ /\ OUTSIDE \in BlksOf(q, gone)
              /\ Fail("outside release")
              /\ UNCHANGED <<pages, free, ret>>
           \/ /\ OUTSIDE \notin BlksOf(q, gone)
              /\ pages' = [pages EXCEPT ![q] = WithoutPages(q, gone)]
              /\ free' = free \cup BlksOf(q, gone)
              /\ ret' = 0
              /\ UNCHANGED fault
           \/ /\ OUTSIDE \notin BlksOf(q, gone)
              /\ ReleasesMayLose(q, gone, addr)
              /\ Fail("lost track")
              /\ UNCHANGED <<pages, free, ret>>
        /\ UNCHANGED <<live, pageDir, tables>>

(* proc_unmapFile and proc_unmapKernel.                                    *)
Unmap(q, addr, len, kind) ==
    /\ Live(q)
    /\ pages' = [pages EXCEPT ![q] = WithoutPages(q, OfKind(q, addr, len, kind))]
    /\ ret' = 0
    /\ UNCHANGED <<live, pageDir, tables, free, fault>>

UnmapFile(q, addr, len) == Unmap(q, addr, len, "file")

UnmapKernel(q, addr, len) == Unmap(q, addr, len, "kernel")

(* Mutants: absent tables are released with the others; no table is.       *)
AllTableBlks(q) == Range(tables[q])

NoTableBlks(q) == {}

TableBlks(q) == Range(tables[q]) \ {NULL}

(* The page tables are given back from the first on, when the allocator    *)
(* has the blocks of rest.                                                 *)
TableReleasesMayLose(q, rest) ==
    \E t \in {t \in Tables : tables[q][t] # NULL} :
       Store!ReleaseMayLose(rest \cup ({tables[q][u] : u \in 0 .. t - 1} \ {NULL}), tables[q][t], 1)

(* proc_removeProc: all allocated pages and then all page tables, but not  *)
(* the page directory, which the meta goes on naming.                      *)
RemoveProc(q) ==
    LET anon == {page \in Pages : pages[q][page].kind = "anon"}
    IN  /\ Live(q)
        /\ \/ /\ OUTSIDE \in BlksOf(q, anon)
              /\ Fail("outside release")
              /\ UNCHANGED <<live, tables, pages, free, ret>>
           \/ /\ OUTSIDE \notin BlksOf(q, anon)
              /\ free' = free \cup BlksOf(q, anon) \cup TableBlks(q)
              /\ tables' = [tables EXCEPT ![q] = [t \in Tables |-> NULL]]
              /\ pages' = [pages EXCEPT ![q] = [page \in Pages |-> Absent]]
              /\ live' = live \ {q}
              /\ ret' = 0
              /\ UNCHANGED fault
           \/ /\ OUTSIDE \notin BlksOf(q, anon)
              /\ \/ ReleasesMayLose(q, anon, 0)
                 \/ TableReleasesMayLose(q, free \cup BlksOf(q, anon))
              /\ Fail("lost track")
              /\ UNCHANGED <<live, tables, pages, free, ret>>
        /\ UNCHANGED pageDir

Unfollowed == fault # {} /\ UNCHANGED vars

Next ==
    \/ \E q \in Procs : CreateProc(q) \/ RemoveProc(q)
    \/ \E q \in Procs, addr \in Addresses, len \in Lengths :
          \/ AllocBlks(q, addr, len)
          \/ FreeBlks(q, addr, len)
          \/ MapFile(q, addr, len)
          \/ UnmapFile(q, addr, len)
          \/ MapKernel(q, addr, len)
          \/ UnmapKernel(q, addr, len)
    \/ Unfollowed

Spec == Init /\ [][Next]_vars

-----------------------------------------------------------------------------

Entries ==
    {Absent} \cup [kind : {"anon"}, blk : Blocks \cup {OUTSIDE}]
             \cup [kind : {"file", "kernel"}, blk : {OUTSIDE}]

(* Type invariant.                                                         *)
TypeOK ==
    /\ live \in SUBSET Procs
    /\ pageDir \in [Procs -> Blocks \cup {NULL}]
    /\ tables \in [Procs -> [Tables -> Blocks \cup {NULL}]]
    /\ pages \in [Procs -> [Pages -> Entries]]
    /\ free \in SUBSET Blocks
    /\ fault \in SUBSET {"outside release", "null table", "endless loop", "lost track"}
    /\ ret \in {0, -1}

(* What a block of the region may be used for: the page directory of a     *)
(* process, one of its page tables or one of its allocated pages.          *)
Uses ==
    {<<q, "directory", 0>> : q \in Procs} \cup
    {<<q, "table", t>> : q \in Procs, t \in Tables} \cup
    {<<q, "page", page>> : q \in Procs, page \in Pages}

BlkOf(use) ==
    CASE use[2] = "directory" -> pageDir[use[1]]
      [] use[2] = "table"     -> tables[use[1]][use[3]]
      [] use[2] = "page"      -> pages[use[1]][use[3]].blk

(* Until the allocator loses track (or another fault ends the run), no     *)
(* block has two uses and none in use is free, over all processes: no page *)
(* of one process shows a page table, a page of another process or free    *)
(* memory, also when mappings were refused or ended half-way.              *)
OneUse ==
    fault = {} =>
       \A u \in Uses :
          BlkOf(u) \in Blocks =>
             /\ BlkOf(u) \notin free
             /\ \A v \in Uses : BlkOf(v) = BlkOf(u) => v = u

(* A page is present only where its page table is, and a page table only   *)
(* where a process is alive with a page directory: also after a removal    *)
(* and a creation for the same meta no table of the former is left.        *)
PagesHaveTables ==
    \A q \in Procs :
       /\ \A page \in Pages : Present(q, page) => tables[q][Table(page)] # NULL
       /\ \A t \in Tables : tables[q][t] # NULL => q \in live
       /\ q \in live => pageDir[q] # NULL

(* What a step may do to a page that is present: it goes, by a call meant  *)
(* for pages of its kind or with its process.                              *)
PagesKeptByStep ==
    \A q \in Procs : \A page \in Pages :
       Present(q, page) /\ pages'[q][page] # pages[q][page] =>
          /\ pages'[q][page] = Absent
          /\ \/ RemoveProc(q)
             \/ \E addr \in Addresses, len \in Lengths :
                  \/ pages[q][page].kind = "anon" /\ FreeBlks(q, addr, len)
                  \/ pages[q][page].kind = "file" /\ UnmapFile(q, addr, len)
                  \/ pages[q][page].kind = "kernel" /\ UnmapKernel(q, addr, len)

(* pageDir.c:60 checks a segment "to avoid corrupting old pages": a page   *)
(* keeps its block and its kind until it is unmapped or freed as what it   *)
(* is, or its process is removed.  No mapping changes it, and no call      *)
(* meant for pages of another kind.                                        *)
PagesKept == [][PagesKeptByStep]_vars

InRegion == free \cup ({BlkOf(u) : u \in Uses} \cap Blocks)

(* What a step may take out of the region.                                 *)
LosesByStep ==
    \/ InRegion \subseteq InRegion'
    \/ \E q \in Procs : CreateProc(q) /\ InRegion \ InRegion' = {pageDir[q]}
    \/ \E q \in Procs, addr \in Addresses, len \in Lengths :
          /\ AllocBlks(q, addr, len)
          /\ ret' = -1 \/ Wraps(PageUp(addr), len)
          /\ \E r \in Store!OnlyFit(free, len) :
                InRegion \ InRegion' \subseteq Segment(r[1], len)

(* As long as the allocator keeps track, blocks are lost in two ways only: *)
(* those of an allocation that was refused or that reaches the end of the  *)
(* address space, and the page directory a removed process left when its   *)
(* meta is used again.  (A release of one page loses more when it meets    *)
(* the first segment of a chain: that is a loss of track.)                 *)
LostOnlyThere == [][fault' = {} => LosesByStep]_vars

-----------------------------------------------------------------------------

(* pageDir.c:69 is to "Pre-allocate page tables" before anything is        *)
(* mapped: a mapping that is refused has mapped nothing.                   *)
PreallocatesPageTables ==
    [][\A q \in Procs, addr \in Addresses, len \in Lengths :
          AllocBlks(q, addr, len) /\ fault' = {} /\ ret' = -1 => pages' = pages]_vars
=============================================================================
