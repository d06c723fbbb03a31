-------------------------- MODULE ProcMemoryProofs --------------------------
(***************************************************************************)
(* Theorems about the memory of processes for any number of processes,     *)
(* blocks, page tables and pages: its types, that no page is present       *)
(* without its table, that pages keep what they show, and, as long as the  *)
(* allocator keeps track of its free segments, that no block has two uses  *)
(* and that blocks are lost in two ways only.                              *)
(***************************************************************************)
EXTENDS ProcMemory, TLAPS

-----------------------------------------------------------------------------
(* One use per block, spelled out for page directories d, page tables tb,  *)
(* blocks of pages b and free blocks f.                                    *)

DirsApart(d, tb, b, f) ==
    \A q \in Procs : d[q] \in Blocks =>
       /\ d[q] \notin f
       /\ \A p \in Procs : d[p] = d[q] => p = q
       /\ \A p \in Procs, t \in Tables : tb[p][t] # d[q]
       /\ \A p \in Procs, g \in Pages : b[p][g] # d[q]

TablesApart(tb, b, f) ==
    \A q \in Procs, t \in Tables : tb[q][t] \in Blocks =>
       /\ tb[q][t] \notin f
       /\ \A p \in Procs, s \in Tables : tb[p][s] = tb[q][t] => p = q /\ s = t
       /\ \A p \in Procs, g \in Pages : b[p][g] # tb[q][t]

PagesApart(b, f) ==
    \A q \in Procs, g \in Pages : b[q][g] \in Blocks =>
       /\ b[q][g] \notin f
       /\ \A p \in Procs, h \in Pages : b[p][h] = b[q][g] => p = q /\ h = g

Apart(d, tb, b, f) == DirsApart(d, tb, b, f) /\ TablesApart(tb, b, f) /\ PagesApart(b, f)

(* g2 is g, but for process q at the places of S, where it has new.        *)
Updated(g, q, X, S, new, g2) ==
    \A p \in Procs, x \in X :
       g2[p][x] = IF p = q /\ x \in S THEN new[x] ELSE g[p][x]

(* new has a block of f at each place of S where it has one of the region, *)
(* never the same, and none of them is left in f2.                         *)
TakenFrom(f, S, new, f2) ==
    /\ \A x \in S : new[x] \in Blocks => new[x] \in f
    /\ \A x, y \in S : new[x] \in Blocks /\ new[x] = new[y] => x = y
    /\ \A x \in S : new[x] \notin f2

(* What a use still names it named before, and it is not among the blocks  *)
(* more.                                                                   *)
DirsEnded(d, d2, more) ==
    \A p \in Procs : d2[p] \in Blocks => d2[p] = d[p] /\ d[p] \notin more

Ended(g, g2, X, more) ==
    \A p \in Procs, x \in X : g2[p][x] \in Blocks => g2[p][x] = g[p][x] /\ g[p][x] \notin more

(* The blocks of the pages of every process.                               *)
PageBlks == [q \in Procs |-> [g \in Pages |-> pages[q][g].blk]]

(* Blocks that are no longer free disturb nothing.                         *)
LEMMA FewerFree ==
    ASSUME NEW d, NEW tb, NEW b, NEW f, Apart(d, tb, b, f), NEW f2 \in SUBSET f
    PROVE  Apart(d, tb, b, f2)
  BY DEF Apart, DirsApart, TablesApart, PagesApart

(* A process takes a free block for its page directory.                    *)
LEMMA TakingADirectory ==
    ASSUME NEW d, NEW tb, NEW b, NEW f, Apart(d, tb, b, f), f \subseteq Blocks,
           NEW q \in Procs, NEW x \in f,
           NEW d2, d2[q] = x, \A p \in Procs : p # q => d2[p] = d[p]
    PROVE  Apart(d2, tb, b, f \ {x})
<1>1. \A p \in Procs, t \in Tables : tb[p][t] # x
  BY DEF Apart, TablesApart
<1>2. \A p \in Procs, g \in Pages : b[p][g] # x
  BY DEF Apart, PagesApart
<1>3. \A p \in Procs : d[p] # x
  BY DEF Apart, DirsApart
<1>4. DirsApart(d2, tb, b, f \ {x})
  <2> SUFFICES ASSUME NEW p \in Procs, d2[p] \in Blocks
               PROVE  /\ d2[p] \notin f \ {x}
                      /\ \A r \in Procs : d2[r] = d2[p] => r = p
                      /\ \A r \in Procs, t \in Tables : tb[r][t] # d2[p]
                      /\ \A r \in Procs, g \in Pages : b[r][g] # d2[p]
    BY DEF DirsApart
  <2>1. CASE p = q
    BY <1>1, <1>2, <1>3, <2>1
  <2>2. CASE p # q
    BY <1>3, <2>2 DEF Apart, DirsApart
  <2>3. QED
    BY <2>1, <2>2
<1>5. TablesApart(tb, b, f \ {x})
  BY DEF Apart, TablesApart
<1>6. PagesApart(b, f \ {x})
  BY DEF Apart, PagesApart
<1>7. QED
  BY <1>4, <1>5, <1>6 DEF Apart

(* A process takes free blocks for some of its page tables, one for each.  *)
LEMMA TakingTables ==
    ASSUME NEW d, NEW tb, NEW b, NEW f, Apart(d, tb, b, f), f \subseteq Blocks,
           NEW q \in Procs, NEW S \in SUBSET Tables,
           NEW new, NEW tb2, Updated(tb, q, Tables, S, new, tb2),
           NEW f2 \in SUBSET f, TakenFrom(f, S, new, f2)
    PROVE  Apart(d, tb2, b, f2)
<1>1. \A p \in Procs, t \in Tables :
         \/ p = q /\ t \in S /\ tb2[p][t] = new[t]
         \/ ~(p = q /\ t \in S) /\ tb2[p][t] = tb[p][t]
  BY DEF Updated
<1>2. DirsApart(d, tb2, b, f2)
  <2> SUFFICES ASSUME NEW p \in Procs, d[p] \in Blocks
               PROVE  /\ d[p] \notin f2
                      /\ \A r \in Procs : d[r] = d[p] => r = p
                      /\ \A r \in Procs, t \in Tables : tb2[r][t] # d[p]
                      /\ \A r \in Procs, g \in Pages : b[r][g] # d[p]
    BY DEF DirsApart
  <2>1. d[p] \notin f
    BY DEF Apart, DirsApart
  <2>2. QED
    BY <1>1, <2>1 DEF Apart, DirsApart, TakenFrom
<1>3. TablesApart(tb2, b, f2)
  <2> SUFFICES ASSUME NEW p \in Procs, NEW t \in Tables, tb2[p][t] \in Blocks
               PROVE  /\ tb2[p][t] \notin f2
                      /\ \A r \in Procs, s \in Tables : tb2[r][s] = tb2[p][t] => r = p /\ s = t
                      /\ \A r \in Procs, g \in Pages : b[r][g] # tb2[p][t]
    BY DEF TablesApart
  <2>1. CASE p = q /\ t \in S
    <3>1. tb2[p][t] = new[t] /\ new[t] \in f
      BY <1>1, <2>1 DEF TakenFrom
    <3>2. \A r \in Procs, g \in Pages : b[r][g] # new[t]
      BY <3>1 DEF Apart, PagesApart
    <3>3. \A r \in Procs, s \in Tables : tb[r][s] # new[t]
      BY <3>1 DEF Apart, TablesApart
    <3>4. QED
      BY <1>1, <2>1, <3>1, <3>2, <3>3 DEF TakenFrom
  <2>2. CASE ~(p = q /\ t \in S)
    <3>1. tb2[p][t] = tb[p][t]
      BY <1>1, <2>2
    <3>2. tb[p][t] \notin f
      BY <3>1 DEF Apart, TablesApart
    <3>3. QED
      BY <1>1, <2>2, <3>1, <3>2 DEF Apart, TablesApart, TakenFrom
  <2>3. QED
    BY <2>1, <2>2
<1>4. PagesApart(b, f2)
  BY DEF Apart, PagesApart
<1>5. QED
  BY <1>2, <1>3, <1>4 DEF Apart

(* A process maps blocks into some of its pages, each block either from    *)
(* outside the region or a free one of its own.                            *)
LEMMA TakingPages ==
    ASSUME NEW d, NEW tb, NEW b, NEW f, Apart(d, tb, b, f), f \subseteq Blocks,
           NEW q \in Procs, NEW S \in SUBSET Pages,
           NEW new, NEW b2, Updated(b, q, Pages, S, new, b2),
           NEW f2 \in SUBSET f, TakenFrom(f, S, new, f2)
    PROVE  Apart(d, tb, b2, f2)
<1>1. \A p \in Procs, g \in Pages :
         \/ p = q /\ g \in S /\ b2[p][g] = new[g]
         \/ ~(p = q /\ g \in S) /\ b2[p][g] = b[p][g]
  BY DEF Updated
<1>2. DirsApart(d, tb, b2, f2)
  <2> SUFFICES ASSUME NEW p \in Procs, d[p] \in Blocks
               PROVE  /\ d[p] \notin f2
                      /\ \A r \in Procs : d[r] = d[p] => r = p
                      /\ \A r \in Procs, t \in Tables : tb[r][t] # d[p]
                      /\ \A r \in Procs, g \in Pages : b2[r][g] # d[p]
    BY DEF DirsApart
  <2>1. d[p] \notin f
    BY DEF Apart, DirsApart
  <2>2. QED
    BY <1>1, <2>1 DEF Apart, DirsApart, TakenFrom
<1>3. TablesApart(tb, b2, f2)
  <2> SUFFICES ASSUME NEW p \in Procs, NEW t \in Tables, tb[p][t] \in Blocks
               PROVE  /\ tb[p][t] \notin f2
                      /\ \A r \in Procs, s \in Tables : tb[r][s] = tb[p][t] => r = p /\ s = t
                      /\ \A r \in Procs, g \in Pages : b2[r][g] # tb[p][t]
    BY DEF TablesApart
  <2>1. tb[p][t] \notin f
    BY DEF Apart, TablesApart
  <2>2. QED
    BY <1>1, <2>1 DEF Apart, TablesApart, TakenFrom
<1>4. PagesApart(b2, f2)
  <2> SUFFICES ASSUME NEW p \in Procs, NEW g \in Pages, b2[p][g] \in Blocks
               PROVE  /\ b2[p][g] \notin f2
                      /\ \A r \in Procs, h \in Pages : b2[r][h] = b2[p][g] => r = p /\ h = g
    BY DEF PagesApart
  <2>1. CASE p = q /\ g \in S
    <3>1. b2[p][g] = new[g] /\ new[g] \in f
      BY <1>1, <2>1 DEF TakenFrom
    <3>2. \A r \in Procs, h \in Pages : b[r][h] # new[g]
      BY <3>1 DEF Apart, PagesApart
    <3>3. QED
      BY <1>1, <2>1, <3>1, <3>2 DEF TakenFrom
  <2>2. CASE ~(p = q /\ g \in S)
    <3>1. b2[p][g] = b[p][g]
      BY <1>1, <2>2
    <3>2. b[p][g] \notin f
      BY <3>1 DEF Apart, PagesApart
    <3>3. QED
      BY <1>1, <2>2, <3>1, <3>2 DEF Apart, PagesApart, TakenFrom
  <2>3. QED
    BY <2>1, <2>2
<1>5. QED
  BY <1>2, <1>3, <1>4 DEF Apart

(* Blocks whose uses end become free.                                      *)
LEMMA EndingUses ==
    ASSUME NEW d, NEW tb, NEW b, NEW f, Apart(d, tb, b, f), NEW more,
           NEW d2, DirsEnded(d, d2, more),
           NEW tb2, Ended(tb, tb2, Tables, more),
           NEW b2, Ended(b, b2, Pages, more)
    PROVE  Apart(d2, tb2, b2, f \cup more)
<1>1. DirsApart(d2, tb2, b2, f \cup more)
  BY DEF Apart, DirsApart, DirsEnded, Ended
<1>2. TablesApart(tb2, b2, f \cup more)
  BY DEF Apart, TablesApart, DirsEnded, Ended
<1>3. PagesApart(b2, f \cup more)
  BY DEF Apart, PagesApart, DirsEnded, Ended
<1>4. QED
  BY <1>1, <1>2, <1>3 DEF Apart

(* OneUse is that: a use is one of the three.                              *)
LEMMA OneUseIsApart == (fault = {} => Apart(pageDir, tables, PageBlks, free)) => OneUse
<1> SUFFICES ASSUME fault = {} => Apart(pageDir, tables, PageBlks, free), fault = {},
                    NEW u \in Uses, BlkOf(u) \in Blocks
             PROVE  /\ BlkOf(u) \notin free
                    /\ \A v \in Uses : BlkOf(v) = BlkOf(u) => v = u
  BY DEF OneUse
<1>1. \A v \in Uses :
         \/ \E q \in Procs : v = <<q, "directory", 0>> /\ BlkOf(v) = pageDir[q]
         \/ \E q \in Procs, t \in Tables : v = <<q, "table", t>> /\ BlkOf(v) = tables[q][t]
         \/ \E q \in Procs, g \in Pages : v = <<q, "page", g>> /\ BlkOf(v) = PageBlks[q][g]
  BY DEF Uses, BlkOf, PageBlks
<1>2. CASE \E q \in Procs : u = <<q, "directory", 0>> /\ BlkOf(u) = pageDir[q]
  BY <1>1, <1>2 DEF Apart, DirsApart
<1>3. CASE \E q \in Procs, t \in Tables : u = <<q, "table", t>> /\ BlkOf(u) = tables[q][t]
  <2>1. PICK q \in Procs, t \in Tables : u = <<q, "table", t>> /\ BlkOf(u) = tables[q][t]
    BY <1>3
  <2>2. \A p \in Procs : pageDir[p] # tables[q][t]
    BY <2>1 DEF Apart, DirsApart
  <2>3. QED
    BY <1>1, <2>1, <2>2 DEF Apart, TablesApart
<1>4. CASE \E q \in Procs, g \in Pages : u = <<q, "page", g>> /\ BlkOf(u) = PageBlks[q][g]
  <2>1. PICK q \in Procs, g \in Pages : u = <<q, "page", g>> /\ BlkOf(u) = PageBlks[q][g]
    BY <1>4
  <2>2. \A p \in Procs : pageDir[p] # PageBlks[q][g]
    BY <2>1 DEF Apart, DirsApart
  <2>3. \A p \in Procs, t \in Tables : tables[p][t] # PageBlks[q][g]
    BY <2>1 DEF Apart, TablesApart
  <2>4. QED
    BY <1>1, <2>1, <2>2, <2>3 DEF Apart, PagesApart
<1>5. QED
  BY <1>1, <1>2, <1>3, <1>4

-----------------------------------------------------------------------------
(* The invariant.  What it says of blocks ends with the first fault.       *)

MemInv ==
    /\ TypeOK
    /\ fault = {} => Apart(pageDir, tables, PageBlks, free)
    /\ PagesHaveTables

LEMMA SizesAreNumbers ==
    /\ T \in Nat /\ E \in Nat /\ PageBytes \in Nat
    /\ T > 0 /\ E > 0 /\ PageBytes > 0
    /\ Span \in Nat /\ Span > 0
  BY SizesAssumption DEF Span

(* A page belongs to one of the page tables.                               *)
LEMMA TableOfAPage == \A g \in Pages : Table(g) \in Tables
<1> SUFFICES ASSUME NEW g \in Pages
             PROVE  Table(g) \in Tables
  OBVIOUS
<1>1. g \in Nat /\ g < T * E
  BY SizesAreNumbers DEF Pages, Span
<1>2. g \div E \in Nat /\ E * (g \div E) <= g
  BY <1>1, SizesAreNumbers
<1>3. g \div E < T
  <2> SUFFICES ASSUME g \div E >= T
               PROVE  FALSE
    BY <1>2, SizesAreNumbers
  <2>1. E * (g \div E) >= E * T
    BY <1>2, SizesAreNumbers
  <2>2. QED
    BY <1>1, <1>2, <2>1, SizesAreNumbers
<1>4. QED
  BY <1>2, <1>3, SizesAreNumbers DEF Table, Tables

LEMMA InitMemInv == Init => MemInv
<1> SUFFICES ASSUME Init
             PROVE  MemInv
  OBVIOUS
<1>1. TypeOK
  BY DEF Init, TypeOK, Entries
<1>2. NULL \notin Blocks
  BY BlocksAssumption, PointersAssumption
<1>3. Apart(pageDir, tables, PageBlks, free)
  BY <1>2 DEF Init, Apart, DirsApart, TablesApart, PagesApart, PageBlks, Absent
<1>4. PagesHaveTables
  BY DEF Init, PagesHaveTables, Present, Absent
<1>5. QED
  BY <1>1, <1>3, <1>4 DEF MemInv

(* A block of a sufficient run is free, and so are those behind it.        *)
LEMMA RunsAreFree ==
    ASSUME NEW F \in SUBSET Blocks, NEW count \in Nat \ {0}, NEW r \in Store!OnlyFit(F, count)
    PROVE  r[1] \in Nat /\ Segment(r[1], count) \subseteq F
<1>1. /\ r \in F \X F /\ r[1] .. r[2] \subseteq F
      /\ r[2] - r[1] + 1 >= count
  BY DEF Store!OnlyFit, Store!BestFits, Store!Runs, Store!Size
<1>2. r[1] \in Nat /\ r[2] \in Nat
  BY <1>1, BlocksAssumption
<1>3. Segment(r[1], count) \subseteq r[1] .. r[2]
  BY <1>1, <1>2 DEF Segment
<1>4. QED
  BY <1>1, <1>2, <1>3

(* What an action may assume of the pages it maps into.                    *)
LEMMA PageFacts ==
    /\ \A addr \in Addresses : PageUp(addr) \in Nat
    /\ \A len \in Lengths : len \in Nat /\ len > 0
    /\ NULL \notin Blocks /\ OUTSIDE \notin Blocks
<1>1. \A addr \in Addresses : addr \in Nat
  BY AddressesAssumption, SizesAreNumbers
<1>2. \A addr \in Addresses : (addr + PageBytes - 1) \div PageBytes \in Nat
  BY <1>1, SizesAreNumbers
<1>3. \A addr \in Addresses : PageUp(addr) \in Nat
  BY <1>2, SizesAreNumbers DEF PageUp
<1>4. \A len \in Lengths : len \in Nat /\ len > 0
  BY LengthsAssumption, SizesAreNumbers
<1>5. QED
  BY <1>3, <1>4, BlocksAssumption, PointersAssumption

(* Each page table that is added gets a block of its own.                  *)
LEMMA NewTablesApart ==
    ASSUME NEW some, NEW rest, NEW new \in NewTables(some, rest)
    PROVE  new \in Injection(some, rest)
  BY DEF NewTables

(* How a mapping ends: it is refused, runs into a fault or maps pages.     *)
MapAdds(q, start, len, kind, blks, rest) ==
    \E new \in Injection({t \in Stepped(start, len) : tables[q][t] = NULL}, rest) :
       /\ tables' = [tables EXCEPT ![q] = Over(new, tables[q])]
       /\ pages' = [pages EXCEPT ![q] =
             Over([page \in Reached(q, Over(new, tables[q]), start, len) |->
                      Entry(kind, blks[page - start])], @)]
       /\ free' = rest \ Range(new)
       /\ ret' = IF Reached(q, Over(new, tables[q]), start, len) = Segment(start, len) THEN 0 ELSE -1

LEMMA MapEnds ==
    ASSUME NEW q, NEW start, NEW len, NEW kind, NEW blks, NEW rest,
           MapSegment(q, start, len, kind, blks, rest)
    PROVE  \/ /\ UNCHANGED <<tables, pages, fault>> /\ free' = rest
              /\ (Wraps(start, len) /\ ret' = 0) \/ ret' = -1
           \/ /\ UNCHANGED <<tables, pages, ret>> /\ free' = rest
              /\ \E what \in {"endless loop", "null table", "lost track"} : Fail(what)
           \/ MapAdds(q, start, len, kind, blks, rest) /\ UNCHANGED fault
<1> DEFINE needed == {t \in Stepped(start, len) : tables[q][t] = NULL}
<1>1. ASSUME NEW new \in NewTables(needed, rest)
      PROVE  new \in Injection(needed, rest)
  BY NewTablesApart
<1> HIDE DEF needed
<1>2. \/ /\ UNCHANGED <<tables, pages, fault>> /\ free' = rest
         /\ (Wraps(start, len) /\ ret' = 0) \/ ret' = -1
      \/ /\ UNCHANGED <<tables, pages, ret>> /\ free' = rest
         /\ \E what \in {"endless loop", "null table", "lost track"} : Fail(what)
      \/ \E new \in NewTables(needed, rest) :
            /\ tables' = [tables EXCEPT ![q] = Over(new, tables[q])]
            /\ pages' = [pages EXCEPT ![q] =
                  Over([page \in Reached(q, Over(new, tables[q]), start, len) |->
                           Entry(kind, blks[page - start])], @)]
            /\ free' = rest \ Range(new)
            /\ ret' = IF Reached(q, Over(new, tables[q]), start, len) = Segment(start, len) THEN 0 ELSE -1
            /\ UNCHANGED fault
  BY DEF MapSegment, needed
<1>3. QED
  BY <1>1, <1>2 DEF MapAdds, needed

(* Mapping keeps the invariant, for blocks that are each either outside    *)
(* the region or free and no longer among the blocks that remain.          *)
LEMMA MapStep ==
    ASSUME MemInv, NEW q \in Procs, NEW start \in Nat, NEW len \in Nat \ {0},
           NEW kind \in {"anon", "file", "kernel"},
           NEW blks \in [0 .. len - 1 -> Blocks \cup {OUTSIDE}],
           kind # "anon" => \A i \in 0 .. len - 1 : blks[i] = OUTSIDE,
           \A i, j \in 0 .. len - 1 : blks[i] \in Blocks /\ blks[i] = blks[j] => i = j,
           NEW rest \in SUBSET free,
           \A i \in 0 .. len - 1 : blks[i] \in Blocks => blks[i] \in free /\ blks[i] \notin rest,
           Live(q), UNCHANGED <<live, pageDir>>,
           MapSegment(q, start, len, kind, blks, rest)
    PROVE  MemInv'
<1>0. Apart(pageDir, tables, PageBlks, free)
  BY DEF MemInv, Live
<1>1. ASSUME UNCHANGED <<tables, pages>>, free' = rest,
             fault' \in SUBSET {"outside release", "null table", "endless loop", "lost track"},
             ret' \in {0, -1}
      PROVE  MemInv'
  <2>1. TypeOK'
    BY <1>1 DEF MemInv, TypeOK
  <2>2. PageBlks' = PageBlks
    BY <1>1 DEF PageBlks
  <2>3. Apart(pageDir', tables', PageBlks', free')
    BY <1>0, <1>1, <2>2, FewerFree
  <2>4. PagesHaveTables'
    BY <1>1 DEF MemInv, PagesHaveTables, Present
  <2>5. QED
    BY <2>1, <2>3, <2>4 DEF MemInv
<1> DEFINE needed == {t \in Stepped(start, len) : tables[q][t] = NULL}
<1>2. ASSUME NEW new \in Injection(needed, rest),
             tables' = [tables EXCEPT ![q] = Over(new, tables[q])],
             pages' = [pages EXCEPT ![q] =
                Over([page \in Reached(q, Over(new, tables[q]), start, len) |->
                         Entry(kind, blks[page - start])], @)],
             free' = rest \ Range(new),
             fault' = fault, ret' \in {0, -1}
      PROVE  MemInv'
  <2> DEFINE tb == Over(new, tables[q])
             mapped == Reached(q, tb, start, len)
             S == mapped \cap Pages
             blkAt == [g \in S |-> blks[g - start]]
  <2>1. needed \subseteq Tables /\ new \in [needed -> rest]
        /\ \A s, t \in needed : new[s] = new[t] => s = t
    BY <1>2 DEF Stepped, Injection, IsInjective
  <2>2. rest \subseteq Blocks /\ NULL \notin Blocks
    BY BlocksAssumption, PointersAssumption DEF MemInv, TypeOK
  <2>3. tables[q] \in [Tables -> Blocks \cup {NULL}] /\ pages[q] \in [Pages -> Entries]
    BY DEF MemInv, TypeOK
  <2>4. \A t \in Tables : tb[t] = IF t \in needed THEN new[t] ELSE tables[q][t]
    BY <2>1, <2>3 DEF Over
  <2>5. tb \in [Tables -> Blocks \cup {NULL}]
    BY <2>1, <2>2, <2>3, <2>4 DEF Over
  <2>6. \A g \in S : g - start \in 0 .. len - 1 /\ tb[Table(g)] # NULL /\ ~Present(q, g)
    BY DEF Reached, Segment, Pages
  <2>7. \A g \in Pages : pages'[q][g] = IF g \in S THEN Entry(kind, blkAt[g]) ELSE pages[q][g]
    BY <1>2, <2>3 DEF Over, MemInv, TypeOK
  <2>8. \A p \in Procs : p # q => pages'[p] = pages[p] /\ tables'[p] = tables[p]
    BY <1>2 DEF MemInv, TypeOK
  <2>9. tables'[q] = tb
    BY <1>2 DEF MemInv, TypeOK
  <2>10. \A g \in S : Entry(kind, blkAt[g]) \in Entries
    <3> SUFFICES ASSUME NEW g \in S
                 PROVE  Entry(kind, blks[g - start]) \in Entries
      OBVIOUS
    <3>1. blks[g - start] \in Blocks \cup {OUTSIDE}
      BY <2>6
    <3>2. kind # "anon" => blks[g - start] = OUTSIDE
      BY <2>6
    <3>3. QED
      BY <3>1, <3>2 DEF Entry, Entries
  <2>11. pages'[q] \in [Pages -> Entries]
    <3>1. pages'[q] = Over([page \in mapped |-> Entry(kind, blks[page - start])], pages[q])
      BY <1>2 DEF MemInv, TypeOK
    <3>2. DOMAIN pages'[q] = Pages
      BY <2>3, <3>1 DEF Over
    <3>3. pages'[q] = [g \in Pages |-> pages'[q][g]]
      BY <2>3, <3>1 DEF Over
    <3>4. QED
      BY <2>3, <2>7, <2>10, <3>3
  <2>12. TypeOK'
    <3>1. tables' \in [Procs -> [Tables -> Blocks \cup {NULL}]]
      BY <1>2, <2>5 DEF MemInv, TypeOK
    <3>2. pages' \in [Procs -> [Pages -> Entries]]
      <4>1. pages' = [pages EXCEPT ![q] = pages'[q]]
        BY <1>2 DEF MemInv, TypeOK
      <4>2. QED
        BY <2>11, <4>1 DEF MemInv, TypeOK
    <3>3. QED
      BY <1>2, <2>2, <3>1, <3>2 DEF MemInv, TypeOK
  <2>13. \A p \in Procs, g \in Pages :
            PageBlks'[p][g] = IF p = q /\ g \in S THEN blkAt[g] ELSE PageBlks[p][g]
    <3>1. \A p \in Procs, g \in Pages :
             PageBlks'[p][g] = pages'[p][g].blk /\ PageBlks[p][g] = pages[p][g].blk
      BY DEF PageBlks
    <3>2. \A g \in S : Entry(kind, blkAt[g]).blk = blkAt[g]
      BY DEF Entry
    <3>3. QED
      BY <2>7, <2>8, <3>1, <3>2
  <2>14. Apart(pageDir, tables, PageBlks', rest)
    <3>1. \A g \in S : blkAt[g] = blks[g - start] /\ g - start \in 0 .. len - 1
      BY <2>6
    <3>2. \A g \in S : /\ blkAt[g] \in Blocks => blkAt[g] \in free
                       /\ blkAt[g] \notin rest
      BY <2>2, <3>1
    <3>3. \A g, h \in S : blkAt[g] \in Blocks /\ blkAt[g] = blkAt[h] => g = h
      <4> SUFFICES ASSUME NEW g \in S, NEW h \in S, blkAt[g] \in Blocks, blkAt[g] = blkAt[h]
                   PROVE  g = h
        OBVIOUS
      <4>1. g - start = h - start
        BY <3>1
      <4>2. QED
        BY <4>1 DEF Pages
    <3>4. Updated(PageBlks, q, Pages, S, blkAt, PageBlks') /\ TakenFrom(free, S, blkAt, rest)
      BY <2>13, <3>2, <3>3 DEF Updated, TakenFrom
    <3>5. S \in SUBSET Pages /\ free \subseteq Blocks /\ Apart(pageDir, tables, PageBlks, free)
      BY <1>0 DEF MemInv, TypeOK
    <3> HIDE DEF S, blkAt
    <3>6. QED
      BY <3>4, <3>5, TakingPages
  <2>15. Apart(pageDir, tables', PageBlks', free')
    <3>1. \A p \in Procs, t \in Tables :
             tables'[p][t] = IF p = q /\ t \in needed THEN new[t] ELSE tables[p][t]
      BY <2>4, <2>8, <2>9
    <3>2. \A t \in needed : new[t] \in rest /\ new[t] \notin free'
      BY <1>2, <2>1 DEF Range
    <3>3. free' \in SUBSET rest /\ needed \in SUBSET Tables
      BY <1>2, <2>1
    <3>4. Updated(tables, q, Tables, needed, new, tables') /\ TakenFrom(rest, needed, new, free')
      BY <2>1, <3>1, <3>2 DEF Updated, TakenFrom
    <3> HIDE DEF needed
    <3>5. QED
      BY <2>2, <2>14, <3>3, <3>4, TakingTables
  <2>16. PagesHaveTables'
    <3>1. \A t \in Tables : tables[q][t] # NULL => tb[t] # NULL
      BY <2>1, <2>2, <2>4
    <3>2. ASSUME NEW p \in Procs, NEW g \in Pages, Present(p, g)'
          PROVE  tables'[p][Table(g)] # NULL
      <4>1. CASE p = q /\ g \in S
        BY <2>6, <2>9, <4>1
      <4>2. CASE ~(p = q /\ g \in S)
        <5>1. Present(p, g)
          BY <2>7, <2>8, <3>2, <4>2 DEF Present
        <5>2. tables[p][Table(g)] # NULL /\ Table(g) \in Tables
          BY <5>1, TableOfAPage DEF MemInv, PagesHaveTables
        <5>3. QED
          BY <2>8, <2>9, <3>1, <5>2
      <4>3. QED
        BY <4>1, <4>2
    <3>3. ASSUME NEW p \in Procs, NEW t \in Tables, tables'[p][t] # NULL
          PROVE  p \in live'
      BY <2>8, <3>3 DEF MemInv, PagesHaveTables, Live
    <3>4. \A p \in Procs : p \in live' => pageDir'[p] # NULL
      BY DEF MemInv, PagesHaveTables
    <3>5. QED
      BY <3>2, <3>3, <3>4 DEF PagesHaveTables, Table
  <2>17. QED
    BY <2>12, <2>15, <2>16 DEF MemInv
<1>3. fault \in SUBSET {"outside release", "null table", "endless loop", "lost track"} /\ ret \in {0, -1}
  BY DEF MemInv, TypeOK
<1>4. CASE MapAdds(q, start, len, kind, blks, rest) /\ UNCHANGED fault
  BY <1>2, <1>4 DEF MapAdds
<1>5. QED
  BY <1>1, <1>3, <1>4, MapEnds DEF Fail

(* A fault that only is noted leaves the state as it is.                   *)
LEMMA LosingTrack ==
    ASSUME MemInv, NEW what \in {"outside release", "lost track"}, Fail(what),
           UNCHANGED <<live, pageDir, tables, pages, free, ret>>
    PROVE  MemInv'
<1>1. fault' \in SUBSET {"outside release", "null table", "endless loop", "lost track"}
  BY DEF Fail, MemInv, TypeOK
<1>2. fault' # {}
  BY DEF Fail
<1>3. QED
  BY <1>1, <1>2 DEF MemInv, TypeOK, PagesHaveTables, Present

(* proc_createProc keeps the invariant.                                    *)
LEMMA CreateStep ==
    ASSUME MemInv, NEW q \in Procs, CreateProc(q)
    PROVE  MemInv'
<1>0. Apart(pageDir, tables, PageBlks, free)
  BY DEF MemInv, CreateProc
<1>1. CASE UNCHANGED <<live, free, fault>> /\ pageDir' = [pageDir EXCEPT ![q] = NULL] /\ ret' = -1
  <2>1. UNCHANGED <<tables, pages>> /\ q \notin live
    BY DEF CreateProc
  <2>2. PageBlks' = PageBlks
    BY DEF CreateProc, PageBlks
  <2>3. TypeOK'
    BY <1>1, <2>1 DEF MemInv, TypeOK
  <2>4. Apart(pageDir', tables, PageBlks, free \cup {})
    <3>1. /\ DirsEnded(pageDir, pageDir', {}) /\ Ended(tables, tables, Tables, {})
          /\ Ended(PageBlks, PageBlks, Pages, {})
      BY <1>1, PageFacts DEF DirsEnded, Ended, MemInv, TypeOK
    <3>3. QED
      BY <1>0, <3>1, EndingUses
  <2>5. free \cup {} = free'
    BY <1>1
  <2>6. PagesHaveTables'
    <3>1. \A p \in Procs : p # q => pageDir'[p] = pageDir[p]
      BY <1>1 DEF MemInv, TypeOK
    <3>2. QED
      BY <1>1, <2>1, <3>1 DEF MemInv, PagesHaveTables, Present, Table
  <2>7. QED
    BY <2>1, <2>2, <2>3, <2>4, <2>5, <2>6 DEF MemInv
<1>2. ASSUME NEW r \in Store!OnlyFit(free, 1), fault' = fault,
             pageDir' = [pageDir EXCEPT ![q] = r[1]], free' = free \ {r[1]},
             live' = live \cup {q}, ret' = 0
      PROVE  MemInv'
  <2>1. r[1] \in free
    <3>1. free \in SUBSET Blocks
      BY DEF MemInv, TypeOK
    <3>2. 1 \in Nat \ {0}
      OBVIOUS
    <3>3. r[1] \in Nat /\ Segment(r[1], 1) \subseteq free
      BY <3>1, <3>2, RunsAreFree
    <3>4. QED
      BY <3>3 DEF Segment
  <2>2. free \subseteq Blocks /\ NULL \notin Blocks
    BY BlocksAssumption, PointersAssumption DEF MemInv, TypeOK
  <2>3. TypeOK'
    BY <1>2, <2>1, <2>2 DEF CreateProc, MemInv, TypeOK
  <2>4. Apart(pageDir', tables, PageBlks, free \ {r[1]})
    <3>1. pageDir'[q] = r[1] /\ \A p \in Procs : p # q => pageDir'[p] = pageDir[p]
      BY <1>2 DEF MemInv, TypeOK
    <3>3. QED
      BY <1>0, <2>1, <2>2, <3>1, TakingADirectory
  <2>5. PageBlks' = PageBlks /\ tables' = tables
    BY DEF CreateProc, PageBlks
  <2>6. PagesHaveTables'
    <3>1. \A p \in Procs : pageDir[p] # NULL => pageDir'[p] # NULL
      BY <1>2, <2>1, <2>2 DEF MemInv, TypeOK
    <3>2. pageDir'[q] # NULL
      BY <1>2, <2>1, <2>2 DEF MemInv, TypeOK
    <3>3. QED
      BY <1>2, <3>1, <3>2 DEF CreateProc, MemInv, PagesHaveTables, Present, Table
  <2>7. QED
    BY <1>2, <2>3, <2>4, <2>5, <2>6 DEF MemInv
<1>3. ASSUME UNCHANGED <<live, pageDir, free, ret>>, Fail("lost track")
      PROVE  MemInv'
  <2>1. UNCHANGED <<tables, pages>>
    BY DEF CreateProc
  <2>2. QED
    BY <1>3, <2>1, LosingTrack
<1>4. QED
  BY <1>1, <1>2, <1>3 DEF CreateProc

(* proc_allocBlks and the two mappings keep the invariant.                 *)
LEMMA AllocStep ==
    ASSUME MemInv, NEW q \in Procs, NEW addr \in Addresses, NEW len \in Lengths,
           AllocBlks(q, addr, len)
    PROVE  MemInv'
<1>1. PageUp(addr) \in Nat /\ len \in Nat \ {0} /\ OUTSIDE \notin Blocks
  BY PageFacts
<1>2. ASSUME NEW r \in Store!OnlyFit(free, len),
             MapSegment(q, PageUp(addr), len, "anon", [i \in 0 .. len - 1 |-> r[1] + i],
                        free \ Segment(r[1], len))
      PROVE  MemInv'
  <2> DEFINE blks == [i \in 0 .. len - 1 |-> r[1] + i]
             rest == free \ Segment(r[1], len)
  <2>1. free \in SUBSET Blocks
    BY DEF MemInv, TypeOK
  <2>2. r[1] \in Nat /\ Segment(r[1], len) \subseteq free
    BY <1>1, <2>1, RunsAreFree
  <2>3. \A i \in 0 .. len - 1 : blks[i] \in Segment(r[1], len)
    BY <1>1, <2>2 DEF Segment
  <2>4. /\ blks \in [0 .. len - 1 -> Blocks \cup {OUTSIDE}]
        /\ \A i \in 0 .. len - 1 : blks[i] \in free /\ blks[i] \notin rest
    BY <2>1, <2>2, <2>3
  <2>5. \A i, j \in 0 .. len - 1 : blks[i] = blks[j] => i = j
    BY <1>1, <2>2
  <2>6. Live(q) /\ UNCHANGED <<live, pageDir>> /\ rest \in SUBSET free
    BY DEF AllocBlks
  <2>7. MapSegment(q, PageUp(addr), len, "anon", blks, rest)
    BY <1>2
  <2> HIDE DEF blks, rest
  <2>8. QED
    BY <1>1, <2>4, <2>5, <2>6, <2>7, MapStep
<1>3. ASSUME MapSegment(q, PageUp(addr), len, "anon", Outside(len), free)
      PROVE  MemInv'
  <2>1. /\ Outside(len) \in [0 .. len - 1 -> Blocks \cup {OUTSIDE}]
        /\ \A i \in 0 .. len - 1 : Outside(len)[i] = OUTSIDE
    BY DEF Outside
  <2>2. Live(q) /\ UNCHANGED <<live, pageDir>> /\ free \in SUBSET free
    BY DEF AllocBlks
  <2>3. QED
    BY <1>1, <1>3, <2>1, <2>2, MapStep
<1>4. ASSUME UNCHANGED <<tables, pages, free, ret>>, Fail("lost track")
      PROVE  MemInv'
  BY <1>4, LosingTrack DEF AllocBlks
<1>5. QED
  BY <1>2, <1>3, <1>4 DEF AllocBlks

LEMMA MappingStep ==
    ASSUME MemInv, NEW q \in Procs, NEW addr \in Addresses, NEW len \in Lengths,
           NEW kind \in {"file", "kernel"}, Map(q, addr, len, kind)
    PROVE  MemInv'
<1>1. PageUp(addr) \in Nat /\ len \in Nat \ {0} /\ OUTSIDE \notin Blocks
  BY PageFacts
<1>2. /\ Outside(len) \in [0 .. len - 1 -> Blocks \cup {OUTSIDE}]
      /\ \A i \in 0 .. len - 1 : Outside(len)[i] = OUTSIDE
  BY DEF Outside
<1>3. Live(q) /\ UNCHANGED <<live, pageDir>> /\ free \in SUBSET free
  BY DEF Map
<1>4. MapSegment(q, PageUp(addr), len, kind, Outside(len), free)
  BY DEF Map
<1>5. QED
  BY <1>1, <1>2, <1>3, <1>4, MapStep

(* What a process has after it gave up some pages.                         *)
GivenUp(q, some) ==
    /\ pages' \in [Procs -> [Pages -> Entries]]
    /\ \A p \in Procs, g \in Pages :
          pages'[p][g] = IF p = q /\ g \in some THEN Absent ELSE pages[p][g]
    /\ \A p \in Procs, g \in Pages :
          PageBlks'[p][g] = IF p = q /\ g \in some THEN NULL ELSE PageBlks[p][g]

LEMMA GivingUpPages ==
    ASSUME MemInv, NEW q \in Procs, NEW some \in SUBSET Pages,
           pages' = [pages EXCEPT ![q] = WithoutPages(q, some)]
    PROVE  GivenUp(q, some)
<1>1. pages \in [Procs -> [Pages -> Entries]]
  BY DEF MemInv, TypeOK
<1>2. WithoutPages(q, some) = [g \in Pages |-> IF g \in some THEN Absent ELSE pages[q][g]]
  <2>1. DOMAIN pages[q] = Pages
    BY <1>1
  <2>2. \A g \in some : [page \in some |-> Absent][g] = Absent
    OBVIOUS
  <2>3. QED
    BY <2>1, <2>2 DEF WithoutPages, Over
<1>3. WithoutPages(q, some) \in [Pages -> Entries]
  BY <1>1, <1>2 DEF Entries
<1>4. pages' \in [Procs -> [Pages -> Entries]]
  BY <1>1, <1>3
<1>5. \A p \in Procs, g \in Pages :
         pages'[p][g] = IF p = q /\ g \in some THEN Absent ELSE pages[p][g]
  BY <1>1, <1>2
<1>6. \A p \in Procs, g \in Pages :
         PageBlks'[p][g] = pages'[p][g].blk /\ PageBlks[p][g] = pages[p][g].blk
  BY DEF PageBlks
<1>7. QED
  BY <1>4, <1>5, <1>6 DEF Absent, GivenUp

(* proc_freeBlks keeps the invariant.                                      *)
LEMMA FreeStep ==
    ASSUME MemInv, NEW q \in Procs, NEW addr \in Addresses, NEW len \in Lengths,
           FreeBlks(q, addr, len)
    PROVE  MemInv'
<1> DEFINE gone == OfKind(q, addr, len, "anon")
<1>0. Apart(pageDir, tables, PageBlks, free)
  BY DEF MemInv, FreeBlks, Live
<1>1. ASSUME NEW what \in {"outside release", "lost track"}, Fail(what), UNCHANGED <<pages, free, ret>>
      PROVE  MemInv'
  BY <1>1, LosingTrack DEF FreeBlks
<1>2. ASSUME OUTSIDE \notin BlksOf(q, gone),
             pages' = [pages EXCEPT ![q] = WithoutPages(q, gone)],
             free' = free \cup BlksOf(q, gone), ret' = 0, UNCHANGED fault
      PROVE  MemInv'
  <2>1. /\ pages' = [pages EXCEPT ![q] = WithoutPages(q, gone)]
        /\ free' = free \cup BlksOf(q, gone)
        /\ ret' = 0
        /\ UNCHANGED <<live, fault, pageDir, tables>>
    BY <1>2 DEF FreeBlks
  <2>2. gone \in SUBSET Pages
    BY DEF OfKind
  <2>3. \A g \in gone : pages[q][g].kind = "anon" /\ pages[q][g] \in Entries
    BY <2>2 DEF OfKind, MemInv, TypeOK
  <2>4. \A g \in gone : pages[q][g].blk \in Blocks
    <3> SUFFICES ASSUME NEW g \in gone
                 PROVE  pages[q][g].blk \in Blocks
      OBVIOUS
    <3>1. pages[q][g].blk # OUTSIDE
      BY <1>2 DEF BlksOf
    <3>2. pages[q][g] \in [kind : {"anon"}, blk : Blocks \cup {OUTSIDE}]
      BY <2>3 DEF Entries, Absent
    <3>3. QED
      BY <3>1, <3>2
  <2> HIDE DEF gone
  <2>5. GivenUp(q, gone)
    BY <2>1, <2>2, GivingUpPages
  <2>6. BlksOf(q, gone) = {PageBlks[q][g] : g \in gone} /\ BlksOf(q, gone) \subseteq Blocks
    BY <2>2, <2>4 DEF BlksOf, PageBlks
  <2>7. TypeOK'
    BY <2>1, <2>5, <2>6 DEF GivenUp, MemInv, TypeOK
  <2>8. Apart(pageDir', tables', PageBlks', free')
    <3>1. NULL \notin Blocks
      BY PageFacts
    <3>2. Apart(pageDir, tables, PageBlks, free)
      BY <1>0
    <3>3. ASSUME NEW x \in BlksOf(q, gone)
          PROVE  /\ \A p \in Procs : pageDir[p] # x
                 /\ \A p \in Procs, t \in Tables : tables[p][t] # x
                 /\ \A p \in Procs, g \in Pages : PageBlks'[p][g] \in Blocks => PageBlks[p][g] # x
      <4>1. PICK h \in gone : PageBlks[q][h] = x
        BY <2>6
      <4>2. x \in Blocks /\ h \in Pages
        BY <2>2, <2>6
      <4>3. \A p \in Procs : pageDir[p] # x
        BY <3>2, <4>1, <4>2 DEF Apart, DirsApart
      <4>4. \A p \in Procs, t \in Tables : tables[p][t] # x
        BY <3>2, <4>1, <4>2 DEF Apart, TablesApart
      <4>5. \A p \in Procs, g \in Pages : PageBlks[p][g] = x => p = q /\ g = h
        BY <3>2, <4>1, <4>2 DEF Apart, PagesApart
      <4>6. PageBlks'[q][h] = NULL
        BY <2>5, <4>1, <4>2 DEF GivenUp
      <4>7. QED
        BY <3>1, <4>3, <4>4, <4>5, <4>6
    <3>4. \A p \in Procs, g \in Pages : PageBlks'[p][g] = PageBlks[p][g] \/ PageBlks'[p][g] \notin Blocks
      BY <2>5, <3>1 DEF GivenUp
    <3>5. /\ DirsEnded(pageDir, pageDir', BlksOf(q, gone))
          /\ Ended(tables, tables', Tables, BlksOf(q, gone))
          /\ Ended(PageBlks, PageBlks', Pages, BlksOf(q, gone))
      BY <2>1, <3>3, <3>4 DEF DirsEnded, Ended
    <3>6. QED
      BY <2>1, <3>2, <3>5, EndingUses
  <2>9. PagesHaveTables'
    BY <2>1, <2>5, TableOfAPage DEF GivenUp, MemInv, PagesHaveTables, Present, Absent, Table
  <2>10. QED
    BY <2>7, <2>8, <2>9 DEF MemInv
<1>3. QED
  BY <1>1, <1>2 DEF FreeBlks

(* proc_unmapFile and proc_unmapKernel keep the invariant.                 *)
LEMMA UnmapStep ==
    ASSUME MemInv, NEW q \in Procs, NEW addr \in Addresses, NEW len \in Lengths,
           NEW kind \in {"file", "kernel"}, Unmap(q, addr, len, kind)
    PROVE  MemInv'
<1> DEFINE gone == OfKind(q, addr, len, kind)
<1>1. /\ pages' = [pages EXCEPT ![q] = WithoutPages(q, gone)]
      /\ ret' = 0
      /\ UNCHANGED <<live, free, fault, pageDir, tables>>
  BY DEF Unmap
<1>2. gone \in SUBSET Pages
  BY DEF OfKind
<1> HIDE DEF gone
<1>3. GivenUp(q, gone)
  BY <1>1, <1>2, GivingUpPages
<1>4. TypeOK'
  BY <1>1, <1>3 DEF GivenUp, MemInv, TypeOK
<1>5. Apart(pageDir, tables, PageBlks', free \cup {})
  <2>1. NULL \notin Blocks /\ Apart(pageDir, tables, PageBlks, free)
    BY PageFacts DEF MemInv, Unmap, Live
  <2>2. \A p \in Procs, g \in Pages : PageBlks'[p][g] = PageBlks[p][g] \/ PageBlks'[p][g] \notin Blocks
    BY <1>3, <2>1 DEF GivenUp
  <2>3. /\ DirsEnded(pageDir, pageDir, {}) /\ Ended(tables, tables, Tables, {})
        /\ Ended(PageBlks, PageBlks', Pages, {})
    BY <2>2 DEF DirsEnded, Ended
  <2>4. QED
    BY <2>1, <2>3, EndingUses
<1>6. PagesHaveTables'
  BY <1>1, <1>3, TableOfAPage DEF GivenUp, MemInv, PagesHaveTables, Present, Absent, Table
<1>7. free \cup {} = free'
  BY <1>1
<1>8. QED
  BY <1>1, <1>4, <1>5, <1>6, <1>7 DEF MemInv

(* proc_removeProc keeps the invariant.                                    *)
LEMMA RemoveStep ==
    ASSUME MemInv, NEW q \in Procs, RemoveProc(q)
    PROVE  MemInv'
<1> DEFINE anon == {page \in Pages : pages[q][page].kind = "anon"}
           more == BlksOf(q, anon) \cup TableBlks(q)
<1>0. Apart(pageDir, tables, PageBlks, free)
  BY DEF MemInv, RemoveProc, Live
<1>1. ASSUME NEW what \in {"outside release", "lost track"}, Fail(what),
             UNCHANGED <<live, tables, pages, free, ret>>
      PROVE  MemInv'
  BY <1>1, LosingTrack DEF RemoveProc
<1>2. ASSUME OUTSIDE \notin BlksOf(q, anon),
             free' = free \cup BlksOf(q, anon) \cup TableBlks(q),
             tables' = [tables EXCEPT ![q] = [t \in Tables |-> NULL]],
             pages' = [pages EXCEPT ![q] = [page \in Pages |-> Absent]],
             live' = live \ {q}, ret' = 0, UNCHANGED fault
      PROVE  MemInv'
  <2>1. /\ free' = free \cup more
        /\ tables' = [tables EXCEPT ![q] = [t \in Tables |-> NULL]]
        /\ pages' = [pages EXCEPT ![q] = [page \in Pages |-> Absent]]
        /\ live' = live \ {q}
        /\ ret' = 0
        /\ UNCHANGED <<pageDir, fault>>
    BY <1>2 DEF RemoveProc
  <2>2. NULL \notin Blocks
    BY PageFacts
  <2>3. \A g \in anon : pages[q][g].blk \in Blocks
    <3> SUFFICES ASSUME NEW g \in anon
                 PROVE  pages[q][g].blk \in Blocks
      OBVIOUS
    <3>1. pages[q][g].blk # OUTSIDE
      BY <1>2 DEF BlksOf
    <3>2. pages[q][g] \in [kind : {"anon"}, blk : Blocks \cup {OUTSIDE}]
      <4>1. pages[q][g] \in Entries /\ pages[q][g].kind = "anon"
        BY DEF MemInv, TypeOK
      <4>2. QED
        BY <4>1 DEF Entries, Absent
    <3>3. QED
      BY <3>1, <3>2
  <2>4. /\ BlksOf(q, anon) = {PageBlks[q][g] : g \in anon}
        /\ BlksOf(q, anon) \subseteq Blocks
    BY <2>3 DEF BlksOf, PageBlks
  <2>5. TableBlks(q) = {tables[q][t] : t \in Tables} \ {NULL} /\ TableBlks(q) \subseteq Blocks
    BY DEF TableBlks, Range, MemInv, TypeOK
  <2>6. /\ \A p \in Procs : p # q => tables'[p] = tables[p] /\ pages'[p] = pages[p]
        /\ \A t \in Tables : tables'[q][t] = NULL
        /\ \A g \in Pages : pages'[q][g] = Absent
    BY <2>1 DEF MemInv, TypeOK
  <2>7. \A p \in Procs, g \in Pages :
           PageBlks'[p][g] = IF p = q THEN NULL ELSE PageBlks[p][g]
    <3>1. \A p \in Procs, g \in Pages :
             PageBlks'[p][g] = pages'[p][g].blk /\ PageBlks[p][g] = pages[p][g].blk
      BY DEF PageBlks
    <3>2. QED
      BY <2>6, <3>1 DEF Absent
  <2>8. TypeOK'
    <3>1. /\ [t \in Tables |-> NULL] \in [Tables -> Blocks \cup {NULL}]
          /\ [page \in Pages |-> Absent] \in [Pages -> Entries]
      BY DEF Entries
    <3>2. QED
      BY <2>1, <2>4, <2>5, <3>1 DEF MemInv, TypeOK
  <2> HIDE DEF anon
  <2>9. ASSUME NEW x \in more
        PROVE  /\ \A p \in Procs : pageDir[p] # x
               /\ \A p \in Procs, t \in Tables : tables[p][t] = x => p = q
               /\ \A p \in Procs, g \in Pages : PageBlks[p][g] = x => p = q
    <3>1. Apart(pageDir, tables, PageBlks, free) /\ x \in Blocks
      BY <1>0, <2>4, <2>5
    <3>2. CASE x \in BlksOf(q, anon)
      <4>1. PICK h \in Pages : PageBlks[q][h] = x
        BY <2>4, <3>2 DEF anon
      <4>2. QED
        BY <3>1, <4>1 DEF Apart, DirsApart, TablesApart, PagesApart
    <3>3. CASE x \in TableBlks(q)
      <4>1. PICK t \in Tables : tables[q][t] = x
        BY <2>5, <3>3
      <4>2. \A p \in Procs, s \in Tables : tables[p][s] = x => p = q
        BY <3>1, <4>1 DEF Apart, TablesApart
      <4>3. \A p \in Procs, g \in Pages : PageBlks[p][g] # x
        BY <3>1, <4>1 DEF Apart, TablesApart
      <4>4. \A p \in Procs : pageDir[p] # x
        BY <3>1, <4>1 DEF Apart, DirsApart
      <4>5. QED
        BY <4>2, <4>3, <4>4
    <3>4. QED
      BY <3>2, <3>3
  <2> HIDE DEF more
  <2>10. Apart(pageDir', tables', PageBlks', free')
    <3>1. DirsEnded(pageDir, pageDir', more)
      BY <2>1, <2>9 DEF DirsEnded
    <3>2. Ended(tables, tables', Tables, more)
      BY <2>2, <2>6, <2>9 DEF Ended
    <3>3. Ended(PageBlks, PageBlks', Pages, more)
      BY <2>2, <2>7, <2>9 DEF Ended
    <3>4. Apart(pageDir, tables, PageBlks, free)
      BY <1>0
    <3>5. QED
      BY <2>1, <3>1, <3>2, <3>3, <3>4, EndingUses
  <2>11. PagesHaveTables'
    <3>1. ASSUME NEW p \in Procs, NEW g \in Pages, Present(p, g)'
          PROVE  tables'[p][Table(g)] # NULL
      <4>1. p # q
        BY <2>6, <3>1 DEF Present, Absent
      <4>2. Present(p, g)
        BY <2>6, <3>1, <4>1 DEF Present
      <4>3. QED
        BY <2>6, <4>1, <4>2 DEF MemInv, PagesHaveTables
    <3>2. ASSUME NEW p \in Procs, NEW t \in Tables, tables'[p][t] # NULL
          PROVE  p \in live'
      BY <2>1, <2>6, <3>2 DEF MemInv, PagesHaveTables
    <3>3. \A p \in Procs : p \in live' => pageDir'[p] # NULL
      BY <2>1 DEF MemInv, PagesHaveTables
    <3>4. QED
      BY <3>1, <3>2, <3>3 DEF PagesHaveTables, Table
  <2>12. QED
    BY <2>8, <2>10, <2>11 DEF MemInv
<1>3. QED
  BY <1>1, <1>2 DEF RemoveProc

(* Every step keeps the invariant.                                         *)
LEMMA MemStep == MemInv /\ [Next]_vars => MemInv'
<1> SUFFICES ASSUME MemInv, [Next]_vars
             PROVE  MemInv'
  OBVIOUS
<1>1. CASE UNCHANGED vars
  <2>1. PageBlks' = PageBlks
    BY <1>1 DEF vars, PageBlks
  <2>2. QED
    BY <1>1, <2>1 DEF vars, MemInv, TypeOK, PagesHaveTables, Present
<1>2. CASE \E q \in Procs : CreateProc(q) \/ RemoveProc(q)
  BY <1>2, CreateStep, RemoveStep
<1>3. ASSUME NEW q \in Procs, NEW addr \in Addresses, NEW len \in Lengths
      PROVE  /\ AllocBlks(q, addr, len) => MemInv'
             /\ FreeBlks(q, addr, len) => MemInv'
             /\ MapFile(q, addr, len) \/ MapKernel(q, addr, len) => MemInv'
             /\ UnmapFile(q, addr, len) \/ UnmapKernel(q, addr, len) => MemInv'
  <2>1. AllocBlks(q, addr, len) => MemInv'
    BY AllocStep
  <2>2. FreeBlks(q, addr, len) => MemInv'
    BY FreeStep
  <2>3. MapFile(q, addr, len) \/ MapKernel(q, addr, len) => MemInv'
    BY MappingStep DEF MapFile, MapKernel
  <2>4. UnmapFile(q, addr, len) \/ UnmapKernel(q, addr, len) => MemInv'
    BY UnmapStep DEF UnmapFile, UnmapKernel
  <2>5. QED
    BY <2>1, <2>2, <2>3, <2>4
<1>4. CASE Unfollowed
  BY <1>1, <1>4 DEF Unfollowed
<1>5. QED
  BY <1>1, <1>2, <1>3, <1>4 DEF Next

-----------------------------------------------------------------------------
(* The theorems.                                                           *)

(* Whatever the callers ask for, the invariant holds: what it says of      *)
(* blocks, until the allocator loses track or another fault ends the run.  *)
THEOREM MemInvariant == Spec => []MemInv
  BY InitMemInv, MemStep, PTL DEF Spec

(* The state keeps its types: a page directory or a page table is a block  *)
(* of the region, and file and kernel pages never show one.                *)
THEOREM TypeCorrect == Spec => []TypeOK
<1>1. MemInv => TypeOK
  BY DEF MemInv
<1>2. QED
  BY <1>1, MemInvariant, PTL

(* Until the allocator loses track or another fault ends the run, no block *)
(* of the region has two uses, and none in use is free.                    *)
THEOREM OneUseHolds == Spec => []OneUse
<1>1. MemInv => OneUse
  BY OneUseIsApart DEF MemInv
<1>2. QED
  BY <1>1, MemInvariant, PTL

(* Present pages have their page table and page tables their directory.    *)
THEOREM PagesHaveTablesHolds == Spec => []PagesHaveTables
<1>1. MemInv => PagesHaveTables
  BY DEF MemInv
<1>2. QED
  BY <1>1, MemInvariant, PTL

-----------------------------------------------------------------------------
(* What a step does to the pages that are present.                         *)

(* A mapping leaves them as they are.                                      *)
LEMMA MapKeeps ==
    ASSUME TypeOK, NEW q \in Procs, NEW start \in Nat, NEW len \in Nat, NEW kind, NEW blks,
           NEW rest, MapSegment(q, start, len, kind, blks, rest)
    PROVE  \A p \in Procs, g \in Pages : Present(p, g) => pages'[p][g] = pages[p][g]
<1>1. CASE UNCHANGED pages
  BY <1>1
<1>2. CASE MapAdds(q, start, len, kind, blks, rest)
  <2>1. PICK new : pages' = [pages EXCEPT ![q] =
                          Over([page \in Reached(q, Over(new, tables[q]), start, len) |->
                                   Entry(kind, blks[page - start])], pages[q])]
    BY <1>2 DEF MapAdds
  <2> DEFINE S == Reached(q, Over(new, tables[q]), start, len)
             added == [page \in S |-> Entry(kind, blks[page - start])]
  <2>2. \A g \in S : ~Present(q, g)
    BY DEF Reached, Segment
  <2>3. DOMAIN added = S
    OBVIOUS
  <2>4. pages \in [Procs -> [Pages -> Entries]] /\ pages' = [pages EXCEPT ![q] = Over(added, pages[q])]
    BY <2>1 DEF TypeOK
  <2> HIDE DEF S, added
  <2>5. \A g \in Pages : g \notin S => Over(added, pages[q])[g] = pages[q][g]
    BY <2>3, <2>4 DEF Over
  <2>6. \A g \in Pages : Present(q, g) => pages'[q][g] = pages[q][g]
    BY <2>2, <2>4, <2>5
  <2>7. QED
    BY <2>4, <2>6
<1>3. QED
  BY <1>1, <1>2, MapEnds

(* Only pages of one process and one kind go.                              *)
OnlyOf(q, kind) ==
    \A p \in Procs, g \in Pages :
       pages'[p][g] # pages[p][g] =>
          p = q /\ pages[p][g].kind = kind /\ pages'[p][g] = Absent

(* Of a process whose pages of one kind go, the others stay.               *)
LEMMA UnmapKeeps ==
    ASSUME MemInv, NEW q \in Procs, NEW addr, NEW len, NEW kind,
           pages' = [pages EXCEPT ![q] = WithoutPages(q, OfKind(q, addr, len, kind))]
    PROVE  OnlyOf(q, kind)
<1> DEFINE gone == OfKind(q, addr, len, kind)
<1>1. gone \in SUBSET Pages /\ \A g \in gone : pages[q][g].kind = kind
  BY DEF OfKind
<1>2. pages' = [pages EXCEPT ![q] = WithoutPages(q, gone)]
  OBVIOUS
<1> HIDE DEF gone
<1>3. GivenUp(q, gone)
  BY <1>1, <1>2, GivingUpPages
<1>4. QED
  BY <1>1, <1>3 DEF GivenUp, OnlyOf

LEMMA StepKeepsPages ==
    ASSUME MemInv, [Next]_vars
    PROVE  PagesKeptByStep \/ UNCHANGED vars
<1> DEFINE Keeps == \A p \in Procs, g \in Pages : Present(p, g) => pages'[p][g] = pages[p][g]
<1>1. Keeps => PagesKeptByStep
  BY DEF PagesKeptByStep
<1> HIDE DEF Keeps
<1>2. ASSUME NEW q \in Procs, CreateProc(q)
      PROVE  Keeps
  BY <1>2 DEF CreateProc, Keeps
<1>3. ASSUME NEW q \in Procs, RemoveProc(q)
      PROVE  PagesKeptByStep
  <2>1. CASE UNCHANGED pages
    BY <2>1, <1>1 DEF Keeps
  <2>2. CASE pages' = [pages EXCEPT ![q] = [page \in Pages |-> Absent]]
    <3>1. \A p \in Procs : p # q => pages'[p] = pages[p]
      BY <2>2 DEF MemInv, TypeOK
    <3>2. \A g \in Pages : pages'[q][g] = Absent
      BY <2>2 DEF MemInv, TypeOK
    <3>3. QED
      BY <1>3, <3>1, <3>2 DEF PagesKeptByStep
  <2>3. QED
    BY <1>3, <2>1, <2>2 DEF RemoveProc
<1>4. ASSUME NEW q \in Procs, NEW addr \in Addresses, NEW len \in Lengths
      PROVE  /\ AllocBlks(q, addr, len) => PagesKeptByStep
             /\ FreeBlks(q, addr, len) => PagesKeptByStep
             /\ MapFile(q, addr, len) \/ MapKernel(q, addr, len) => PagesKeptByStep
             /\ UnmapFile(q, addr, len) => PagesKeptByStep
             /\ UnmapKernel(q, addr, len) => PagesKeptByStep
  <2> PageUp(addr) \in Nat /\ len \in Nat /\ TypeOK
    BY PageFacts DEF MemInv
  <2>1. AllocBlks(q, addr, len) => PagesKeptByStep
    BY <1>1, MapKeeps DEF AllocBlks, Keeps
  <2>2. MapFile(q, addr, len) \/ MapKernel(q, addr, len) => PagesKeptByStep
    BY <1>1, MapKeeps DEF MapFile, MapKernel, Map, Keeps
  <2>3. ASSUME FreeBlks(q, addr, len)
        PROVE  PagesKeptByStep
    <3>1. CASE UNCHANGED pages
      BY <3>1, <1>1 DEF Keeps
    <3>2. CASE pages' = [pages EXCEPT ![q] = WithoutPages(q, OfKind(q, addr, len, "anon"))]
      <4>1. OnlyOf(q, "anon")
        BY <3>2, UnmapKeeps
      <4>2. QED
        BY <2>3, <4>1 DEF OnlyOf, PagesKeptByStep
    <3>3. QED
      BY <2>3, <3>1, <3>2 DEF FreeBlks
  <2>4. ASSUME UnmapFile(q, addr, len)
        PROVE  PagesKeptByStep
    <3>1. OnlyOf(q, "file")
      BY <2>4, UnmapKeeps DEF UnmapFile, Unmap
    <3>2. QED
      BY <2>4, <3>1 DEF OnlyOf, PagesKeptByStep
  <2>5. ASSUME UnmapKernel(q, addr, len)
        PROVE  PagesKeptByStep
    <3>1. OnlyOf(q, "kernel")
      BY <2>5, UnmapKeeps DEF UnmapKernel, Unmap
    <3>2. QED
      BY <2>5, <3>1 DEF OnlyOf, PagesKeptByStep
  <2>6. QED
    BY <2>1, <2>2, <2>3, <2>4, <2>5
<1>5. QED
  BY <1>1, <1>2, <1>3, <1>4 DEF Next, Unfollowed

(* A page keeps what it shows until a call meant for it, or the removal of *)
(* its process, takes it away.                                             *)
THEOREM PagesKeptHolds == Spec => PagesKept
<1>1. MemInv /\ [Next]_vars => [PagesKeptByStep]_vars
  BY StepKeepsPages
<1>2. QED
  BY <1>1, MemInvariant, PTL DEF Spec, PagesKept

-----------------------------------------------------------------------------
(* Where the blocks of the region are.                                     *)

(* Block x is free or in use, for page directories d, page tables tb,      *)
(* blocks of pages b and free blocks f.                                    *)
HasBlk(d, tb, b, f, x) ==
    \/ x \in f
    \/ /\ x \in Blocks
       /\ \/ \E q \in Procs : d[q] = x
          \/ \E q \in Procs, t \in Tables : tb[q][t] = x
          \/ \E q \in Procs, g \in Pages : b[q][g] = x

Has(x) == HasBlk(pageDir, tables, PageBlks, free, x)

(* The three kinds of uses, one by one.                                    *)
LEMMA RegionByUse == \A x : x \in InRegion <=> Has(x)
<1>1. \A u \in Uses :
         \/ \E q \in Procs : u = <<q, "directory", 0>> /\ BlkOf(u) = pageDir[q]
         \/ \E q \in Procs, t \in Tables : u = <<q, "table", t>> /\ BlkOf(u) = tables[q][t]
         \/ \E q \in Procs, g \in Pages : u = <<q, "page", g>> /\ BlkOf(u) = PageBlks[q][g]
  BY DEF Uses, BlkOf, PageBlks
<1>2. \A q \in Procs : <<q, "directory", 0>> \in Uses /\ BlkOf(<<q, "directory", 0>>) = pageDir[q]
  BY DEF Uses, BlkOf
<1>3. \A q \in Procs, t \in Tables :
         <<q, "table", t>> \in Uses /\ BlkOf(<<q, "table", t>>) = tables[q][t]
  BY DEF Uses, BlkOf
<1>4. \A q \in Procs, g \in Pages :
         <<q, "page", g>> \in Uses /\ BlkOf(<<q, "page", g>>) = PageBlks[q][g]
  BY DEF Uses, BlkOf, PageBlks
<1>5. \A x : x \in InRegion <=> x \in free \/ (x \in Blocks /\ \E u \in Uses : BlkOf(u) = x)
  BY DEF InRegion
<1>6. \A x : (\E u \in Uses : BlkOf(u) = x) <=>
                \/ \E q \in Procs : pageDir[q] = x
                \/ \E q \in Procs, t \in Tables : tables[q][t] = x
                \/ \E q \in Procs, g \in Pages : PageBlks[q][g] = x
  <2> SUFFICES ASSUME NEW x
               PROVE  (\E u \in Uses : BlkOf(u) = x) <=>
                         \/ \E q \in Procs : pageDir[q] = x
                         \/ \E q \in Procs, t \in Tables : tables[q][t] = x
                         \/ \E q \in Procs, g \in Pages : PageBlks[q][g] = x
    OBVIOUS
  <2>1. ASSUME NEW u \in Uses, BlkOf(u) = x
        PROVE  \/ \E q \in Procs : pageDir[q] = x
               \/ \E q \in Procs, t \in Tables : tables[q][t] = x
               \/ \E q \in Procs, g \in Pages : PageBlks[q][g] = x
    BY <1>1, <2>1
  <2>2. ASSUME NEW q \in Procs, pageDir[q] = x
        PROVE  \E u \in Uses : BlkOf(u) = x
    BY <1>2, <2>2
  <2>3. ASSUME NEW q \in Procs, NEW t \in Tables, tables[q][t] = x
        PROVE  \E u \in Uses : BlkOf(u) = x
    BY <1>3, <2>3
  <2>4. ASSUME NEW q \in Procs, NEW g \in Pages, PageBlks[q][g] = x
        PROVE  \E u \in Uses : BlkOf(u) = x
    BY <1>4, <2>4
  <2>5. QED
    BY <2>1, <2>2, <2>3, <2>4
<1>7. QED
  BY <1>5, <1>6 DEF Has, HasBlk

(* The same after a step.                                                  *)
LEMMA RegionByUseThen == \A x : x \in InRegion' <=> Has(x)'
<1>1. (\A x : x \in InRegion <=> Has(x))'
  BY RegionByUse, PTL
<1>2. QED
  BY <1>1

(* A mapping loses nothing but blocks it was given to map, and those only  *)
(* when it is refused or wraps around.                                     *)
LEMMA MapLoses ==
    ASSUME MemInv, NEW q \in Procs, NEW start \in Nat, NEW len \in Nat \ {0},
           NEW kind, NEW blks, NEW rest \in SUBSET free,
           UNCHANGED pageDir, MapSegment(q, start, len, kind, blks, rest), fault' = {}
    PROVE  /\ \A x : Has(x) => Has(x)' \/ x \in free \ rest
           /\ ret' # -1 /\ ~Wraps(start, len) =>
                 \A i \in 0 .. len - 1 : blks[i] \in Blocks => Has(blks[i])'
<1> DEFINE needed == {t \in Stepped(start, len) : tables[q][t] = NULL}
<1> NULL \notin Blocks
  BY PageFacts
<1>1. ASSUME UNCHANGED <<tables, pages>>, free' = rest
      PROVE  \A x : Has(x) => Has(x)' \/ x \in free \ rest
  <2>1. PageBlks' = PageBlks
    BY <1>1 DEF PageBlks
  <2>2. QED
    BY <1>1, <2>1 DEF Has, HasBlk
<1>2. ASSUME NEW new \in Injection(needed, rest),
             tables' = [tables EXCEPT ![q] = Over(new, tables[q])],
             pages' = [pages EXCEPT ![q] =
                Over([page \in Reached(q, Over(new, tables[q]), start, len) |->
                         Entry(kind, blks[page - start])], @)],
             free' = rest \ Range(new)
      PROVE  /\ \A x : Has(x) => Has(x)' \/ x \in free \ rest
             /\ ~Wraps(start, len) /\ Reached(q, Over(new, tables[q]), start, len) = Segment(start, len) =>
                   \A i \in 0 .. len - 1 : blks[i] \in Blocks => Has(blks[i])'
  <2> DEFINE tb == Over(new, tables[q])
             mapped == Reached(q, tb, start, len)
             added == [page \in mapped |-> Entry(kind, blks[page - start])]
  <2>1. needed \subseteq Tables /\ new \in [needed -> rest]
    BY <1>2 DEF Stepped, Injection, IsInjective
  <2>2. /\ tables \in [Procs -> [Tables -> Blocks \cup {NULL}]]
        /\ pages \in [Procs -> [Pages -> Entries]]
        /\ free \subseteq Blocks
    BY DEF MemInv, TypeOK
  <2>3. \A t \in Tables : tb[t] = IF t \in needed THEN new[t] ELSE tables[q][t]
    BY <2>1, <2>2 DEF Over
  <2>4. /\ tables'[q] = tb
        /\ \A p \in Procs : p # q => tables'[p] = tables[p] /\ pages'[p] = pages[p]
    BY <1>2, <2>2
  <2>5. \A g \in mapped : ~Present(q, g)
    BY DEF Reached, Segment
  <2>6. \A g \in mapped \cap Pages : PageBlks[q][g] = NULL
    <3> SUFFICES ASSUME NEW g \in mapped \cap Pages
                 PROVE  PageBlks[q][g] = NULL
      OBVIOUS
    <3>1. pages[q][g] \in Entries /\ pages[q][g].kind = "none"
      BY <2>2, <2>5 DEF Present
    <3>2. pages[q][g] = Absent
      BY <3>1 DEF Entries, Absent
    <3>3. QED
      BY <3>2 DEF PageBlks, Absent
  <2>7. pages'[q] = Over(added, pages[q]) /\ DOMAIN added = mapped
    BY <1>2, <2>2
  <2>8. \A g \in Pages : PageBlks'[q][g] = IF g \in mapped THEN blks[g - start] ELSE PageBlks[q][g]
    <3>1. \A g \in mapped : added[g].blk = blks[g - start]
      BY DEF Entry
    <3> HIDE DEF added, mapped
    <3>2. \A g \in Pages : pages'[q][g] = IF g \in mapped THEN added[g] ELSE pages[q][g]
      BY <2>2, <2>7 DEF Over
    <3>3. \A g \in Pages : PageBlks'[q][g] = pages'[q][g].blk /\ PageBlks[q][g] = pages[q][g].blk
      BY DEF PageBlks
    <3>4. QED
      BY <3>1, <3>2, <3>3
  <2>9. \A p \in Procs, g \in Pages : p # q => PageBlks'[p][g] = PageBlks[p][g]
    BY <2>4 DEF PageBlks
  <2>10. ASSUME NEW x, Has(x)
         PROVE  Has(x)' \/ x \in free \ rest
    <3>1. CASE x \in free
      <4>1. CASE x \in rest /\ x \in Range(new)
        <5>1. PICK t \in needed : new[t] = x
          BY <2>1, <4>1 DEF Range
        <5>2. tables'[q][t] = x /\ t \in Tables /\ x \in Blocks
          BY <2>1, <2>2, <2>3, <2>4, <3>1, <5>1
        <5>3. QED
          BY <5>2 DEF Has, HasBlk
      <4>2. CASE x \in rest /\ x \notin Range(new)
        BY <1>2, <4>2 DEF Has, HasBlk
      <4>3. QED
        BY <3>1, <4>1, <4>2
    <3>2. ASSUME NEW p \in Procs, NEW t \in Tables, tables[p][t] = x, x \in Blocks
          PROVE  tables'[p][t] = x
      BY <2>3, <2>4, <3>2
    <3>3. ASSUME NEW p \in Procs, NEW g \in Pages, PageBlks[p][g] = x, x \in Blocks
          PROVE  PageBlks'[p][g] = x
      BY <2>6, <2>8, <2>9, <3>3
    <3> HIDE DEF mapped, tb, added
    <3>4. QED
      BY <2>10, <3>1, <3>2, <3>3 DEF Has, HasBlk
  <2>11. ASSUME ~Wraps(start, len), mapped = Segment(start, len), NEW i \in 0 .. len - 1, blks[i] \in Blocks
         PROVE  Has(blks[i])'
    <3>1. start + i \in Pages /\ start + i \in Segment(start, len) /\ (start + i) - start = i
      BY <2>11, SizesAreNumbers DEF Wraps, Pages, Segment
    <3>2. PageBlks'[q][start + i] = blks[i]
      BY <2>8, <2>11, <3>1
    <3>3. QED
      BY <2>11, <3>1, <3>2 DEF Has, HasBlk
  <2>12. QED
    BY <2>10, <2>11
<1>3. CASE UNCHANGED <<tables, pages>> /\ free' = rest /\ (Wraps(start, len) \/ ret' = -1)
  BY <1>1, <1>3
<1>4. CASE MapAdds(q, start, len, kind, blks, rest)
  <2>1. PICK new \in Injection(needed, rest) :
           /\ tables' = [tables EXCEPT ![q] = Over(new, tables[q])]
           /\ pages' = [pages EXCEPT ![q] =
                Over([page \in Reached(q, Over(new, tables[q]), start, len) |->
                         Entry(kind, blks[page - start])], @)]
           /\ free' = rest \ Range(new)
           /\ ret' = IF Reached(q, Over(new, tables[q]), start, len) = Segment(start, len) THEN 0 ELSE -1
    BY <1>4 DEF MapAdds
  <2>2. QED
    BY <1>2, <2>1
<1>5. QED
  BY <1>3, <1>4, MapEnds DEF Fail

(* What keeps every block the region has.                                  *)
LEMMA NothingLost ==
    ASSUME \A x : Has(x) => Has(x)'
    PROVE  LosesByStep
  BY RegionByUse, RegionByUseThen DEF LosesByStep

(* proc_createProc: the page directory the meta named before.              *)
LEMMA CreateLoses ==
    ASSUME MemInv, NEW q \in Procs, CreateProc(q), fault' = {}
    PROVE  LosesByStep
<1>1. pageDir \in [Procs -> Blocks \cup {NULL}] /\ free \subseteq Blocks
  BY DEF MemInv, TypeOK
<1>2. PageBlks' = PageBlks /\ tables' = tables
  BY DEF CreateProc, PageBlks
<1>3. \A p \in Procs : p # q => pageDir'[p] = pageDir[p]
  BY <1>1 DEF CreateProc, Fail
<1>4. \A x \in free : x \in free' \/ x = pageDir'[q]
  BY <1>1 DEF CreateProc, Fail
<1>5. ASSUME NEW x, Has(x), x # pageDir[q]
      PROVE  Has(x)'
  <2>1. CASE x \in free
    <3>1. x \in Blocks
      BY <1>1, <2>1
    <3>2. QED
      BY <1>4, <2>1, <3>1 DEF Has, HasBlk
  <2>2. CASE x \notin free
    BY <1>2, <1>3, <1>5, <2>2 DEF Has, HasBlk
  <2>3. QED
    BY <2>1, <2>2
<1>6. CASE \A x : Has(x) => Has(x)'
  BY <1>6, NothingLost
<1>7. CASE \E x : Has(x) /\ ~Has(x)'
  <2>1. PICK x : Has(x) /\ ~Has(x)'
    BY <1>7
  <2>2. InRegion \ InRegion' = {pageDir[q]}
    <3>1. x = pageDir[q] /\ x \in InRegion /\ x \notin InRegion'
      BY <1>5, <2>1, RegionByUse, RegionByUseThen
    <3>2. \A y \in InRegion \ InRegion' : y = pageDir[q]
      BY <1>5, RegionByUse, RegionByUseThen
    <3>3. QED
      BY <3>1, <3>2
  <2>3. QED
    BY <2>2 DEF LosesByStep
<1>8. QED
  BY <1>6, <1>7

(* proc_allocBlks: blocks it took, when it is refused or wraps around.     *)
LEMMA AllocLoses ==
    ASSUME MemInv, NEW q \in Procs, NEW addr \in Addresses, NEW len \in Lengths,
           AllocBlks(q, addr, len), fault' = {}
    PROVE  LosesByStep
<1>1. PageUp(addr) \in Nat /\ len \in Nat \ {0} /\ UNCHANGED pageDir
  <2>1. UNCHANGED pageDir
    BY Zenon DEF AllocBlks
  <2>2. QED
    BY <2>1, PageFacts
<1>2. CASE MapSegment(q, PageUp(addr), len, "anon", Outside(len), free)
  <2>1. \A x : Has(x) => Has(x)'
    BY <1>1, <1>2, MapLoses
  <2>2. QED
    BY <2>1, NothingLost
<1>3. ASSUME NEW r \in Store!OnlyFit(free, len),
             MapSegment(q, PageUp(addr), len, "anon", [i \in 0 .. len - 1 |-> r[1] + i],
                        free \ Segment(r[1], len))
      PROVE  LosesByStep
  <2> DEFINE blks == [i \in 0 .. len - 1 |-> r[1] + i]
             rest == free \ Segment(r[1], len)
  <2>1. r[1] \in Nat /\ Segment(r[1], len) \subseteq Blocks
    BY <1>1, RunsAreFree DEF MemInv, TypeOK
  <2>2. \A x : Has(x) => Has(x)' \/ x \in free \ rest
    BY <1>1, <1>3, MapLoses
  <2>3. ret' # -1 /\ ~Wraps(PageUp(addr), len) =>
           \A i \in 0 .. len - 1 : blks[i] \in Blocks => Has(blks[i])'
    BY <1>1, <1>3, MapLoses
  <2>4. \A x \in Segment(r[1], len) : x - r[1] \in 0 .. len - 1 /\ blks[x - r[1]] = x
    BY <1>1, <2>1 DEF Segment
  <2>5. CASE ret' # -1 /\ ~Wraps(PageUp(addr), len)
    <3>1. \A x \in Segment(r[1], len) : Has(x)'
      BY <2>1, <2>3, <2>4, <2>5
    <3>2. QED
      BY <2>2, <3>1, NothingLost
  <2>6. CASE ret' = -1 \/ Wraps(PageUp(addr), len)
    <3>1. InRegion \ InRegion' \subseteq Segment(r[1], len)
      BY <2>2, RegionByUse, RegionByUseThen
    <3>2. QED
      BY <2>6, <3>1 DEF LosesByStep
  <2>7. QED
    BY <2>5, <2>6
<1>4. \A what : ~Fail(what)
  BY DEF Fail
<1>5. CASE \E r \in Store!OnlyFit(free, len) :
              MapSegment(q, PageUp(addr), len, "anon", [i \in 0 .. len - 1 |-> r[1] + i],
                         free \ Segment(r[1], len))
  BY <1>3, <1>5
<1>6. QED
  BY ZenonT(60), <1>2, <1>4, <1>5 DEF AllocBlks

(* Pages that go free their blocks or show none of the region.             *)
LEMMA GivingUpLoses ==
    ASSUME MemInv, NEW q \in Procs, NEW some \in SUBSET Pages, GivenUp(q, some),
           UNCHANGED <<pageDir, tables>>, free \subseteq free',
           \A g \in some : pages[q][g].blk \in Blocks => pages[q][g].blk \in free'
    PROVE  LosesByStep
<1>1. ASSUME NEW p \in Procs, NEW g \in Pages, PageBlks[p][g] \in Blocks
      PROVE  PageBlks'[p][g] = PageBlks[p][g] \/ PageBlks[p][g] \in free'
  BY <1>1 DEF GivenUp, PageBlks
<1>2. \A x : Has(x) => Has(x)'
  BY <1>1 DEF Has, HasBlk
<1>3. QED
  BY <1>2, NothingLost

(* Every step loses nothing, or as it may.                                 *)
LEMMA StepLoses ==
    ASSUME MemInv, Next, fault' = {}
    PROVE  LosesByStep
<1>1. ASSUME NEW q \in Procs, NEW g \in Pages, pages[q][g].kind # "anon"
      PROVE  pages[q][g].blk \notin Blocks
  <2>1. pages[q][g] \in Entries /\ NULL \notin Blocks /\ OUTSIDE \notin Blocks
    BY PageFacts DEF MemInv, TypeOK
  <2>2. QED
    BY <1>1, <2>1 DEF Entries, Absent
<1>2. ASSUME NEW q \in Procs, RemoveProc(q)
      PROVE  LosesByStep
  <2> DEFINE anon == {page \in Pages : pages[q][page].kind = "anon"}
  <2>1. \A what : ~Fail(what)
    BY DEF Fail
  <2>2. /\ free' = free \cup BlksOf(q, anon) \cup TableBlks(q)
        /\ tables' = [tables EXCEPT ![q] = [t \in Tables |-> NULL]]
        /\ pages' = [pages EXCEPT ![q] = [page \in Pages |-> Absent]]
        /\ UNCHANGED pageDir
    BY <1>2, <2>1 DEF RemoveProc
  <2>3. \A p \in Procs : p # q => tables'[p] = tables[p] /\ PageBlks'[p] = PageBlks[p]
    <3>1. \A p \in Procs : p # q => tables'[p] = tables[p] /\ pages'[p] = pages[p]
      BY <2>2 DEF MemInv, TypeOK
    <3>2. QED
      BY <3>1 DEF PageBlks
  <2>4. \A t \in Tables : tables[q][t] \in Blocks => tables[q][t] \in free'
    <3>1. tables[q] \in [Tables -> Blocks \cup {NULL}] /\ NULL \notin Blocks
      BY PageFacts DEF MemInv, TypeOK
    <3>2. \A t \in Tables : tables[q][t] \in Range(tables[q])
      BY <3>1 DEF Range
    <3>3. QED
      BY <2>2, <3>1, <3>2 DEF TableBlks
  <2>5. \A g \in Pages : PageBlks[q][g] \in Blocks => PageBlks[q][g] \in free'
    <3>1. \A g \in anon : PageBlks[q][g] \in BlksOf(q, anon)
      BY DEF BlksOf, PageBlks
    <3>2. \A g \in Pages : g \in anon \/ PageBlks[q][g] \notin Blocks
      BY <1>1 DEF PageBlks
    <3>3. QED
      BY <2>2, <3>1, <3>2
  <2>6. free \subseteq free'
    BY <2>2
  <2>7. \A x : Has(x) => Has(x)'
    <3> HIDE DEF anon
    <3>1. QED
      BY <2>2, <2>3, <2>4, <2>5, <2>6 DEF Has, HasBlk
  <2>8. QED
    BY <2>7, NothingLost
<1>3. ASSUME NEW q \in Procs, NEW addr \in Addresses, NEW len \in Lengths, FreeBlks(q, addr, len)
      PROVE  LosesByStep
  <2> DEFINE gone == OfKind(q, addr, len, "anon")
  <2>1. \A what : ~Fail(what)
    BY DEF Fail
  <2>2. /\ pages' = [pages EXCEPT ![q] = WithoutPages(q, gone)]
        /\ free' = free \cup BlksOf(q, gone)
        /\ UNCHANGED <<pageDir, tables>>
    BY <1>3, <2>1 DEF FreeBlks
  <2>3. gone \in SUBSET Pages /\ \A g \in gone : pages[q][g].blk \in BlksOf(q, gone)
    BY DEF OfKind, BlksOf
  <2> HIDE DEF gone
  <2>4. GivenUp(q, gone)
    BY <2>2, <2>3, GivingUpPages
  <2>5. QED
    BY <2>2, <2>3, <2>4, GivingUpLoses
<1>4. ASSUME NEW q \in Procs, NEW addr \in Addresses, NEW len \in Lengths,
             NEW kind \in {"file", "kernel"}, Unmap(q, addr, len, kind)
      PROVE  LosesByStep
  <2> DEFINE gone == OfKind(q, addr, len, kind)
  <2>1. gone \in SUBSET Pages /\ \A g \in gone : pages[q][g].blk \notin Blocks
    BY <1>1 DEF OfKind
  <2>2. pages' = [pages EXCEPT ![q] = WithoutPages(q, gone)] /\ UNCHANGED <<pageDir, tables, free>>
    BY <1>4 DEF Unmap
  <2> HIDE DEF gone
  <2>3. GivenUp(q, gone)
    BY <2>1, <2>2, GivingUpPages
  <2>4. QED
    BY <2>1, <2>2, <2>3, GivingUpLoses
<1>5. ASSUME NEW q \in Procs, NEW addr \in Addresses, NEW len \in Lengths,
             NEW kind \in {"file", "kernel"}, Map(q, addr, len, kind)
      PROVE  LosesByStep
  <2>1. PageUp(addr) \in Nat /\ len \in Nat \ {0} /\ UNCHANGED pageDir
    BY <1>5, PageFacts DEF Map
  <2>2. MapSegment(q, PageUp(addr), len, kind, Outside(len), free)
    BY <1>5 DEF Map
  <2>3. \A x : Has(x) => Has(x)'
    BY <2>1, <2>2, MapLoses
  <2>4. QED
    BY <2>3, NothingLost
<1>6. CASE Unfollowed
  BY <1>6 DEF Unfollowed, vars
<1>7. QED
  BY <1>2, <1>3, <1>4, <1>5, <1>6, CreateLoses, AllocLoses
    DEF Next, MapFile, MapKernel, UnmapFile, UnmapKernel

(* As long as the allocator keeps track, blocks are lost as page           *)
(* directories of metas that are used again, and by allocations that are   *)
(* refused or wrap around, of the blocks they took only; every other call  *)
(* keeps what the region has.                                              *)
THEOREM LostOnlyThereHolds == Spec => LostOnlyThere
<1>1. MemInv /\ [Next]_vars => [fault' = {} => LosesByStep]_vars
  BY StepLoses
<1>2. QED
  BY <1>1, MemInvariant, PTL DEF Spec, LostOnlyThere
=============================================================================
