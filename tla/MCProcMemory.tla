---------------------------- MODULE MCProcMemory ----------------------------
(***************************************************************************)
(* Two processes with three page tables of two pages.  The last table is   *)
(* never present, so four pages can be used.  Segments of two pages fill   *)
(* the first table, cross from it into the second (from page 1), cross     *)
(* into the last (from page 3), which ends in a fault, or reach the end of *)
(* the address space (from page 4); the address 5 is not aligned.          *)
(***************************************************************************)
EXTENDS ProcMemory

MCProcs     == {"p", "q"}
MCBlocks    == 1 .. 5
MCAddresses == {0, 2, 5, 8}
MCLengths   == {2}
=============================================================================
