------------------------------ MODULE MCSystem ------------------------------
(***************************************************************************)
(* Pages of four bytes and pointer blocks of two pointers, so that file0   *)
(* and most programs have three blocks, two of them behind the first       *)
(* pointer block.  The programs have two segments with memory behind the   *)
(* second; a segment that does not start with a page, and one of memory    *)
(* only, in a file of two blocks, which can give one back beside another   *)
(* free one, so that the allocator may lose track; a segment where the     *)
(* kernel's own memory goes; and a header that is refused.                 *)
(***************************************************************************)
EXTENDS Syscalls

MCSizes == 1 .. 28
MCBlocks == 1 .. 28
MCMetas == 0 .. 6
Seg(off, vaddr, filesz, memsz) ==
    [off |-> off, vaddr |-> vaddr, filesz |-> filesz, memsz |-> memsz]
Prog(bytes, supported, segs) == [size |-> bytes, supported |-> supported, segs |-> segs]
MCPrograms ==
    {Prog(9, TRUE, <<Seg(0, 8, 4, 4), Seg(4, 12, 2, 6)>>),
     Prog(5, TRUE, <<Seg(2, 10, 2, 2), Seg(0, 16, 0, 4)>>),
     Prog(9, TRUE, <<Seg(0, 0, 4, 4)>>),
     Prog(9, FALSE, <<Seg(0, 8, 4, 4)>>)}
MCNames   == {"demo", "a", "b"}
MCTargets == {2, 6}
MCLengths == {4, 8}
MCOffsets == {0, 1}
=============================================================================
