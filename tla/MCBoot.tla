--------------------------------- MODULE MCBoot ---------------------------------
(***************************************************************************)
(* Kernels of two segments as the linker lays them out: each starts at the *)
(* same place in a sector in memory and in the file, and the second starts *)
(* in a later sector of memory than the one the first ends in, unless the  *)
(* file goes on where memory does.  Sectors of two bytes.                  *)
(***************************************************************************)
EXTENDS Boot

Seg(start, size, off) == [p_pa |-> start, p_memsz |-> size, p_offset |-> off]

\* The second segment starts gap bytes into a sector of its own.
Kernel(start1, size1, gap, size2, shift) ==
    LET start2 == RoundDown(start1 + size1 + SECTSIZE - 1) + gap
    IN <<Seg(start1, size1, start1 - 6), Seg(start2, size2, start2 - 6 + shift)>>

\* The second segment goes on where the first ends, in memory and in the file.
Contiguous(start1, size1, size2) ==
    <<Seg(start1, size1, start1 - 6), Seg(start1 + size1, size2, start1 + size1 - 6)>>

MCImages ==
    {Kernel(start1, size1, gap, size2, shift) :
        start1 \in 8 .. 9, size1 \in 1 .. 4, gap \in {0, 1, 2}, size2 \in 1 .. 3,
        shift \in {-2, 0, 2}}
    \cup {Contiguous(start1, size1, size2) :
            start1 \in 8 .. 9, size1 \in 1 .. 4, size2 \in 1 .. 3}
================================================================================
