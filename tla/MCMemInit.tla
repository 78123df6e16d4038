------------------------------- MODULE MCMemInit -------------------------------
(***************************************************************************)
(* MemInit on machines of up to 32 pages: 16 entries to a page table, so   *)
(* that entry_pgdir reaches half of the largest machine, eight PageInfos   *)
(* to a page, and two page tables' worth of addresses from KERNBASE up.    *)
(***************************************************************************)
EXTENDS MemInit

Computer(base, ext, ext16) == [base |-> base, ext |-> ext, ext16 |-> ext16]

\* Machines the array, the kernel and the self-tests' pages fit in, with and
\* without memory that the 64 KB count covers, and base memory up to and
\* below the hole, up to a machine that fills the window at KERNBASE.
MCMachines ==
         {Computer(base, ext, ext16) : base \in {20, 23, 24}, ext \in {64, 66}, ext16 \in 1 .. 2}
    \cup {Computer(base, ext, 0) : base \in {20, 23, 24}, ext \in 60 .. 96}
===============================================================================
