-------------------------------- MODULE MCPmap --------------------------------
(***************************************************************************)
(* Pmap for TLC: three pages in page_init's list, one page of the I/O      *)
(* hole, and two perm arguments that differ in PTE_W, the flag a store     *)
(* depends on.                                                             *)
(***************************************************************************)
EXTENDS PmapRefinement, TLC

CONSTANTS p0, p1, p2, p3

MCPages == {p0, p1, p2, p3}
MCList  == <<p1, p2, p3>>
MCPerms == {{}, {"PTE_W"}}
===============================================================================
