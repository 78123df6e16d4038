---------------------------- MODULE PmapRefinement ----------------------------
(***************************************************************************)
(* The operations of Pmap keep the promises of AddrSpace: the pool is the  *)
(* free list, the overhead the page tables, the mapping at an address its  *)
(* page table entry.  Loading and dropping translations changes nothing.   *)
(***************************************************************************)
EXTENDS Pmap

Dirty == {p \in Page : \E x \in PTXs : mem[p][x] = Junk}

Abs == INSTANCE AddrSpace WITH
    Avail0   <- Dynamic,
    None     <- NoPTE,
    avail    <- Range(free),
    overhead <- PageTables,
    map      <- [va \in VA |-> Pte(va)],
    dirty    <- Dirty

(***************************************************************************)
(* Every behaviour of the code is one the abstract address space allows.   *)
(* In particular a page goes back to the pool in the step that removes its *)
(* last mapping and in no other, a zeroed allocation is clean, and a store *)
(* reaches only the page mapped at its address in the page table, whatever *)
(* the TLB holds.                                                          *)
(***************************************************************************)
ImplementsAddrSpace == Abs!AbsSpec
===============================================================================
