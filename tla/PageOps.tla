--------------------------------- MODULE PageOps ---------------------------------
(***************************************************************************)
(* The page operations of kern/pmap.c as mem_init and its self-tests call  *)
(* them, one after the other: operators from a machine to the machine they *)
(* leave.  Pmap has the same operations as actions beside a processor that *)
(* never waits.  A machine m is a record:                                  *)
(*   ref, list  pp_ref of each page, and the pages page_free_list chains   *)
(*   pde        kern_pgdir[], an entry for each directory index            *)
(*   mem        the words of each physical page                            *)
(*   cr3        the page directory in use                                  *)
(*   tlb        pairs of a linear page and the entry found for it        *)
(*   got        what the last operation returned                           *)
(*   panics, faults   an assertion or panic stopped it, or a page fault    *)
(* and others that SelfTests adds.  Addresses are page numbers.            *)
(***************************************************************************)
EXTENDS Integers, Sequences, SequencesExt, Functions

CONSTANTS
    NPTENTRIES,      \* entries of a page table, and pages in PTSIZE
    KERNBASE,        \* linear page number of KERNBASE
    KernTables       \* page tables from KERNBASE to the top of memory

PTSIZE == NPTENTRIES
VATop  == KERNBASE + KernTables * PTSIZE

PDX(va) == va \div NPTENTRIES
PTX(va) == va % NPTENTRIES

NULL     == -1
E_NO_MEM == 4

\* An entry, or any word of a page, is 0 or <<page, permissions>>.
Zero       == <<>>
Fill(b)    == <<-1 - b, {}>> \* four bytes b, which are no entry here
Page(word) == [x \in 0 .. NPTENTRIES - 1 |-> word]

Uint16(n) == n % 65536

\* The entry of a linear page.
Table(m, va) == m.pde[PDX(va)][1]
Pte(m, va)   == IF m.pde[PDX(va)] = Zero THEN Zero ELSE m.mem[Table(m, va)][PTX(va)]

\* The physical pages the kernel can reach at KERNBASE + p.
Reachable(m, p) == IF m.cr3 = "entry_pgdir" THEN p < PTSIZE
                   ELSE KERNBASE + p < VATop /\ Pte(m, KERNBASE + p) # Zero

Touch(m, p) == [m EXCEPT !.faults = @ \/ ~Reachable(m, p)]

memset(m, p, word) == [Touch(m, p) EXCEPT !.mem[p] = Page(word)]

page_alloc(m, zero) ==
    IF m.list = <<>> THEN [m EXCEPT !.got = NULL]
    ELSE LET p == Head(m.list)
             cleared == IF zero THEN memset(m, p, Zero) ELSE m
         IN  [cleared EXCEPT !.list = Tail(@), !.ref[p] = 0, !.got = p]

\* Every page on the list but the last has a link that is not NULL.
page_free(m, p) ==
    IF m.ref[p] # 0 \/ p \in Range(Front(m.list)) THEN [m EXCEPT !.panics = TRUE]
    ELSE [m EXCEPT !.list = <<p>> \o @]

page_decref(m, p) ==
    LET d == [m EXCEPT !.ref[p] = Uint16(@ - 1)]
    IN  IF d.ref[p] = 0 THEN page_free(d, p) ELSE d

\* Returns the page table, with an entry for va in it, or NULL.
pgdir_walk(m, va, create) ==
    IF m.pde[PDX(va)] # Zero THEN [m EXCEPT !.got = Table(m, va)]
    ELSE LET a == IF create THEN page_alloc(m, TRUE) ELSE [m EXCEPT !.got = NULL]
         IN  IF a.got = NULL THEN a
             ELSE [a EXCEPT !.pde[PDX(va)] = <<a.got, {"PTE_U", "PTE_W"}>>,
                            !.ref[a.got] = Uint16(@ + 1)]

\* A store to the entry of va, whose table exists.
SetPte(m, va, word) ==
    [Touch(m, Table(m, va)) EXCEPT !.mem[Table(m, va)][PTX(va)] = word]

tlb_invalidate(m, va) == [m EXCEPT !.tlb = {e \in @ : e[1] # va}]

page_lookup(m, va) ==
    LET w == pgdir_walk(m, va, FALSE)
    IN  [w EXCEPT !.got = IF w.got = NULL \/ Pte(m, va) = Zero THEN NULL ELSE Pte(m, va)[1]]

page_remove(m, va) ==
    LET l == page_lookup(m, va)
    IN  IF l.got = NULL THEN l
        ELSE tlb_invalidate(SetPte(page_decref(l, l.got), va, Zero), va)

page_insert(m, p, va, perm) ==
    LET w       == pgdir_walk(m, va, TRUE)
        old     == Pte(w, va)
        removed == IF old = Zero THEN w ELSE tlb_invalidate(page_remove(w, va), va)
    IN  IF w.got = NULL THEN [w EXCEPT !.got = -E_NO_MEM]
        ELSE IF old # Zero /\ old[1] = p
        THEN [SetPte(w, va, <<p, perm>>) EXCEPT !.got = 0]
        ELSE [SetPte(removed, va, <<p, perm>>) EXCEPT !.got = 0, !.ref[p] = Uint16(@ + 1)]

\* The processor finds the entry of va in its TLB or in the tables, and keeps
\* it for as long as it may.  With CR0_WP set a write needs PTE_W.
Translated(m, va, writes) ==
    LET cached == {e \in m.tlb : e[1] = va}
        entry  == IF cached = {} THEN Pte(m, va) ELSE (CHOOSE e \in cached : TRUE)[2]
    IN  IF entry = Zero \/ (writes /\ "PTE_W" \notin entry[2])
        THEN [m EXCEPT !.got = NULL, !.faults = TRUE]
        ELSE [m EXCEPT !.got = entry[1], !.tlb = @ \cup {<<va, entry>>}]
==================================================================================
