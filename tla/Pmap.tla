--------------------------------- MODULE Pmap ---------------------------------
(***************************************************************************)
(* The virtual memory operations of kern/pmap.c on the two-level page      *)
(* table rooted at kern_pgdir, as their callers see them after mem_init:   *)
(* page_alloc, page_free, pgdir_walk, page_insert and page_remove, over    *)
(* the allocator of PhysPages.  The kernel runs on one processor with      *)
(* interrupts off, so an operation is one step; the processor's TLB loads  *)
(* and drops entries on its own between any two of them.                   *)
(*                                                                         *)
(* A linear address is the pair of its page directory index and its page   *)
(* table index.  A page holds one word per page table index: a page table  *)
(* entry, zero (NoPTE), or the data some store left there (Junk).          *)
(***************************************************************************)
EXTENDS PhysPages, FiniteSets

CONSTANTS
    PDXs, PTXs,  \* the page directory and page table indices in use
    Perms,       \* the perm arguments in use, sets of the flags PTE_W, PTE_U
    NoPTE,       \* the zero page table entry
    Junk,        \* a word that is not a page table entry
    TLBSize      \* how many translations the processor can cache

ASSUME IndicesFinite == IsFiniteSet(PDXs) /\ IsFiniteSet(PTXs)
ASSUME PTXsNonEmpty  == PTXs # {}
ASSUME PermsAreFlags == Perms \subseteq SUBSET {"PTE_W", "PTE_U"}
ASSUME TLBSizeNat    == TLBSize \in Nat

VA  == PDXs \X PTXs
PTE == [page : Page, perm : Perms]

ASSUME WordsDistinct == NoPTE # Junk /\ NoPTE \notin PTE /\ Junk \notin PTE

VARIABLES
    kern_pgdir, \* the page directory: the page table of each index, or NULL
    mem,        \* the contents of every physical page
    tlb,        \* the translation the processor has cached for each address
    held,       \* history: pages page_alloc returned, not mapped or freed yet
    panicked    \* panicstr # NULL: _panic never returns

mmuVars == <<kern_pgdir, mem, tlb>>
vars == <<pageVars, mmuVars, held, panicked>>

ZeroPage == [x \in PTXs |-> NoPTE]
JunkPage == [x \in PTXs |-> Junk]

-----------------------------------------------------------------------------
Table(va) == kern_pgdir[va[1]]

\* *pgdir_walk(kern_pgdir, va, 0), NoPTE standing for no table as well.
Pte(va) == IF Table(va) = NULL THEN NoPTE ELSE mem[Table(va)][va[2]]

IsMapped(va)  == Pte(va) # NoPTE
Mappings(p)   == {va \in VA : IsMapped(va) /\ Pte(va).page = p}
Directory(p)  == {d \in PDXs : kern_pgdir[d] = p}
PageTables    == {p \in Page : Directory(p) # {}}
MappedPages   == {p \in Page : Mappings(p) # {}}

page_lookup(va) == IF IsMapped(va) THEN Pte(va).page ELSE NULL

\* A store of one word, and invlpg(va).
SetPte(m, t, va, pte) == [m EXCEPT ![t][va[2]] = pte]
tlb_invalidate_Never(va) == UNCHANGED tlb \* mutant
tlb_invalidate(va) == tlb' = [tlb EXCEPT ![va] = NoPTE]

-----------------------------------------------------------------------------
\* mem_init hands over with whatever the loader and the BIOS left in memory.
Init ==
    /\ page_init
    /\ kern_pgdir = [d \in PDXs |-> NULL]
    /\ mem = [p \in Page |-> JunkPage]
    /\ tlb = [va \in VA |-> NoPTE]
    /\ held = {}
    /\ panicked = FALSE

\* Mutant: the memset comes after page_free_list has moved on.
page_alloc_ZeroesNext(zero) ==
    /\ page_free_list # NULL
    /\ TakePage
    /\ pp_ref' = [pp_ref EXCEPT ![page_free_list] = 0]
    /\ mem' = IF zero /\ page_free_list' # NULL
              THEN [mem EXCEPT ![page_free_list'] = ZeroPage] ELSE mem
    /\ held' = held \cup {page_free_list}
    /\ UNCHANGED <<kern_pgdir, tlb, panicked>>

\* page_alloc(alloc_flags).  With the list empty it returns NULL and
\* changes nothing.
page_alloc(zero) ==
    /\ page_free_list # NULL
    /\ TakePage
    /\ pp_ref' = [pp_ref EXCEPT ![page_free_list] = 0]
    /\ mem' = IF zero THEN [mem EXCEPT ![page_free_list] = ZeroPage] ELSE mem
    /\ held' = held \cup {page_free_list}
    /\ UNCHANGED <<kern_pgdir, tlb, panicked>>

\* page_free(pp) called by a client.
page_free(pp) ==
    IF FreePanics(pp, pp_ref[pp])
    THEN panicked' = TRUE /\ UNCHANGED <<pageVars, mmuVars, held>>
    ELSE /\ GivePage(pp)
         /\ held' = held \ {pp}
         /\ UNCHANGED <<pp_ref, mmuVars, panicked>>

\* Mutant: pgdir_walk allocates without ALLOC_ZERO.
InstallTable_NotZeroed(va, pte) ==
    /\ Table(va) = NULL
    /\ page_free_list # NULL
    /\ TakePage
    /\ kern_pgdir' = [kern_pgdir EXCEPT ![va[1]] = page_free_list]
    /\ mem' = SetPte(mem, page_free_list, va, pte)

\* pgdir_walk(kern_pgdir, va, 1) finding no table: the head of the free list
\* becomes one, zeroed and counted once.  The word at va is then set to pte:
\* pgdir_walk itself leaves it zero.
InstallTable(va, pte) ==
    /\ Table(va) = NULL
    /\ page_free_list # NULL
    /\ TakePage
    /\ kern_pgdir' = [kern_pgdir EXCEPT ![va[1]] = page_free_list]
    /\ mem' = SetPte([mem EXCEPT ![page_free_list] = ZeroPage],
                     page_free_list, va, pte)

\* pgdir_walk(kern_pgdir, va, 1).  Without a free page it returns NULL and
\* changes nothing, and so it does when the table exists.
pgdir_walk(va) ==
    /\ InstallTable(va, NoPTE)
    /\ pp_ref' = [pp_ref EXCEPT ![page_free_list] = 1]
    /\ UNCHANGED <<tlb, held, panicked>>

\* page_insert where pgdir_walk has to make the page table.
InsertInNewTable(pp, va, perm) ==
    /\ InstallTable(va, [page |-> pp, perm |-> perm])
    /\ pp_ref' = [pp_ref EXCEPT ![page_free_list] = 1, ![pp] = Inc(@)]
    /\ held' = held \ {pp}
    /\ UNCHANGED <<tlb, panicked>>

\* page_insert where nothing is mapped at va.
InsertInEmptySlot(pp, va, perm) ==
    /\ Table(va) # NULL /\ ~IsMapped(va)
    /\ mem' = SetPte(mem, Table(va), va, [page |-> pp, perm |-> perm])
    /\ pp_ref' = [pp_ref EXCEPT ![pp] = Inc(@)]
    /\ held' = held \ {pp}
    /\ UNCHANGED <<listVars, kern_pgdir, tlb, panicked>>

\* Mutants: re-inserting a page counts it again; it removes the page first,
\* as one code path for every case would, and frees it on the way.
InsertSamePage_Counts(pp, va, perm) ==
    /\ IsMapped(va) /\ Pte(va).page = pp
    /\ mem' = SetPte(mem, Table(va), va, [page |-> pp, perm |-> perm])
    /\ pp_ref' = [pp_ref EXCEPT ![pp] = Inc(@)]
    /\ UNCHANGED <<listVars, kern_pgdir, tlb, held, panicked>>

InsertSamePage_RemovesFirst(pp, va, perm) ==
    /\ IsMapped(va) /\ Pte(va).page = pp
    /\ mem' = SetPte(mem, Table(va), va, [page |-> pp, perm |-> perm])
    /\ IF LastRef(pp) THEN GivePage(pp) ELSE UNCHANGED listVars
    /\ UNCHANGED <<pp_ref, kern_pgdir, tlb, held, panicked>>

\* page_insert of the page that is already mapped at va: the entry gets the
\* new permissions and page_insert returns at once.
InsertSamePage(pp, va, perm) ==
    /\ IsMapped(va) /\ Pte(va).page = pp
    /\ mem' = SetPte(mem, Table(va), va, [page |-> pp, perm |-> perm])
    /\ UNCHANGED <<pageVars, kern_pgdir, tlb, held, panicked>>

\* page_remove(kern_pgdir, va) of the page mapped at va, the entry left as
\* pte and the counts as ref.  A panic inside page_decref comes before the
\* entry is touched.
Unmap(va, pte, ref) ==
    LET old == page_lookup(va) IN
    IF DecrefPanics(old)
    THEN /\ panicked' = TRUE
         /\ pp_ref' = [pp_ref EXCEPT ![old] = Dec(@)]
         /\ UNCHANGED <<listVars, mem, tlb>>
    ELSE /\ IF LastRef(old) THEN GivePage(old) ELSE UNCHANGED listVars
         /\ pp_ref' = ref
         /\ mem' = SetPte(mem, Table(va), va, pte)
         /\ tlb_invalidate(va)
         /\ UNCHANGED panicked

\* page_insert where another page is mapped at va: page_remove, then the
\* new entry and its count.
InsertOverOther(pp, va, perm) ==
    /\ IsMapped(va) /\ Pte(va).page # pp
    /\ Unmap(va, [page |-> pp, perm |-> perm],
             [pp_ref EXCEPT ![Pte(va).page] = Dec(@), ![pp] = Inc(@)])
    /\ held' = IF panicked' THEN held ELSE held \ {pp}
    /\ UNCHANGED kern_pgdir

page_insert(pp, va, perm) ==
    \/ InsertInNewTable(pp, va, perm)
    \/ InsertInEmptySlot(pp, va, perm)
    \/ InsertSamePage(pp, va, perm)
    \/ InsertOverOther(pp, va, perm)

page_remove(va) ==
    /\ IsMapped(va)
    /\ Unmap(va, NoPTE, [pp_ref EXCEPT ![Pte(va).page] = Dec(@)])
    /\ UNCHANGED <<kern_pgdir, held>>

-----------------------------------------------------------------------------
(***************************************************************************)
(* The processor.  It may cache the translation of any present entry at    *)
(* any time (speculatively too) and drop any cached one.  An access uses   *)
(* the cached translation when there is one and walks the tables           *)
(* otherwise; mem_init sets CR0_WP, so a store needs PTE_W even in the     *)
(* kernel.  A store through va, or through the direct map into a page the  *)
(* kernel holds, leaves data in the page.                                  *)
(***************************************************************************)
Cached == {va \in VA : tlb[va] # NoPTE}

Translation(va) == IF va \in Cached THEN tlb[va] ELSE Pte(va)

TLBFill(va) ==
    /\ IsMapped(va) /\ va \notin Cached
    /\ Cardinality(Cached) < TLBSize
    /\ tlb' = [tlb EXCEPT ![va] = Pte(va)]
    /\ UNCHANGED <<pageVars, kern_pgdir, mem, held, panicked>>

TLBEvict(va) ==
    /\ va \in Cached
    /\ tlb_invalidate(va)
    /\ UNCHANGED <<pageVars, kern_pgdir, mem, held, panicked>>

Store(va) ==
    /\ Translation(va) # NoPTE
    /\ "PTE_W" \in Translation(va).perm
    /\ mem' = [mem EXCEPT ![Translation(va).page] = JunkPage]
    /\ UNCHANGED <<pageVars, kern_pgdir, tlb, held, panicked>>

DirectStore(p) ==
    /\ p \in held
    /\ mem' = [mem EXCEPT ![p] = JunkPage]
    /\ UNCHANGED <<pageVars, kern_pgdir, tlb, held, panicked>>

-----------------------------------------------------------------------------
(***************************************************************************)
(* The callers.  A client frees only a page it got from page_alloc and has *)
(* not mapped (page_free: "should only be called when pp->pp_ref reaches   *)
(* 0"), maps only a page it holds or one already mapped, and maps no page  *)
(* more often than pp_ref can count.                                       *)
(***************************************************************************)
MayMap(pp) == pp \in held \/ pp \in MappedPages
Countable(pp) == pp_ref[pp] < RefMod - 1

Operations ==
    \/ \E zero \in BOOLEAN : page_alloc(zero)
    \/ \E pp \in held : page_free(pp)
    \/ \E va \in VA : pgdir_walk(va)
    \/ \E va \in VA : page_remove(va)

Processor ==
    \/ \E va \in VA : TLBFill(va)
    \/ \E va \in VA : TLBEvict(va)
    \/ \E va \in VA : Store(va)
    \/ \E p \in held : DirectStore(p)

Insertions ==
    \E pp \in Page :
        /\ MayMap(pp) /\ Countable(pp)
        /\ \E va \in VA, perm \in Perms : page_insert(pp, va, perm)

Next == ~panicked /\ (Operations \/ Processor \/ Insertions)

Spec == Init /\ [][Next]_vars

-----------------------------------------------------------------------------
\* Every variable stays in the range its C declaration gives it.
TypeOK ==
    /\ PhysTypeOK
    /\ kern_pgdir \in [PDXs -> Page \cup {NULL}]
    /\ mem \in [Page -> [PTXs -> PTE \cup {NoPTE, Junk}]]
    /\ tlb \in [VA -> PTE \cup {NoPTE}]
    /\ held \subseteq Page
    /\ panicked \in BOOLEAN

(***************************************************************************)
(* pp_ref of a page the allocator manages is the number of page table      *)
(* entries and page directory entries that point to it: what               *)
(* inc/memlayout.h:179-182 defines it to be.                               *)
(***************************************************************************)
RefCountExact ==
    \A p \in Dynamic :
        pp_ref[p] = Cardinality(Mappings(p)) + Cardinality(Directory(p))

(***************************************************************************)
(* Each page the allocator manages has one use at a time: it is free, held *)
(* by the client that allocated it, mapped, or the page table of a single  *)
(* directory entry; none is lost and no other page is ever in circulation. *)
(* What page_free, page_decref and page_remove must agree on.              *)
(***************************************************************************)
OneUseEach ==
    /\ Range(free) \cap held = {}
    /\ (Range(free) \cup held) \cap (PageTables \cup MappedPages) = {}
    /\ PageTables \cap MappedPages = {}
    /\ Range(free) \cup held \cup PageTables \cup MappedPages = Dynamic
    /\ \A p \in PageTables : \E d \in PDXs : Directory(p) = {d}

(***************************************************************************)
(* A page table never holds anything but page table entries: page_alloc    *)
(* zeroes it before pgdir_walk installs it, and no store, not even through *)
(* a cached translation, reaches it afterwards.                            *)
(***************************************************************************)
PageTablesIntact ==
    \A p \in PageTables, x \in PTXs : mem[p][x] # Junk

(***************************************************************************)
(* A cached translation leads to the page that the page table maps at that *)
(* address now, so no access reaches a page that was unmapped or replaced  *)
(* there: page_remove and page_insert invalidate in time.                  *)
(***************************************************************************)
TLBFrameCoherent ==
    \A va \in Cached : IsMapped(va) /\ Pte(va).page = tlb[va].page

(***************************************************************************)
(* kern/pmap.c:432 "The TLB must be invalidated if a page was formerly     *)
(* present at 'va'": a cached translation allows what the entry allows.    *)
(***************************************************************************)
TLBPermCoherent ==
    \A va \in Cached : IsMapped(va) => tlb[va].perm = Pte(va).perm

(***************************************************************************)
(* page_free never panics while clients free only pages they hold: the     *)
(* pages page_decref gives up are off the list and have a NULL link.       *)
(***************************************************************************)
NoPanic == ~panicked
=============================================================================
