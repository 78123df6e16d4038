-------------------------------- MODULE MemInit --------------------------------
(***************************************************************************)
(* mem_init of kern/pmap.c: from the memory sizes in the CMOS to the       *)
(* kernel's own page directory, one step per stage, and one per page in    *)
(* boot_map_region's loop.  Until lcr3 the processor still translates      *)
(* through entry_pgdir, which reaches the first PTSIZE of memory only, and *)
(* there is no handler for a page fault.                                   *)
(*                                                                         *)
(* Physical and linear addresses are page numbers.  Sizes in bytes appear  *)
(* where the code divides them.  The sizes are CONSTANTS, so that TLC can  *)
(* take a small machine with the proportions of the real one.              *)
(***************************************************************************)
EXTENDS SelfTests

CONSTANTS
    Machines,        \* CMOS readings [base, ext : KB, ext16 : blocks of 64 KB]
    PageKB,          \* PGSIZE / 1024
    KB1M, KB16M,     \* 1 * 1024 and 16 * 1024
    KB64,            \* 64
    PGSIZE,          \* bytes in a page
    SizeofPageInfo,  \* sizeof(struct PageInfo)
    SizeofPtr,       \* sizeof(struct PageInfo *)
    IOPHYSMEM,       \* first page of the I/O hole
    EXTPHYSMEM,      \* first page of extended memory
    BootStack,       \* the page bootstack lies in, in the kernel image
    KernEnd,         \* the first page after the kernel image: ROUNDUP(end)
    KSTKSIZE         \* pages of kernel stack

\* inc/memlayout.h, in pages.
KSTACKTOP == KERNBASE
MMIOLIM   == KSTACKTOP - PTSIZE
MMIOBASE  == MMIOLIM - PTSIZE
ULIM      == MMIOBASE
UVPT      == ULIM - PTSIZE
UPAGES    == UVPT - PTSIZE

VARIABLES
    cmos,           \* the machine
    pc,             \* the stage of mem_init, or how it ended
    npages, npages_basemem,
    nextfree,       \* boot_alloc's static, as a page
    kern_pgdir,     \* the page of the page directory
    pages,          \* the first page of the PageInfo array
    pp_ref,         \* pp_ref of pages[0 .. npages-1], once initialised
    page_free_list, \* the pages the links chain up
    pde,            \* kern_pgdir[]
    mem,            \* the words of each page of memory
    cr3,            \* the page directory in use
    i               \* boot_map_region's loop counter

initVars == <<cmos, npages, npages_basemem, nextfree, kern_pgdir, pages>>
listVars == <<pp_ref, page_free_list>>
mapVars  == <<pde, mem, i>>
vars     == <<pc, initVars, listVars, mapVars, cr3>>

Old == 171 \* what memory holds before the kernel writes to it

Init ==
    /\ cmos \in Machines
    /\ pc = "detect"
    /\ npages = 0 /\ npages_basemem = 0
    /\ nextfree = KernEnd
    /\ kern_pgdir = 0 /\ pages = 0
    /\ pp_ref = <<>> /\ page_free_list = <<>>
    /\ pde = [d \in 0 .. VATop \div NPTENTRIES - 1 |-> Zero]
    /\ mem = [p \in 0 .. VATop - KERNBASE - 1 |-> Page(Fill(Old))]
    /\ cr3 = "entry_pgdir"
    /\ i = 0

-----------------------------------------------------------------------------
\* The machine a page operation is called on.
Machine == [ref |-> pp_ref, list |-> page_free_list, pde |-> pde, mem |-> mem,
            cr3 |-> cr3, tlb |-> {}, got |-> 0, panics |-> FALSE, faults |-> FALSE,
            pp |-> [x \in {"pp", "pp0", "pp1", "pp2"} |-> NULL], fl |-> <<>>, nfree |-> 0]

Reached(p) == Reachable(Machine, p)
Faults(S) == \E p \in S : ~Reached(p)

ArrayPages(bytes) == (bytes + PGSIZE - 1) \div PGSIZE \* pages that bytes span
PagesEnd == pages + ArrayPages(npages * SizeofPageInfo)

At(stage) == pc = stage

\* The stage ends in `next`, or in the first that is true of its `failures`,
\* <<condition, "panic" or "fault">> in the order of the code.  Nothing runs
\* after one, so how much of the stage was done by then is not kept.
GoOn(next, failures) ==
    LET failed == SelectSeq(failures, LAMBDA f : f[1])
    IN  pc' = IF failed = <<>> THEN next ELSE failed[1][2]

Panic(condition) == <<condition, "panic">>
Fault(condition) == <<condition, "fault">>

i386_detect_memory ==
    LET ext16mem == cmos.ext16 * KB64
        totalmem == IF ext16mem # 0 THEN KB16M + ext16mem
                    ELSE IF cmos.ext # 0 THEN KB1M + cmos.ext
                    ELSE cmos.base
    IN /\ At("detect")
       /\ npages' = totalmem \div PageKB
       /\ npages_basemem' = cmos.base \div PageKB
       /\ pc' = "boot_alloc(kern_pgdir)"
       /\ UNCHANGED <<cmos, nextfree, kern_pgdir, pages, listVars, mapVars, cr3>>

\* boot_alloc(n) for n bytes: the pages it takes, and when it panics.
ReqPages(n) == n \div PGSIZE
boot_alloc_Panics(n) == ReqPages(n) > npages

\* kern_pgdir, cleared and entered into itself at UVPT.
AllocPgdir ==
    /\ At("boot_alloc(kern_pgdir)")
    /\ GoOn("boot_alloc(pages)",
            <<Panic(boot_alloc_Panics(PGSIZE)), Fault(~Reached(nextfree))>>)
    /\ kern_pgdir' = nextfree
    /\ nextfree' = nextfree + ReqPages(PGSIZE)
    /\ pde' = [pde EXCEPT ![PDX(UVPT)] = <<nextfree, {"PTE_U"}>>]
    /\ UNCHANGED <<cmos, npages, npages_basemem, pages, listVars, mem, i, cr3>>

\* The array gets the size of npages pointers, whose remainder boot_alloc
\* drops, and no test that it lies in memory.
ArrayBytes == SizeofPtr * npages

AllocPages ==
    /\ At("boot_alloc(pages)")
    /\ GoOn("page_init",
            <<Panic(boot_alloc_Panics(ArrayBytes)),
              Fault(Faults(nextfree .. nextfree + ArrayPages(ArrayBytes) - 1))>>)
    /\ pages' = nextfree
    /\ nextfree' = nextfree + ReqPages(ArrayBytes)
    /\ UNCHANGED <<cmos, npages, npages_basemem, kern_pgdir, listVars, mapVars, cr3>>

\* Mutant: extended memory is free from where boot_alloc stopped.
FirstFreeExt_BootAlloc == nextfree

\* The first page after the kernel that page_init frees: its loop marks
\* pages in use until it passes &pages[npages].
FirstFreeExt == PagesEnd

\* S, a set of pages, highest first: page_init pushes them in order.
Descending(S) == SelectSeq([k \in 1 .. npages |-> npages - k], LAMBDA p : p \in S)

\* pp_ref = -1 for the I/O hole, in a uint16_t.
HoleRef == 65535

\* page2kva panics at the first page past the array if there is none.
page_init ==
    LET inUse == EXTPHYSMEM .. FirstFreeExt - 1
        hole  == npages_basemem .. EXTPHYSMEM - 1
        freed == (1 .. npages - 1) \ (hole \cup inUse)
    IN /\ At("page_init")
       /\ GoOn("check_page_free_list(1)",
               <<Fault(Faults(pages .. PagesEnd - 1)), Panic(FirstFreeExt >= npages)>>)
       /\ pp_ref' = [p \in 0 .. npages - 1 |->
                       IF p \in freed THEN 0 ELSE IF p \in hole THEN HoleRef ELSE 1]
       /\ page_free_list' = Descending(freed)
       /\ UNCHANGED <<initVars, mapVars, cr3>>

-----------------------------------------------------------------------------
Low(p) == PDX(p) = 0

\* Mutant: the list is left in page_init's order.
LowFirst_Unsorted(s) == s

\* Mutant: the tail of the low pages is not linked to the others.
LowFirst_NotJoined(s) == SelectSeq(s, Low)

\* The low pages of a list, then the others, each in their order.
LowFirst(s) == SelectSeq(s, Low) \o SelectSeq(s, LAMBDA p : ~Low(p))

\* What check_page_free_list asserts of the list s.
ListReasonable(s) ==
    /\ \A p \in Range(s) :
          /\ p \notin {0, IOPHYSMEM, EXTPHYSMEM - 1, EXTPHYSMEM}
          /\ p < EXTPHYSMEM \/ p >= nextfree
    /\ \E p \in Range(s) : p < EXTPHYSMEM
    /\ \E p \in Range(s) : p >= EXTPHYSMEM

\* check_page_free_list(only_low_memory) writes into the pages it covers.
CheckFreeList(stage, onlyLow, next) ==
    LET s == IF onlyLow THEN LowFirst(page_free_list) ELSE page_free_list
        covered == {p \in Range(s) : onlyLow => Low(p)}
    IN /\ At(stage)
       /\ GoOn(next, <<Panic(s = <<>>), Fault(Faults(covered)), Panic(~ListReasonable(s))>>)
       /\ page_free_list' = s
       /\ mem' = [p \in DOMAIN mem |-> IF p \in covered THEN Page(Fill(151)) ELSE mem[p]]
       /\ UNCHANGED <<initVars, pp_ref, pde, i, cr3>>

\* What the operations made of the machine.
Becomes(m) == /\ pp_ref' = m.ref /\ page_free_list' = m.list
              /\ pde' = m.pde /\ mem' = m.mem

SelfTest(stage, test, next) ==
    /\ At(stage)
    /\ \E m \in {Run(Machine, test)} : Becomes(m) /\ GoOn(next, <<Panic(m.panics), Fault(m.faults)>>)
    /\ UNCHANGED <<initVars, i, cr3>>

CheckPageAlloc == SelfTest("check_page_alloc", check_page_alloc, "check_page")
CheckPage      == SelfTest("check_page", check_page, "boot_map_region(UPAGES)")
CheckInstalled == SelfTest("check_page_installed_pgdir", check_page_installed_pgdir, "done")

-----------------------------------------------------------------------------
\* One round of boot_map_region's loop for the page pair (va + i, pa + i).
\* Out of memory pgdir_walk returns NULL, and the store through it faults.
MapPage(va, pa, perm) ==
    LET w == pgdir_walk(Machine, va + i, TRUE)
        m == IF w.got = NULL THEN [w EXCEPT !.faults = TRUE] ELSE SetPte(w, va + i, <<pa + i, perm>>)
    IN  IF m.faults THEN pc' = "fault" /\ UNCHANGED <<listVars, mapVars>>
        ELSE Becomes(m) /\ i' = i + 1 /\ UNCHANGED pc

boot_map_region(stage, va, bytes, pa, perm, next) ==
    /\ At(stage)
    /\ IF i < bytes \div PGSIZE THEN MapPage(va, pa, perm)
       ELSE pc' = next /\ i' = 0 /\ UNCHANGED <<listVars, pde, mem>>
    /\ UNCHANGED <<initVars, cr3>>

MapPages ==
    boot_map_region("boot_map_region(UPAGES)", UPAGES, npages * SizeofPageInfo,
                    pages, {"PTE_U", "PTE_W"}, "boot_map_region(KSTACK)")

\* Mutant: the stack region starts where its guard region should.
MapStack_NoGuard ==
    boot_map_region("boot_map_region(KSTACK)", KSTACKTOP - PTSIZE,
                    KSTKSIZE * PGSIZE, BootStack, {"PTE_W"}, "boot_map_region(KERNBASE)")

MapStack ==
    boot_map_region("boot_map_region(KSTACK)", KSTACKTOP - KSTKSIZE,
                    KSTKSIZE * PGSIZE, BootStack, {"PTE_W"}, "boot_map_region(KERNBASE)")

\* Mutant: all of memory mapped with the permissions of UPAGES.
MapKernel_User ==
    boot_map_region("boot_map_region(KERNBASE)", KERNBASE,
                    (VATop - KERNBASE) * PGSIZE, 0, {"PTE_U", "PTE_W"}, "check_kern_pgdir")

MapKernel ==
    boot_map_region("boot_map_region(KERNBASE)", KERNBASE,
                    (VATop - KERNBASE) * PGSIZE, 0, {"PTE_W"}, "check_kern_pgdir")

-----------------------------------------------------------------------------
\* check_va2pa(kern_pgdir, va) == pa
Mapped(va) == IF va < VATop THEN Pte(Machine, va) ELSE Zero
MapsTo(va, pa) == Mapped(va) # Zero /\ Mapped(va)[1] = pa

PagesMapped == \A k \in 0 .. ArrayPages(npages * SizeofPageInfo) - 1 :
                  MapsTo(UPAGES + k, pages + k)
MemoryMapped == \A k \in 0 .. npages - 1 : MapsTo(KERNBASE + k, k)
StackMapped ==
    /\ \A k \in 0 .. KSTKSIZE - 1 :
          MapsTo(KSTACKTOP - KSTKSIZE + k, BootStack + k)
    /\ Mapped(KSTACKTOP - PTSIZE) = Zero
DirectoryShape ==
    \A d \in DOMAIN pde :
        /\ pde[d] # Zero <=> \/ d \in {PDX(UVPT), PDX(KSTACKTOP - 1), PDX(UPAGES)}
                          \/ d >= PDX(KERNBASE)
        /\ d >= PDX(KERNBASE) => "PTE_W" \in pde[d][2]

check_kern_pgdir ==
    /\ At("check_kern_pgdir")
    /\ GoOn("lcr3", <<Panic(~(PagesMapped /\ MemoryMapped /\ StackMapped /\ DirectoryShape))>>)
    /\ UNCHANGED <<initVars, listVars, mapVars, cr3>>

LoadCR3 ==
    /\ At("lcr3")
    /\ cr3' = "kern_pgdir"
    /\ pc' = "check_page_free_list(0)"
    /\ UNCHANGED <<initVars, listVars, mapVars>>

Next ==
    \/ i386_detect_memory
    \/ AllocPgdir
    \/ AllocPages
    \/ page_init
    \/ CheckFreeList("check_page_free_list(1)", TRUE, "check_page_alloc")
    \/ CheckPageAlloc
    \/ CheckPage
    \/ MapPages
    \/ MapStack
    \/ MapKernel
    \/ check_kern_pgdir
    \/ LoadCR3
    \/ CheckFreeList("check_page_free_list(0)", FALSE, "check_page_installed_pgdir")
    \/ CheckInstalled

\* Interrupts are off and nothing else runs: the processor goes on.
Spec == Init /\ [][Next]_vars /\ WF_vars(Next)

-----------------------------------------------------------------------------
Tables == {pde[d][1] : d \in {e \in DOMAIN pde : pde[e] # Zero}}

\* Every variable stays in its range.
TypeOK ==
    /\ cmos \in Machines
    /\ {npages, npages_basemem, nextfree, kern_pgdir, pages, i} \subseteq Nat
    /\ \A p \in DOMAIN pp_ref : pp_ref[p] \in 0 .. 65535
    /\ Range(page_free_list) \subseteq 0 .. npages - 1
    /\ Tables \subseteq DOMAIN mem
    /\ \A p \in DOMAIN mem : DOMAIN mem[p] = 0 .. NPTENTRIES - 1
    /\ cr3 \in {"entry_pgdir", "kern_pgdir"}

ListExists == pp_ref # <<>>

(***************************************************************************)
(* No page the kernel lives on is ever on the free list: page 0, the I/O   *)
(* hole, the image and stack, the page directory, every byte of the        *)
(* PageInfo array, and the page tables.  boot_alloc gives the array fewer  *)
(* pages than it spans, so this rests on the bound of page_init's loop.    *)
(***************************************************************************)
KernelPagesNotFree ==
    /\ TypeOK
    /\ ListExists =>
        Range(page_free_list) \cap
            (   {0} \cup npages_basemem .. EXTPHYSMEM - 1
              \cup EXTPHYSMEM .. KernEnd - 1 \cup {kern_pgdir}
              \cup pages .. PagesEnd - 1
              \cup Tables) = {}

(***************************************************************************)
(* What the page operations start from (Init of Pmap): each page is on the *)
(* list once with pp_ref 0, or off it and counted, whatever page tables    *)
(* boot_map_region and the self-tests took and gave back; and in the end   *)
(* nothing is mapped below UPAGES.                                         *)
(***************************************************************************)
CountsMatchList ==
    ListExists =>
        /\ IsInjective(page_free_list)
        /\ \A p \in 0 .. npages - 1 : pp_ref[p] = 0 <=> p \in Range(page_free_list)
        /\ pc = "done" => \A d \in 0 .. PDX(UPAGES) - 1 : pde[d] = Zero

(***************************************************************************)
(* mem_init never touches memory the page directory in use does not map:   *)
(* before lcr3, page tables and tested pages all come from the first       *)
(* PTSIZE of memory, because check_page_free_list(1) moves those pages to  *)
(* the front of the list.                                                  *)
(***************************************************************************)
NoFault == pc # "fault"

(***************************************************************************)
(* From the moment cr3 is loaded every page of memory is at KERNBASE + its *)
(* address, so the code the processor runs stays where it was, and the     *)
(* page below the kernel stack's region is not mapped.                     *)
(***************************************************************************)
KernelMapComplete ==
    cr3 = "kern_pgdir" =>
        /\ \A p \in 0 .. npages - 1 : Mapped(KERNBASE + p) = <<p, {"PTE_W"}>>
        /\ \A va \in KSTACKTOP - PTSIZE .. KSTACKTOP - KSTKSIZE - 1 : Mapped(va) = Zero

(***************************************************************************)
(* mem_init finishes on every machine whose array of PageInfos fills its   *)
(* pages.  On any other it ends in a panic: lines 708-710 of kern/pmap.c   *)
(* ask for the array's last page at UPAGES, rounded up, and                *)
(* boot_map_region, given the size as it is, rounds down (line 414).       *)
(***************************************************************************)
ArrayIsWhole == (npages * SizeofPageInfo) % PGSIZE = 0
Ended == \/ pc = "done" /\ ArrayIsWhole
         \/ pc = "panic" /\ ~ArrayIsWhole
Boots == <>Ended
=============================================================================
