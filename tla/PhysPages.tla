------------------------------ MODULE PhysPages ------------------------------
(***************************************************************************)
(* The physical page allocator of kern/pmap.c: the array `pages` of        *)
(* struct PageInfo and the singly linked free list threaded through it.    *)
(*                                                                         *)
(* A page is named by its PageInfo (page2pa and pa2page are the bijection  *)
(* between the two); the array is kept as two functions, one per field.    *)
(* The module holds the list operations page_alloc, page_free and          *)
(* page_decref are made of; Pmap gives them their callers.                 *)
(***************************************************************************)
EXTENDS Integers, Sequences, Functions

CONSTANTS
    Page,       \* the physical pages of the machine, pages[0 .. npages-1]
    NULL,       \* the null struct PageInfo *
    RefMod,     \* pp_ref is a uint16_t: 2^16, scaled down for TLC
    FreeList0,  \* the list page_init leaves, from page_free_list to its end
    IOHole      \* the pages page_init marks with pp_ref = -1

ASSUME NullIsNoPage == NULL \notin Page
ASSUME RefModSize   == RefMod \in Nat /\ RefMod > 1
ASSUME FreeList0OK  == FreeList0 \in Seq(Page) /\ IsInjective(FreeList0)
ASSUME IOHoleInUse  == IOHole \subseteq Page \ Range(FreeList0)

VARIABLES
    pp_ref,         \* pages[i].pp_ref
    pp_link,        \* pages[i].pp_link
    page_free_list, \* the head of the list
    free            \* history: the pages the links chain up, head first

listVars == <<pp_link, page_free_list, free>>
pageVars == <<pp_ref, listVars>>

\* The pages page_alloc hands out, at one time or another.
Dynamic == Range(FreeList0)

\* pp_ref++ and --pp_ref on a uint16_t.
Inc(n) == (n + 1) % RefMod
Dec(n) == (n - 1) % RefMod

-----------------------------------------------------------------------------
FirstOf(s) == IF s = <<>> THEN NULL ELSE s[1]

\* The links of a page on the list s: its successor, or NULL at the end.
LinkAt(s, i) == IF i = Len(s) THEN NULL ELSE s[i + 1]

\* Mutant: the -1 of the I/O hole kept as a signed count.
page_init_Signed ==
    /\ free = FreeList0
    /\ page_free_list = FirstOf(FreeList0)
    /\ pp_link \in [Page -> Page \cup {NULL}]
    /\ \A i \in 1 .. Len(FreeList0) : pp_link[FreeList0[i]] = LinkAt(FreeList0, i)
    /\ \A p \in Page \ Dynamic : pp_link[p] = NULL
    /\ pp_ref = [p \in Page |-> IF p \in Dynamic THEN 0
                                ELSE IF p \in IOHole THEN -1 ELSE 1]

\* What page_init leaves behind: free pages chained with pp_ref 0, the I/O
\* hole with pp_ref -1, the other pages in use with pp_ref 1.
page_init ==
    /\ free = FreeList0
    /\ page_free_list = FirstOf(FreeList0)
    /\ pp_link \in [Page -> Page \cup {NULL}]
    /\ \A i \in 1 .. Len(FreeList0) : pp_link[FreeList0[i]] = LinkAt(FreeList0, i)
    /\ \A p \in Page \ Dynamic : pp_link[p] = NULL
    /\ pp_ref = [p \in Page |-> IF p \in Dynamic THEN 0
                                ELSE IF p \in IOHole THEN RefMod - 1 ELSE 1]

\* Mutant: page_alloc leaves the link of the page it returns.
TakePage_KeepsLink ==
    /\ page_free_list' = pp_link[page_free_list]
    /\ free' = Tail(free)
    /\ UNCHANGED pp_link

\* page_alloc's list surgery: unlink the head and clear its own link.
TakePage ==
    /\ page_free_list' = pp_link[page_free_list]
    /\ pp_link' = [pp_link EXCEPT ![page_free_list] = NULL]
    /\ free' = Tail(free)

\* page_free's test for a page that cannot be freed.
FreePanics(p, ref) == pp_link[p] # NULL \/ ref # 0

\* Mutant: page_free moves the head without linking the old one.
GivePage_DropsList(p) ==
    /\ page_free_list' = p
    /\ free' = <<p>> \o free
    /\ UNCHANGED pp_link

\* page_free's list surgery: push p.
GivePage(p) ==
    /\ page_free_list' = p
    /\ pp_link' = [pp_link EXCEPT ![p] = page_free_list]
    /\ free' = <<p>> \o free

\* page_decref frees the page when the count it has just stored is zero.
LastRef(p) == Dec(pp_ref[p]) = 0

\* The count after page_decref is 0 when page_free tests it, so only the
\* link can make that page_free panic.
DecrefPanics(p) == LastRef(p) /\ FreePanics(p, 0)

-----------------------------------------------------------------------------
PhysTypeOK ==
    /\ pp_ref \in [Page -> 0 .. RefMod - 1]
    /\ pp_link \in [Page -> Page \cup {NULL}]
    /\ page_free_list \in Page \cup {NULL}
    /\ free \in Seq(Page)

(***************************************************************************)
(* The list starting at page_free_list visits each free page exactly once, *)
(* ends in NULL, holds only pages page_init released, and leaves pp_link   *)
(* NULL in every page off the list.  page_free's panic test, page_alloc's  *)
(* NULL test and the whole of check_page_free_list rest on this.           *)
(***************************************************************************)
FreeListWellFormed ==
    /\ IsInjective(free)
    /\ Range(free) \subseteq Dynamic
    /\ page_free_list = FirstOf(free)
    /\ \A i \in 1 .. Len(free) : pp_link[free[i]] = LinkAt(free, i)
    /\ \A p \in Page \ Range(free) : pp_link[p] = NULL
=============================================================================
