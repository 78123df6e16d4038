------------------------------- MODULE AddrSpace -------------------------------
(***************************************************************************)
(* What kern/pmap.c promises its callers, with no page table, link, count  *)
(* or TLB in sight: pages move between the pool, their holders and the     *)
(* address space, and a page returns to the pool exactly when its last     *)
(* mapping goes.  The address space may keep pages of the pool for itself  *)
(* (the page tables), and never gives them back.                           *)
(***************************************************************************)
CONSTANTS
    Page,   \* physical pages
    Avail0, \* the pages in the pool at first, a subset of Page
    VA,     \* the addresses that can be mapped
    Perms,  \* permissions a mapping can carry
    None    \* what an unmapped address maps to

VARIABLES
    avail,    \* the pool
    held,     \* pages allocated and in the hands of a client
    overhead, \* pages the address space keeps for itself
    map,      \* the mapping at each address
    dirty     \* pages that may hold something else than zeroes

absVars == <<avail, held, overhead, map, dirty>>

Entry(pp, perm) == [page |-> pp, perm |-> perm]
MapsTo(m, pp) == \E va \in VA : m[va] # None /\ m[va].page = pp

AbsInit ==
    /\ avail = Avail0
    /\ held = {}
    /\ overhead = {}
    /\ map = [va \in VA |-> None]
    /\ dirty = Page

Alloc(p, zero) ==
    /\ p \in avail
    /\ avail' = avail \ {p}
    /\ held' = held \cup {p}
    /\ dirty' = IF zero THEN dirty \ {p} ELSE dirty
    /\ UNCHANGED <<overhead, map>>

Free(p) ==
    /\ p \in held
    /\ held' = held \ {p}
    /\ avail' = avail \cup {p}
    /\ UNCHANGED <<overhead, map, dirty>>

\* The address space takes the pages T, none or one, clean.
Keep(T) ==
    /\ T \subseteq avail
    /\ overhead' = overhead \cup T
    /\ dirty' = dirty \ T

\* The page that changing the mapping at va leaves without any mapping.
Released(va) ==
    {p \in Page : map[va] # None /\ map[va].page = p /\ ~MapsTo(map', p)}

Grow(T) ==
    /\ Keep(T)
    /\ avail' = avail \ T
    /\ UNCHANGED <<held, map>>

Map(pp, va, perm, T) ==
    /\ pp \in held \/ MapsTo(map, pp)
    /\ map[va] # None => T = {}
    /\ Keep(T)
    /\ map' = [map EXCEPT ![va] = Entry(pp, perm)]
    /\ avail' = (avail \ T) \cup Released(va)
    /\ held' = held \ {pp}

Unmap(va) ==
    /\ map[va] # None
    /\ map' = [map EXCEPT ![va] = None]
    /\ avail' = avail \cup Released(va)
    /\ UNCHANGED <<held, overhead, dirty>>

\* A store dirties the page mapped there at this moment and no other.
Write(va) ==
    /\ map[va] # None
    /\ dirty' = dirty \cup {map[va].page}
    /\ UNCHANGED <<avail, held, overhead, map>>

WriteHeld(p) ==
    /\ p \in held
    /\ dirty' = dirty \cup {p}
    /\ UNCHANGED <<avail, held, overhead, map>>

AbsNext ==
    \/ \E p \in avail, zero \in {TRUE, FALSE} : Alloc(p, zero)
    \/ \E p \in held : Free(p) \/ WriteHeld(p)
    \/ \E p \in avail : Grow({p})
    \/ \E pp \in Page, va \in VA, perm \in Perms :
         Map(pp, va, perm, {}) \/ \E t \in avail : Map(pp, va, perm, {t})
    \/ \E va \in VA : Unmap(va) \/ Write(va)

AbsSpec == AbsInit /\ [][AbsNext]_absVars
===============================================================================
