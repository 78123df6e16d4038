------------------------------ MODULE PmapProofs ------------------------------
(***************************************************************************)
(* The invariants of Pmap, for any number of pages, addresses, permissions *)
(* and translations, and any width of pp_ref.  The invariants the runs     *)
(* check are inductive only together: a count is exact because a free page *)
(* is not mapped, a free page is not mapped because page_decref frees at   *)
(* an exact count of zero, and an entry stays an entry because no store    *)
(* reaches a page table, which takes both the disjoint uses of pages and   *)
(* a TLB that leads to pages still mapped.                                 *)
(* The last part shows, on the strength of that invariant, that each       *)
(* action is one action of AddrSpace, or changes nothing AddrSpace sees.   *)
(***************************************************************************)
EXTENDS PmapRefinement, TLAPS, SequenceTheorems, FiniteSetTheorems

(***************************************************************************)
(* First, what the list operations of PhysPages return and preserve.  The  *)
(* proofs about pp_link use the history variable `free`: it names the      *)
(* pages the links chain up, so no induction along the list is needed.     *)
(*                                                                         *)
(* pp_ref arithmetic: a count in range stays in range, and does not wrap   *)
(* while it is below its maximum, or above zero.                           *)
(***************************************************************************)
LEMMA CountInRange ==
    ASSUME NEW n \in 0 .. RefMod - 1
    PROVE  Inc(n) \in 0 .. RefMod - 1 /\ Dec(n) \in 0 .. RefMod - 1
BY RefModSize DEF Inc, Dec

LEMMA IncExact ==
    ASSUME NEW n \in 0 .. RefMod - 1, n < RefMod - 1
    PROVE  Inc(n) = n + 1
BY RefModSize DEF Inc

LEMMA DecExact ==
    ASSUME NEW n \in 0 .. RefMod - 1, n > 0
    PROVE  Dec(n) = n - 1
BY RefModSize DEF Dec

(***************************************************************************)
(* The pages of a list are its head and the pages of its tail, and an      *)
(* injective list does not meet its head again.                            *)
(***************************************************************************)
LEMMA TailOfList ==
    ASSUME NEW s \in Seq(Page), IsInjective(s), s # <<>>
    PROVE  /\ Tail(s) \in Seq(Page) /\ Len(Tail(s)) = Len(s) - 1
           /\ \A i \in 1 .. Len(s) - 1 : Tail(s)[i] = s[i + 1]
           /\ IsInjective(Tail(s))
           /\ Range(Tail(s)) = Range(s) \ {s[1]}
           /\ s[1] \in Range(s)
<1>1. /\ Tail(s) \in Seq(Page) /\ Len(Tail(s)) = Len(s) - 1
      /\ \A i \in 1 .. Len(s) - 1 : Tail(s)[i] = s[i + 1]
      /\ Len(s) \in Nat /\ Len(s) > 0
      /\ DOMAIN s = 1 .. Len(s) /\ DOMAIN Tail(s) = 1 .. Len(s) - 1
  BY HeadTailProperties, EmptySeq, LenProperties
<1>2. IsInjective(Tail(s))
  BY <1>1 DEF IsInjective
<1>3. Range(Tail(s)) \subseteq Range(s) \ {s[1]}
  BY <1>1 DEF IsInjective, Range
<1>4. ASSUME NEW p \in Range(s) \ {s[1]} PROVE p \in Range(Tail(s))
  <2>1. PICK i \in 1 .. Len(s) : s[i] = p /\ i # 1
    BY <1>1 DEF Range
  <2>2. i - 1 \in 1 .. Len(s) - 1 /\ Tail(s)[i - 1] = p
    BY <1>1, <2>1
  <2> QED BY <1>1, <2>2 DEF Range
<1>5. s[1] \in Range(s)
  BY <1>1 DEF Range
<1> QED BY <1>1, <1>2, <1>3, <1>4, <1>5

LEMMA ConsOfList ==
    ASSUME NEW s \in Seq(Page), NEW p \in Page
    PROVE  /\ <<p>> \o s \in Seq(Page) /\ Len(<<p>> \o s) = Len(s) + 1
           /\ (<<p>> \o s)[1] = p
           /\ \A i \in 2 .. Len(s) + 1 : (<<p>> \o s)[i] = s[i - 1]
           /\ Range(<<p>> \o s) = Range(s) \cup {p}
           /\ IsInjective(s) /\ p \notin Range(s) => IsInjective(<<p>> \o s)
<1> DEFINE c == <<p>> \o s
<1>1. /\ c \in Seq(Page) /\ Len(c) = Len(s) + 1
      /\ c[1] = p
      /\ \A i \in 2 .. Len(s) + 1 : c[i] = s[i - 1]
      /\ Len(s) \in Nat
  BY ConcatProperties, LenProperties
<1>2. DOMAIN s = 1 .. Len(s) /\ DOMAIN c = 1 .. Len(s) + 1
  BY <1>1, LenProperties
<1>3. \A i \in 1 .. Len(s) : i + 1 \in 2 .. Len(s) + 1 /\ c[i + 1] = s[i]
  BY <1>1
<1> HIDE DEF c
<1>4. Range(c) \subseteq Range(s) \cup {p}
  BY <1>1, <1>2 DEF Range
<1>5. Range(s) \subseteq Range(c)
  BY <1>1, <1>2, <1>3 DEF Range
<1>6. p \in Range(c)
  BY <1>1, <1>2 DEF Range
<1>7. ASSUME IsInjective(s), p \notin Range(s) PROVE IsInjective(c)
  <2>1. \A i \in 2 .. Len(s) + 1 : i - 1 \in 1 .. Len(s) /\ c[i] = s[i - 1] /\ c[i] # p
    BY <1>1, <1>2, <1>7 DEF Range
  <2>2. SUFFICES ASSUME NEW i \in 1 .. Len(s) + 1, NEW j \in 1 .. Len(s) + 1,
                        c[i] = c[j]
                 PROVE  i = j
    BY <1>2 DEF IsInjective
  <2>3. CASE i = 1 \/ j = 1
    BY <1>1, <2>1, <2>2, <2>3
  <2>4. CASE i # 1 /\ j # 1
    <3>1. i \in 2 .. Len(s) + 1 /\ j \in 2 .. Len(s) + 1
      BY <1>1, <2>4
    <3>2. i - 1 = j - 1
      BY <1>2, <1>7, <2>1, <2>2, <3>1 DEF IsInjective
    <3> QED BY <1>1, <3>1, <3>2
  <2> QED BY <2>3, <2>4
<1> QED BY <1>1, <1>4, <1>5, <1>6, <1>7 DEF c

(***************************************************************************)
(* The list of page_init is well formed.                                   *)
(***************************************************************************)
LEMMA InitList ==
    ASSUME page_init
    PROVE  PhysTypeOK /\ FreeListWellFormed /\ Range(free) = Dynamic
<1>1. Len(FreeList0) \in Nat /\ DOMAIN FreeList0 = 1 .. Len(FreeList0)
      /\ FreeList0 \in [1 .. Len(FreeList0) -> Page]
  BY FreeList0OK, LenProperties
<1>2. FirstOf(FreeList0) \in Page \cup {NULL}
  BY <1>1, FreeList0OK, EmptySeq DEF FirstOf
<1>3. PhysTypeOK
  BY <1>2, FreeList0OK, RefModSize DEF PhysTypeOK, page_init
<1>4. FreeListWellFormed
  BY <1>1, FreeList0OK DEF FreeListWellFormed, page_init, Dynamic
<1> QED BY <1>3, <1>4 DEF page_init, Dynamic

(***************************************************************************)
(* page_alloc's surgery takes the first page off a well-formed list.       *)
(***************************************************************************)
LEMMA TakeFromList ==
    ASSUME PhysTypeOK, FreeListWellFormed, page_free_list # NULL, TakePage
    PROVE  /\ FreeListWellFormed'
           /\ pp_link' \in [Page -> Page \cup {NULL}]
           /\ page_free_list' \in Page \cup {NULL}
           /\ free' \in Seq(Page)
           /\ page_free_list \in Range(free)
           /\ Range(free') = Range(free) \ {page_free_list}
<1>1. free \in Seq(Page) /\ free # <<>> /\ page_free_list = free[1]
  BY DEF FreeListWellFormed, FirstOf, PhysTypeOK
<1>2. Len(free) \in Nat /\ Len(free) > 0 /\ DOMAIN free = 1 .. Len(free)
  BY <1>1, EmptySeq, LenProperties
<1>3. /\ free' \in Seq(Page) /\ Len(free') = Len(free) - 1
      /\ \A i \in 1 .. Len(free) - 1 : free'[i] = free[i + 1]
      /\ IsInjective(free')
      /\ Range(free') = Range(free) \ {free[1]}
      /\ free[1] \in Range(free)
  BY <1>1, TailOfList DEF FreeListWellFormed, TakePage
<1>4. /\ pp_link' \in [Page -> Page \cup {NULL}]
      /\ page_free_list' \in Page \cup {NULL}
  BY <1>1, <1>2, ElementOfSeq DEF TakePage, PhysTypeOK
<1>5. page_free_list' = FirstOf(free')
  <2>1. CASE Len(free) = 1
    <3>1. free' = <<>>
      BY <1>2, <1>3, <2>1, EmptySeq
    <3>2. pp_link[free[1]] = NULL
      BY <1>2, <2>1 DEF FreeListWellFormed, LinkAt
    <3> QED BY <1>1, <3>1, <3>2 DEF FirstOf, TakePage
  <2>2. CASE Len(free) > 1
    <3>1. 1 \in 1 .. Len(free) - 1 /\ 1 \in 1 .. Len(free) /\ 1 # Len(free)
      BY <1>2, <2>2
    <3>2. free'[1] = free[1 + 1]
      BY <1>3, <3>1
    <3>3. free' # <<>>
      BY <1>2, <1>3, <2>2, EmptySeq
    <3>4. pp_link[free[1]] = LinkAt(free, 1)
      BY <3>1 DEF FreeListWellFormed
    <3> QED BY <1>1, <3>1, <3>2, <3>3, <3>4 DEF FirstOf, TakePage, LinkAt
  <2> QED BY <1>2, <2>1, <2>2
<1>6. ASSUME NEW i \in 1 .. Len(free') PROVE pp_link'[free'[i]] = LinkAt(free', i)
  <2>1. i \in 1 .. Len(free) - 1 /\ i + 1 \in 2 .. Len(free)
    BY <1>2, <1>3
  <2>2. free'[i] = free[i + 1] /\ free[i + 1] \in Page /\ free[i + 1] # free[1]
    BY <1>1, <1>2, <1>3, <2>1, ElementOfSeq DEF FreeListWellFormed, IsInjective
  <2>3. pp_link'[free'[i]] = LinkAt(free, i + 1)
    BY <1>1, <1>2, <2>1, <2>2 DEF FreeListWellFormed, TakePage, PhysTypeOK
  <2>4. CASE i = Len(free) - 1
    BY <1>2, <1>3, <2>3, <2>4 DEF LinkAt
  <2>5. CASE i # Len(free) - 1
    <3>1. i + 1 \in 1 .. Len(free) - 1 /\ i + 1 # Len(free)
      <4>1. \A n \in Nat : \A j \in 1 .. n - 1 :
               j # n - 1 => j + 1 \in 1 .. n - 1 /\ j + 1 # n
        OBVIOUS
      <4> QED BY <1>2, <2>1, <2>5, <4>1, Zenon
    <3>3. i # Len(free')
      BY <1>3, <2>5
    <3>2. free'[i + 1] = free[(i + 1) + 1]
      BY <1>3, <3>1
    <3> QED BY <2>3, <3>1, <3>2, <3>3 DEF LinkAt
  <2> QED BY <2>4, <2>5
<1>7. \A p \in Page \ Range(free') : pp_link'[p] = NULL
  BY <1>1, <1>3 DEF FreeListWellFormed, TakePage, PhysTypeOK
<1> QED
  BY <1>1, <1>3, <1>4, <1>5, <1>6, <1>7 DEF FreeListWellFormed

(***************************************************************************)
(* page_free's surgery puts a page that is off the list in front of it.    *)
(***************************************************************************)
LEMMA GiveToList ==
    ASSUME PhysTypeOK, FreeListWellFormed,
           NEW p \in Dynamic \ Range(free), GivePage(p)
    PROVE  /\ FreeListWellFormed'
           /\ pp_link' \in [Page -> Page \cup {NULL}]
           /\ page_free_list' \in Page \cup {NULL}
           /\ free' \in Seq(Page)
           /\ Range(free') = Range(free) \cup {p}
<1> USE DEF GivePage, PhysTypeOK
<1>1. p \in Page
  BY FreeList0OK, LenProperties DEF Dynamic, Range
<1>2. Len(free) \in Nat /\ DOMAIN free = 1 .. Len(free)
  BY LenProperties
<1>3. /\ free' \in Seq(Page) /\ Len(free') = Len(free) + 1
      /\ free'[1] = p
      /\ \A i \in 2 .. Len(free) + 1 : free'[i] = free[i - 1]
      /\ Range(free') = Range(free) \cup {p}
      /\ IsInjective(free')
  BY <1>1, ConsOfList DEF FreeListWellFormed
<1>4. /\ pp_link' \in [Page -> Page \cup {NULL}]
      /\ page_free_list' \in Page \cup {NULL}
  BY <1>1
<1>5. page_free_list' = FirstOf(free')
  BY <1>2, <1>3, EmptySeq DEF FirstOf
<1>6. ASSUME NEW i \in 1 .. Len(free') PROVE pp_link'[free'[i]] = LinkAt(free', i)
  <2>1. CASE i = 1
    <3>1. pp_link'[free'[i]] = FirstOf(free)
      BY <1>1, <1>3, <2>1 DEF FreeListWellFormed
    <3>2. CASE free = <<>>
      BY <1>2, <1>3, <2>1, <3>1, <3>2, EmptySeq DEF FirstOf, LinkAt
    <3>3. CASE free # <<>>
      BY <1>2, <1>3, <2>1, <3>1, <3>3, EmptySeq DEF FirstOf, LinkAt
    <3> QED BY <3>2, <3>3
  <2>2. CASE i # 1
    <3>1. i - 1 \in 1 .. Len(free) /\ i \in 2 .. Len(free) + 1
      BY <1>2, <1>3, <2>2
    <3>2. free'[i] = free[i - 1] /\ free[i - 1] \in Page /\ free[i - 1] # p
      BY <1>2, <1>3, <3>1, ElementOfSeq DEF Range
    <3>3. pp_link'[free'[i]] = LinkAt(free, i - 1)
      BY <1>1, <3>1, <3>2 DEF FreeListWellFormed
    <3> QED BY <1>2, <1>3, <3>1, <3>3 DEF LinkAt
  <2> QED BY <2>1, <2>2
<1>7. Range(free') \subseteq Dynamic
  BY <1>3 DEF FreeListWellFormed
<1>8. \A q \in Page \ Range(free') : pp_link'[q] = NULL
  BY <1>1, <1>3 DEF FreeListWellFormed
<1> QED
  BY <1>3, <1>4, <1>5, <1>6, <1>7, <1>8 DEF FreeListWellFormed

-----------------------------------------------------------------------------
(***************************************************************************)
(* The inductive invariant of Pmap.                                        *)
(***************************************************************************)
IInv ==
    /\ TypeOK
    /\ FreeListWellFormed
    /\ OneUseEach
    /\ RefCountExact
    /\ PageTablesIntact
    /\ TLBFrameCoherent
    /\ NoPanic

\* The step leaves pte at va and every other entry as it was.
PteChange(va, pte) ==
    \A wa \in VA : Pte(wa)' = IF wa = va THEN pte ELSE Pte(wa)

-----------------------------------------------------------------------------
(***************************************************************************)
(* The finite sets the counts are taken of.                                *)
(***************************************************************************)
LEMMA MappingsFinite ==
    \A p : /\ IsFiniteSet(Mappings(p))  /\ Cardinality(Mappings(p)) \in Nat
           /\ IsFiniteSet(Directory(p)) /\ Cardinality(Directory(p)) \in Nat
<1>1. IsFiniteSet(VA) /\ IsFiniteSet(PDXs)
  BY IndicesFinite, FS_Product DEF VA
<1> SUFFICES ASSUME NEW p
             PROVE  /\ IsFiniteSet(Mappings(p))  /\ Cardinality(Mappings(p)) \in Nat
                    /\ IsFiniteSet(Directory(p)) /\ Cardinality(Directory(p)) \in Nat
  OBVIOUS
<1>2. Mappings(p) \in SUBSET VA /\ Directory(p) \in SUBSET PDXs
  BY DEF Mappings, Directory
<1>3. IsFiniteSet(Mappings(p)) /\ IsFiniteSet(Directory(p))
  BY <1>1, <1>2, FS_Subset
<1> QED BY <1>3, FS_CardinalityType

(***************************************************************************)
(* What the invariant says of the entries: they are entries, each          *)
(* directory entry has a table of its own, and the tables and the mapped   *)
(* pages are dynamic pages in no other use.                                *)
(***************************************************************************)
LEMMA EntryTypes ==
    ASSUME TypeOK, PageTablesIntact
    PROVE  /\ \A va \in VA : Table(va) \in Page \cup {NULL}
           /\ \A va \in VA : Pte(va) \in PTE \cup {NoPTE}
           /\ \A va \in VA : va[1] \in PDXs /\ va[2] \in PTXs /\ va = <<va[1], va[2]>>
<1> SUFFICES ASSUME NEW va \in VA
             PROVE  /\ Table(va) \in Page \cup {NULL}
                    /\ Pte(va) \in PTE \cup {NoPTE}
                    /\ va[1] \in PDXs /\ va[2] \in PTXs /\ va = <<va[1], va[2]>>
  OBVIOUS
<1>1. va[1] \in PDXs /\ va[2] \in PTXs /\ va = <<va[1], va[2]>>
  BY DEF VA
<1>2. Table(va) \in Page \cup {NULL}
  BY <1>1 DEF TypeOK, Table
<1>3. CASE Table(va) = NULL
  BY <1>1, <1>2, <1>3 DEF Pte
<1>4. CASE Table(va) # NULL
  <2>1. Table(va) \in PageTables
    BY <1>1, <1>2, <1>4 DEF PageTables, Directory, Table
  <2>2. mem[Table(va)][va[2]] \in PTE \cup {NoPTE}
    BY <1>1, <1>2, <1>4, <2>1 DEF TypeOK, PageTablesIntact
  <2> QED BY <1>1, <1>2, <1>4, <2>2 DEF Pte
<1> QED BY <1>3, <1>4

LEMMA DynamicPages ==
    ASSUME OneUseEach
    PROVE  /\ Dynamic \subseteq Page
           /\ Range(free) \subseteq Dynamic /\ held \subseteq Dynamic
           /\ PageTables \subseteq Dynamic /\ MappedPages \subseteq Dynamic
<1>1. Dynamic \subseteq Page
  BY FreeList0OK, LenProperties DEF Dynamic, Range
<1> QED BY <1>1 DEF OneUseEach

LEMMA TablesDistinct ==
    ASSUME OneUseEach,
           NEW d \in PDXs, NEW e \in PDXs,
           kern_pgdir[d] = kern_pgdir[e], kern_pgdir[d] \in Page
    PROVE  d = e
<1>1. d \in Directory(kern_pgdir[d]) /\ e \in Directory(kern_pgdir[d])
  BY DEF Directory
<1>2. kern_pgdir[d] \in PageTables
  BY <1>1 DEF PageTables
<1> QED BY <1>1, <1>2 DEF OneUseEach

-----------------------------------------------------------------------------
(***************************************************************************)
(* What the memory writes of the operations do to the entries.  A write    *)
(* outside the page tables changes none; a word of an installed table is   *)
(* the entry of one address; a new table, zeroed, adds one entry.          *)
(***************************************************************************)
LEMMA OtherPageWritten ==
    ASSUME TypeOK, PageTablesIntact, NEW p \in Page \ PageTables,
           UNCHANGED kern_pgdir,
           \A q \in Page \ {p} : mem'[q] = mem[q]
    PROVE  \A va \in VA : Pte(va)' = Pte(va)
<1> SUFFICES ASSUME NEW va \in VA PROVE Pte(va)' = Pte(va)
  OBVIOUS
<1>1. Table(va) \in Page \cup {NULL} /\ va[1] \in PDXs /\ Table(va)' = Table(va)
  BY EntryTypes DEF Table
<1>2. Table(va) # NULL => Table(va) # p
  BY <1>1 DEF PageTables, Directory, Table
<1> QED BY <1>1, <1>2 DEF Pte

LEMMA EntryWritten ==
    ASSUME TypeOK, PageTablesIntact, OneUseEach,
           NEW va \in VA, Table(va) # NULL, NEW pte,
           UNCHANGED kern_pgdir, mem' = SetPte(mem, Table(va), va, pte)
    PROVE  PteChange(va, pte)
<1> SUFFICES ASSUME NEW wa \in VA
             PROVE  Pte(wa)' = IF wa = va THEN pte ELSE Pte(wa)
  BY DEF PteChange
<1>1. /\ Table(va) \in Page /\ Table(wa) \in Page \cup {NULL}
      /\ Table(wa)' = Table(wa) /\ Table(va)' = Table(va)
  BY EntryTypes DEF Table
<1>2. va[1] \in PDXs /\ va[2] \in PTXs /\ wa[1] \in PDXs /\ wa[2] \in PTXs
      /\ va = <<va[1], va[2]>> /\ wa = <<wa[1], wa[2]>>
  BY EntryTypes
<1>3. mem \in [Page -> [PTXs -> PTE \cup {NoPTE, Junk}]]
  BY DEF TypeOK
<1>4. /\ \A q \in Page \ {Table(va)} : mem'[q] = mem[q]
      /\ mem'[Table(va)] = [mem[Table(va)] EXCEPT ![va[2]] = pte]
  BY <1>1, <1>3 DEF SetPte
<1>5. CASE wa = va
  BY <1>1, <1>2, <1>3, <1>4, <1>5 DEF Pte
<1>6. CASE wa # va /\ Table(wa) = Table(va)
  <2>1. wa[1] = va[1]
    BY <1>1, <1>2, <1>6, TablesDistinct DEF Table
  <2>2. wa[2] # va[2]
    BY <1>2, <1>6, <2>1
  <2> QED BY <1>1, <1>2, <1>3, <1>4, <1>6, <2>2 DEF Pte
<1>7. CASE wa # va /\ Table(wa) # Table(va)
  BY <1>1, <1>4, <1>7 DEF Pte
<1> QED BY <1>5, <1>6, <1>7

LEMMA TableInstalled ==
    ASSUME TypeOK, PageTablesIntact, OneUseEach, FreeListWellFormed,
           NEW va \in VA, NEW pte, InstallTable(va, pte)
    PROVE  /\ PteChange(va, pte)
           /\ Pte(va) = NoPTE
           /\ \A p \in Page : Directory(p)' = IF p = page_free_list THEN {va[1]}
                                          ELSE Directory(p)
<1> DEFINE t == page_free_list
<1>1. t \in Page /\ t \in Range(free) /\ t \notin PageTables
  <2>1. t \in Range(free)
    BY TakeFromList DEF InstallTable, TypeOK
  <2> QED BY <2>1, DynamicPages DEF OneUseEach
<1>2. kern_pgdir \in [PDXs -> Page \cup {NULL}] /\ va[1] \in PDXs
      /\ kern_pgdir' = [kern_pgdir EXCEPT ![va[1]] = t]
      /\ kern_pgdir[va[1]] = NULL
  BY EntryTypes DEF TypeOK, InstallTable, Table
<1>3. \A d \in PDXs : kern_pgdir[d] # t
  BY <1>1 DEF PageTables, Directory
<1> HIDE DEF t
<1>4. ASSUME NEW p \in Page
      PROVE  Directory(p)' = IF p = t THEN {va[1]} ELSE Directory(p)
  <2>1. ASSUME NEW d \in PDXs
        PROVE  kern_pgdir'[d] = p <=> IF d = va[1] THEN p = t ELSE kern_pgdir[d] = p
    BY <1>2
  <2>2. kern_pgdir[va[1]] # p
    BY <1>2, NullIsNoPage
  <2> QED BY <1>2, <1>3, <2>1, <2>2 DEF Directory
<1>5. /\ mem \in [Page -> [PTXs -> PTE \cup {NoPTE, Junk}]]
      /\ \A q \in Page \ {t} : mem'[q] = mem[q]
      /\ mem'[t] = [ZeroPage EXCEPT ![va[2]] = pte]
  BY <1>1 DEF TypeOK, InstallTable, SetPte, t
<1>6. ASSUME NEW wa \in VA
      PROVE  Pte(wa)' = IF wa = va THEN pte ELSE Pte(wa)
  <2>1. /\ Table(wa) \in Page \cup {NULL} /\ wa[1] \in PDXs /\ wa[2] \in PTXs
        /\ va[2] \in PTXs /\ wa = <<wa[1], wa[2]>> /\ va = <<va[1], va[2]>>
    BY EntryTypes
  <2>2. CASE wa[1] = va[1]
    <3>1. Table(wa)' = t /\ t # NULL /\ Pte(wa) = NoPTE
      BY <1>1, <1>2, <2>2, NullIsNoPage DEF Table, Pte
    <3>2. wa = va <=> wa[2] = va[2]
      BY <2>1, <2>2
    <3> QED BY <1>5, <2>1, <3>1, <3>2 DEF Pte, ZeroPage
  <2>3. CASE wa[1] # va[1]
    <3>1. Table(wa)' = Table(wa) /\ Table(wa) # t
      BY <1>2, <1>3, <2>1, <2>3 DEF Table
    <3> QED BY <1>5, <2>1, <2>3, <3>1 DEF Pte
  <2> QED BY <2>2, <2>3
<1>7. Pte(va) = NoPTE
  BY DEF InstallTable, Pte
<1> QED BY <1>4, <1>6, <1>7 DEF PteChange, t

-----------------------------------------------------------------------------
(***************************************************************************)
(* The mappings of every page after one entry, or none, has changed.       *)
(***************************************************************************)
LEMMA MappingsChange ==
    ASSUME NEW va \in VA, NEW pte \in PTE \cup {NoPTE}, PteChange(va, pte), NEW p
    PROVE  /\ Mappings(p)' = IF pte # NoPTE /\ pte.page = p
                             THEN Mappings(p) \cup {va} ELSE Mappings(p) \ {va}
           /\ Cardinality(Mappings(p)') =
                IF pte # NoPTE /\ pte.page = p
                THEN IF va \in Mappings(p) THEN Cardinality(Mappings(p))
                                           ELSE Cardinality(Mappings(p)) + 1
                ELSE IF va \in Mappings(p) THEN Cardinality(Mappings(p)) - 1
                                           ELSE Cardinality(Mappings(p))
<1>1. Mappings(p)' = IF pte # NoPTE /\ pte.page = p
                     THEN Mappings(p) \cup {va} ELSE Mappings(p) \ {va}
  <2>1. \A wa \in VA : wa \in Mappings(p)' <=> Pte(wa)' # NoPTE /\ Pte(wa)'.page = p
    BY DEF Mappings, IsMapped
  <2>2. \A wa \in VA : wa \in Mappings(p) <=> Pte(wa) # NoPTE /\ Pte(wa).page = p
    BY DEF Mappings, IsMapped
  <2>3. Mappings(p) \subseteq VA /\ Mappings(p)' \subseteq VA
    BY DEF Mappings
  <2> QED BY <2>1, <2>2, <2>3 DEF PteChange
<1>2. IsFiniteSet(Mappings(p))
  BY MappingsFinite
<1>3. /\ Cardinality(Mappings(p) \cup {va}) =
           IF va \in Mappings(p) THEN Cardinality(Mappings(p))
                                 ELSE Cardinality(Mappings(p)) + 1
      /\ Cardinality(Mappings(p) \ {va}) =
           IF va \in Mappings(p) THEN Cardinality(Mappings(p)) - 1
                                 ELSE Cardinality(Mappings(p))
  BY <1>2, FS_AddElement, FS_RemoveElement
<1> QED BY <1>1, <1>3

LEMMA MappingsSame ==
    ASSUME \A va \in VA : Pte(va)' = Pte(va)
    PROVE  /\ \A p : Mappings(p)' = Mappings(p)
           /\ MappedPages' = MappedPages
<1>1. ASSUME NEW p PROVE Mappings(p)' = Mappings(p)
  BY DEF Mappings, IsMapped
<1> QED BY <1>1 DEF MappedPages

LEMMA DirectorySame ==
    ASSUME UNCHANGED kern_pgdir
    PROVE  /\ \A p : Directory(p)' = Directory(p)
           /\ PageTables' = PageTables
BY DEF Directory, PageTables

(***************************************************************************)
(* Cached translations keep leading to the mapped page when an entry       *)
(* appears, when its page stays, and when its translation is invalidated.  *)
(***************************************************************************)
LEMMA TLBStep ==
    ASSUME TypeOK, TLBFrameCoherent, NEW va \in VA, NEW pte, PteChange(va, pte),
           \/ UNCHANGED tlb /\ Pte(va) = NoPTE
           \/ UNCHANGED tlb /\ pte # NoPTE /\ pte.page = Pte(va).page
           \/ tlb_invalidate(va)
    PROVE  TLBFrameCoherent'
<1> SUFFICES ASSUME NEW wa \in VA, tlb'[wa] # NoPTE
             PROVE  Pte(wa)' # NoPTE /\ Pte(wa)'.page = tlb'[wa].page
  BY DEF TLBFrameCoherent, Cached, IsMapped
<1>1. tlb'[wa] = tlb[wa]
  BY DEF tlb_invalidate, TypeOK
<1>2. Pte(wa) # NoPTE /\ Pte(wa).page = tlb[wa].page
  BY <1>1 DEF TLBFrameCoherent, Cached, IsMapped
<1>3. CASE wa # va
  BY <1>1, <1>2, <1>3 DEF PteChange
<1>4. CASE wa = va
  <2>1. pte # NoPTE /\ pte.page = Pte(va).page
    BY <1>2, <1>4 DEF tlb_invalidate, TypeOK
  <2> QED BY <1>1, <1>2, <1>4, <2>1 DEF PteChange
<1> QED BY <1>3, <1>4

LEMMA TLBSame ==
    ASSUME TypeOK, TLBFrameCoherent, \A va \in VA : Pte(va)' = Pte(va),
           \A va \in VA : tlb'[va] \in {tlb[va], NoPTE, Pte(va)}
    PROVE  TLBFrameCoherent'
BY DEF TLBFrameCoherent, Cached, IsMapped

(***************************************************************************)
(* A table entry written leaves memory well typed.                         *)
(***************************************************************************)
LEMMA EntryWrittenType ==
    ASSUME TypeOK, PageTablesIntact, NEW va \in VA, Table(va) # NULL,
           NEW pte \in PTE \cup {NoPTE}, mem' = SetPte(mem, Table(va), va, pte)
    PROVE  mem' \in [Page -> [PTXs -> PTE \cup {NoPTE, Junk}]]
<1>1. Table(va) \in Page /\ va[2] \in PTXs
  BY EntryTypes
<1> QED BY <1>1 DEF TypeOK, SetPte

(***************************************************************************)
(* Writes that keep page tables intact.                                    *)
(***************************************************************************)
LEMMA TablesKept ==
    ASSUME PageTablesIntact, UNCHANGED kern_pgdir,
           \A p \in PageTables : mem'[p] = mem[p]
    PROVE  PageTablesIntact'
BY DirectorySame DEF PageTablesIntact

LEMMA TablesKeptByEntry ==
    ASSUME TypeOK, PageTablesIntact, UNCHANGED kern_pgdir,
           NEW va \in VA, NEW pte \in PTE \cup {NoPTE}, Table(va) # NULL,
           mem' = SetPte(mem, Table(va), va, pte)
    PROVE  PageTablesIntact'
<1>1. Table(va) \in Page /\ va[2] \in PTXs
  BY EntryTypes
<1>2. \A p \in Page, x \in PTXs : mem'[p][x] \in {mem[p][x], pte}
  BY <1>1 DEF SetPte, TypeOK
<1> QED BY <1>2, DirectorySame, WordsDistinct DEF PageTablesIntact, PageTables

LEMMA TablesKeptByInstall ==
    ASSUME TypeOK, PageTablesIntact, NEW va \in VA, NEW pte \in PTE \cup {NoPTE},
           OneUseEach, FreeListWellFormed, InstallTable(va, pte)
    PROVE  PageTablesIntact'
<1>1. page_free_list \in Page /\ va[2] \in PTXs
  BY EntryTypes, NullIsNoPage DEF TypeOK, PhysTypeOK, InstallTable
<1>2. \A x \in PTXs : mem'[page_free_list][x] \in {NoPTE, pte}
  BY <1>1 DEF InstallTable, SetPte, TypeOK, ZeroPage
<1>3. \A p \in Page \ {page_free_list} : mem'[p] = mem[p]
  BY <1>1 DEF InstallTable, SetPte, TypeOK
<1>4. PageTables' \subseteq PageTables \cup {page_free_list}
  BY TableInstalled DEF PageTables
<1>5. PageTables' \subseteq Page
  BY DEF PageTables
<1> QED BY <1>2, <1>3, <1>4, <1>5, WordsDistinct DEF PageTablesIntact

-----------------------------------------------------------------------------
(***************************************************************************)
(* The count of a page in each use: zero when free or held, the number of  *)
(* its mappings, at least one, when mapped.                                *)
(***************************************************************************)
LEMMA UnusedCount ==
    ASSUME IInv, NEW p \in Range(free) \cup held
    PROVE  Mappings(p) = {} /\ Directory(p) = {} /\ pp_ref[p] = 0
<1>1. p \in Dynamic /\ p \in Page /\ p \notin PageTables /\ p \notin MappedPages
  BY DynamicPages DEF IInv, OneUseEach
<1>2. Mappings(p) = {} /\ Directory(p) = {}
  BY <1>1 DEF PageTables, MappedPages
<1>3. pp_ref[p] = Cardinality(Mappings(p)) + Cardinality(Directory(p))
  BY <1>1 DEF IInv, RefCountExact
<1>4. Cardinality(Mappings(p)) = 0 /\ Cardinality(Directory(p)) = 0
  BY <1>2, FS_EmptySet
<1> QED BY <1>2, <1>3, <1>4

LEMMA MappedCount ==
    ASSUME IInv, NEW p \in MappedPages
    PROVE  /\ Directory(p) = {} /\ p \notin Range(free) /\ p \notin held
           /\ pp_ref[p] = Cardinality(Mappings(p)) /\ pp_ref[p] > 0
           /\ pp_ref[p] \in 0 .. RefMod - 1
           /\ LastRef(p) <=> Cardinality(Mappings(p)) = 1
           /\ ~DecrefPanics(p)
<1>1. p \in Dynamic /\ p \in Page /\ p \notin PageTables
      /\ p \notin Range(free) /\ p \notin held
  BY DynamicPages DEF IInv, OneUseEach
<1>2. Directory(p) = {} /\ Mappings(p) # {}
  BY <1>1 DEF PageTables, MappedPages
<1>3. Cardinality(Mappings(p)) \in Nat /\ Cardinality(Mappings(p)) # 0
  BY <1>2, MappingsFinite, FS_EmptySet
<1>4. pp_ref[p] = Cardinality(Mappings(p)) /\ pp_ref[p] > 0
  <2>1. pp_ref[p] = Cardinality(Mappings(p)) + Cardinality(Directory(p))
    BY <1>1 DEF IInv, RefCountExact
  <2>2. Cardinality(Directory(p)) = 0
    BY <1>2, FS_EmptySet
  <2> QED BY <1>3, <2>1, <2>2
<1>5. pp_ref[p] \in 0 .. RefMod - 1
  BY <1>1 DEF IInv, TypeOK, PhysTypeOK
<1>6. LastRef(p) <=> Cardinality(Mappings(p)) = 1
  BY <1>4, <1>5, DecExact DEF LastRef
<1>7. ~DecrefPanics(p)
  BY <1>1 DEF DecrefPanics, FreePanics, IInv, FreeListWellFormed
<1> QED BY <1>1, <1>2, <1>4, <1>5, <1>6, <1>7

\* A count below its maximum, of a page with no directory entry.
LEMMA MappableCount ==
    ASSUME IInv, NEW p \in Page, MayMap(p), Countable(p)
    PROVE  /\ p \in Dynamic /\ p \notin Range(free) /\ p \notin PageTables
           /\ Directory(p) = {} /\ pp_ref[p] = Cardinality(Mappings(p))
           /\ Inc(pp_ref[p]) = Cardinality(Mappings(p)) + 1
           /\ Inc(pp_ref[p]) \in 0 .. RefMod - 1
<1>1. p \in Dynamic /\ p \notin Range(free) /\ p \notin PageTables
  BY DynamicPages DEF MayMap, IInv, OneUseEach
<1>2. Directory(p) = {}
  BY <1>1 DEF PageTables
<1>3. pp_ref[p] = Cardinality(Mappings(p))
  <2>1. pp_ref[p] = Cardinality(Mappings(p)) + Cardinality(Directory(p))
    BY <1>1 DEF IInv, RefCountExact
  <2>2. Cardinality(Directory(p)) = 0 /\ Cardinality(Mappings(p)) \in Nat
    BY <1>2, MappingsFinite, FS_EmptySet
  <2> QED BY <2>1, <2>2
<1>4. pp_ref[p] \in 0 .. RefMod - 1
  BY DEF IInv, TypeOK, PhysTypeOK
<1> QED BY <1>1, <1>2, <1>3, <1>4, IncExact, CountInRange DEF Countable

-----------------------------------------------------------------------------
(***************************************************************************)
(* One lemma per operation: it keeps the invariant.                        *)
(***************************************************************************)
LEMMA AllocStep ==
    ASSUME IInv, NEW zero \in BOOLEAN, page_alloc(zero)
    PROVE  IInv'
<1> DEFINE h == page_free_list
<1>0. page_free_list # NULL /\ TakePage /\ PhysTypeOK /\ FreeListWellFormed
      /\ TypeOK /\ PageTablesIntact /\ OneUseEach
  BY DEF page_alloc, IInv, TypeOK
<1>1. /\ FreeListWellFormed'
      /\ pp_link' \in [Page -> Page \cup {NULL}]
      /\ page_free_list' \in Page \cup {NULL}
      /\ free' \in Seq(Page)
      /\ h \in Range(free)
      /\ Range(free') = Range(free) \ {h}
  BY <1>0, TakeFromList
<1>2. h \in Dynamic /\ h \in Page /\ h \notin PageTables /\ h \notin MappedPages /\ h \notin held
  BY <1>0, <1>1, DynamicPages DEF OneUseEach
<1>3. pp_ref' = pp_ref
  BY <1>1, <1>2, UnusedCount DEF page_alloc, IInv, TypeOK, PhysTypeOK
<1>4. \A q \in Page \ {h} : mem'[q] = mem[q]
  BY <1>2 DEF page_alloc, IInv, TypeOK
<1>5. \A va \in VA : Pte(va)' = Pte(va)
  BY <1>0, <1>2, <1>4, OtherPageWritten DEF page_alloc
<1>6. TypeOK'
  <2>1. mem' \in [Page -> [PTXs -> PTE \cup {NoPTE, Junk}]]
    BY <1>2 DEF page_alloc, IInv, TypeOK, ZeroPage
  <2> QED BY <1>1, <1>2, <1>3, <2>1 DEF page_alloc, IInv, TypeOK, PhysTypeOK
<1>7. OneUseEach'
  BY <1>0, <1>1, <1>2, <1>5, MappingsSame, DirectorySame DEF OneUseEach, page_alloc
<1>8. RefCountExact'
  BY <1>3, <1>5, MappingsSame, DirectorySame DEF IInv, RefCountExact, page_alloc
<1>9. PageTablesIntact'
  BY <1>0, <1>2, <1>4, TablesKept DEF page_alloc, PageTables
<1>10. TLBFrameCoherent'
  BY <1>5, TLBSame DEF IInv, page_alloc
<1>11. NoPanic'
  BY DEF IInv, NoPanic, page_alloc
<1> QED BY <1>1, <1>6, <1>7, <1>8, <1>9, <1>10, <1>11 DEF IInv

LEMMA FreeStep ==
    ASSUME IInv, NEW pp \in held, page_free(pp)
    PROVE  IInv'
<1>0. PhysTypeOK /\ FreeListWellFormed /\ TypeOK /\ PageTablesIntact /\ OneUseEach
  BY DEF IInv, TypeOK
<1>1. pp \in Dynamic /\ pp \in Page /\ pp \notin Range(free)
      /\ pp \notin PageTables /\ pp \notin MappedPages
  BY <1>0, DynamicPages DEF OneUseEach
<1>2. ~FreePanics(pp, pp_ref[pp])
  BY <1>0, <1>1, UnusedCount DEF FreePanics, FreeListWellFormed
<1>3. GivePage(pp) /\ held' = held \ {pp}
      /\ UNCHANGED <<pp_ref, kern_pgdir, mem, tlb, panicked>>
  BY <1>2 DEF page_free, mmuVars
<1>4. /\ FreeListWellFormed'
      /\ pp_link' \in [Page -> Page \cup {NULL}]
      /\ page_free_list' \in Page \cup {NULL}
      /\ free' \in Seq(Page)
      /\ Range(free') = Range(free) \cup {pp}
  BY <1>0, <1>1, <1>3, GiveToList
<1>5. \A va \in VA : Pte(va)' = Pte(va)
  BY <1>3 DEF Pte, Table
<1>6. TypeOK'
  BY <1>0, <1>3, <1>4 DEF TypeOK, PhysTypeOK
<1>7. OneUseEach'
  BY <1>0, <1>1, <1>3, <1>4, <1>5, MappingsSame, DirectorySame DEF OneUseEach
<1>8. RefCountExact'
  BY <1>3, <1>5, MappingsSame, DirectorySame DEF IInv, RefCountExact
<1>9. PageTablesIntact'
  BY <1>0, <1>3, TablesKept
<1>10. TLBFrameCoherent'
  BY <1>3, <1>5, TLBSame DEF IInv
<1>11. NoPanic'
  BY <1>3 DEF IInv, NoPanic
<1> QED BY <1>4, <1>6, <1>7, <1>8, <1>9, <1>10, <1>11 DEF IInv

(***************************************************************************)
(* A new page table: the head of the free list leaves the list, is counted *)
(* once, and belongs to one directory entry.                               *)
(***************************************************************************)
LEMMA InstallFacts ==
    ASSUME IInv, NEW va \in VA, NEW pte \in PTE \cup {NoPTE}, InstallTable(va, pte)
    PROVE  /\ FreeListWellFormed'
           /\ pp_link' \in [Page -> Page \cup {NULL}]
           /\ page_free_list' \in Page \cup {NULL}
           /\ free' \in Seq(Page)
           /\ page_free_list \in Range(free)
           /\ page_free_list \in Dynamic /\ page_free_list \in Page
           /\ page_free_list \notin held /\ page_free_list \notin PageTables
           /\ page_free_list \notin MappedPages
           /\ Range(free') = Range(free) \ {page_free_list}
           /\ PageTables' = PageTables \cup {page_free_list}
           /\ \A p \in PageTables' : \E d \in PDXs : Directory(p)' = {d}
           /\ \A p \in Page : Cardinality(Directory(p)') =
                IF p = page_free_list THEN 1 ELSE Cardinality(Directory(p))
           /\ kern_pgdir' \in [PDXs -> Page \cup {NULL}]
           /\ mem' \in [Page -> [PTXs -> PTE \cup {NoPTE, Junk}]]
<1> DEFINE t == page_free_list
<1>0. PhysTypeOK /\ FreeListWellFormed /\ TypeOK /\ PageTablesIntact /\ OneUseEach
      /\ page_free_list # NULL /\ TakePage /\ va[1] \in PDXs /\ va[2] \in PTXs
  BY EntryTypes DEF IInv, TypeOK, InstallTable
<1>1. /\ FreeListWellFormed'
      /\ pp_link' \in [Page -> Page \cup {NULL}]
      /\ page_free_list' \in Page \cup {NULL}
      /\ free' \in Seq(Page)
      /\ t \in Range(free)
      /\ Range(free') = Range(free) \ {t}
  BY <1>0, TakeFromList
<1>2. t \in Dynamic /\ t \in Page /\ t \notin PageTables /\ t \notin MappedPages /\ t \notin held
  BY <1>0, <1>1, DynamicPages DEF OneUseEach
<1>3. \A p \in Page : Directory(p)' = IF p = t THEN {va[1]} ELSE Directory(p)
  BY <1>0, TableInstalled
<1> HIDE DEF t
<1>4. PageTables' = PageTables \cup {t}
  BY <1>2, <1>3 DEF PageTables
<1>5. \A p \in PageTables' : \E d \in PDXs : Directory(p)' = {d}
  BY <1>0, <1>2, <1>3, <1>4 DEF OneUseEach, PageTables
<1>6. \A p \in Page : Cardinality(Directory(p)') =
                        IF p = t THEN 1 ELSE Cardinality(Directory(p))
  BY <1>3, FS_Singleton
<1>7. kern_pgdir' \in [PDXs -> Page \cup {NULL}]
  BY <1>0, <1>2 DEF InstallTable, TypeOK, t
<1>8. mem' \in [Page -> [PTXs -> PTE \cup {NoPTE, Junk}]]
  BY <1>0, <1>2 DEF InstallTable, TypeOK, SetPte, ZeroPage, t
<1> QED BY <1>1, <1>2, <1>4, <1>5, <1>6, <1>7, <1>8 DEF t

LEMMA WalkStep ==
    ASSUME IInv, NEW va \in VA, pgdir_walk(va)
    PROVE  IInv'
<1> DEFINE t == page_free_list
<1>0. PhysTypeOK /\ FreeListWellFormed /\ TypeOK /\ PageTablesIntact /\ OneUseEach
      /\ InstallTable(va, NoPTE) /\ UNCHANGED <<tlb, held, panicked>>
      /\ pp_ref' = [pp_ref EXCEPT ![t] = 1]
  BY DEF IInv, TypeOK, pgdir_walk
<1>1. PteChange(va, NoPTE) /\ Pte(va) = NoPTE
  BY <1>0, TableInstalled
<1>2. \A wa \in VA : Pte(wa)' = Pte(wa)
  BY <1>1 DEF PteChange
<1>3. MappedPages' = MappedPages /\ \A p : Mappings(p)' = Mappings(p)
  BY <1>2, MappingsSame
<1>4. t \in Dynamic /\ t \in Page /\ t \in Range(free) /\ t \notin held
      /\ t \notin MappedPages /\ Range(free') = Range(free) \ {t}
      /\ PageTables' = PageTables \cup {t} /\ FreeListWellFormed'
  BY <1>0, InstallFacts
<1>5. TypeOK'
  BY <1>0, <1>4, RefModSize, InstallFacts DEF TypeOK, PhysTypeOK
<1>6. OneUseEach'
  <2>1. \A p \in PageTables' : \E d \in PDXs : Directory(p)' = {d}
    BY <1>0, InstallFacts
  <2> QED BY <1>0, <1>3, <1>4, <2>1 DEF OneUseEach
<1>7. RefCountExact'
  <2> SUFFICES ASSUME NEW p \in Dynamic
               PROVE  pp_ref'[p] = Cardinality(Mappings(p)') + Cardinality(Directory(p)')
    BY DEF RefCountExact
  <2>1. p \in Page /\ Mappings(p)' = Mappings(p)
    BY <1>0, <1>3, DynamicPages
  <2>2. CASE p = t
    <3>1. Cardinality(Mappings(p)) = 0
      BY <1>4, <2>2, UnusedCount, FS_EmptySet
    <3>2. Cardinality(Directory(p)') = 1
      BY <1>0, <2>1, <2>2, InstallFacts
    <3>3. pp_ref'[p] = 1
      BY <1>0, <2>1, <2>2 DEF PhysTypeOK
    <3> QED BY <2>1, <3>1, <3>2, <3>3
  <2>3. CASE p # t
    <3>1. Cardinality(Directory(p)') = Cardinality(Directory(p))
      BY <1>0, <2>1, <2>3, InstallFacts
    <3>2. pp_ref'[p] = pp_ref[p]
      BY <1>0, <2>1, <2>3 DEF PhysTypeOK
    <3> QED BY <2>1, <3>1, <3>2 DEF IInv, RefCountExact
  <2> QED BY <2>2, <2>3
<1>8. PageTablesIntact'
  BY <1>0, TablesKeptByInstall
<1>9. TLBFrameCoherent'
  BY <1>0, <1>2, TLBSame DEF IInv
<1>10. NoPanic'
  BY <1>0 DEF IInv, NoPanic
<1> QED BY <1>4, <1>5, <1>6, <1>7, <1>8, <1>9, <1>10 DEF IInv

(***************************************************************************)
(* The mapped pages and the counts after page_insert has put pp at an      *)
(* address that mapped nothing.                                            *)
(***************************************************************************)
LEMMA NewMapping ==
    ASSUME IInv, NEW pp \in Page, MayMap(pp), Countable(pp),
           NEW va \in VA, NEW perm \in Perms, ~IsMapped(va),
           PteChange(va, [page |-> pp, perm |-> perm])
    PROVE  /\ MappedPages' = MappedPages \cup {pp}
           /\ Cardinality(Mappings(pp)') = Inc(pp_ref[pp])
           /\ \A p \in Page \ {pp} : Mappings(p)' = Mappings(p)
<1> DEFINE pte == [page |-> pp, perm |-> perm]
<1>1. pte \in PTE \cup {NoPTE} /\ pte # NoPTE /\ pte.page = pp
  BY WordsDistinct DEF PTE
<1>2. \A p : va \notin Mappings(p)
  BY DEF Mappings
<1>3. Mappings(pp)' = Mappings(pp) \cup {va}
      /\ Cardinality(Mappings(pp)') = Cardinality(Mappings(pp)) + 1
  BY <1>1, <1>2, MappingsChange
<1>4. ASSUME NEW p \in Page \ {pp} PROVE Mappings(p)' = Mappings(p)
  BY <1>1, <1>2, MappingsChange
<1>5. MappedPages' = MappedPages \cup {pp}
  BY <1>3, <1>4 DEF MappedPages
<1> QED BY <1>3, <1>4, <1>5, MappableCount

LEMMA InsertNewTableStep ==
    ASSUME IInv, NEW pp \in Page, MayMap(pp), Countable(pp),
           NEW va \in VA, NEW perm \in Perms, InsertInNewTable(pp, va, perm)
    PROVE  IInv'
<1> DEFINE t == page_free_list
           pte == [page |-> pp, perm |-> perm]
<1>0. PhysTypeOK /\ FreeListWellFormed /\ TypeOK /\ PageTablesIntact /\ OneUseEach
      /\ InstallTable(va, pte) /\ held' = held \ {pp} /\ UNCHANGED <<tlb, panicked>>
      /\ pp_ref' = [pp_ref EXCEPT ![t] = 1, ![pp] = Inc(@)]
  BY DEF IInv, TypeOK, InsertInNewTable
<1>1. pte \in PTE \cup {NoPTE}
  BY DEF PTE
<1>2. PteChange(va, pte) /\ Pte(va) = NoPTE
  BY <1>0, TableInstalled
<1>3. t \in Dynamic /\ t \in Page /\ t \in Range(free) /\ t \notin held
      /\ t \notin MappedPages /\ Range(free') = Range(free) \ {t}
      /\ PageTables' = PageTables \cup {t} /\ FreeListWellFormed'
  BY <1>0, <1>1, InstallFacts
<1>4. /\ MappedPages' = MappedPages \cup {pp}
      /\ Cardinality(Mappings(pp)') = Inc(pp_ref[pp])
      /\ \A p \in Page \ {pp} : Mappings(p)' = Mappings(p)
  BY <1>2, NewMapping DEF IsMapped
<1>5. pp \in Dynamic /\ pp \notin Range(free) /\ pp \notin PageTables /\ pp # t
      /\ Directory(pp) = {} /\ Inc(pp_ref[pp]) \in 0 .. RefMod - 1
  BY <1>3, MappableCount
<1>6. pp_ref' \in [Page -> 0 .. RefMod - 1]
      /\ pp_ref'[t] = 1 /\ pp_ref'[pp] = Inc(pp_ref[pp])
      /\ \A p \in Page \ {t, pp} : pp_ref'[p] = pp_ref[p]
  <2>1. pp_ref \in [Page -> 0 .. RefMod - 1] /\ 1 \in 0 .. RefMod - 1
    BY <1>0, RefModSize DEF PhysTypeOK
  <2> DEFINE r == [pp_ref EXCEPT ![t] = 1]
  <2>2. /\ r \in [Page -> 0 .. RefMod - 1] /\ r[t] = 1
        /\ \A p \in Page \ {t} : r[p] = pp_ref[p]
    BY <1>3, <2>1
  <2>3. pp_ref' = [r EXCEPT ![pp] = Inc(r[pp])]
    BY <1>0, <1>3, <1>5, <2>1, <2>2
  <2> HIDE DEF r
  <2> QED BY <1>3, <1>5, <2>2, <2>3
<1>7. TypeOK'
  BY <1>0, <1>1, <1>6, InstallFacts DEF TypeOK, PhysTypeOK
<1>8. OneUseEach'
  <2>1. \A p \in PageTables' : \E d \in PDXs : Directory(p)' = {d}
    BY <1>0, <1>1, InstallFacts
  <2>2. pp \in held \cup MappedPages
    BY DEF MayMap
  <2> QED BY <1>0, <1>3, <1>4, <1>5, <2>1, <2>2 DEF OneUseEach
<1>9. RefCountExact'
  <2> SUFFICES ASSUME NEW p \in Dynamic
               PROVE  pp_ref'[p] = Cardinality(Mappings(p)') + Cardinality(Directory(p)')
    BY DEF RefCountExact
  <2>1. p \in Page /\ Cardinality(Mappings(p)) \in Nat /\ Cardinality(Directory(p)) \in Nat
    BY <1>0, DynamicPages, MappingsFinite
  <2>2. Cardinality(Directory(p)') = IF p = t THEN 1 ELSE Cardinality(Directory(p))
    BY <1>0, <1>1, <2>1, InstallFacts
  <2>3. CASE p = t
    <3>1. Cardinality(Mappings(p)) = 0 /\ Mappings(p)' = Mappings(p)
      BY <1>3, <1>4, <1>5, <2>3, UnusedCount, FS_EmptySet
    <3> QED BY <1>6, <2>2, <2>3, <3>1
  <2>4. CASE p = pp
    <3>1. Cardinality(Directory(p)) = 0
      BY <1>5, <2>4, FS_EmptySet
    <3> QED BY <1>4, <1>5, <1>6, <2>2, <2>4, <3>1
  <2>5. CASE p # t /\ p # pp
    BY <1>4, <1>6, <2>1, <2>2, <2>5 DEF IInv, RefCountExact
  <2> QED BY <2>3, <2>4, <2>5
<1>10. PageTablesIntact'
  BY <1>0, <1>1, TablesKeptByInstall
<1>11. TLBFrameCoherent'
  BY <1>0, <1>2, TLBStep DEF IInv
<1>12. NoPanic'
  BY <1>0 DEF IInv, NoPanic
<1> QED BY <1>3, <1>7, <1>8, <1>9, <1>10, <1>11, <1>12 DEF IInv

LEMMA InsertEmptySlotStep ==
    ASSUME IInv, NEW pp \in Page, MayMap(pp), Countable(pp),
           NEW va \in VA, NEW perm \in Perms, InsertInEmptySlot(pp, va, perm)
    PROVE  IInv'
<1> DEFINE pte == [page |-> pp, perm |-> perm]
<1>0. PhysTypeOK /\ FreeListWellFormed /\ TypeOK /\ PageTablesIntact /\ OneUseEach
      /\ Table(va) # NULL /\ ~IsMapped(va) /\ mem' = SetPte(mem, Table(va), va, pte)
      /\ held' = held \ {pp} /\ UNCHANGED <<listVars, kern_pgdir, tlb, panicked>>
      /\ pp_ref' = [pp_ref EXCEPT ![pp] = Inc(@)]
  BY DEF IInv, TypeOK, InsertInEmptySlot
<1>1. pte \in PTE \cup {NoPTE} /\ Table(va) \in Page /\ va[2] \in PTXs
  BY <1>0, EntryTypes DEF PTE
<1>2. PteChange(va, pte)
  BY <1>0, EntryWritten
<1>3. /\ MappedPages' = MappedPages \cup {pp}
      /\ Cardinality(Mappings(pp)') = Inc(pp_ref[pp])
      /\ \A p \in Page \ {pp} : Mappings(p)' = Mappings(p)
  BY <1>0, <1>2, NewMapping
<1>4. pp \in Dynamic /\ pp \notin Range(free) /\ pp \notin PageTables
      /\ Directory(pp) = {} /\ Inc(pp_ref[pp]) \in 0 .. RefMod - 1
  BY MappableCount
<1>5. pp_ref' \in [Page -> 0 .. RefMod - 1] /\ pp_ref'[pp] = Inc(pp_ref[pp])
      /\ \A p \in Page \ {pp} : pp_ref'[p] = pp_ref[p]
  BY <1>0, <1>4 DEF PhysTypeOK
<1>6. TypeOK'
  <2>1. mem' \in [Page -> [PTXs -> PTE \cup {NoPTE, Junk}]]
    BY <1>0, <1>1, EntryWrittenType
  <2> QED BY <1>0, <1>5, <2>1 DEF TypeOK, PhysTypeOK, listVars
<1>7. OneUseEach'
  <2>1. pp \in held \cup MappedPages
    BY DEF MayMap
  <2> QED BY <1>0, <1>3, <1>4, <2>1, DirectorySame DEF OneUseEach, listVars
<1>8. RefCountExact'
  <2> SUFFICES ASSUME NEW p \in Dynamic
               PROVE  pp_ref'[p] = Cardinality(Mappings(p)') + Cardinality(Directory(p)')
    BY DEF RefCountExact
  <2>1. p \in Page /\ Directory(p)' = Directory(p)
    BY <1>0, DynamicPages, DirectorySame
  <2>2. CASE p = pp
    <3>1. Cardinality(Directory(p)) = 0
      BY <1>4, <2>2, FS_EmptySet
    <3> QED BY <1>3, <1>4, <1>5, <2>1, <2>2, <3>1
  <2>3. CASE p # pp
    BY <1>3, <1>5, <2>1, <2>3 DEF IInv, RefCountExact
  <2> QED BY <2>2, <2>3
<1>9. PageTablesIntact'
  BY <1>0, <1>1, TablesKeptByEntry
<1>10. TLBFrameCoherent'
  BY <1>0, <1>2, TLBStep DEF IInv, IsMapped
<1>11. NoPanic'
  BY <1>0 DEF IInv, NoPanic
<1>12. FreeListWellFormed'
  BY <1>0 DEF FreeListWellFormed, listVars
<1> QED BY <1>6, <1>7, <1>8, <1>9, <1>10, <1>11, <1>12 DEF IInv

LEMMA InsertSamePageStep ==
    ASSUME IInv, NEW pp \in Page, NEW va \in VA, NEW perm \in Perms,
           InsertSamePage(pp, va, perm)
    PROVE  IInv'
<1> DEFINE pte == [page |-> pp, perm |-> perm]
<1>0. PhysTypeOK /\ FreeListWellFormed /\ TypeOK /\ PageTablesIntact /\ OneUseEach
      /\ Pte(va) # NoPTE /\ Pte(va).page = pp /\ Table(va) # NULL
      /\ mem' = SetPte(mem, Table(va), va, pte)
      /\ UNCHANGED <<pp_ref, listVars, kern_pgdir, tlb, held, panicked>>
  BY DEF IInv, TypeOK, InsertSamePage, IsMapped, Pte, pageVars
<1>1. pte \in PTE \cup {NoPTE} /\ pte # NoPTE /\ pte.page = pp
  BY WordsDistinct DEF PTE
<1>2. PteChange(va, pte)
  BY <1>0, EntryWritten
<1>3. \A p : Mappings(p)' = Mappings(p)
  BY <1>0, <1>1, <1>2 DEF Mappings, IsMapped, PteChange
<1>4. MappedPages' = MappedPages
  BY <1>3 DEF MappedPages
<1>5. TypeOK'
  <2>1. mem' \in [Page -> [PTXs -> PTE \cup {NoPTE, Junk}]]
    BY <1>0, <1>1, EntryWrittenType
  <2> QED BY <1>0, <2>1 DEF TypeOK, PhysTypeOK, listVars
<1>6. OneUseEach'
  BY <1>0, <1>4, DirectorySame DEF OneUseEach, listVars
<1>7. RefCountExact'
  BY <1>0, <1>3, DirectorySame DEF IInv, RefCountExact
<1>8. PageTablesIntact'
  BY <1>0, <1>1, TablesKeptByEntry
<1>9. TLBFrameCoherent'
  BY <1>0, <1>1, <1>2, TLBStep DEF IInv
<1>10. NoPanic'
  BY <1>0 DEF IInv, NoPanic
<1>11. FreeListWellFormed'
  BY <1>0 DEF FreeListWellFormed, listVars
<1> QED BY <1>5, <1>6, <1>7, <1>8, <1>9, <1>10, <1>11 DEF IInv

(***************************************************************************)
(* page_remove, alone or inside page_insert: the page unmapped goes back   *)
(* to the free list exactly when this was its last mapping.                *)
(***************************************************************************)
LEMMA UnmapFacts ==
    ASSUME IInv, NEW va \in VA, IsMapped(va), NEW pte \in PTE \cup {NoPTE}, NEW ref,
           NEW old, old = Pte(va).page, pte # NoPTE => pte.page # old,
           UNCHANGED kern_pgdir, Unmap(va, pte, ref)
    PROVE  /\ PteChange(va, pte)
           /\ UNCHANGED panicked /\ pp_ref' = ref
           /\ mem' = SetPte(mem, Table(va), va, pte) /\ Table(va) # NULL
           /\ tlb_invalidate(va)
           /\ FreeListWellFormed'
           /\ pp_link' \in [Page -> Page \cup {NULL}]
           /\ page_free_list' \in Page \cup {NULL}
           /\ free' \in Seq(Page)
           /\ old \in MappedPages
           /\ Cardinality(Mappings(old)') = Dec(pp_ref[old])
           /\ Range(free') = Range(free) \cup
                (IF Mappings(old)' = {} THEN {old} ELSE {})
<1>0. PhysTypeOK /\ FreeListWellFormed /\ TypeOK /\ PageTablesIntact /\ OneUseEach
      /\ Table(va) # NULL /\ Pte(va) # NoPTE
  BY DEF IInv, TypeOK, IsMapped, Pte
<1>1. Pte(va) \in PTE /\ old \in Page /\ va \in Mappings(old) /\ old \in MappedPages
  BY <1>0, EntryTypes DEF PTE, Mappings, IsMapped, MappedPages
<1>2. ~DecrefPanics(old) /\ page_lookup(va) = old
  BY <1>1, MappedCount DEF page_lookup
<1>3. /\ IF LastRef(old) THEN GivePage(old) ELSE UNCHANGED listVars
      /\ pp_ref' = ref
      /\ mem' = SetPte(mem, Table(va), va, pte)
      /\ tlb_invalidate(va)
      /\ UNCHANGED panicked
  BY <1>2 DEF Unmap
<1>4. PteChange(va, pte)
  BY <1>0, <1>3, EntryWritten
<1>5. /\ Mappings(old)' = Mappings(old) \ {va}
      /\ Cardinality(Mappings(old)') = Cardinality(Mappings(old)) - 1
  BY <1>1, <1>4, MappingsChange
<1>6. /\ Cardinality(Mappings(old)) = pp_ref[old] /\ pp_ref[old] > 0
      /\ pp_ref[old] \in 0 .. RefMod - 1
      /\ LastRef(old) <=> Cardinality(Mappings(old)) = 1
      /\ old \in Dynamic \ Range(free)
  BY <1>0, <1>1, MappedCount, DynamicPages
<1>7. Cardinality(Mappings(old)') = Dec(pp_ref[old])
  BY <1>5, <1>6, DecExact
<1>8. LastRef(old) <=> Mappings(old)' = {}
  <2>1. IsFiniteSet(Mappings(old)')
    BY <1>5, MappingsFinite, FS_RemoveElement
  <2>2. Mappings(old)' = {} <=> Cardinality(Mappings(old)') = 0
    BY <2>1, FS_EmptySet
  <2> QED BY <1>5, <1>6, <2>2
<1>9. CASE LastRef(old)
  <2>1. GivePage(old)
    BY <1>3, <1>9
  <2>2. /\ FreeListWellFormed'
        /\ pp_link' \in [Page -> Page \cup {NULL}]
        /\ page_free_list' \in Page \cup {NULL}
        /\ free' \in Seq(Page)
        /\ Range(free') = Range(free) \cup {old}
    BY <1>0, <1>6, <2>1, GiveToList
  <2> QED BY <1>0, <1>1, <1>3, <1>4, <1>7, <1>8, <1>9, <2>2
<1>10. CASE ~LastRef(old)
  <2>1. UNCHANGED listVars
    BY <1>3, <1>10
  <2>2. FreeListWellFormed' /\ free' = free
    BY <1>0, <2>1 DEF FreeListWellFormed, listVars
  <2> QED BY <1>0, <1>1, <1>3, <1>4, <1>7, <1>8, <1>10, <2>1, <2>2 DEF listVars, PhysTypeOK
<1> QED BY <1>9, <1>10

LEMMA RemoveStep ==
    ASSUME IInv, NEW va \in VA, page_remove(va)
    PROVE  IInv'
<1> PICK old : old = Pte(va).page
  OBVIOUS
<1> DEFINE ref == [pp_ref EXCEPT ![old] = Dec(@)]
<1>0. PhysTypeOK /\ FreeListWellFormed /\ TypeOK /\ PageTablesIntact /\ OneUseEach
      /\ IsMapped(va) /\ Unmap(va, NoPTE, ref) /\ UNCHANGED <<kern_pgdir, held>>
  BY DEF IInv, TypeOK, page_remove
<1>1. /\ PteChange(va, NoPTE) /\ UNCHANGED panicked /\ pp_ref' = ref
      /\ mem' = SetPte(mem, Table(va), va, NoPTE) /\ Table(va) # NULL
      /\ tlb_invalidate(va) /\ FreeListWellFormed'
      /\ pp_link' \in [Page -> Page \cup {NULL}]
      /\ page_free_list' \in Page \cup {NULL} /\ free' \in Seq(Page)
      /\ old \in MappedPages
      /\ Cardinality(Mappings(old)') = Dec(pp_ref[old])
      /\ Range(free') = Range(free) \cup (IF Mappings(old)' = {} THEN {old} ELSE {})
  BY <1>0, UnmapFacts
<1>2. old \in Dynamic /\ old \in Page /\ old \notin Range(free) /\ old \notin held
      /\ old \notin PageTables /\ Directory(old) = {}
      /\ pp_ref[old] \in 0 .. RefMod - 1
  BY <1>0, <1>1, MappedCount, DynamicPages DEF OneUseEach
<1>3. ASSUME NEW p \in Page \ {old} PROVE Mappings(p)' = Mappings(p)
  <2>1. va \notin Mappings(p)
    BY <1>3 DEF Mappings
  <2>2. Mappings(p)' = Mappings(p) \ {va}
    BY <1>1, MappingsChange
  <2> QED BY <2>1, <2>2
<1>4. MappedPages' = IF Mappings(old)' = {} THEN MappedPages \ {old} ELSE MappedPages
  BY <1>1, <1>2, <1>3 DEF MappedPages
<1>5. pp_ref' \in [Page -> 0 .. RefMod - 1] /\ pp_ref'[old] = Dec(pp_ref[old])
      /\ \A p \in Page \ {old} : pp_ref'[p] = pp_ref[p]
  BY <1>0, <1>1, <1>2, CountInRange DEF PhysTypeOK
<1>6. TypeOK'
  <2>1. mem' \in [Page -> [PTXs -> PTE \cup {NoPTE, Junk}]]
    BY <1>0, <1>1, EntryWrittenType
  <2>2. tlb' \in [VA -> PTE \cup {NoPTE}]
    BY <1>0, <1>1 DEF TypeOK, tlb_invalidate
  <2> QED BY <1>0, <1>1, <1>5, <2>1, <2>2 DEF TypeOK, PhysTypeOK
<1>7. OneUseEach'
  <2>1. PageTables' = PageTables /\ \A p : Directory(p)' = Directory(p)
    BY <1>0, DirectorySame
  <2>2. CASE Mappings(old)' = {}
    BY <1>0, <1>1, <1>2, <1>4, <2>1, <2>2 DEF OneUseEach
  <2>3. CASE Mappings(old)' # {}
    BY <1>0, <1>1, <1>2, <1>4, <2>1, <2>3 DEF OneUseEach
  <2> QED BY <2>2, <2>3
<1>8. RefCountExact'
  <2> SUFFICES ASSUME NEW p \in Dynamic
               PROVE  pp_ref'[p] = Cardinality(Mappings(p)') + Cardinality(Directory(p)')
    BY DEF RefCountExact
  <2>1. p \in Page /\ Directory(p)' = Directory(p)
    BY <1>0, DynamicPages, DirectorySame
  <2>2. CASE p = old
    <3>1. Cardinality(Directory(p)) = 0
      BY <1>2, <2>2, FS_EmptySet
    <3> QED BY <1>1, <1>2, <1>5, <2>1, <2>2, <3>1, CountInRange
  <2>3. CASE p # old
    BY <1>3, <1>5, <2>1, <2>3 DEF IInv, RefCountExact
  <2> QED BY <2>2, <2>3
<1>9. PageTablesIntact'
  BY <1>0, <1>1, TablesKeptByEntry
<1>10. TLBFrameCoherent'
  BY <1>1, TLBStep DEF IInv
<1>11. NoPanic'
  BY <1>1 DEF IInv, NoPanic
<1> QED BY <1>1, <1>6, <1>7, <1>8, <1>9, <1>10, <1>11 DEF IInv

LEMMA InsertOverOtherStep ==
    ASSUME IInv, NEW pp \in Page, MayMap(pp), Countable(pp),
           NEW va \in VA, NEW perm \in Perms, InsertOverOther(pp, va, perm)
    PROVE  IInv'
<1> PICK old : old = Pte(va).page
  OBVIOUS
<1> DEFINE pte == [page |-> pp, perm |-> perm]
           ref == [pp_ref EXCEPT ![old] = Dec(@), ![pp] = Inc(@)]
<1>0. PhysTypeOK /\ FreeListWellFormed /\ TypeOK /\ PageTablesIntact /\ OneUseEach
      /\ IsMapped(va) /\ old # pp /\ Unmap(va, pte, ref) /\ UNCHANGED kern_pgdir
      /\ held' = IF panicked' THEN held ELSE held \ {pp}
  BY DEF IInv, TypeOK, InsertOverOther
<1>a. pte \in PTE \cup {NoPTE} /\ pte # NoPTE /\ pte.page = pp
  BY WordsDistinct DEF PTE
<1>1. /\ PteChange(va, pte) /\ UNCHANGED panicked /\ pp_ref' = ref
      /\ mem' = SetPte(mem, Table(va), va, pte) /\ Table(va) # NULL
      /\ tlb_invalidate(va) /\ FreeListWellFormed'
      /\ pp_link' \in [Page -> Page \cup {NULL}]
      /\ page_free_list' \in Page \cup {NULL} /\ free' \in Seq(Page)
      /\ old \in MappedPages
      /\ Cardinality(Mappings(old)') = Dec(pp_ref[old])
      /\ Range(free') = Range(free) \cup (IF Mappings(old)' = {} THEN {old} ELSE {})
  BY <1>0, <1>a, UnmapFacts
<1>b. held' = held \ {pp}
  BY <1>0, <1>1 DEF IInv, NoPanic
<1>2. old \in Dynamic /\ old \in Page /\ old \notin Range(free) /\ old \notin held
      /\ old \notin PageTables /\ Directory(old) = {}
      /\ pp_ref[old] \in 0 .. RefMod - 1
  BY <1>0, <1>1, MappedCount, DynamicPages DEF OneUseEach
<1>c. /\ pp \in Dynamic /\ pp \notin Range(free) /\ pp \notin PageTables
      /\ Directory(pp) = {} /\ Inc(pp_ref[pp]) = Cardinality(Mappings(pp)) + 1
      /\ Inc(pp_ref[pp]) \in 0 .. RefMod - 1
  BY MappableCount
<1>3. ASSUME NEW p \in Page \ {old, pp} PROVE Mappings(p)' = Mappings(p)
  <2>1. va \notin Mappings(p)
    BY <1>3 DEF Mappings
  <2>2. Mappings(p)' = Mappings(p) \ {va}
    BY <1>1, <1>3, <1>a, MappingsChange
  <2> QED BY <2>1, <2>2
<1>d. Mappings(pp)' # {} /\ Cardinality(Mappings(pp)') = Inc(pp_ref[pp])
  <2>1. va \notin Mappings(pp)
    BY <1>0 DEF Mappings
  <2>2. Mappings(pp)' = Mappings(pp) \cup {va}
        /\ Cardinality(Mappings(pp)') = Cardinality(Mappings(pp)) + 1
    BY <1>1, <1>a, <2>1, MappingsChange
  <2> QED BY <1>c, <2>2
<1>4. MappedPages' = IF Mappings(old)' = {} THEN (MappedPages \cup {pp}) \ {old}
                                            ELSE MappedPages \cup {pp}
  BY <1>0, <1>1, <1>2, <1>3, <1>d DEF MappedPages
<1>5. pp_ref' \in [Page -> 0 .. RefMod - 1]
      /\ pp_ref'[old] = Dec(pp_ref[old]) /\ pp_ref'[pp] = Inc(pp_ref[pp])
      /\ \A p \in Page \ {old, pp} : pp_ref'[p] = pp_ref[p]
  <2>1. pp_ref \in [Page -> 0 .. RefMod - 1] /\ Dec(pp_ref[old]) \in 0 .. RefMod - 1
    BY <1>0, <1>2, CountInRange DEF PhysTypeOK
  <2> DEFINE r == [pp_ref EXCEPT ![old] = Dec(@)]
  <2>2. /\ r \in [Page -> 0 .. RefMod - 1] /\ r[old] = Dec(pp_ref[old])
        /\ \A p \in Page \ {old} : r[p] = pp_ref[p]
    BY <1>2, <2>1
  <2>3. pp_ref' = [r EXCEPT ![pp] = Inc(r[pp])]
    BY <1>0, <1>1, <1>2, <2>1, <2>2
  <2> HIDE DEF r
  <2> QED BY <1>0, <1>2, <1>c, <2>2, <2>3
<1>6. TypeOK'
  <2>1. mem' \in [Page -> [PTXs -> PTE \cup {NoPTE, Junk}]]
    BY <1>0, <1>1, <1>a, EntryWrittenType
  <2>2. tlb' \in [VA -> PTE \cup {NoPTE}]
    BY <1>0, <1>1 DEF TypeOK, tlb_invalidate
  <2> QED BY <1>0, <1>1, <1>5, <1>b, <2>1, <2>2 DEF TypeOK, PhysTypeOK
<1>7. OneUseEach'
  <2>1. PageTables' = PageTables /\ \A p : Directory(p)' = Directory(p)
    BY <1>0, DirectorySame
  <2>2. pp \in held \cup MappedPages
    BY DEF MayMap
  <2>3. CASE Mappings(old)' = {}
    BY <1>0, <1>1, <1>2, <1>4, <1>b, <1>c, <2>1, <2>2, <2>3 DEF OneUseEach
  <2>4. CASE Mappings(old)' # {}
    BY <1>0, <1>1, <1>2, <1>4, <1>b, <1>c, <2>1, <2>2, <2>4 DEF OneUseEach
  <2> QED BY <2>3, <2>4
<1>8. RefCountExact'
  <2> SUFFICES ASSUME NEW p \in Dynamic
               PROVE  pp_ref'[p] = Cardinality(Mappings(p)') + Cardinality(Directory(p)')
    BY DEF RefCountExact
  <2>1. p \in Page /\ Directory(p)' = Directory(p)
    BY <1>0, DynamicPages, DirectorySame
  <2>2. CASE p = old
    <3>1. Cardinality(Directory(p)) = 0
      BY <1>2, <2>2, FS_EmptySet
    <3>2. pp_ref'[p] = Cardinality(Mappings(p)')
      BY <1>1, <1>5, <2>2
    <3>3. pp_ref'[p] \in Nat
      BY <1>5, <2>1, RefModSize
    <3> QED BY <2>1, <3>1, <3>2, <3>3
  <2>3. CASE p = pp
    <3>1. Cardinality(Directory(p)) = 0
      BY <1>c, <2>3, FS_EmptySet
    <3>2. pp_ref'[p] = Cardinality(Mappings(p)')
      BY <1>5, <1>d, <2>3
    <3>3. pp_ref'[p] \in Nat
      BY <1>5, <2>1, RefModSize
    <3> QED BY <2>1, <3>1, <3>2, <3>3
  <2>4. CASE p # old /\ p # pp
    BY <1>3, <1>5, <2>1, <2>4 DEF IInv, RefCountExact
  <2> QED BY <2>2, <2>3, <2>4
<1>9. PageTablesIntact'
  BY <1>0, <1>1, <1>a, TablesKeptByEntry
<1>10. TLBFrameCoherent'
  BY <1>1, TLBStep DEF IInv
<1>11. NoPanic'
  BY <1>1 DEF IInv, NoPanic
<1> QED BY <1>1, <1>6, <1>7, <1>8, <1>9, <1>10, <1>11 DEF IInv

(***************************************************************************)
(* The processor's steps change no count, no list and no entry: a store    *)
(* reaches the page mapped at its address, even through a stale entry of   *)
(* the TLB, and that page is not a page table.                             *)
(***************************************************************************)
LEMMA DataWritten ==
    ASSUME IInv, NEW p \in Page \ PageTables,
           mem' = [mem EXCEPT ![p] = JunkPage],
           UNCHANGED <<pageVars, kern_pgdir, tlb, held, panicked>>
    PROVE  IInv'
<1>0. PhysTypeOK /\ FreeListWellFormed /\ TypeOK /\ PageTablesIntact /\ OneUseEach
      /\ UNCHANGED <<pp_ref, listVars, kern_pgdir, tlb, held, panicked>>
  BY DEF IInv, TypeOK, pageVars
<1>1. \A q \in Page \ {p} : mem'[q] = mem[q]
  BY <1>0 DEF TypeOK
<1>2. \A va \in VA : Pte(va)' = Pte(va)
  BY <1>0, <1>1, OtherPageWritten
<1>3. TypeOK'
  <2>1. mem' \in [Page -> [PTXs -> PTE \cup {NoPTE, Junk}]]
    BY <1>0 DEF TypeOK, JunkPage
  <2> QED BY <1>0, <2>1 DEF TypeOK, PhysTypeOK, listVars
<1>4. OneUseEach'
  BY <1>0, <1>2, MappingsSame, DirectorySame DEF OneUseEach, listVars
<1>5. RefCountExact'
  BY <1>0, <1>2, MappingsSame, DirectorySame DEF IInv, RefCountExact
<1>6. PageTablesIntact'
  BY <1>0, <1>1, TablesKept DEF PageTables
<1>7. TLBFrameCoherent'
  BY <1>0, <1>2, TLBSame DEF IInv
<1>8. FreeListWellFormed' /\ NoPanic'
  BY <1>0 DEF IInv, FreeListWellFormed, NoPanic, listVars
<1> QED BY <1>3, <1>4, <1>5, <1>6, <1>7, <1>8 DEF IInv

LEMMA StoreStep ==
    ASSUME IInv, NEW va \in VA, Store(va)
    PROVE  IInv'
<1> PICK p : p = Translation(va).page
  OBVIOUS
<1>0. TypeOK /\ PageTablesIntact /\ OneUseEach /\ TLBFrameCoherent
  BY DEF IInv
<1>1. Pte(va) # NoPTE /\ p = Pte(va).page
  BY <1>0 DEF Store, Translation, TLBFrameCoherent, IsMapped
<1>2. p \in Page /\ va \in Mappings(p)
  BY <1>0, <1>1, EntryTypes DEF PTE, Mappings, IsMapped
<1>3. p \in Page \ PageTables
  BY <1>0, <1>2 DEF OneUseEach, MappedPages
<1> QED BY <1>3, DataWritten DEF Store

LEMMA DirectStoreStep ==
    ASSUME IInv, NEW p \in held, DirectStore(p)
    PROVE  IInv'
<1>1. p \in Page \ PageTables
  BY DynamicPages DEF IInv, OneUseEach
<1> QED BY <1>1, DataWritten DEF DirectStore

LEMMA TLBChange ==
    ASSUME IInv, NEW va \in VA, TLBFill(va) \/ TLBEvict(va)
    PROVE  IInv'
<1>0. PhysTypeOK /\ FreeListWellFormed /\ TypeOK /\ PageTablesIntact /\ OneUseEach
      /\ UNCHANGED <<pp_ref, listVars, kern_pgdir, mem, held, panicked>>
  BY DEF IInv, TypeOK, pageVars, TLBFill, TLBEvict
<1>1. tlb' = [tlb EXCEPT ![va] = Pte(va)] \/ tlb' = [tlb EXCEPT ![va] = NoPTE]
  BY DEF TLBFill, TLBEvict, tlb_invalidate
<1>2. \A wa \in VA : Pte(wa)' = Pte(wa)
  BY <1>0 DEF Pte, Table
<1>3. TypeOK'
  <2>1. tlb' \in [VA -> PTE \cup {NoPTE}]
    BY <1>0, <1>1, EntryTypes DEF TypeOK
  <2> QED BY <1>0, <2>1 DEF TypeOK, PhysTypeOK, listVars
<1>4. OneUseEach'
  BY <1>0, <1>2, MappingsSame, DirectorySame DEF OneUseEach, listVars
<1>5. RefCountExact'
  BY <1>0, <1>2, MappingsSame, DirectorySame DEF IInv, RefCountExact
<1>6. PageTablesIntact'
  BY <1>0, TablesKept
<1>7. TLBFrameCoherent'
  <2>1. \A wa \in VA : tlb'[wa] \in {tlb[wa], NoPTE, Pte(wa)}
    BY <1>0, <1>1 DEF TypeOK
  <2> QED BY <1>0, <1>2, <2>1, TLBSame DEF IInv
<1>8. FreeListWellFormed' /\ NoPanic'
  BY <1>0 DEF IInv, FreeListWellFormed, NoPanic, listVars
<1> QED BY <1>3, <1>4, <1>5, <1>6, <1>7, <1>8 DEF IInv

-----------------------------------------------------------------------------
(***************************************************************************)
(* The initial state has the invariant: nothing is mapped or held, and     *)
(* page_init's counts are those of unmapped pages.                         *)
(***************************************************************************)
LEMMA InitInv == Init => IInv
<1> SUFFICES ASSUME Init PROVE IInv
  OBVIOUS
<1>1. PhysTypeOK /\ FreeListWellFormed /\ Range(free) = Dynamic
  BY InitList DEF Init
<1>2. \A va \in VA : Pte(va) = NoPTE
  BY DEF Init, Pte, Table, VA
<1>3. \A p \in Page : Mappings(p) = {} /\ Directory(p) = {}
  BY <1>2, NullIsNoPage DEF Mappings, IsMapped, Directory, Init
<1>4. PageTables = {} /\ MappedPages = {}
  BY <1>3 DEF PageTables, MappedPages
<1>5. TypeOK
  BY <1>1 DEF TypeOK, Init, JunkPage
<1>6. OneUseEach
  BY <1>1, <1>4 DEF OneUseEach, Init
<1>7. Dynamic \subseteq Page
  BY <1>6, DynamicPages
<1>8. RefCountExact
  <2>1. \A p \in Dynamic : pp_ref[p] = 0
    BY <1>7 DEF Init, page_init
  <2>2. Cardinality({}) = 0
    BY FS_EmptySet
  <2> QED BY <1>3, <1>7, <2>1, <2>2 DEF RefCountExact
<1>9. PageTablesIntact /\ TLBFrameCoherent /\ NoPanic
  BY <1>4 DEF PageTablesIntact, TLBFrameCoherent, Cached, NoPanic, Init
<1> QED BY <1>1, <1>5, <1>6, <1>8, <1>9 DEF IInv

(***************************************************************************)
(* Every step keeps the invariant.                                         *)
(***************************************************************************)
LEMMA NextInv == IInv /\ [Next]_vars => IInv'
<1> SUFFICES ASSUME IInv, [Next]_vars PROVE IInv'
  OBVIOUS
<1>1. ASSUME NEW zero \in BOOLEAN, page_alloc(zero) PROVE IInv'
  BY <1>1, AllocStep
<1>2. ASSUME NEW pp \in held, page_free(pp) PROVE IInv'
  BY <1>2, FreeStep
<1>3. ASSUME NEW va \in VA, pgdir_walk(va) PROVE IInv'
  BY <1>3, WalkStep
<1>4. ASSUME NEW va \in VA, page_remove(va) PROVE IInv'
  BY <1>4, RemoveStep
<1>5. ASSUME NEW pp \in Page, MayMap(pp), Countable(pp),
             NEW va \in VA, NEW perm \in Perms, page_insert(pp, va, perm)
      PROVE  IInv'
  <2>1. CASE InsertInNewTable(pp, va, perm)
    BY <1>5, <2>1, InsertNewTableStep
  <2>2. CASE InsertInEmptySlot(pp, va, perm)
    BY <1>5, <2>2, InsertEmptySlotStep
  <2>3. CASE InsertSamePage(pp, va, perm)
    BY <1>5, <2>3, InsertSamePageStep
  <2>4. CASE InsertOverOther(pp, va, perm)
    BY <1>5, <2>4, InsertOverOtherStep
  <2> QED BY <1>5, <2>1, <2>2, <2>3, <2>4 DEF page_insert
<1>6. ASSUME NEW va \in VA, TLBFill(va) \/ TLBEvict(va) PROVE IInv'
  BY <1>6, TLBChange
<1>7. ASSUME NEW va \in VA, Store(va) PROVE IInv'
  BY <1>7, StoreStep
<1>8. ASSUME NEW p \in held, DirectStore(p) PROVE IInv'
  BY <1>8, DirectStoreStep
<1>9. CASE UNCHANGED vars
  <2>1. UNCHANGED <<pp_ref, pp_link, page_free_list, free, kern_pgdir, mem, tlb,
                    held, panicked>>
    BY <1>9 DEF vars, pageVars, listVars, mmuVars
  <2>2. \A va \in VA : Pte(va)' = Pte(va)
    BY <2>1 DEF Pte, Table
  <2>3. TypeOK' /\ FreeListWellFormed' /\ NoPanic'
    BY <2>1 DEF IInv, TypeOK, PhysTypeOK, FreeListWellFormed, NoPanic
  <2>4. OneUseEach' /\ RefCountExact'
    BY <2>1, <2>2, MappingsSame, DirectorySame DEF IInv, OneUseEach, RefCountExact
  <2>5. PageTablesIntact' /\ TLBFrameCoherent'
    BY <2>1, <2>2, TablesKept, TLBSame DEF IInv
  <2> QED BY <2>3, <2>4, <2>5 DEF IInv
<1> QED
  BY <1>1, <1>2, <1>3, <1>4, <1>5, <1>6, <1>7, <1>8, <1>9
  DEF Next, Operations, Processor, Insertions

(***************************************************************************)
(* In every reachable state of every instance.                             *)
(***************************************************************************)
THEOREM Invariance == Spec => []IInv
BY InitInv, NextInv, PTL DEF Spec

(***************************************************************************)
(* Every variable stays in its range; in particular page tables and cached *)
(* translations hold entries that lead to existing pages.                  *)
(***************************************************************************)
THEOREM TypeCorrect == Spec => []TypeOK
<1>1. IInv => TypeOK
  BY DEF IInv
<1> QED BY <1>1, Invariance, PTL

(***************************************************************************)
(* page_alloc and page_free always find the free list whole.               *)
(***************************************************************************)
THEOREM FreeListCorrect == Spec => []FreeListWellFormed
<1>1. IInv => FreeListWellFormed
  BY DEF IInv
<1> QED BY <1>1, Invariance, PTL

(***************************************************************************)
(* pp_ref is exact, while no page is mapped more often than it can count.  *)
(***************************************************************************)
THEOREM RefCountCorrect == Spec => []RefCountExact
<1>1. IInv => RefCountExact
  BY DEF IInv
<1> QED BY <1>1, Invariance, PTL

(***************************************************************************)
(* No page is in two uses at a time and none is lost.                      *)
(***************************************************************************)
THEOREM OwnershipCorrect == Spec => []OneUseEach
<1>1. IInv => OneUseEach
  BY DEF IInv
<1> QED BY <1>1, Invariance, PTL

(***************************************************************************)
(* No store, direct or through a cached translation, corrupts a page       *)
(* table.                                                                  *)
(***************************************************************************)
THEOREM TablesCorrect == Spec => []PageTablesIntact
<1>1. IInv => PageTablesIntact
  BY DEF IInv
<1> QED BY <1>1, Invariance, PTL

(***************************************************************************)
(* No cached translation outlives the mapping it came from.                *)
(***************************************************************************)
THEOREM TranslationCorrect == Spec => []TLBFrameCoherent
<1>1. IInv => TLBFrameCoherent
  BY DEF IInv
<1> QED BY <1>1, Invariance, PTL

(***************************************************************************)
(* The double-free panic is never raised by page_remove or page_insert.    *)
(***************************************************************************)
THEOREM NeverPanics == Spec => []NoPanic
<1>1. IInv => NoPanic
  BY DEF IInv
<1> QED BY <1>1, Invariance, PTL

-----------------------------------------------------------------------------
(***************************************************************************)
(* The refinement of AddrSpace.  The mapping reads the concrete state      *)
(* through the page table, so each step needs what IInv says of it: a      *)
(* count of zero means no mapping, a store reaches the page mapped now,    *)
(* and page tables are never dirty.                                        *)
(***************************************************************************)
AbsMap == [va \in VA |-> Pte(va)]

-----------------------------------------------------------------------------
(***************************************************************************)
(* What the steps do to the mappings and the dirty pages AddrSpace sees.   *)
(***************************************************************************)
LEMMA AbsMapSame ==
    ASSUME \A va \in VA : Pte(va)' = Pte(va)
    PROVE  AbsMap' = AbsMap
BY DEF AbsMap

LEMMA AbsMapChange ==
    ASSUME NEW va \in VA, NEW pte, PteChange(va, pte)
    PROVE  AbsMap' = [AbsMap EXCEPT ![va] = pte]
BY DEF AbsMap, PteChange

LEMMA AbsMapsTo ==
    /\ \A p : Abs!MapsTo(AbsMap, p) <=> Mappings(p) # {}
    /\ \A p : Abs!MapsTo(AbsMap', p) <=> Mappings(p)' # {}
BY DEF Abs!MapsTo, AbsMap, Mappings, IsMapped

\* Only the page that was mapped at va can lose its last mapping there.
LEMMA ReleasedPages ==
    ASSUME NEW va \in VA
    PROVE  /\ Pte(va) = NoPTE => Abs!Released(va) = {}
           /\ \A old \in Page : Pte(va) # NoPTE /\ old = Pte(va).page =>
                Abs!Released(va) = IF Mappings(old)' = {} THEN {old} ELSE {}
<1>1. AbsMap[va] = Pte(va)
  BY DEF AbsMap
<1>2. Abs!Released(va) =
        {p \in Page : Pte(va) # NoPTE /\ Pte(va).page = p /\ Mappings(p)' = {}}
  BY <1>1, AbsMapsTo DEF Abs!Released, AbsMap
<1> QED BY <1>2

\* Page tables are clean.
LEMMA TablesClean ==
    ASSUME PageTablesIntact
    PROVE  Dirty \cap PageTables = {}
BY DEF Dirty, PageTablesIntact

LEMMA DirtySame ==
    ASSUME UNCHANGED mem
    PROVE  Dirty' = Dirty
BY DEF Dirty

LEMMA DirtyByEntry ==
    ASSUME TypeOK, PageTablesIntact, NEW va \in VA, Table(va) # NULL,
           NEW pte \in PTE \cup {NoPTE}, UNCHANGED kern_pgdir,
           mem' = SetPte(mem, Table(va), va, pte)
    PROVE  Dirty' = Dirty
<1>1. Table(va) \in Page /\ va[1] \in PDXs
  BY EntryTypes
<1>2. \A p \in Page \ {Table(va)} : mem'[p] = mem[p]
  BY <1>1 DEF SetPte, TypeOK
<1>3. Table(va) \in PageTables /\ PageTables' = PageTables
  BY <1>1, DirectorySame DEF PageTables, Directory, Table
<1>4. PageTablesIntact'
  BY TablesKeptByEntry
<1>5. \A x \in PTXs : mem[Table(va)][x] # Junk /\ mem'[Table(va)][x] # Junk
  BY <1>3, <1>4 DEF PageTablesIntact
<1> QED BY <1>1, <1>2, <1>5 DEF Dirty

LEMMA DirtyByInstall ==
    ASSUME IInv, NEW va \in VA, NEW pte \in PTE \cup {NoPTE}, InstallTable(va, pte)
    PROVE  Dirty' = Dirty \ {page_free_list}
<1>1. page_free_list \in Page /\ PageTables' = PageTables \cup {page_free_list}
  BY InstallFacts
<1>2. \A p \in Page \ {page_free_list} : mem'[p] = mem[p]
  BY <1>1 DEF InstallTable, SetPte, IInv, TypeOK
<1>3. PageTablesIntact'
  BY TablesKeptByInstall DEF IInv
<1>4. \A x \in PTXs : mem'[page_free_list][x] # Junk
  BY <1>1, <1>3 DEF PageTablesIntact
<1> QED BY <1>1, <1>2, <1>4 DEF Dirty

LEMMA DirtyByData ==
    ASSUME TypeOK, NEW p \in Page, mem' = [mem EXCEPT ![p] = JunkPage]
    PROVE  Dirty' = Dirty \cup {p}
<1>1. \A q \in Page \ {p} : mem'[q] = mem[q]
  BY DEF TypeOK
<1>2. mem'[p] = [x \in PTXs |-> Junk]
  BY DEF TypeOK, JunkPage
<1>3. \E x \in PTXs : mem'[p][x] = Junk
  BY <1>2, PTXsNonEmpty
<1> QED BY <1>1, <1>3 DEF Dirty

-----------------------------------------------------------------------------
(***************************************************************************)
(* One lemma per operation: the step of AddrSpace it takes.                *)
(***************************************************************************)
LEMMA AllocImplements ==
    ASSUME IInv, NEW zero \in BOOLEAN, page_alloc(zero)
    PROVE  page_free_list \in Range(free) /\ Abs!Alloc(page_free_list, zero)
<1> DEFINE h == page_free_list
<1>1. h \in Range(free) /\ Range(free') = Range(free) \ {h}
  BY TakeFromList DEF page_alloc, IInv, TypeOK
<1>2. h \in Page /\ h \notin PageTables
  BY <1>1, DynamicPages DEF IInv, OneUseEach
<1>3. \A q \in Page \ {h} : mem'[q] = mem[q]
  BY <1>2 DEF page_alloc, IInv, TypeOK
<1>4. AbsMap' = AbsMap /\ PageTables' = PageTables
  BY <1>2, <1>3, OtherPageWritten, AbsMapSame, DirectorySame DEF page_alloc, IInv
<1>5. Dirty' = IF zero THEN Dirty \ {h} ELSE Dirty
  <2>1. CASE zero
    <3>1. \A x \in PTXs : mem'[h][x] = NoPTE
      BY <1>2, <2>1 DEF page_alloc, ZeroPage, IInv, TypeOK
    <3> QED BY <1>2, <1>3, <2>1, <3>1, WordsDistinct DEF Dirty
  <2>2. CASE ~zero
    BY <2>2, DirtySame DEF page_alloc
  <2> QED BY <2>1, <2>2
<1> QED BY <1>1, <1>4, <1>5 DEF page_alloc, Abs!Alloc, AbsMap

LEMMA FreeImplements ==
    ASSUME IInv, NEW pp \in held, page_free(pp)
    PROVE  Abs!Free(pp)
<1>1. pp \in Dynamic \ Range(free) /\ pp \in Page
  BY DynamicPages DEF IInv, OneUseEach
<1>2. ~FreePanics(pp, pp_ref[pp])
  BY <1>1, UnusedCount DEF FreePanics, IInv, FreeListWellFormed
<1>3. GivePage(pp) /\ held' = held \ {pp} /\ UNCHANGED <<kern_pgdir, mem>>
  BY <1>2 DEF page_free, mmuVars
<1>4. Range(free') = Range(free) \cup {pp}
  BY <1>1, <1>3, GiveToList DEF IInv, TypeOK
<1>5. AbsMap' = AbsMap
  BY <1>3, AbsMapSame DEF Pte, Table
<1> QED BY <1>3, <1>4, <1>5, DirectorySame, DirtySame DEF Abs!Free, AbsMap

\* A new page table is a page the address space keeps.
LEMMA InstallKeeps ==
    ASSUME IInv, NEW va \in VA, NEW pte \in PTE \cup {NoPTE}, InstallTable(va, pte)
    PROVE  /\ page_free_list \in Range(free)
           /\ Abs!Keep({page_free_list})
           /\ Range(free') = Range(free) \ {page_free_list}
           /\ AbsMap' = [AbsMap EXCEPT ![va] = pte] /\ Pte(va) = NoPTE
<1>1. /\ page_free_list \in Range(free)
      /\ Range(free') = Range(free) \ {page_free_list}
      /\ PageTables' = PageTables \cup {page_free_list}
  BY InstallFacts
<1>2. Dirty' = Dirty \ {page_free_list}
  BY DirtyByInstall
<1>3. PteChange(va, pte) /\ Pte(va) = NoPTE
  BY TableInstalled DEF IInv
<1> QED BY <1>1, <1>2, <1>3, AbsMapChange DEF Abs!Keep

LEMMA WalkImplements ==
    ASSUME IInv, NEW va \in VA, pgdir_walk(va)
    PROVE  page_free_list \in Range(free) /\ Abs!Grow({page_free_list})
<1>1. InstallTable(va, NoPTE) /\ UNCHANGED held
  BY DEF pgdir_walk
<1>2. AbsMap' = AbsMap
  BY <1>1, InstallKeeps DEF AbsMap
<1> QED BY <1>1, <1>2, InstallKeeps DEF Abs!Grow, AbsMap

\* The page of an insertion is held or mapped somewhere.
LEMMA InsertNewTableImplements ==
    ASSUME IInv, NEW pp \in Page, MayMap(pp), NEW va \in VA, NEW perm \in Perms,
           InsertInNewTable(pp, va, perm)
    PROVE  page_free_list \in Range(free) /\ Abs!Map(pp, va, perm, {page_free_list})
<1> DEFINE pte == [page |-> pp, perm |-> perm]
<1>1. pte \in PTE \cup {NoPTE} /\ InstallTable(va, pte) /\ held' = held \ {pp}
  BY DEF PTE, InsertInNewTable
<1>2. /\ page_free_list \in Range(free)
      /\ Abs!Keep({page_free_list})
      /\ Range(free') = Range(free) \ {page_free_list}
      /\ AbsMap' = [AbsMap EXCEPT ![va] = pte] /\ Pte(va) = NoPTE
  BY <1>1, InstallKeeps
<1>3. Abs!Released(va) = {} /\ AbsMap[va] = NoPTE
  BY <1>2, ReleasedPages DEF AbsMap
<1>4. pp \in held \/ Abs!MapsTo(AbsMap, pp)
  BY AbsMapsTo DEF MayMap, MappedPages
<1> QED BY <1>1, <1>2, <1>3, <1>4 DEF Abs!Map, Abs!Entry, AbsMap

LEMMA InsertEmptySlotImplements ==
    ASSUME IInv, NEW pp \in Page, MayMap(pp), NEW va \in VA, NEW perm \in Perms,
           InsertInEmptySlot(pp, va, perm)
    PROVE  Abs!Map(pp, va, perm, {})
<1> DEFINE pte == [page |-> pp, perm |-> perm]
<1>1. /\ pte \in PTE \cup {NoPTE} /\ Table(va) # NULL /\ Pte(va) = NoPTE
      /\ mem' = SetPte(mem, Table(va), va, pte) /\ held' = held \ {pp}
      /\ UNCHANGED <<free, kern_pgdir>>
  BY DEF PTE, InsertInEmptySlot, IsMapped, listVars
<1>2. PteChange(va, pte) /\ Dirty' = Dirty /\ PageTables' = PageTables
  BY <1>1, EntryWritten, DirtyByEntry, DirectorySame DEF IInv
<1>3. AbsMap' = [AbsMap EXCEPT ![va] = pte] /\ Abs!Released(va) = {}
  BY <1>1, <1>2, AbsMapChange, ReleasedPages
<1>4. pp \in held \/ Abs!MapsTo(AbsMap, pp)
  BY AbsMapsTo DEF MayMap, MappedPages
<1>5. Abs!Keep({})
  BY <1>2 DEF Abs!Keep
<1> QED BY <1>1, <1>3, <1>4, <1>5 DEF Abs!Map, Abs!Entry, AbsMap

LEMMA InsertSamePageImplements ==
    ASSUME IInv, NEW pp \in Page, MayMap(pp), NEW va \in VA, NEW perm \in Perms,
           InsertSamePage(pp, va, perm)
    PROVE  Abs!Map(pp, va, perm, {})
<1> DEFINE pte == [page |-> pp, perm |-> perm]
<1>1. /\ pte \in PTE \cup {NoPTE} /\ pte # NoPTE /\ pte.page = pp
      /\ Table(va) # NULL /\ Pte(va) # NoPTE /\ Pte(va).page = pp
      /\ mem' = SetPte(mem, Table(va), va, pte)
      /\ UNCHANGED <<free, kern_pgdir, held>>
  BY WordsDistinct DEF PTE, InsertSamePage, IsMapped, Pte, pageVars, listVars
<1>2. PteChange(va, pte) /\ Dirty' = Dirty /\ PageTables' = PageTables
  BY <1>1, EntryWritten, DirtyByEntry, DirectorySame DEF IInv
<1>3. va \in Mappings(pp) /\ va \in Mappings(pp)'
  BY <1>1, <1>2 DEF Mappings, IsMapped, PteChange
<1>4. AbsMap' = [AbsMap EXCEPT ![va] = pte] /\ Abs!Released(va) = {}
  BY <1>1, <1>2, <1>3, AbsMapChange, ReleasedPages
<1>5. Abs!MapsTo(AbsMap, pp) /\ pp \notin held
  BY <1>3, AbsMapsTo DEF IInv, OneUseEach, MappedPages
<1>6. Abs!Keep({})
  BY <1>2 DEF Abs!Keep
<1> QED BY <1>1, <1>4, <1>5, <1>6 DEF Abs!Map, Abs!Entry, AbsMap

LEMMA InsertOverOtherImplements ==
    ASSUME IInv, NEW pp \in Page, MayMap(pp), NEW va \in VA, NEW perm \in Perms,
           InsertOverOther(pp, va, perm)
    PROVE  Abs!Map(pp, va, perm, {})
<1> PICK old : old = Pte(va).page
  OBVIOUS
<1> DEFINE pte == [page |-> pp, perm |-> perm]
           ref == [pp_ref EXCEPT ![old] = Dec(@), ![pp] = Inc(@)]
<1>1. /\ pte \in PTE \cup {NoPTE} /\ pte # NoPTE /\ pte.page # old
      /\ IsMapped(va) /\ Unmap(va, pte, ref) /\ UNCHANGED kern_pgdir
      /\ held' = IF panicked' THEN held ELSE held \ {pp}
  BY WordsDistinct DEF PTE, InsertOverOther
<1> HIDE DEF ref
<1>2. /\ PteChange(va, pte) /\ UNCHANGED panicked
      /\ mem' = SetPte(mem, Table(va), va, pte) /\ Table(va) # NULL
      /\ old \in MappedPages
      /\ Range(free') = Range(free) \cup (IF Mappings(old)' = {} THEN {old} ELSE {})
  BY <1>1, UnmapFacts
<1>3. Dirty' = Dirty /\ PageTables' = PageTables
  BY <1>1, <1>2, DirtyByEntry, DirectorySame DEF IInv
<1>4. held' = held \ {pp}
  BY <1>1, <1>2 DEF IInv, NoPanic
<1>5. AbsMap' = [AbsMap EXCEPT ![va] = pte]
      /\ Range(free') = Range(free) \cup Abs!Released(va)
  BY <1>1, <1>2, AbsMapChange, ReleasedPages DEF IsMapped, MappedPages
<1>6. pp \in held \/ Abs!MapsTo(AbsMap, pp)
  BY AbsMapsTo DEF MayMap, MappedPages
<1>7. Abs!Keep({})
  BY <1>3 DEF Abs!Keep
<1> QED BY <1>4, <1>5, <1>6, <1>7 DEF Abs!Map, Abs!Entry, AbsMap

LEMMA RemoveImplements ==
    ASSUME IInv, NEW va \in VA, page_remove(va)
    PROVE  Abs!Unmap(va)
<1> PICK old : old = Pte(va).page
  OBVIOUS
<1> DEFINE ref == [pp_ref EXCEPT ![old] = Dec(@)]
<1>1. IsMapped(va) /\ Unmap(va, NoPTE, ref) /\ UNCHANGED <<kern_pgdir, held>>
  BY DEF page_remove
<1> HIDE DEF ref
<1>2. /\ PteChange(va, NoPTE)
      /\ mem' = SetPte(mem, Table(va), va, NoPTE) /\ Table(va) # NULL
      /\ old \in MappedPages
      /\ Range(free') = Range(free) \cup (IF Mappings(old)' = {} THEN {old} ELSE {})
  BY <1>1, UnmapFacts
<1>3. Dirty' = Dirty /\ PageTables' = PageTables
  BY <1>1, <1>2, DirtyByEntry, DirectorySame DEF IInv
<1>4. AbsMap' = [AbsMap EXCEPT ![va] = NoPTE] /\ AbsMap[va] # NoPTE
      /\ Range(free') = Range(free) \cup Abs!Released(va)
  BY <1>1, <1>2, AbsMapChange, ReleasedPages DEF IsMapped, MappedPages, AbsMap
<1> QED BY <1>1, <1>3, <1>4 DEF Abs!Unmap, AbsMap

(***************************************************************************)
(* A store dirties the page mapped now, whichever translation it used.     *)
(***************************************************************************)
LEMMA DataWrittenSeen ==
    ASSUME IInv, NEW p \in Page \ PageTables,
           mem' = [mem EXCEPT ![p] = JunkPage],
           UNCHANGED <<pageVars, kern_pgdir, tlb, held, panicked>>
    PROVE  /\ Dirty' = Dirty \cup {p}
           /\ AbsMap' = AbsMap /\ PageTables' = PageTables /\ UNCHANGED <<free, held>>
<1>1. \A q \in Page \ {p} : mem'[q] = mem[q]
  BY DEF IInv, TypeOK
<1> QED
  BY <1>1, DirtyByData, OtherPageWritten, AbsMapSame, DirectorySame
  DEF IInv, pageVars, listVars

LEMMA StoreImplements ==
    ASSUME IInv, NEW va \in VA, Store(va)
    PROVE  Abs!Write(va)
<1>1. Pte(va) # NoPTE /\ Translation(va).page = Pte(va).page
  BY DEF IInv, Store, Translation, TLBFrameCoherent, IsMapped
<1>2. Pte(va).page \in Page /\ va \in Mappings(Pte(va).page)
  BY <1>1, EntryTypes DEF IInv, PTE, Mappings, IsMapped
<1>3. Pte(va).page \in Page \ PageTables
  BY <1>2 DEF IInv, OneUseEach, MappedPages
<1> QED BY <1>1, <1>3, DataWrittenSeen DEF Store, Abs!Write, AbsMap

LEMMA DirectStoreImplements ==
    ASSUME IInv, NEW p \in held, DirectStore(p)
    PROVE  Abs!WriteHeld(p)
<1>1. p \in Page \ PageTables
  BY DynamicPages DEF IInv, OneUseEach
<1> QED BY <1>1, DataWrittenSeen DEF DirectStore, Abs!WriteHeld, AbsMap

-----------------------------------------------------------------------------
LEMMA InitImplements == Init => Abs!AbsInit
<1> SUFFICES ASSUME Init PROVE Abs!AbsInit
  OBVIOUS
<1>1. Range(free) = Dynamic /\ held = {}
  BY InitList DEF Init
<1>2. PageTables = {}
  BY NullIsNoPage DEF PageTables, Directory, Init
<1>3. AbsMap = [va \in VA |-> NoPTE]
  BY DEF AbsMap, Pte, Table, Init, VA
<1>4. Dirty = Page
  BY PTXsNonEmpty DEF Dirty, JunkPage, Init
<1> QED BY <1>1, <1>2, <1>3, <1>4 DEF Abs!AbsInit, AbsMap

\* Changes to the TLB alone, and stuttering, are invisible.
LEMMA Unseen ==
    ASSUME UNCHANGED <<free, kern_pgdir, mem, held>>
    PROVE  UNCHANGED Abs!absVars
<1>1. AbsMap' = AbsMap
  BY AbsMapSame DEF Pte, Table
<1> QED BY <1>1, DirectorySame, DirtySame DEF Abs!absVars, AbsMap

LEMMA NextImplements == IInv /\ [Next]_vars => [Abs!AbsNext]_(Abs!absVars)
<1> SUFFICES ASSUME IInv, [Next]_vars
             PROVE  Abs!AbsNext \/ UNCHANGED Abs!absVars
  OBVIOUS
<1>1. ASSUME NEW zero \in BOOLEAN, page_alloc(zero) PROVE Abs!AbsNext
  BY <1>1, AllocImplements DEF Abs!AbsNext
<1>2. ASSUME NEW pp \in held, page_free(pp) PROVE Abs!AbsNext
  BY <1>2, FreeImplements DEF Abs!AbsNext
<1>3. ASSUME NEW va \in VA, pgdir_walk(va) PROVE Abs!AbsNext
  BY <1>3, WalkImplements DEF Abs!AbsNext
<1>4. ASSUME NEW va \in VA, page_remove(va) PROVE Abs!AbsNext
  BY <1>4, RemoveImplements DEF Abs!AbsNext
<1>5. ASSUME NEW pp \in Page, MayMap(pp),
             NEW va \in VA, NEW perm \in Perms, page_insert(pp, va, perm)
      PROVE  Abs!AbsNext
  <2>1. CASE InsertInNewTable(pp, va, perm)
    BY <1>5, <2>1, InsertNewTableImplements DEF Abs!AbsNext
  <2>2. CASE InsertInEmptySlot(pp, va, perm)
    BY <1>5, <2>2, InsertEmptySlotImplements DEF Abs!AbsNext
  <2>3. CASE InsertSamePage(pp, va, perm)
    BY <1>5, <2>3, InsertSamePageImplements DEF Abs!AbsNext
  <2>4. CASE InsertOverOther(pp, va, perm)
    BY <1>5, <2>4, InsertOverOtherImplements DEF Abs!AbsNext
  <2> QED BY <1>5, <2>1, <2>2, <2>3, <2>4 DEF page_insert
<1>6. ASSUME NEW va \in VA, TLBFill(va) \/ TLBEvict(va)
      PROVE  UNCHANGED Abs!absVars
  BY <1>6, Unseen DEF TLBFill, TLBEvict, pageVars, listVars
<1>7. ASSUME NEW va \in VA, Store(va) PROVE Abs!AbsNext
  BY <1>7, StoreImplements DEF Abs!AbsNext
<1>8. ASSUME NEW p \in held, DirectStore(p) PROVE Abs!AbsNext
  BY <1>8, DirectStoreImplements DEF Abs!AbsNext
<1>9. CASE UNCHANGED vars
  BY <1>9, Unseen DEF vars, pageVars, listVars, mmuVars
<1> QED
  BY <1>1, <1>2, <1>3, <1>4, <1>5, <1>6, <1>7, <1>8, <1>9
  DEF Next, Operations, Processor, Insertions

(***************************************************************************)
(* Every behaviour of the page operations is one AddrSpace allows: a page  *)
(* returns to the pool in the step that removes its last mapping and in no *)
(* other, page tables come clean from the pool and stay with the address   *)
(* space, and a store dirties only the page the page table maps there.     *)
(***************************************************************************)
THEOREM PmapImplementsAddrSpace == Spec => ImplementsAddrSpace
<1>1. Init => Abs!AbsInit
  BY InitImplements
<1>2. IInv /\ [Next]_vars => [Abs!AbsNext]_(Abs!absVars)
  BY NextImplements
<1> QED BY <1>1, <1>2, Invariance, PTL DEF Spec, ImplementsAddrSpace, Abs!AbsSpec
=============================================================================
