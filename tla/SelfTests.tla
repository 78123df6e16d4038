-------------------------------- MODULE SelfTests --------------------------------
(***************************************************************************)
(* check_page_alloc, check_page and check_page_installed_pgdir of          *)
(* kern/pmap.c: sequences of statements on a machine of PageOps, to which  *)
(* they add their local variables                                          *)
(*   pp     pp, pp0, pp1, pp2                                              *)
(*   fl     the pages stolen                                               *)
(*   nfree  how many pages were free                                       *)
(* A statement is a tuple, its name first.                                 *)
(***************************************************************************)
EXTENDS PageOps

\* assert
Require(m, condition) == [m EXCEPT !.panics = @ \/ ~condition]

\* x = page_alloc(flags); assert(x)
Alloc(m, x, zero) ==
    LET a == page_alloc(m, zero) IN [Require(a, a.got # NULL) EXCEPT !.pp[x] = a.got]

\* What a statement does when the ones before it went well.
Statement(m, s) ==
    LET p  == m.pp[s[2]]
        va == s[2]
    IN
    CASE s[1] = "alloc"    -> Alloc(m, s[2], FALSE)
      [] s[1] = "again"    -> LET a == Alloc(m, "pp", s[3]) IN Require(a, a.pp["pp"] = p)
      [] s[1] = "distinct" -> Require(m, /\ m.pp["pp1"] # m.pp["pp0"]
                                         /\ m.pp["pp2"] \notin {m.pp["pp0"], m.pp["pp1"]})
      [] s[1] = "in memory" -> Require(m, \A x \in {"pp0", "pp1", "pp2"} : m.pp[x] \in DOMAIN m.ref)
      [] s[1] = "no memory" -> LET a == page_alloc(m, FALSE) IN Require(a, a.got = NULL)
      [] s[1] = "count"    -> [m EXCEPT !.nfree = Len(m.list)]
      [] s[1] = "recount"  -> Require(m, m.nfree = Len(m.list))
      [] s[1] = "steal"    -> [m EXCEPT !.fl = m.list, !.list = <<>>]
      [] s[1] = "give back" -> [m EXCEPT !.list = m.fl]
      [] s[1] = "free"     -> page_free(m, p)
      [] s[1] = "insert"   -> LET n == page_insert(m, p, s[3], s[4]) IN
                              Require(n, IF s[5] THEN n.got = 0 ELSE n.got < 0)
      [] s[1] = "remove"   -> page_remove(m, va)
      [] s[1] = "lookup"   -> LET l == page_lookup(m, va) IN Require(l, l.got = NULL)
      [] s[1] = "maps"     -> Require(m, Pte(m, va) # Zero /\ Pte(m, va)[1] = m.pp[s[3]])
      [] s[1] = "unmapped" -> Require(m, Pte(m, va) = Zero)
      [] s[1] = "perm"     -> Require(m, (s[3] \in Pte(m, va)[2]) = s[4])
      [] s[1] = "dir perm" -> Require(m, s[3] \in m.pde[PDX(va)][2])
      [] s[1] = "table"    -> Require(m, m.pde[PDX(va)] # Zero /\ Table(m, va) = m.pp["pp0"])
      [] s[1] = "walk"     -> LET w == pgdir_walk(m, va, s[3]) IN
                              Require(w, w.got # NULL /\ w.got = Table(w, va))
      [] s[1] = "cut"      -> [m EXCEPT !.pde[PDX(va)] = Zero, !.ref[m.pp["pp0"]] = 0]
      [] s[1] = "ref"      -> Require(m, m.ref[p] = s[3])
      [] s[1] = "no link"  -> Require(m, m.ref[p] # 0 /\ p \notin Range(Front(m.list)))
      [] s[1] = "memset"   -> memset(m, p, Fill(s[3]))
      [] s[1] = "cleared"  -> Require(Touch(m, p), m.mem[p] = Page(Zero))
      [] s[1] = "word"     -> Require(Touch(m, p), m.mem[p][0] = Fill(s[3]))
      [] s[1] = "load"     -> LET t == Translated(m, va, FALSE) IN
                              Require(t, t.got # NULL /\ m.mem[t.got][0] = Fill(s[3]))
      [] s[1] = "store"    -> LET t == Translated(m, va, TRUE) IN
                              IF t.got = NULL THEN t ELSE [t EXCEPT !.mem[t.got][0] = Fill(s[3])]

\* The machine after a test: nothing runs after a panic or a fault.  The
\* machine before a statement is bound by \in, so that TLC computes it once.
Run(machine, test) ==
    LET step(m, s) == IF m.panics \/ m.faults THEN m ELSE Statement(m, s)
        run[k \in 0 .. Len(test)] ==
            IF k = 0 THEN machine
            ELSE CHOOSE n \in {step(m, test[k]) : m \in {run[k - 1]}} : TRUE
    IN  run[Len(test)]

-----------------------------------------------------------------------------
U == "PTE_U"
W == "PTE_W"

AllocThree == << <<"alloc", "pp0">>, <<"alloc", "pp1">>, <<"alloc", "pp2">>, <<"distinct">> >>
FreeThree  == << <<"free", "pp0">>, <<"free", "pp1">>, <<"free", "pp2">> >>

check_page_alloc ==
    << <<"count">> >> \o AllocThree
    \o << <<"in memory">>, <<"steal">>, <<"no memory">> >>
    \o FreeThree \o AllocThree
    \o << <<"no memory">>,
          <<"memset", "pp0", 1>>, <<"free", "pp0">>, <<"again", "pp0", TRUE>>, <<"cleared", "pp0">>,
          <<"give back">> >>
    \o FreeThree \o << <<"recount">> >>

\* NPDENTRIES and NPTENTRIES are one number in inc/mmu.h.
check_page ==
    AllocThree
    \o << <<"steal">>, <<"no memory">>,
          <<"lookup", 0>>, <<"insert", "pp1", 0, {W}, FALSE>>,
          \* pp0 becomes the page table
          <<"free", "pp0">>, <<"insert", "pp1", 0, {W}, TRUE>>,
          <<"table", 0>>, <<"maps", 0, "pp1">>, <<"ref", "pp1", 1>>, <<"ref", "pp0", 1>>,
          <<"insert", "pp2", 1, {W}, TRUE>>, <<"maps", 1, "pp2">>, <<"ref", "pp2", 1>>,
          <<"no memory">>,
          \* the same page again, then with more and fewer permissions
          <<"insert", "pp2", 1, {W}, TRUE>>, <<"maps", 1, "pp2">>, <<"ref", "pp2", 1>>,
          <<"no memory">>, <<"walk", 1, FALSE>>,
          <<"insert", "pp2", 1, {W, U}, TRUE>>, <<"maps", 1, "pp2">>, <<"ref", "pp2", 1>>,
          <<"perm", 1, U, TRUE>>, <<"dir perm", 0, U>>,
          <<"insert", "pp2", 1, {W}, TRUE>>, <<"perm", 1, W, TRUE>>, <<"perm", 1, U, FALSE>>,
          <<"insert", "pp0", PTSIZE, {W}, FALSE>>,
          \* pp1 in place of pp2
          <<"insert", "pp1", 1, {W}, TRUE>>, <<"perm", 1, U, FALSE>>,
          <<"maps", 0, "pp1">>, <<"maps", 1, "pp1">>, <<"ref", "pp1", 2>>, <<"ref", "pp2", 0>>,
          <<"again", "pp2", FALSE>>,
          <<"remove", 0>>, <<"unmapped", 0>>, <<"maps", 1, "pp1">>,
          <<"ref", "pp1", 1>>, <<"ref", "pp2", 0>>,
          <<"insert", "pp1", 1, {}, TRUE>>, <<"no link", "pp1">>,
          <<"remove", 1>>, <<"unmapped", 0>>, <<"unmapped", 1>>,
          <<"ref", "pp1", 0>>, <<"ref", "pp2", 0>>,
          <<"again", "pp1", FALSE>>, <<"no memory">>,
          \* pp0 is taken back, and becomes a page table twice more
          <<"table", 0>>, <<"ref", "pp0", 1>>, <<"cut", 0>>, <<"free", "pp0">>,
          <<"walk", NPTENTRIES + 1, TRUE>>, <<"cut", NPTENTRIES + 1>>,
          <<"memset", "pp0", 255>>, <<"free", "pp0">>,
          <<"walk", 0, TRUE>>, <<"cleared", "pp0">>, <<"cut", 0>>,
          <<"give back">> >>
    \o FreeThree

check_page_installed_pgdir ==
    << <<"alloc", "pp0">>, <<"alloc", "pp1">>, <<"alloc", "pp2">>, <<"free", "pp0">>,
       <<"memset", "pp1", 1>>, <<"memset", "pp2", 2>>,
       <<"insert", "pp1", 1, {W}, TRUE>>, <<"ref", "pp1", 1>>, <<"load", 1, 1>>,
       <<"insert", "pp2", 1, {W}, TRUE>>, <<"load", 1, 2>>, <<"ref", "pp2", 1>>, <<"ref", "pp1", 0>>,
       <<"store", 1, 3>>, <<"word", "pp2", 3>>,
       <<"remove", 1>>, <<"ref", "pp2", 0>>,
       <<"table", 0>>, <<"ref", "pp0", 1>>, <<"cut", 0>>, <<"free", "pp0">> >>
==================================================================================
