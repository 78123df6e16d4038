------------------------------- MODULE StabSearch -------------------------------
(***************************************************************************)
(* stab_binsearch of kern/kdebug.c, one round of its loop per step: the    *)
(* search, in a table where stabs of the type looked for are mixed with    *)
(* others and only those of one type are in order, for the stab that       *)
(* contains an address.                                                    *)
(***************************************************************************)
EXTENDS Integers, FiniteSetsExt

VARIABLES
    call,         \* history: the arguments
    region_left, region_right, \* *region_left, *region_right
    addr, l, r, any_matches,
    done          \* the function has returned

searchVars == <<call, region_left, region_right, addr, l, r, any_matches, done>>

stabs == call.stabs
IsType(k) == stabs[k].n_type = call.type

\* The stabs of the type between two indices.
Matches(lo, hi) == {k \in lo .. hi : IsType(k)}

\* Where the scan from hi down to lo stops.
ScanDown(lo, hi) == IF Matches(lo, hi) = {} THEN lo - 1 ELSE Max(Matches(lo, hi))

\* "Some stab types are arranged in increasing order by instruction address";
\* the region that is searched is not empty.
InOrder(s) ==
    /\ s.left \in Int /\ s.right \in Int /\ s.left <= s.right /\ s.addr \in Int
    /\ \A k \in s.left .. s.right : s.stabs[k].n_value \in Int
    /\ \A j, k \in s.left .. s.right :
          j < k /\ s.stabs[j].n_type = s.type /\ s.stabs[k].n_type = s.type
          => s.stabs[j].n_value <= s.stabs[k].n_value

-----------------------------------------------------------------------------
true_m == (l + r) \div 2
m == ScanDown(l, true_m)

InLoop == ~done /\ l <= r

NoMatch ==
    /\ InLoop /\ m < l
    /\ l' = true_m + 1
    /\ UNCHANGED <<call, region_left, region_right, addr, r, any_matches, done>>

Before ==
    /\ InLoop /\ m >= l /\ stabs[m].n_value < addr
    /\ any_matches' = TRUE
    /\ region_left' = m
    /\ l' = true_m + 1
    /\ UNCHANGED <<call, region_right, addr, r, done>>

\* Mutant: the region ends before true_m, not before m.
After_KeepsRight ==
    /\ InLoop /\ m >= l /\ stabs[m].n_value > addr
    /\ any_matches' = TRUE
    /\ region_right' = true_m - 1
    /\ r' = m - 1
    /\ UNCHANGED <<call, region_left, addr, l, done>>

After ==
    /\ InLoop /\ m >= l /\ stabs[m].n_value > addr
    /\ any_matches' = TRUE
    /\ region_right' = m - 1
    /\ r' = m - 1
    /\ UNCHANGED <<call, region_left, addr, l, done>>

\* Mutant: an exact match looks for the same address again.
Exact_SameAddr ==
    /\ InLoop /\ m >= l /\ stabs[m].n_value = addr
    /\ any_matches' = TRUE
    /\ region_left' = m
    /\ l' = m
    /\ UNCHANGED <<call, region_right, addr, r, done>>

\* The search goes on from m for the address after, to find where the next
\* stab is.
Exact ==
    /\ InLoop /\ m >= l /\ stabs[m].n_value = addr
    /\ any_matches' = TRUE
    /\ region_left' = m
    /\ l' = m
    /\ addr' = addr + 1
    /\ UNCHANGED <<call, region_right, r, done>>

\* Mutant: without any match the region stays as it was.
Return_KeepsRegion ==
    /\ ~done /\ l > r
    /\ done' = TRUE
    /\ region_left' = IF any_matches /\ region_right > region_left
                      THEN ScanDown(region_left + 1, region_right) ELSE region_left
    /\ UNCHANGED <<call, region_right, addr, l, r, any_matches>>

\* The rightmost stab of the type in the region, or its left end.
Return ==
    /\ ~done /\ l > r
    /\ done' = TRUE
    /\ IF any_matches
       THEN /\ region_left' = IF region_right <= region_left THEN region_right
                              ELSE ScanDown(region_left + 1, region_right)
            /\ UNCHANGED region_right
       ELSE region_right' = region_left - 1 /\ UNCHANGED region_left
    /\ UNCHANGED <<call, addr, l, r, any_matches>>

SearchNext == NoMatch \/ Before \/ After \/ Exact \/ Return

-----------------------------------------------------------------------------
AllMatches == Matches(call.left, call.right)

\* The stabs at or before an address, and at or before the one asked for.
UpTo(a)    == {k \in AllMatches : stabs[k].n_value <= a}
Containing == UpTo(call.addr)

\* Every address from the one asked for up to another has a stab exactly there.
RunTo(a) == \A b \in call.addr .. a : \E k \in AllMatches : stabs[k].n_value = b

\* The variables stay within the region; the loop's own by one.
SearchTypeOK ==
    /\ region_left \in call.left - 1 .. call.right
    /\ region_right \in call.left - 1 .. call.right
    /\ l \in call.left .. call.right + 1
    /\ r \in call.left - 1 .. call.right
    /\ addr \in call.addr .. call.addr + Cardinality(AllMatches)
    /\ any_matches \in BOOLEAN /\ done \in BOOLEAN

(***************************************************************************)
(* What the loop keeps: the stabs before l lie at or before the address    *)
(* and the last of them is at region_left; those after r lie behind it,    *)
(* and region_right is just before the first of them.  The address looked  *)
(* for has moved on only past addresses at which a stab lies exactly.      *)
(***************************************************************************)
Bracketed ==
    /\ SearchTypeOK
    /\ ~done =>
        /\ \A k \in Matches(call.left, l - 1) : stabs[k].n_value <= addr
        /\ \A k \in Matches(r + 1, call.right) : stabs[k].n_value > call.addr
        /\ Matches(r + 1, region_right) = {}
        /\ Matches(region_left + 1, l - 1) = {}
        /\ region_left = call.left \/ region_left \in UpTo(addr)
        /\ region_right = call.right \/ region_right + 1 \in AllMatches
        /\ RunTo(addr - 1)

(***************************************************************************)
(* When some stab of the type contains the address, region_left is the     *)
(* last that does and region_right is just before the next one             *)
(* (kern/kdebug.c:30-32).  The comment leaves out stabs at an exact match  *)
(* and the addresses right after it: the search may go on from each to the *)
(* next, because it looks for addr + 1 then, and return one of those, of   *)
(* several stabs at one address not always the last.                       *)
(***************************************************************************)
FindsRegion ==
    done /\ Containing # {} =>
        /\ \/ region_left = Max(Containing)
           \/ /\ region_left \in AllMatches
              /\ stabs[region_left].n_value > call.addr
              /\ RunTo(stabs[region_left].n_value)
        /\ LET next == {k \in AllMatches : k > region_left} IN
           region_right = IF next = {} THEN call.right ELSE Min(next) - 1

(***************************************************************************)
(* What debuginfo_eip makes of a search that finds nothing: with no stab   *)
(* of the type the region is empty, and with all of them behind the        *)
(* address it is what lies before the first one, unless a stab of the type *)
(* is at its left end.  In the second case the region is not empty, which  *)
(* the comment in lines 32-34 would have it.                               *)
(***************************************************************************)
NothingFound ==
    done /\ Containing = {} =>
        /\ AllMatches = {} => region_left > region_right
        /\ ~IsType(call.left) =>
              /\ region_left = call.left
              /\ AllMatches # {} => region_right = Min(AllMatches) - 1
=================================================================================
