----------------------------- MODULE KdebugProofs -----------------------------
(***************************************************************************)
(* stab_binsearch returns the stab it promises, for a table of any size    *)
(* and any addresses.  Bracketed, which says what the loop keeps of the    *)
(* table, is not inductive: it takes how the variables move together as    *)
(* well.  region_right follows r, l is at the stab found last or past it,  *)
(* and the address looked for is past the one of that stab.                *)
(***************************************************************************)
EXTENDS Kdebug, SearchCall, TLAPS, FiniteSetTheorems, WellFoundedInduction

Ranges ==
    /\ l \in Int /\ r \in Int /\ region_left \in Int /\ addr \in Int
    /\ any_matches \in BOOLEAN
    /\ call.left <= l /\ l <= r + 1 /\ r <= call.right
    /\ call.left <= region_left /\ region_left <= l
    /\ region_right = r /\ call.addr <= addr

Sides ==
    /\ \A k \in AllMatches : k < l => stabs[k].n_value <= addr
    /\ \A k \in AllMatches : k > r => stabs[k].n_value > call.addr
    /\ \A k \in AllMatches : ~(region_left < k /\ k < l)
    /\ r = call.right \/ r + 1 \in AllMatches
    /\ RunTo(addr - 1)

LastFound ==
    /\ \/ region_left \in AllMatches /\ stabs[region_left].n_value < addr
          /\ region_left <= r
       \/ region_left = call.left /\ addr = call.addr
          /\ (call.left \in AllMatches => l = call.left)
    /\ any_matches => AllMatches # {}
    /\ ~any_matches => /\ region_left = call.left /\ r = call.right
                       /\ \A k \in AllMatches : k >= l

LoopInv == Ranges /\ Sides /\ LastFound

SearchInv ==
    /\ InOrder(call) /\ done \in BOOLEAN
    /\ ~done => LoopInv
    /\ done => SearchTypeOK /\ FindsRegion /\ NothingFound

(***************************************************************************)
(* What debuginfo_eip knows between its searches.  The region of a file    *)
(* begins at its stab and ends before the next one's; it is the address's  *)
(* file, unless that has no code.  In it the search for the function       *)
(* found none, or all of them behind the address, or the one the address   *)
(* is in.                                                                  *)
(***************************************************************************)
Final == Cardinality(DOMAIN table) - 1

FileRegion(left, right) ==
    /\ AtOrBefore("N_SO") # {}
    /\ left \in Stabs("N_SO") /\ right \in DOMAIN table /\ left <= right
    /\ \A j \in Stabs("N_SO") : j > left => j > right
    /\ right = Final \/ right + 1 \in Stabs("N_SO")
    /\ \/ left = FileStab
       \/ InFile \cap (Stabs("N_FUN") \cup Stabs("N_SLINE")) = {}

HasNoFunction(left, right) ==
    /\ left > right
    /\ Stabs("N_FUN") \cap (lfile .. rfile) = {}

AllBehind(left, right) ==
    /\ left = lfile /\ left <= right /\ right < rfile /\ right + 1 \in Stabs("N_FUN")
    /\ \A k \in Stabs("N_FUN") \cap (lfile .. rfile) : k > right /\ table[k].n_value > eip

InFunction(left, right) ==
    /\ left \in AtOrBefore("N_FUN") /\ lfile < left /\ left <= right /\ right <= rfile
    /\ \A k \in Stabs("N_FUN") \cap (lfile .. rfile) :
          k > left => k > right /\ table[k].n_value > eip
    /\ right = rfile \/ right + 1 \in Stabs("N_FUN")

FunRegion(left, right) ==
    /\ left \in Int /\ right \in Int
    /\ HasNoFunction(left, right) \/ AllBehind(left, right) \/ InFunction(left, right)

FileCall == call = Call("N_SO", 0, Final, eip)
FunCall  == FileRegion(lfile, rfile) /\ call = Call("N_FUN", lfile, rfile, eip)
LineCall ==
    /\ FileRegion(lfile, rfile) /\ FunRegion(lfun, rfun)
    /\ call = IF lfun <= rfun THEN Call("N_SLINE", lfun, rfun, eip - table[lfun].n_value)
              ELSE Call("N_SLINE", lfile, rfile, eip)
    /\ lfun <= rfun => eip_fn_addr = table[lfun].n_value

IInv ==
    /\ table \in Tables /\ eip \in Addrs /\ SearchInv
    /\ pc \in {"N_SO", "N_FUN", "N_SLINE", "returned"}
    /\ pc = "N_SO" => FileCall
    /\ pc = "N_FUN" => FunCall
    /\ pc = "N_SLINE" => LineCall
    /\ pc # "returned" => ret = 1
    /\ pc = "returned" => done
    /\ FunctionRight /\ LineStabRight /\ FileRight

\* A call of the search begins.
SearchBegins ==
    /\ InOrder(call)
    /\ region_left = call.left /\ region_right = call.right
    /\ addr = call.addr /\ l = call.left /\ r = call.right
    /\ any_matches = FALSE /\ done = FALSE

-----------------------------------------------------------------------------
(***************************************************************************)
(* The greatest and the least of a set of indices.                         *)
(***************************************************************************)
LEMMA LeastNat ==
    ASSUME NEW T, T \subseteq Nat, T # {}
    PROVE  \E x \in T : \A y \in T : x <= y
<1> DEFINE R == OpToRel(<, Nat)
<1>1. IsWellFoundedOn(R, Nat)
  BY NatLessThanWellFounded
<1>2. \A x, y \in Nat : x < y => <<x, y>> \in R
  BY DEF OpToRel
<1>3. \E x \in T : \A y \in T : ~(<<y, x>> \in R)
  <2> HIDE DEF R
  <2> QED BY <1>1, WFMin
<1>4. PICK x \in T : \A y \in T : ~(<<y, x>> \in R)
  BY <1>3
<1> HIDE DEF R
<1>5. \A y \in T : ~(y < x)
  BY <1>2, <1>4, Zenon
<1>6. \A y \in T : x <= y
  BY <1>5, SMT
<1> QED BY <1>6

LEMMA MaxIs ==
    ASSUME NEW S, S \subseteq Int, NEW x \in S, \A y \in S : x >= y
    PROVE  Max(S) = x
<1>1. \E z \in S : \A y \in S : z >= y
  OBVIOUS
<1>2. Max(S) \in S /\ \A y \in S : Max(S) >= y
  BY <1>1 DEF Max
<1>3. Max(S) \in Int /\ x \in Int
  BY <1>2
<1>4. Max(S) >= x /\ x >= Max(S)
  BY <1>2
<1> QED BY <1>3, <1>4

LEMMA MinIs ==
    ASSUME NEW S, S \subseteq Int, NEW x \in S, \A y \in S : x <= y
    PROVE  Min(S) = x
<1>1. \E z \in S : \A y \in S : z <= y
  OBVIOUS
<1>2. Min(S) \in S /\ \A y \in S : Min(S) <= y
  BY <1>1 DEF Min
<1>3. Min(S) \in Int /\ x \in Int
  BY <1>2
<1>4. Min(S) <= x /\ x <= Min(S)
  BY <1>2
<1> QED BY <1>3, <1>4

LEMMA MinOfIndices ==
    ASSUME NEW lo \in Int, NEW hi \in Int, NEW S, S \subseteq lo .. hi, S # {}
    PROVE  Min(S) \in S /\ \A y \in S : Min(S) <= y
<1> DEFINE T == {k - lo : k \in S}
<1>1. \A k \in S : k \in Int /\ k - lo \in Nat
  OBVIOUS
<1>2. T \subseteq Nat /\ T # {}
  BY <1>1
<1>3. PICK t \in T : \A u \in T : t <= u
  BY <1>2, LeastNat
<1>4. PICK x \in S : t = x - lo
  OBVIOUS
<1>5. \A y \in S : x <= y
  <2> SUFFICES ASSUME NEW y \in S PROVE x <= y
    OBVIOUS
  <2>1. t <= y - lo
    BY <1>3
  <2> QED BY <1>1, <1>4, <2>1
<1>6. Min(S) = x
  BY <1>1, <1>5, MinIs
<1> QED BY <1>5, <1>6

LEMMA MaxOfIndices ==
    ASSUME NEW lo \in Int, NEW hi \in Int, NEW S, S \subseteq lo .. hi, S # {}
    PROVE  Max(S) \in S /\ \A y \in S : Max(S) >= y
<1> DEFINE T == {hi - k : k \in S}
<1>1. \A k \in S : k \in Int /\ hi - k \in Nat
  OBVIOUS
<1>2. T \subseteq Nat /\ T # {}
  BY <1>1
<1>3. PICK t \in T : \A u \in T : t <= u
  BY <1>2, LeastNat
<1>4. PICK x \in S : t = hi - x
  OBVIOUS
<1>5. \A y \in S : x >= y
  <2> SUFFICES ASSUME NEW y \in S PROVE x >= y
    OBVIOUS
  <2>1. t <= hi - y
    BY <1>3
  <2> QED BY <1>4, <2>1
<1>6. Max(S) = x
  BY <1>1, <1>5, MaxIs
<1> QED BY <1>5, <1>6

-----------------------------------------------------------------------------
(***************************************************************************)
(* The scan stops at the last stab of the type, or just before the range.  *)
(***************************************************************************)
LEMMA ScanStops ==
    ASSUME NEW lo \in Int, NEW hi \in Int
    PROVE  /\ Matches(lo, hi) = {} => ScanDown(lo, hi) = lo - 1
           /\ Matches(lo, hi) # {} =>
                /\ ScanDown(lo, hi) \in Matches(lo, hi)
                /\ \A k \in Matches(lo, hi) : ScanDown(lo, hi) >= k
<1>1. Matches(lo, hi) \subseteq lo .. hi
  BY DEF Matches
<1> QED BY <1>1, MaxOfIndices DEF ScanDown

(***************************************************************************)
(* What is known of the call: its table is in order.                       *)
(***************************************************************************)
LEMMA CallInOrder ==
    ASSUME InOrder(call)
    PROVE  /\ call.left \in Int /\ call.right \in Int /\ call.left <= call.right
           /\ call.addr \in Int
           /\ AllMatches \subseteq call.left .. call.right
           /\ \A k \in AllMatches : stabs[k].n_value \in Int
           /\ \A j, k \in AllMatches : j < k => stabs[j].n_value <= stabs[k].n_value
BY DEF InOrder, AllMatches, Matches, IsType, stabs

\* A range within the region has its matches among all.
LEMMA MatchesWithin ==
    ASSUME InOrder(call), NEW lo \in Int, NEW hi \in Int,
           call.left <= lo, hi <= call.right
    PROVE  \A k : k \in Matches(lo, hi) <=> k \in AllMatches /\ lo <= k /\ k <= hi
BY CallInOrder DEF AllMatches, Matches

(***************************************************************************)
(* The address moves on by at most one for each stab of the type.          *)
(***************************************************************************)
LEMMA AddressBound ==
    ASSUME InOrder(call), NEW a \in Int, call.addr <= a, RunTo(a - 1)
    PROVE  a \in call.addr .. call.addr + Cardinality(AllMatches)
<1> DEFINE S == call.addr .. a - 1
           f == [k \in AllMatches |-> stabs[k].n_value]
           T == {f[k] : k \in AllMatches}
<1>1. call.left \in Int /\ call.right \in Int /\ call.addr \in Int
      /\ AllMatches \subseteq call.left .. call.right
  BY CallInOrder
<1>2. IsFiniteSet(AllMatches)
  BY <1>1, FS_Interval, FS_Subset
<1>3. f \in Surjection(AllMatches, T)
  BY DEF Surjection
<1>4. IsFiniteSet(T) /\ Cardinality(T) <= Cardinality(AllMatches)
  <2> HIDE DEF f, T
  <2> QED BY <1>2, <1>3, FS_Surjection
<1>5. S \subseteq T
  BY DEF RunTo
<1>6. Cardinality(S) <= Cardinality(T)
  <2> HIDE DEF S, T
  <2> QED BY <1>4, <1>5, FS_Subset
<1>7. Cardinality(S) = a - call.addr
  <2>1. a - 1 \in Int /\ (call.addr > a - 1 => a = call.addr)
    BY <1>1
  <2>2. Cardinality(S) = IF call.addr > a - 1 THEN 0 ELSE a - 1 - call.addr + 1
    BY <1>1, <2>1, FS_Interval
  <2> QED BY <1>1, <2>1, <2>2
<1>8. Cardinality(AllMatches) \in Nat /\ Cardinality(T) \in Nat
  <2> HIDE DEF T
  <2> QED BY <1>2, <1>4, FS_CardinalityType
<1> HIDE DEF S, T
<1> QED BY <1>1, <1>4, <1>6, <1>7, <1>8

-----------------------------------------------------------------------------
(***************************************************************************)
(* Within the loop: the ranges of the variables and of the middle, and     *)
(* what the scan found there.                                              *)
(***************************************************************************)
LEMMA LoopRanges ==
    ASSUME SearchInv, InLoop
    PROVE  /\ InOrder(call) /\ call.left \in Int /\ call.right \in Int
           /\ call.addr \in Int /\ call.left <= call.right
           /\ l \in Int /\ r \in Int /\ addr \in Int /\ region_left \in Int
           /\ call.left <= l /\ l <= r /\ r <= call.right
           /\ call.left <= region_left /\ region_left <= l
           /\ region_right = r /\ call.addr <= addr
           /\ true_m \in Int /\ l <= true_m /\ true_m <= r
           /\ any_matches \in BOOLEAN /\ ~done /\ Sides /\ LastFound
<1>1. /\ call.left \in Int /\ call.right \in Int /\ call.addr \in Int
      /\ call.left <= call.right /\ InOrder(call)
  BY CallInOrder DEF SearchInv
<1>2. l <= r /\ ~done
  BY DEF InLoop
<1>3. LoopInv
  BY <1>2 DEF SearchInv
<1>4. true_m \in Int /\ l <= true_m /\ true_m <= r
  BY <1>2, <1>3 DEF true_m, LoopInv, Ranges
<1> QED BY <1>1, <1>2, <1>3, <1>4 DEF LoopInv, Ranges

LEMMA FoundInLoop ==
    ASSUME SearchInv, InLoop
    PROVE  /\ m < l => Matches(l, true_m) = {}
           /\ m >= l => /\ m \in AllMatches /\ m \in l .. true_m
                        /\ stabs[m].n_value \in Int
                        /\ \A k \in AllMatches :
                              /\ k <= true_m => stabs[k].n_value <= stabs[m].n_value /\ k <= m
                              /\ k >= m => stabs[k].n_value >= stabs[m].n_value
<1>1. InOrder(call) /\ l \in Int /\ true_m \in Int /\ call.left <= l
      /\ true_m <= call.right
  BY LoopRanges
<1>2. /\ Matches(l, true_m) = {} => m = l - 1
      /\ Matches(l, true_m) # {} =>
           m \in Matches(l, true_m) /\ \A k \in Matches(l, true_m) : m >= k
  BY <1>1, ScanStops DEF m
<1>3. \A k : k \in Matches(l, true_m) <=> k \in AllMatches /\ l <= k /\ k <= true_m
  BY <1>1, MatchesWithin
<1>4. \A k \in AllMatches : k \in Int
  BY <1>1, CallInOrder
<1>5. CASE Matches(l, true_m) = {}
  BY <1>1, <1>2, <1>5
<1>6. CASE Matches(l, true_m) # {}
  <2>1. m \in AllMatches /\ m \in Int /\ l <= m /\ m <= true_m
    BY <1>2, <1>3, <1>4, <1>6
  <2>2. stabs[m].n_value \in Int
    BY <1>1, <2>1, CallInOrder
  <2>3. ASSUME NEW k \in AllMatches
        PROVE  /\ k <= true_m => stabs[k].n_value <= stabs[m].n_value /\ k <= m
               /\ k >= m => stabs[k].n_value >= stabs[m].n_value
    <3>1. k \in Int /\ stabs[k].n_value \in Int
      BY <1>1, CallInOrder
    <3>2. /\ k < m => stabs[k].n_value <= stabs[m].n_value
          /\ k > m => stabs[m].n_value <= stabs[k].n_value
      BY <1>1, <2>1, <3>1, CallInOrder
    <3>3. k <= true_m => k <= m
      BY <1>1, <1>2, <1>3, <1>6, <2>1, <3>1
    <3> QED BY <1>1, <2>1, <2>2, <3>1, <3>2, <3>3
  <2>4. m \in l .. true_m /\ ~(m < l)
    BY <1>1, <2>1
  <2> QED BY <2>1, <2>2, <2>3, <2>4
<1> QED BY <1>5, <1>6

(***************************************************************************)
(* The invariant is what Bracketed says, and more.                         *)
(***************************************************************************)
LEMMA LoopBracketed ==
    ASSUME SearchInv
    PROVE  Bracketed
<1>1. CASE done
  BY <1>1 DEF SearchInv, Bracketed
<1>2. CASE ~done
  <2>1. Ranges /\ Sides /\ LastFound
    BY <1>2 DEF SearchInv, LoopInv
  <2>2. /\ InOrder(call) /\ call.left \in Int /\ call.right \in Int
        /\ call.addr \in Int /\ call.left <= call.right
        /\ AllMatches \subseteq call.left .. call.right
        /\ \A k \in AllMatches : k \in Int /\ stabs[k].n_value \in Int
    BY CallInOrder DEF SearchInv
  <2>3. SearchTypeOK
    <3>1. addr \in call.addr .. call.addr + Cardinality(AllMatches)
      BY <2>1, <2>2, AddressBound DEF Ranges, Sides
    <3>2. region_left <= call.right
      BY <2>1, <2>2 DEF Ranges, LastFound
    <3> QED BY <1>2, <2>1, <2>2, <3>1, <3>2 DEF SearchTypeOK, Ranges, SearchInv
  <2>4. /\ \A k \in Matches(call.left, l - 1) : k \in AllMatches /\ k < l
        /\ \A k \in Matches(r + 1, call.right) : k \in AllMatches /\ k > r
        /\ \A k \in Matches(region_left + 1, l - 1) :
              k \in AllMatches /\ region_left < k /\ k < l
        /\ Matches(r + 1, region_right) = {}
    BY <2>1, <2>2 DEF Matches, AllMatches, Ranges
  <2>5. region_left = call.left \/ region_left \in UpTo(addr)
    BY <2>1, <2>2 DEF LastFound, UpTo, Ranges
  <2> QED BY <2>1, <2>3, <2>4, <2>5 DEF Bracketed, Sides, Ranges
<1> QED BY <1>1, <1>2

-----------------------------------------------------------------------------
(***************************************************************************)
(* One lemma per step.  The table and the call stay what they are.         *)
(***************************************************************************)
LEMMA SameTable ==
    ASSUME UNCHANGED call
    PROVE  /\ stabs' = stabs /\ AllMatches' = AllMatches
           /\ \A a : UpTo(a)' = UpTo(a) /\ (RunTo(a)' <=> RunTo(a))
           /\ Containing' = Containing
BY DEF stabs, AllMatches, Matches, IsType, UpTo, RunTo, Containing

LEMMA NoMatchStep ==
    ASSUME SearchInv, NoMatch
    PROVE  SearchInv'
<1>1. /\ InLoop /\ m < l /\ l' = true_m + 1
      /\ UNCHANGED <<call, region_left, region_right, addr, r, any_matches, done>>
  BY DEF NoMatch
<1>2. Matches(l, true_m) = {}
  BY <1>1, FoundInLoop
<1>3. \A k \in AllMatches : k \in Int /\ ~(l <= k /\ k <= true_m)
  BY <1>1, <1>2, LoopRanges, MatchesWithin, CallInOrder
<1>4. AllMatches' = AllMatches /\ stabs' = stabs /\ (RunTo(addr - 1)' <=> RunTo(addr - 1))
  BY <1>1, SameTable DEF RunTo
<1>5. Ranges'
  BY <1>1, LoopRanges DEF Ranges
<1>6. Sides'
  <2>1. Sides /\ l \in Int /\ true_m \in Int
    BY <1>1, LoopRanges
  <2> QED BY <1>1, <1>3, <1>4, <2>1 DEF Sides
<1>7. LastFound'
  <2>1. LastFound /\ l \in Int /\ true_m \in Int /\ l <= true_m
    BY <1>1, LoopRanges
  <2> QED BY <1>1, <1>3, <1>4, <2>1 DEF LastFound
<1> QED BY <1>1, <1>5, <1>6, <1>7, LoopRanges DEF SearchInv, LoopInv

LEMMA BeforeStep ==
    ASSUME SearchInv, Before
    PROVE  SearchInv'
<1>1. /\ InLoop /\ m >= l /\ stabs[m].n_value < addr
      /\ any_matches' = TRUE /\ region_left' = m /\ l' = true_m + 1
      /\ UNCHANGED <<call, region_right, addr, r, done>>
  BY DEF Before
<1>2. /\ l \in Int /\ r \in Int /\ addr \in Int /\ true_m \in Int
      /\ call.left \in Int /\ call.left <= l /\ l <= true_m /\ true_m <= r
      /\ Sides /\ ~done
  BY <1>1, LoopRanges
<1>3. /\ m \in AllMatches /\ m \in Int /\ l <= m /\ m <= true_m
      /\ stabs[m].n_value \in Int
      /\ \A k \in AllMatches : k <= true_m => stabs[k].n_value <= stabs[m].n_value /\ k <= m
  BY <1>1, <1>2, FoundInLoop
<1>4. \A k \in AllMatches : k \in Int /\ stabs[k].n_value \in Int
  BY CallInOrder DEF SearchInv
<1>5. AllMatches' = AllMatches /\ stabs' = stabs /\ (RunTo(addr - 1)' <=> RunTo(addr - 1))
  BY <1>1, SameTable DEF RunTo
<1>6. Ranges'
  BY <1>1, <1>2, <1>3, LoopRanges DEF Ranges
<1>7. Sides'
  <2>1. ASSUME NEW k \in AllMatches, k < true_m + 1 PROVE stabs[k].n_value <= addr
    <3>1. k \in Int /\ stabs[k].n_value \in Int /\ k <= true_m
      BY <1>2, <1>4, <2>1
    <3>2. stabs[k].n_value <= stabs[m].n_value
      BY <1>3, <3>1
    <3> QED BY <1>1, <1>2, <1>3, <3>1, <3>2
  <2>2. \A k \in AllMatches : ~(m < k /\ k < true_m + 1)
    BY <1>2, <1>3, <1>4
  <2> QED BY <1>1, <1>2, <1>5, <2>1, <2>2 DEF Sides
<1>8. LastFound'
  BY <1>1, <1>2, <1>3, <1>5 DEF LastFound
<1> QED BY <1>1, <1>6, <1>7, <1>8 DEF SearchInv, LoopInv, InLoop

LEMMA AfterStep ==
    ASSUME SearchInv, After
    PROVE  SearchInv'
<1>1. /\ InLoop /\ m >= l /\ stabs[m].n_value > addr
      /\ any_matches' = TRUE /\ region_right' = m - 1 /\ r' = m - 1
      /\ UNCHANGED <<call, region_left, addr, l, done>>
  BY DEF After
<1>2. /\ l \in Int /\ r \in Int /\ addr \in Int /\ true_m \in Int /\ region_left \in Int
      /\ call.left \in Int /\ call.left <= l /\ l <= true_m /\ true_m <= r
      /\ call.right \in Int /\ r <= call.right
      /\ call.addr \in Int /\ call.addr <= addr /\ region_left <= l
      /\ Sides /\ LastFound /\ ~done
  BY <1>1, LoopRanges
<1>3. /\ m \in AllMatches /\ m \in Int /\ l <= m /\ m <= true_m
      /\ stabs[m].n_value \in Int
      /\ \A k \in AllMatches : k >= m => stabs[k].n_value >= stabs[m].n_value
  BY <1>1, <1>2, FoundInLoop
<1>4. \A k \in AllMatches : k \in Int /\ stabs[k].n_value \in Int
  BY CallInOrder DEF SearchInv
<1>5. AllMatches' = AllMatches /\ stabs' = stabs /\ (RunTo(addr - 1)' <=> RunTo(addr - 1))
  BY <1>1, SameTable DEF RunTo
<1>6. Ranges'
  BY <1>1, <1>2, <1>3, LoopRanges DEF Ranges
<1>7. Sides'
  <2>1. \A k \in AllMatches : k > m - 1 => stabs[k].n_value > call.addr
    BY <1>1, <1>2, <1>3, <1>4
  <2>2. m - 1 + 1 \in AllMatches
    BY <1>3
  <2> QED BY <1>1, <1>2, <1>5, <2>1, <2>2 DEF Sides
<1>8. LastFound'
  <2>1. region_left \in AllMatches /\ stabs[region_left].n_value < addr => region_left <= m - 1
    BY <1>1, <1>2, <1>3
  <2> QED BY <1>1, <1>2, <1>3, <1>5, <2>1 DEF LastFound
<1> QED BY <1>1, <1>6, <1>7, <1>8 DEF SearchInv, LoopInv, InLoop

LEMMA ExactStep ==
    ASSUME SearchInv, Exact
    PROVE  SearchInv'
<1>1. /\ InLoop /\ m >= l /\ stabs[m].n_value = addr
      /\ any_matches' = TRUE /\ region_left' = m /\ l' = m /\ addr' = addr + 1
      /\ UNCHANGED <<call, region_right, r, done>>
  BY DEF Exact
<1>2. /\ l \in Int /\ r \in Int /\ addr \in Int /\ true_m \in Int
      /\ call.left \in Int /\ call.left <= l /\ l <= true_m /\ true_m <= r
      /\ call.addr \in Int /\ call.addr <= addr /\ Sides /\ ~done
  BY <1>1, LoopRanges
<1>3. /\ m \in AllMatches /\ m \in Int /\ l <= m /\ m <= true_m
      /\ \A k \in AllMatches : k <= true_m => stabs[k].n_value <= stabs[m].n_value /\ k <= m
  BY <1>1, <1>2, FoundInLoop
<1>4. \A k \in AllMatches : k \in Int /\ stabs[k].n_value \in Int
  BY CallInOrder DEF SearchInv
<1>5. AllMatches' = AllMatches /\ stabs' = stabs
  BY <1>1, SameTable
<1>6. Ranges'
  BY <1>1, <1>2, <1>3, LoopRanges DEF Ranges
<1>7. RunTo(addr - 1)'
  <2>1. \A b \in call.addr .. addr - 1 : \E k \in AllMatches : stabs[k].n_value = b
    BY <1>2 DEF Sides, RunTo
  <2>2. \A b \in call.addr .. addr + 1 - 1 : b \in call.addr .. addr - 1 \/ b = addr
    BY <1>2
  <2>3. \A b \in call.addr .. addr + 1 - 1 : \E k \in AllMatches : stabs[k].n_value = b
    BY <1>1, <1>3, <2>1, <2>2
  <2> QED BY <1>1, <1>2, <1>5, <2>3 DEF RunTo
<1>8. Sides'
  <2>1. ASSUME NEW k \in AllMatches, k < m PROVE stabs[k].n_value <= addr + 1
    <3>1. k \in Int /\ stabs[k].n_value \in Int /\ k <= true_m
      BY <1>2, <1>3, <1>4, <2>1
    <3>2. stabs[k].n_value <= addr
      BY <1>1, <1>3, <3>1
    <3> QED BY <1>2, <3>1, <3>2
  <2>2. \A k \in AllMatches : ~(m < k /\ k < m)
    BY <1>3, <1>4
  <2> QED BY <1>1, <1>2, <1>5, <1>7, <2>1, <2>2 DEF Sides
<1>9. LastFound'
  <2>1. stabs[m].n_value < addr + 1 /\ m <= r
    BY <1>1, <1>2, <1>3
  <2> QED BY <1>1, <1>3, <1>5, <2>1 DEF LastFound
<1> QED BY <1>1, <1>6, <1>8, <1>9 DEF SearchInv, LoopInv, InLoop

(***************************************************************************)
(* On return r is just before l: no stab of the type lies between          *)
(* region_left and the first one behind the address, so the last scan of   *)
(* the region stops where it started.                                      *)
(***************************************************************************)
LEMMA ReturnFacts ==
    ASSUME SearchInv, Return
    PROVE  /\ LoopInv /\ l = r + 1 /\ UNCHANGED <<call, addr>> /\ done'
           /\ any_matches =>
                /\ region_right' = r
                /\ region_left' = IF r < region_left THEN r ELSE region_left
           /\ ~any_matches =>
                AllMatches = {} /\ region_left' = call.left /\ region_right' = call.left - 1
<1>1. ~done /\ l > r /\ UNCHANGED <<call, addr>> /\ done'
  BY DEF Return
<1>2. LoopInv
  BY <1>1 DEF SearchInv
<1>3. InOrder(call) /\ call.left \in Int /\ call.right \in Int
      /\ \A k \in AllMatches : k \in Int /\ call.left <= k /\ k <= call.right
  BY CallInOrder DEF SearchInv
<1>4. l \in Int /\ r \in Int /\ region_left \in Int /\ call.left <= region_left
      /\ r <= call.right /\ region_right = r /\ l = r + 1
  BY <1>1, <1>2 DEF LoopInv, Ranges
<1>5. ASSUME any_matches
      PROVE  /\ region_right' = r
             /\ region_left' = IF r < region_left THEN r ELSE region_left
  <2>1. /\ region_right' = region_right
        /\ region_left' = IF region_right <= region_left THEN region_right
                          ELSE ScanDown(region_left + 1, region_right)
    BY <1>5 DEF Return
  <2>2. \A k \in AllMatches : ~(region_left < k /\ k < l)
    BY <1>2 DEF LoopInv, Sides
  <2>3. \A k : k \in Matches(region_left + 1, r) <=> k \in AllMatches
                                            /\ region_left + 1 <= k /\ k <= r
    BY <1>3, <1>4, MatchesWithin
  <2>4. Matches(region_left + 1, r) = {}
    BY <1>3, <1>4, <2>2, <2>3
  <2>5. ScanDown(region_left + 1, r) = region_left
    BY <1>4, <2>4, ScanStops
  <2> QED BY <1>4, <2>1, <2>5
<1>6. ASSUME ~any_matches
      PROVE  AllMatches = {} /\ region_left' = call.left /\ region_right' = call.left - 1
  <2>1. region_left = call.left /\ r = call.right /\ \A k \in AllMatches : k >= l
    BY <1>2, <1>6 DEF LoopInv, LastFound
  <2>2. AllMatches = {}
    BY <1>3, <1>4, <2>1
  <2> QED BY <1>6, <2>1, <2>2 DEF Return
<1> QED BY <1>1, <1>2, <1>4, <1>5, <1>6

LEMMA ReturnType ==
    ASSUME SearchInv, Return
    PROVE  SearchTypeOK'
<1>1. /\ LoopInv /\ l = r + 1 /\ UNCHANGED <<call, addr>> /\ done'
      /\ any_matches => /\ region_right' = r
                        /\ region_left' = IF r < region_left THEN r ELSE region_left
      /\ ~any_matches => region_left' = call.left /\ region_right' = call.left - 1
  BY ReturnFacts
<1>2. Bracketed /\ ~done /\ UNCHANGED <<l, r, any_matches>> /\ done' = TRUE
  BY LoopBracketed DEF Return
<1>3. call.left \in Int /\ call.right \in Int /\ call.left <= call.right
  BY CallInOrder DEF SearchInv
<1>4. AllMatches' = AllMatches
  BY <1>1, SameTable
<1>5. region_left' \in call.left - 1 .. call.right
      /\ region_right' \in call.left - 1 .. call.right
  BY <1>1, <1>2, <1>3 DEF Bracketed, SearchTypeOK
<1> QED BY <1>1, <1>2, <1>3, <1>4, <1>5 DEF Bracketed, SearchTypeOK

LEMMA ReturnFinds ==
    ASSUME SearchInv, Return
    PROVE  FindsRegion'
<1> SUFFICES ASSUME Containing # {} PROVE FindsRegion'
  <2>1. Containing' = Containing
    BY SameTable DEF Return
  <2> QED BY <2>1 DEF FindsRegion
<1>1. /\ LoopInv /\ l = r + 1 /\ UNCHANGED <<call, addr>>
      /\ any_matches => /\ region_right' = r
                        /\ region_left' = IF r < region_left THEN r ELSE region_left
      /\ ~any_matches => AllMatches = {}
  BY ReturnFacts
<1>2. /\ call.left \in Int /\ call.right \in Int /\ call.addr \in Int
      /\ \A k \in AllMatches : /\ k \in Int /\ call.left <= k /\ k <= call.right
                               /\ stabs[k].n_value \in Int
      /\ \A j, k \in AllMatches : j < k => stabs[j].n_value <= stabs[k].n_value
  BY CallInOrder DEF SearchInv
<1>3. r \in Int /\ region_left \in Int /\ call.left <= region_left /\ addr \in Int
      /\ region_left <= r + 1 /\ r <= call.right /\ call.addr <= addr
  BY <1>1 DEF LoopInv, Ranges
<1>4. /\ \A k \in AllMatches : k > r => stabs[k].n_value > call.addr
      /\ \A k \in AllMatches : k > region_left => k > r
      /\ r = call.right \/ r + 1 \in AllMatches
      /\ RunTo(addr - 1)
  BY <1>1, <1>2, <1>3 DEF LoopInv, Sides
<1>5. PICK c \in Containing : TRUE
  OBVIOUS
<1>6. c \in AllMatches /\ c <= r /\ c <= region_left /\ stabs[c].n_value <= call.addr
  BY <1>2, <1>3, <1>4, <1>5 DEF Containing, UpTo
<1>7. region_left \in AllMatches /\ stabs[region_left].n_value < addr /\ region_left <= r
  <2>1. call.left \in AllMatches => l # call.left
    BY <1>1, <1>2, <1>3, <1>6
  <2>2. CASE region_left = call.left /\ addr = call.addr
              /\ (call.left \in AllMatches => l = call.left)
    BY <1>2, <1>6, <2>1, <2>2
  <2> QED BY <1>1, <2>2 DEF LoopInv, LastFound
<1>8. region_left' = region_left /\ region_right' = r
  BY <1>1, <1>3, <1>6, <1>7
<1>9. \/ region_left = Max(Containing)
      \/ /\ stabs[region_left].n_value > call.addr
         /\ RunTo(stabs[region_left].n_value)
  <2>1. CASE stabs[region_left].n_value <= call.addr
    <3>1. region_left \in Containing /\ Containing \subseteq Int
      BY <1>2, <1>7, <2>1 DEF Containing, UpTo
    <3>2. \A k \in Containing : region_left >= k
      BY <1>2, <1>3, <1>4 DEF Containing, UpTo
    <3> QED BY <3>1, <3>2, MaxIs
  <2>2. CASE ~(stabs[region_left].n_value <= call.addr)
    <3>1. stabs[region_left].n_value > call.addr
      BY <1>2, <1>7, <2>2
    <3>2. RunTo(stabs[region_left].n_value)
      BY <1>2, <1>3, <1>4, <1>7 DEF RunTo
    <3> QED BY <3>1, <3>2
  <2> QED BY <2>1, <2>2
<1>10. LET next == {k \in AllMatches : k > region_left} IN
       r = IF next = {} THEN call.right ELSE Min(next) - 1
  <2> DEFINE next == {k \in AllMatches : k > region_left}
  <2>1. CASE r + 1 \in AllMatches
    <3>1. r + 1 > region_left /\ \A k \in AllMatches : k > region_left => k >= r + 1
      <4>1. r + 1 > region_left
        BY <1>3, <1>7
      <4>2. \A k \in AllMatches : k > r => k >= r + 1
        BY <1>2, <1>3
      <4> QED BY <1>4, <4>1, <4>2
    <3>2. \A k \in AllMatches : k \in Int
      BY <1>2
    <3>3. r + 1 \in next /\ next \subseteq Int /\ \A k \in next : r + 1 <= k
      BY <2>1, <3>1, <3>2
    <3> HIDE DEF next
    <3>4. Min(next) = r + 1
      BY <3>3, MinIs
    <3> QED BY <1>3, <3>3, <3>4 DEF next
  <2>2. CASE r + 1 \notin AllMatches
    <3>1. r = call.right /\ next = {}
      BY <1>2, <1>3, <1>4, <2>2
    <3> QED BY <3>1
  <2> QED BY <2>1, <2>2
<1>11. /\ AllMatches' = AllMatches /\ stabs' = stabs /\ Containing' = Containing
       /\ call' = call /\ (RunTo(stabs[region_left].n_value)' <=> RunTo(stabs'[region_left'].n_value))
  BY <1>1, SameTable DEF RunTo
<1> QED BY <1>7, <1>8, <1>9, <1>10, <1>11, SameTable DEF FindsRegion

LEMMA ReturnNothing ==
    ASSUME SearchInv, Return
    PROVE  NothingFound'
<1> SUFFICES ASSUME Containing = {}
             PROVE  /\ AllMatches = {} => region_left' > region_right'
                    /\ ~IsType(call.left) =>
                          /\ region_left' = call.left
                          /\ AllMatches # {} => region_right' = Min(AllMatches) - 1
  <2>1. UNCHANGED call
    BY DEF Return
  <2>2. Containing' = Containing /\ AllMatches' = AllMatches
        /\ (IsType(call.left)' <=> IsType(call.left))
    BY <2>1, SameTable DEF IsType, stabs
  <2> QED BY <2>1, <2>2 DEF NothingFound
<1>1. /\ LoopInv /\ l = r + 1
      /\ any_matches => /\ region_right' = r
                        /\ region_left' = IF r < region_left THEN r ELSE region_left
      /\ ~any_matches => /\ AllMatches = {}
                         /\ region_left' = call.left /\ region_right' = call.left - 1
  BY ReturnFacts
<1>2. call.left \in Int /\ call.right \in Int /\ call.addr \in Int /\ call.left <= call.right
      /\ \A k \in AllMatches : /\ k \in Int /\ call.left <= k /\ k <= call.right
                               /\ stabs[k].n_value \in Int
  BY CallInOrder DEF SearchInv
<1>3. r \in Int /\ region_left \in Int /\ call.left <= region_left /\ addr \in Int
      /\ region_left <= r + 1 /\ call.addr <= addr
  BY <1>1 DEF LoopInv, Ranges
<1>4. \A k \in AllMatches : stabs[k].n_value > call.addr
  BY <1>2 DEF Containing, UpTo
<1>5. addr = call.addr
  <2>1. ~(call.addr \in call.addr .. addr - 1)
    BY <1>1, <1>2, <1>4 DEF LoopInv, Sides, RunTo
  <2> QED BY <1>2, <1>3, <2>1
<1>6. region_left = call.left
  BY <1>1, <1>2, <1>4, <1>5 DEF LoopInv, LastFound
<1>7. call.left \in AllMatches <=> IsType(call.left)
  BY <1>2 DEF AllMatches, Matches
<1>8. CASE ~any_matches
  BY <1>1, <1>2, <1>8
<1>9. CASE any_matches
  <2>1. AllMatches # {}
    BY <1>1, <1>9 DEF LoopInv, LastFound
  <2>2. r < region_left => call.left \in AllMatches
    <3>1. r = call.right \/ r + 1 \in AllMatches
      BY <1>1 DEF LoopInv, Sides
    <3> QED BY <1>2, <1>3, <1>6, <3>1
  <2>3. ASSUME ~IsType(call.left) PROVE r = Min(AllMatches) - 1
    <3>1. \A k \in AllMatches : k > region_left => k > r
      BY <1>1, <1>2, <1>3 DEF LoopInv, Sides
    <3>2. \A k \in AllMatches : r + 1 <= k
      BY <1>2, <1>3, <1>6, <1>7, <2>3, <3>1
    <3>3. r = call.right \/ r + 1 \in AllMatches
      BY <1>1 DEF LoopInv, Sides
    <3>4. r + 1 \in AllMatches /\ AllMatches \subseteq Int
      BY <1>2, <1>3, <2>1, <3>2, <3>3
    <3>5. Min(AllMatches) = r + 1
      BY <3>2, <3>4, MinIs
    <3> QED BY <1>3, <3>5
  <2> QED BY <1>1, <1>6, <1>7, <1>9, <2>1, <2>2, <2>3
<1> QED BY <1>8, <1>9

-----------------------------------------------------------------------------
LEMMA BeginInv == SearchBegins => SearchInv
<1> SUFFICES ASSUME SearchBegins PROVE SearchInv
  OBVIOUS
<1>1. /\ InOrder(call) /\ ~done /\ done \in BOOLEAN /\ any_matches = FALSE
      /\ region_left = call.left /\ region_right = call.right
      /\ addr = call.addr /\ l = call.left /\ r = call.right
  BY DEF SearchBegins
<1>2. call.left \in Int /\ call.right \in Int /\ call.addr \in Int /\ call.left <= call.right
      /\ \A k \in AllMatches : k \in Int /\ call.left <= k /\ k <= call.right
  BY <1>1, CallInOrder
<1>3. Ranges
  <2>1. any_matches \in BOOLEAN
    BY <1>1
  <2>2. /\ l \in Int /\ r \in Int /\ region_left \in Int /\ addr \in Int
        /\ call.left <= l /\ l <= r + 1 /\ r <= call.right
        /\ call.left <= region_left /\ region_left <= l
        /\ region_right = r /\ call.addr <= addr
    BY <1>1, <1>2
  <2> QED BY <2>1, <2>2 DEF Ranges
<1>4. LastFound
  <2>1. ~any_matches
    BY <1>1
  <2>2. /\ region_left = call.left /\ addr = call.addr /\ l = call.left /\ r = call.right
        /\ \A k \in AllMatches : k >= l
    BY <1>1, <1>2
  <2> QED BY <2>1, <2>2 DEF LastFound
<1>5. Sides
  <2>1. RunTo(addr - 1)
    BY <1>1, <1>2 DEF RunTo
  <2> QED BY <1>1, <1>2, <2>1 DEF Sides
<1> QED BY <1>1, <1>3, <1>4, <1>5 DEF SearchInv, LoopInv

LEMMA SearchInitInv == SearchInit => SearchInv
BY BeginInv, SearchesInOrder DEF SearchInit, SearchBegins

LEMMA SearchNextInv == SearchInv /\ [SearchNext]_searchVars => SearchInv'
<1> SUFFICES ASSUME SearchInv, [SearchNext]_searchVars PROVE SearchInv'
  OBVIOUS
<1>1. CASE Return
  <2>1. call' = call /\ done' = TRUE
    BY <1>1 DEF Return
  <2> QED BY <1>1, <2>1, ReturnType, ReturnFinds, ReturnNothing DEF SearchInv
<1>2. CASE UNCHANGED searchVars
  BY <1>2 DEF searchVars, InOrder, SearchInv, LoopInv, Ranges, Sides, LastFound, SearchTypeOK, FindsRegion,
              NothingFound, Containing, UpTo, RunTo, AllMatches, Matches, IsType, stabs
<1> QED
  BY <1>1, <1>2, NoMatchStep, BeforeStep, AfterStep, ExactStep DEF SearchNext

(***************************************************************************)
(* The loop's invariant holds of every reachable state.                    *)
(***************************************************************************)
THEOREM SearchInvariance == SearchSpec => []SearchInv
BY SearchInitInv, SearchNextInv, PTL DEF SearchSpec

(***************************************************************************)
(* In every round the region and the address bracket what is looked for.   *)
(***************************************************************************)
THEOREM SearchBrackets == SearchSpec => []Bracketed
<1>1. SearchInv => Bracketed
  BY LoopBracketed
<1> QED BY <1>1, SearchInvariance, PTL

(***************************************************************************)
(* A search of a table that has a stab containing the address returns the  *)
(* region of such a stab.                                                  *)
(***************************************************************************)
THEOREM SearchFinds == SearchSpec => []FindsRegion
<1>1. SearchInv => FindsRegion
  BY DEF SearchInv, FindsRegion
<1> QED BY <1>1, SearchInvariance, PTL

(***************************************************************************)
(* A search of a table that has none returns what debuginfo_eip takes for  *)
(* nothing found.                                                          *)
(***************************************************************************)
THEOREM SearchFindsNothing == SearchSpec => []NothingFound
<1>1. SearchInv => NothingFound
  BY DEF SearchInv, NothingFound
<1> QED BY <1>1, SearchInvariance, PTL
-----------------------------------------------------------------------------
(***************************************************************************)
(* What the next search is given: the region of a search that found a      *)
(* stab, and of one that has all stabs behind the address.                 *)
(***************************************************************************)
LEMMA FoundRegion ==
    ASSUME SearchInv, done, Containing # {}
    PROVE  /\ region_left \in AllMatches /\ region_left \in Int /\ region_right \in Int
           /\ call.left <= region_left /\ region_left <= region_right
           /\ region_right <= call.right
           /\ \A k \in AllMatches : k > region_left => k > region_right
           /\ region_right = call.right \/ region_right + 1 \in AllMatches
           /\ \/ region_left = Max(Containing)
              \/ RunTo(call.addr) /\ RunTo(call.addr + 1)
<1>1. FindsRegion /\ InOrder(call)
  BY DEF SearchInv
<1>2. /\ call.left \in Int /\ call.right \in Int /\ call.addr \in Int
      /\ AllMatches \subseteq call.left .. call.right
      /\ \A k \in AllMatches : stabs[k].n_value \in Int
  BY <1>1, CallInOrder
<1>3. Containing \subseteq AllMatches
  BY DEF Containing, UpTo
<1>4. Max(Containing) \in Containing
  <2>1. Containing \subseteq call.left .. call.right
    BY <1>2, <1>3
  <2> QED BY <1>2, <2>1, MaxOfIndices
<1>5. region_left \in AllMatches
  BY <1>1, <1>3, <1>4 DEF FindsRegion
<1>6. region_left \in Int /\ call.left <= region_left /\ region_left <= call.right
  BY <1>2, <1>5
<1> DEFINE next == {k \in AllMatches : k > region_left}
<1>7. region_right = IF next = {} THEN call.right ELSE Min(next) - 1
  BY <1>1 DEF FindsRegion
<1>8. next # {} => Min(next) \in next /\ \A k \in next : Min(next) <= k
  <2>1. next \subseteq call.left .. call.right
    BY <1>2
  <2> HIDE DEF next
  <2> QED BY <1>2, <2>1, MinOfIndices
<1>9. ASSUME next = {}
      PROVE  /\ region_right \in Int /\ region_left <= region_right
             /\ region_right <= call.right /\ region_right = call.right
             /\ \A k \in AllMatches : ~(k > region_left)
  BY <1>2, <1>6, <1>7, <1>9
<1>10. ASSUME next # {}
      PROVE  /\ region_right \in Int /\ region_left <= region_right
             /\ region_right <= call.right /\ region_right + 1 \in AllMatches
             /\ \A k \in AllMatches : k > region_left => k > region_right
  <2>1. PICK x \in next : x = Min(next)
    BY <1>8, <1>10
  <2>2. x \in AllMatches /\ x \in Int /\ x > region_left /\ x <= call.right
        /\ region_right = x - 1 /\ \A k \in AllMatches : k > region_left => x <= k
    BY <1>2, <1>7, <1>8, <1>10, <2>1
  <2> HIDE DEF next
  <2>3. region_right \in Int /\ region_left <= region_right /\ region_right <= call.right
        /\ region_right + 1 = x
    BY <1>2, <1>6, <2>2
  <2>4. \A k \in AllMatches : k \in Int
    BY <1>2
  <2> QED BY <2>2, <2>3, <2>4
<1>11. \/ region_left = Max(Containing)
       \/ RunTo(call.addr) /\ RunTo(call.addr + 1)
  <2>1. ASSUME stabs[region_left].n_value > call.addr, RunTo(stabs[region_left].n_value)
        PROVE  RunTo(call.addr) /\ RunTo(call.addr + 1)
    <3>1. stabs[region_left].n_value \in Int
      BY <1>2, <1>5
    <3> QED BY <1>2, <2>1, <3>1 DEF RunTo
  <2> QED BY <1>1, <2>1 DEF FindsRegion
<1> HIDE DEF next
<1> QED BY <1>5, <1>6, <1>9, <1>10, <1>11

LEMMA BehindRegion ==
    ASSUME SearchInv, done, Containing = {}, AllMatches # {}, ~IsType(call.left)
    PROVE  /\ region_left = call.left /\ region_right \in Int
           /\ region_left <= region_right /\ region_right + 1 \in AllMatches
           /\ \A k \in AllMatches : k > region_right
<1>1. NothingFound /\ InOrder(call)
  BY DEF SearchInv
<1>2. /\ call.left \in Int /\ call.right \in Int
      /\ AllMatches \subseteq call.left .. call.right
  BY <1>1, CallInOrder
<1>3. PICK x \in AllMatches : x = Min(AllMatches)
  BY <1>2, MinOfIndices
<1>4. \A k \in AllMatches : x <= k
  BY <1>2, <1>3, MinOfIndices
<1>5. region_left = call.left /\ region_right = x - 1
  BY <1>1, <1>3 DEF NothingFound
<1>6. x \in Int /\ call.left <= x /\ x # call.left /\ IsType(x)
  BY <1>2, <1>3 DEF AllMatches, Matches
<1> QED BY <1>2, <1>3, <1>4, <1>5, <1>6
-----------------------------------------------------------------------------
(***************************************************************************)
(* What the linker makes of the table asked in.                            *)
(***************************************************************************)
LEMMA TableFacts ==
    ASSUME table \in Tables, eip \in Addrs
    PROVE  /\ Final \in Nat /\ DOMAIN table = 0 .. Final /\ eip \in Int
           /\ \A k \in DOMAIN table : k \in Int /\ table[k].n_value \in Int
           /\ \A type : Stabs(type) \subseteq 0 .. Final
           /\ \A type : AtOrBefore(type) \subseteq Stabs(type)
           /\ 0 \notin Stabs("N_SO")
           /\ \A k \in Stabs("N_SO") : table[k].n_value # 0
           /\ InLinkOrder(table) /\ InCodeOrder(table)
<1>1. /\ IsFiniteSet(DOMAIN table) /\ 0 \in DOMAIN table
      /\ DOMAIN table = 0 .. Final
      /\ \A k \in DOMAIN table : table[k].n_value \in Nat
      /\ table[0].n_type # "N_SO" /\ \A k \in StabsOf(table, "N_SO") : table[k].n_value # 0
      /\ InLinkOrder(table) /\ InCodeOrder(table)
  BY TablesLinked DEF Final
<1>2. Final \in Nat
  <2>1. Cardinality(DOMAIN table) \in Nat
    BY <1>1, FS_CardinalityType
  <2> QED BY <1>1, <2>1 DEF Final
<1>3. eip \in Int
  BY AddrsAreInt
<1>4. /\ \A type : Stabs(type) \subseteq 0 .. Final
      /\ \A type : AtOrBefore(type) \subseteq Stabs(type)
      /\ 0 \notin Stabs("N_SO")
  BY <1>1 DEF Stabs, StabsOf, AtOrBefore
<1>5. \A k \in DOMAIN table : k \in Int /\ table[k].n_value \in Int
  BY <1>1, <1>2
<1> QED BY <1>1, <1>2, <1>3, <1>4, <1>5 DEF Stabs

(***************************************************************************)
(* A search in the table, in its terms.                                    *)
(***************************************************************************)
LEMMA CallOfTable ==
    ASSUME NEW type, NEW left, NEW right, NEW a, left \in DOMAIN table,
           right \in DOMAIN table, table \in Tables, eip \in Addrs,
           call = Call(type, left, right, a)
    PROVE  /\ call.left = left /\ call.right = right /\ call.addr = a /\ stabs = table
           /\ AllMatches = Stabs(type) \cap (left .. right)
           /\ \A b : UpTo(b) = {k \in AllMatches : table[k].n_value <= b}
           /\ Containing = {k \in AllMatches : table[k].n_value <= a}
           /\ \A k \in DOMAIN table : IsType(k) <=> k \in Stabs(type)
<1>1. /\ call.left = left /\ call.right = right /\ call.addr = a /\ stabs = table
      /\ call.type = type
  BY DEF Call, stabs
<1>2. left .. right \subseteq DOMAIN table
  BY TableFacts
<1>3. \A k \in DOMAIN table : IsType(k) <=> k \in Stabs(type)
  BY <1>1 DEF IsType, Stabs, StabsOf
<1>4. AllMatches = Stabs(type) \cap (left .. right)
  BY <1>1, <1>2, <1>3 DEF AllMatches, Matches
<1>5. \A b : UpTo(b) = {k \in AllMatches : table[k].n_value <= b}
  BY <1>1 DEF UpTo
<1>6. Containing = {k \in AllMatches : table[k].n_value <= a}
  BY <1>1, <1>5 DEF Containing
<1> QED BY <1>1, <1>3, <1>4, <1>5, <1>6

LEMMA CallIsOrdered ==
    ASSUME NEW type, NEW left, NEW right, NEW a \in Int, left \in DOMAIN table,
           right \in DOMAIN table, left <= right, table \in Tables, eip \in Addrs,
           \A j, k \in Stabs(type) \cap (left .. right) :
              j < k => table[j].n_value <= table[k].n_value
    PROVE  InOrder(Call(type, left, right, a))
<1> DEFINE c == Call(type, left, right, a)
<1>1. /\ c.left = left /\ c.right = right /\ c.addr = a /\ c.stabs = table /\ c.type = type
  BY DEF Call
<1>2. left \in Int /\ right \in Int /\ left .. right \subseteq DOMAIN table
      /\ \A k \in left .. right : table[k].n_value \in Int
  BY TableFacts
<1>3. \A j, k \in left .. right :
         j < k /\ table[j].n_type = type /\ table[k].n_type = type
         => table[j].n_value <= table[k].n_value
  BY <1>2 DEF Stabs, StabsOf
<1> HIDE DEF c
<1>4. InOrder(c)
  BY <1>1, <1>2, <1>3 DEF InOrder
<1> QED BY <1>4 DEF c
-----------------------------------------------------------------------------
(***************************************************************************)
(* The search for the file.  It runs on past an exact match only where the *)
(* file at the address has no code.                                        *)
(***************************************************************************)
LEMMA FileOrdered ==
    ASSUME table \in Tables, eip \in Addrs
    PROVE  InOrder(Call("N_SO", 0, Final, eip)) /\ 0 \in DOMAIN table /\ Final \in DOMAIN table
<1>1. /\ Final \in Nat /\ DOMAIN table = 0 .. Final /\ eip \in Int /\ InLinkOrder(table)
  BY TableFacts
<1>2. 0 \in DOMAIN table /\ Final \in DOMAIN table /\ 0 <= Final
  BY <1>1
<1>3. \A j, k \in Stabs("N_SO") \cap (0 .. Final) :
         j < k => table[j].n_value <= table[k].n_value
  BY <1>1 DEF InLinkOrder, Stabs
<1> QED BY <1>1, <1>2, <1>3, CallIsOrdered

LEMMA FileSearched ==
    ASSUME IInv, pc = "N_SO", done
    PROVE  /\ AtOrBefore("N_SO") = {} => region_left = 0
           /\ AtOrBefore("N_SO") # {} => region_left # 0 /\ FileRegion(region_left, region_right)
<1>1. table \in Tables /\ eip \in Addrs /\ SearchInv /\ call = Call("N_SO", 0, Final, eip)
  BY DEF IInv, FileCall
<1>2. /\ Final \in Nat /\ DOMAIN table = 0 .. Final /\ eip \in Int
      /\ \A k \in DOMAIN table : k \in Int /\ table[k].n_value \in Int
      /\ \A type : Stabs(type) \subseteq 0 .. Final
      /\ 0 \notin Stabs("N_SO") /\ InLinkOrder(table)
  BY <1>1, TableFacts
<1>3. /\ call.left = 0 /\ call.right = Final /\ call.addr = eip /\ stabs = table
      /\ AllMatches = Stabs("N_SO") \cap (0 .. Final)
      /\ Containing = {k \in AllMatches : table[k].n_value <= eip}
      /\ \A k \in DOMAIN table : IsType(k) <=> k \in Stabs("N_SO")
  BY <1>1, FileOrdered, CallOfTable
<1>4. AllMatches = Stabs("N_SO") /\ Containing = AtOrBefore("N_SO")
  BY <1>2, <1>3 DEF AtOrBefore
<1>5. ASSUME Containing = {} PROVE region_left = 0
  <2>1. ~IsType(call.left)
    BY <1>2, <1>3
  <2>2. NothingFound
    BY <1>1 DEF SearchInv
  <2> QED BY <1>3, <1>5, <2>1, <2>2 DEF NothingFound
<1>6. ASSUME Containing # {} PROVE region_left # 0 /\ FileRegion(region_left, region_right)
  <2>1. /\ region_left \in Stabs("N_SO") /\ region_left \in Int /\ region_right \in Int
        /\ 0 <= region_left /\ region_left <= region_right /\ region_right <= Final
        /\ \A k \in Stabs("N_SO") : k > region_left => k > region_right
        /\ region_right = Final \/ region_right + 1 \in Stabs("N_SO")
        /\ \/ region_left = Max(Containing)
           \/ RunTo(call.addr) /\ RunTo(call.addr + 1)
    BY <1>1, <1>3, <1>4, <1>6, FoundRegion
  <2>2. \/ region_left = FileStab
        \/ InFile \cap (Stabs("N_FUN") \cup Stabs("N_SLINE")) = {}
    <3> SUFFICES ASSUME RunTo(call.addr), RunTo(call.addr + 1),
                        NEW i \in InFile, i \in Stabs("N_FUN") \cup Stabs("N_SLINE")
                 PROVE  FALSE
      BY <1>4, <2>1 DEF FileStab
    <3>1. PICK f \in Containing : f = FileStab /\ \A k \in Containing : f >= k
      <4>1. Containing \subseteq 0 .. Final
        BY <1>2, <1>3
      <4>2. Max(Containing) \in Containing /\ \A k \in Containing : Max(Containing) >= k
        <5>1. PICK lo \in Int : lo = 0
          OBVIOUS
        <5>2. Final \in Int /\ Containing \subseteq lo .. Final
          BY <1>2, <4>1, <5>1
        <5> QED BY <1>6, <5>2, MaxOfIndices
      <4> QED BY <1>4, <4>2 DEF FileStab
    <3>2. f \in Stabs("N_SO") /\ f \in Int /\ table[f].n_value \in Int /\ table[f].n_value <= eip
      BY <1>2, <1>3, <1>4, <3>1
    <3>3. PICK e \in Stabs("N_SO") : table[e].n_value = eip
      BY <1>2, <1>3, <1>4 DEF RunTo
    <3>4. PICK g \in Stabs("N_SO") : table[g].n_value = eip + 1
      BY <1>2, <1>3, <1>4 DEF RunTo
    <3>5. e \in Int /\ g \in Int /\ f >= e
      BY <1>2, <1>3, <1>4, <3>1, <3>3
    <3>6. \A j, k \in Stabs("N_SO") : j < k => table[j].n_value <= table[k].n_value
      BY <1>2 DEF InLinkOrder, Stabs
    <3>7. table[f].n_value = eip
      BY <1>2, <3>2, <3>3, <3>5, <3>6
    <3>8. f < g
      BY <1>2, <3>2, <3>4, <3>5, <3>6, <3>7
    <3>9. i \in Int /\ f < i /\ i < g
      <4>1. i \in Int /\ i >= f /\ i < g
        BY <1>2, <3>1, <3>4, <3>5, <3>8 DEF InFile
      <4>2. i # f
        BY <3>2 DEF Stabs, StabsOf
      <4> QED BY <3>2, <4>1, <4>2
    <3>10. table[f].n_value + 1 < table[g].n_value
      BY <1>2, <3>2, <3>4, <3>8, <3>9 DEF InLinkOrder, Stabs
    <3> QED BY <1>2, <3>4, <3>7, <3>10
  <2>3. region_left # 0 /\ region_right \in DOMAIN table
    BY <1>2, <2>1
  <2> QED BY <1>4, <1>6, <2>1, <2>2, <2>3 DEF FileRegion
<1> QED BY <1>4, <1>5, <1>6

(***************************************************************************)
(* The stabs of the region of the address's file, and which of the three   *)
(* the search for the function found there.                                *)
(***************************************************************************)
LEMMA FileIs ==
    ASSUME NEW left, NEW right, FileRegion(left, right), left = FileStab,
           table \in Tables, eip \in Addrs
    PROVE  InFile = left .. right
<1>1. /\ Final \in Nat /\ DOMAIN table = 0 .. Final
      /\ \A type : Stabs(type) \subseteq 0 .. Final
  BY TableFacts
<1>2. /\ left \in Stabs("N_SO") /\ right \in 0 .. Final /\ left \in 0 .. Final
      /\ \A j \in Stabs("N_SO") : j > left => j > right
      /\ right = Final \/ right + 1 \in Stabs("N_SO")
  BY <1>1 DEF FileRegion
<1>3. ASSUME NEW k \in InFile PROVE k \in left .. right
  <2>1. k \in 0 .. Final /\ k >= left /\ \A j \in Stabs("N_SO") : j > left => k < j
    BY <1>1, <1>3 DEF InFile
  <2>2. right + 1 \in Stabs("N_SO") => k < right + 1
    <3>1. right + 1 > left
      BY <1>2, <2>1 DEF FileRegion
    <3> QED BY <2>1, <3>1
  <2> QED BY <1>1, <1>2, <2>1, <2>2
<1>4. ASSUME NEW k \in left .. right PROVE k \in InFile
  <2>1. k \in 0 .. Final /\ k >= left
    BY <1>1, <1>2
  <2>2. ASSUME NEW j \in Stabs("N_SO"), j > left PROVE k < j
    <3>1. j > right /\ j \in Int
      BY <1>1, <1>2, <2>2
    <3> QED BY <1>1, <1>2, <3>1
  <2> QED BY <1>1, <2>1, <2>2 DEF InFile
<1> QED BY <1>3, <1>4

LEMMA FunctionIs ==
    ASSUME table \in Tables, eip \in Addrs, FileRegion(lfile, rfile), lfile = FileStab,
           FunRegion(lfun, rfun)
    PROVE  /\ ~InC => HasNoFunction(lfun, rfun)
           /\ InC /\ ~Compiled => AllBehind(lfun, rfun)
           /\ Compiled => InFunction(lfun, rfun) /\ FunStab = lfun
                          /\ InFun = lfun + 1 .. rfun
<1>1. /\ Final \in Nat /\ DOMAIN table = 0 .. Final /\ eip \in Int
      /\ \A k \in DOMAIN table : k \in Int /\ table[k].n_value \in Int
      /\ \A type : Stabs(type) \subseteq 0 .. Final
      /\ \A type : AtOrBefore(type) \subseteq Stabs(type)
  BY TableFacts
<1>2. InFile = lfile .. rfile
  BY FileIs
<1>3. lfile \in 0 .. Final /\ rfile \in 0 .. Final /\ lfun \in Int /\ rfun \in Int
  BY <1>1 DEF FileRegion, FunRegion
<1>4. CASE HasNoFunction(lfun, rfun)
  <2>1. ~InC /\ ~Compiled
    BY <1>1, <1>2, <1>4 DEF HasNoFunction, InC, Compiled
  <2> QED BY <1>4, <2>1
<1>5. CASE AllBehind(lfun, rfun)
  <2>1. InC
    BY <1>1, <1>2, <1>3, <1>5 DEF AllBehind, InC
  <2>2. ~Compiled
    BY <1>1, <1>2, <1>5 DEF AllBehind, Compiled, AtOrBefore
  <2> QED BY <1>5, <2>1, <2>2
<1>6. CASE InFunction(lfun, rfun)
  <2>1. /\ lfun \in AtOrBefore("N_FUN") /\ lfile < lfun /\ lfun <= rfun /\ rfun <= rfile
        /\ \A k \in Stabs("N_FUN") \cap InFile : k > lfun => k > rfun /\ table[k].n_value > eip
        /\ rfun = rfile \/ rfun + 1 \in Stabs("N_FUN")
    BY <1>2, <1>6 DEF InFunction
  <2>2. lfun \in InFile /\ lfun \in Stabs("N_FUN")
    BY <1>1, <1>2, <1>3, <2>1
  <2>3. Compiled /\ InC
    BY <2>1, <2>2 DEF Compiled, InC
  <2>4. FunStab = lfun
    <3>1. AtOrBefore("N_FUN") \cap InFile \subseteq Int
      BY <1>2
    <3>2. ASSUME NEW k \in AtOrBefore("N_FUN") \cap InFile PROVE lfun >= k
      <4>1. k \in Stabs("N_FUN") \cap InFile /\ table[k].n_value <= eip /\ k \in Int
            /\ table[k].n_value \in Int
        BY <1>1, <3>1, <3>2 DEF AtOrBefore
      <4> QED BY <1>1, <1>3, <2>1, <4>1
    <3> QED BY <2>1, <2>2, <3>1, <3>2, MaxIs DEF FunStab
  <2>5. ASSUME NEW k \in InFun PROVE k \in lfun + 1 .. rfun
    <3>1. k \in InFile /\ k \in Int /\ k > lfun /\ k <= rfile
          /\ \A j \in Stabs("N_FUN") : j > lfun => k < j
      BY <1>2, <1>3, <2>4, <2>5 DEF InFun
    <3>2. rfun + 1 \in Stabs("N_FUN") => k < rfun + 1
      <4>1. rfun + 1 > lfun
        BY <1>3, <2>1
      <4> QED BY <3>1, <4>1
    <3> QED BY <1>3, <2>1, <3>1, <3>2
  <2>6. ASSUME NEW k \in lfun + 1 .. rfun PROVE k \in InFun
    <3>1. k \in InFile /\ k > lfun /\ k \in Int
      BY <1>2, <1>3, <2>1
    <3>2. ASSUME NEW j \in Stabs("N_FUN"), j > lfun PROVE k < j
      <4>1. j \in Int
        BY <1>1
      <4>2. CASE j \in InFile
        BY <1>3, <2>1, <3>1, <3>2, <4>1, <4>2
      <4>3. CASE j \notin InFile
        <5>1. j > rfile
          BY <1>2, <1>3, <2>1, <3>2, <4>1, <4>3
        <5> QED BY <1>3, <2>1, <3>1, <4>1, <5>1
      <4> QED BY <4>2, <4>3
    <3> QED BY <2>4, <3>1, <3>2 DEF InFun
  <2> QED BY <1>6, <2>3, <2>4, <2>5, <2>6
<1> QED BY <1>4, <1>5, <1>6 DEF FunRegion
-----------------------------------------------------------------------------
(***************************************************************************)
(* The search for the function.  Functions are more than a byte long, so   *)
(* it does not run on.                                                     *)
(***************************************************************************)
LEMMA WithinFile ==
    ASSUME NEW left, NEW right, FileRegion(left, right), table \in Tables, eip \in Addrs
    PROVE  /\ left \in DOMAIN table /\ right \in DOMAIN table /\ left <= right
           /\ left \in Int /\ right \in Int
           /\ \A j, k \in left .. right : j < k => SameFile(table, j, k)
<1>1. /\ Final \in Nat /\ DOMAIN table = 0 .. Final
      /\ \A type : Stabs(type) \subseteq 0 .. Final
  BY TableFacts
<1>2. /\ left \in Stabs("N_SO") /\ right \in DOMAIN table /\ left <= right
      /\ \A j \in Stabs("N_SO") : j > left => j > right
  BY DEF FileRegion
<1>3. left \in 0 .. Final /\ right \in 0 .. Final
  BY <1>1, <1>2
<1>4. ASSUME NEW j \in left .. right, NEW k \in left .. right, j < k
      PROVE  SameFile(table, j, k)
  <2>1. ASSUME NEW i \in Stabs("N_SO") PROVE ~(j < i /\ i <= k)
    <3>1. i \in Int /\ (i > left => i > right)
      BY <1>1, <1>2
    <3> QED BY <1>3, <3>1
  <2> QED BY <1>4, <2>1 DEF SameFile, Stabs
<1> QED BY <1>1, <1>2, <1>3, <1>4

LEMMA FunOrdered ==
    ASSUME NEW left, NEW right, FileRegion(left, right), table \in Tables, eip \in Addrs
    PROVE  InOrder(Call("N_FUN", left, right, eip))
<1>1. /\ left \in DOMAIN table /\ right \in DOMAIN table /\ left <= right
      /\ \A j, k \in left .. right : j < k => SameFile(table, j, k)
  BY WithinFile
<1>2. /\ \A k \in DOMAIN table : table[k].n_value \in Int
      /\ eip \in Int /\ InLinkOrder(table) /\ Stabs("N_FUN") \subseteq DOMAIN table
  BY TableFacts
<1>3. ASSUME NEW j \in Stabs("N_FUN") \cap (left .. right),
             NEW k \in Stabs("N_FUN") \cap (left .. right), j < k
      PROVE  table[j].n_value <= table[k].n_value
  <2>1. table[j].n_value + 1 < table[k].n_value
    BY <1>1, <1>2, <1>3 DEF InLinkOrder, Stabs
  <2> QED BY <1>2, <2>1
<1> QED BY <1>1, <1>2, <1>3, CallIsOrdered

LEMMA FunSearched ==
    ASSUME IInv, pc = "N_FUN", done
    PROVE  FunRegion(region_left, region_right)
<1>1. table \in Tables /\ eip \in Addrs /\ SearchInv /\ FileRegion(lfile, rfile)
      /\ call = Call("N_FUN", lfile, rfile, eip)
  BY DEF IInv, FunCall
<1>2. /\ Final \in Nat /\ DOMAIN table = 0 .. Final /\ eip \in Int
      /\ \A k \in DOMAIN table : k \in Int /\ table[k].n_value \in Int
      /\ \A type : Stabs(type) \subseteq 0 .. Final
      /\ InLinkOrder(table)
  BY <1>1, TableFacts
<1>3. /\ lfile \in DOMAIN table /\ rfile \in DOMAIN table /\ lfile <= rfile
      /\ lfile \in Int /\ rfile \in Int
      /\ \A j, k \in lfile .. rfile : j < k => SameFile(table, j, k)
  BY <1>1, WithinFile
<1>4. /\ call.left = lfile /\ call.right = rfile /\ call.addr = eip /\ stabs = table
      /\ AllMatches = Stabs("N_FUN") \cap (lfile .. rfile)
      /\ Containing = {k \in AllMatches : table[k].n_value <= eip}
      /\ \A k \in DOMAIN table : IsType(k) <=> k \in Stabs("N_FUN")
  BY <1>1, <1>3, CallOfTable
<1>5. \A k \in AllMatches : k \in Int /\ table[k].n_value \in Int
  BY <1>2, <1>4
<1>6. lfile \notin Stabs("N_FUN")
  BY <1>1 DEF FileRegion, Stabs, StabsOf
<1>7. CASE AllMatches = {}
  <2>1. Containing = {}
    BY <1>4, <1>7
  <2>2. SearchTypeOK /\ NothingFound
    BY <1>1 DEF SearchInv, IInv
  <2>3. region_left > region_right
    BY <1>7, <2>1, <2>2 DEF NothingFound
  <2>4. region_left \in Int /\ region_right \in Int
    BY <1>3, <1>4, <2>2 DEF SearchTypeOK
  <2> QED BY <1>4, <1>7, <2>3, <2>4 DEF FunRegion, HasNoFunction
<1>8. CASE AllMatches # {} /\ Containing = {}
  <2>1. ~IsType(call.left)
    BY <1>3, <1>4, <1>6
  <2>2. /\ region_left = lfile /\ region_right \in Int
        /\ region_left <= region_right /\ region_right + 1 \in AllMatches
        /\ \A k \in AllMatches : k > region_right
    BY <1>1, <1>4, <1>8, <2>1, BehindRegion
  <2>3. \A k \in AllMatches : table[k].n_value > eip
    BY <1>2, <1>4, <1>5, <1>8
  <2>4. region_right < rfile /\ region_right + 1 \in Stabs("N_FUN")
    BY <1>3, <1>4, <2>2
  <2> QED BY <1>3, <1>4, <2>2, <2>3, <2>4 DEF FunRegion, AllBehind
<1>9. CASE Containing # {}
  <2>1. /\ region_left \in AllMatches /\ region_left \in Int /\ region_right \in Int
        /\ lfile <= region_left /\ region_left <= region_right /\ region_right <= rfile
        /\ \A k \in AllMatches : k > region_left => k > region_right
        /\ region_right = rfile \/ region_right + 1 \in AllMatches
        /\ \/ region_left = Max(Containing)
           \/ RunTo(call.addr) /\ RunTo(call.addr + 1)
    BY <1>1, <1>4, <1>9, FoundRegion
  <2>2. ~(RunTo(call.addr) /\ RunTo(call.addr + 1))
    <3> SUFFICES ASSUME RunTo(call.addr), RunTo(call.addr + 1) PROVE FALSE
      OBVIOUS
    <3>1. PICK j \in AllMatches : table[j].n_value = eip
      BY <1>2, <1>4 DEF RunTo
    <3>2. PICK k \in AllMatches : table[k].n_value = eip + 1
      BY <1>2, <1>4 DEF RunTo
    <3>3. j \in Int /\ k \in Int
      BY <1>5
    <3>4. CASE j < k
      <4>1. table[j].n_value + 1 < table[k].n_value
        BY <1>2, <1>3, <1>4, <3>4 DEF InLinkOrder, Stabs
      <4> QED BY <1>2, <3>1, <3>2, <4>1
    <3>5. CASE k < j
      <4>1. table[k].n_value + 1 < table[j].n_value
        BY <1>2, <1>3, <1>4, <3>5 DEF InLinkOrder, Stabs
      <4> QED BY <1>2, <3>1, <3>2, <4>1
    <3>6. CASE j = k
      BY <1>2, <3>1, <3>2, <3>6
    <3> QED BY <3>3, <3>4, <3>5, <3>6
  <2>3. region_left \in Containing /\ \A k \in Containing : region_left >= k
    <3>1. Containing \subseteq lfile .. rfile
      BY <1>4
    <3> QED BY <1>3, <1>9, <2>1, <2>2, <3>1, MaxOfIndices
  <2>4. region_left \in AtOrBefore("N_FUN")
    BY <1>4, <2>3 DEF AtOrBefore
  <2>5. region_left # lfile /\ (region_right = rfile \/ region_right + 1 \in Stabs("N_FUN"))
    BY <1>4, <1>6, <2>1
  <2>6. ASSUME NEW k \in AllMatches, k > region_left
        PROVE  k > region_right /\ table[k].n_value > eip
    <3>1. k \notin Containing
      BY <1>5, <2>1, <2>3, <2>6
    <3> QED BY <1>2, <1>4, <1>5, <2>1, <2>6, <3>1
  <2> QED BY <1>3, <1>4, <2>1, <2>4, <2>5, <2>6 DEF FunRegion, InFunction
<1> QED BY <1>7, <1>8, <1>9
-----------------------------------------------------------------------------
(***************************************************************************)
(* The search for the line, in a function or in a file without one; before *)
(* the first function of a file there are no lines.                        *)
(***************************************************************************)
LEMMA LinesOrdered ==
    ASSUME NEW left, NEW right, NEW a \in Int, table \in Tables, eip \in Addrs,
           FileRegion(lfile, rfile), lfile <= left, left <= right, right <= rfile,
           left \in Int, right \in Int,
           \A k \in Stabs("N_FUN") \cap (left .. right) : k = left
    PROVE  InOrder(Call("N_SLINE", left, right, a))
           /\ left \in DOMAIN table /\ right \in DOMAIN table
<1>1. /\ lfile \in Int /\ rfile \in Int /\ lfile \in DOMAIN table /\ rfile \in DOMAIN table
      /\ \A j, k \in lfile .. rfile : j < k => SameFile(table, j, k)
  BY WithinFile
<1>2. /\ Final \in Nat /\ DOMAIN table = 0 .. Final
      /\ InLinkOrder(table) /\ \A type : Stabs(type) \subseteq 0 .. Final
  BY TableFacts
<1>3. left \in DOMAIN table /\ right \in DOMAIN table
  BY <1>1, <1>2
<1>4. ASSUME NEW j \in Stabs("N_SLINE") \cap (left .. right),
             NEW k \in Stabs("N_SLINE") \cap (left .. right), j < k
      PROVE  table[j].n_value <= table[k].n_value
  <2>1. SameFile(table, j, k)
    BY <1>1, <1>4
  <2>2. ASSUME NEW i \in Stabs("N_FUN") PROVE ~(j < i /\ i <= k)
    <3>1. i \in Int
      BY <1>2
    <3> QED BY <1>1, <1>4, <3>1
  <2>3. SameFunction(table, j, k)
    BY <2>1, <2>2 DEF SameFunction, Stabs
  <2> QED BY <1>2, <1>4, <2>3 DEF InLinkOrder, Stabs
<1> QED BY <1>3, <1>4, CallIsOrdered

LEMMA NoLineBefore ==
    ASSUME table \in Tables, eip \in Addrs, FileRegion(lfile, rfile), AllBehind(lfun, rfun),
           lfun \in Int, rfun \in Int
    PROVE  Stabs("N_SLINE") \cap (lfun .. rfun) = {}
<1> SUFFICES ASSUME NEW j \in Stabs("N_SLINE") \cap (lfun .. rfun) PROVE FALSE
  OBVIOUS
<1>1. /\ lfile \in Int /\ rfile \in Int
      /\ \A i, k \in lfile .. rfile : i < k => SameFile(table, i, k)
  BY WithinFile
<1>2. /\ Final \in Nat /\ InCodeOrder(table) /\ \A type : Stabs(type) \subseteq 0 .. Final
  BY TableFacts
<1>3. /\ lfun = lfile /\ rfun < rfile /\ rfun + 1 \in Stabs("N_FUN")
      /\ \A k \in Stabs("N_FUN") \cap (lfile .. rfile) : k > rfun
      /\ lfile \in Stabs("N_SO")
  BY DEF AllBehind, FileRegion
<1>4. j \in Int /\ SameFile(table, j, rfun + 1)
  BY <1>1, <1>3
<1>5. PICK i \in Stabs("N_FUN") : SameFile(table, i, j)
  BY <1>2, <1>3, <1>4 DEF InCodeOrder, Stabs
<1>6. i \in Int /\ i < j /\ ~(i < lfile /\ lfile <= j)
  BY <1>2, <1>3, <1>5 DEF SameFile, Stabs
<1> QED BY <1>1, <1>3, <1>4, <1>6

LEMMA LineCallOrdered ==
    ASSUME NEW left, NEW right, table \in Tables, eip \in Addrs,
           FileRegion(lfile, rfile), FunRegion(left, right)
    PROVE  /\ left <= right =>
                /\ InOrder(Call("N_SLINE", left, right, eip - table[left].n_value))
                /\ left \in DOMAIN table /\ right \in DOMAIN table
           /\ left > right => InOrder(Call("N_SLINE", lfile, rfile, eip))
<1>1. /\ lfile \in Int /\ rfile \in Int /\ lfile <= rfile /\ lfile \in DOMAIN table
      /\ rfile \in DOMAIN table /\ left \in Int /\ right \in Int
  BY WithinFile DEF FunRegion
<1>2. /\ Final \in Nat /\ DOMAIN table = 0 .. Final /\ eip \in Int
      /\ \A k \in DOMAIN table : table[k].n_value \in Int
  BY TableFacts
<1>3. ASSUME left <= right
      PROVE  /\ InOrder(Call("N_SLINE", left, right, eip - table[left].n_value))
             /\ left \in DOMAIN table /\ right \in DOMAIN table
  <2>1. /\ lfile <= left /\ right <= rfile
        /\ \A k \in Stabs("N_FUN") \cap (left .. right) : k = left
    <3>1. ~HasNoFunction(left, right)
      BY <1>1, <1>3 DEF HasNoFunction
    <3>2. CASE AllBehind(left, right)
      BY <1>1, <3>2 DEF AllBehind
    <3>3. CASE InFunction(left, right)
      BY <1>1, <3>3 DEF InFunction
    <3> QED BY <3>1, <3>2, <3>3 DEF FunRegion
  <2>2. left \in DOMAIN table
    BY <1>1, <1>2, <1>3, <2>1
  <2>3. eip - table[left].n_value \in Int
    BY <1>2, <2>2
  <2>4. PICK a \in Int : a = eip - table[left].n_value
    BY <2>3
  <2>5. InOrder(Call("N_SLINE", left, right, a)) /\ right \in DOMAIN table
    BY <1>1, <1>3, <2>1, LinesOrdered
  <2> QED BY <2>2, <2>4, <2>5
<1>4. ASSUME left > right PROVE InOrder(Call("N_SLINE", lfile, rfile, eip))
  <2>1. HasNoFunction(left, right)
    BY <1>1, <1>4 DEF FunRegion, AllBehind, InFunction
  <2>2. \A k \in Stabs("N_FUN") \cap (lfile .. rfile) : k = lfile
    BY <2>1 DEF HasNoFunction
  <2> QED BY <1>1, <1>2, <2>2, LinesOrdered
<1> QED BY <1>3, <1>4

(***************************************************************************)
(* Where the address's lines are, the search went through them.            *)
(***************************************************************************)
LEMMA CodeInFile ==
    ASSUME FileRegion(lfile, rfile),
           InFile \cap (Stabs("N_FUN") \cup Stabs("N_SLINE")) # {}
    PROVE  lfile = FileStab
BY DEF FileRegion

LEMMA LinesInFile ==
    ASSUME NEW k \in Lines
    PROVE  k \in InFile /\ k \in Stabs("N_SLINE")
BY DEF Lines, InFun

LEMMA LineSearchIs ==
    ASSUME table \in Tables, eip \in Addrs, LineCall, lfile = FileStab, InC => Compiled
    PROVE  /\ stabs = table /\ AllMatches = Lines /\ call.addr = LineAddr
           /\ Containing = LineStabs
<1>1. FileRegion(lfile, rfile) /\ FunRegion(lfun, rfun)
  BY DEF LineCall
<1>2. /\ ~InC => HasNoFunction(lfun, rfun)
      /\ Compiled => InFunction(lfun, rfun) /\ FunStab = lfun /\ InFun = lfun + 1 .. rfun
      /\ InFile = lfile .. rfile /\ (Compiled => InC)
  BY <1>1, FunctionIs, FileIs, TableFacts DEF Compiled, InC
<1>3. lfun \in Int /\ rfun \in Int /\ lfile \in DOMAIN table /\ rfile \in DOMAIN table
      /\ lfile \in Int /\ rfile \in Int
  BY <1>1, WithinFile DEF FunRegion
<1>4. CASE Compiled
  <2>1. lfun <= rfun /\ lfun \notin Stabs("N_SLINE")
    BY <1>2, <1>4 DEF InFunction, AtOrBefore, Stabs, StabsOf
  <2>2. call = Call("N_SLINE", lfun, rfun, LineAddr)
    BY <1>2, <1>4, <2>1 DEF LineCall, LineAddr
  <2>3. lfun \in DOMAIN table /\ rfun \in DOMAIN table
    BY <1>1, <2>1, LineCallOrdered
  <2>4. /\ call.addr = LineAddr /\ stabs = table
        /\ AllMatches = Stabs("N_SLINE") \cap (lfun .. rfun)
        /\ Containing = {k \in AllMatches : table[k].n_value <= LineAddr}
    BY <2>2, <2>3, CallOfTable
  <2>5. Lines = Stabs("N_SLINE") \cap (lfun .. rfun)
    BY <1>2, <1>3, <1>4, <2>1 DEF Lines
  <2> QED BY <2>4, <2>5 DEF LineStabs
<1>5. CASE ~Compiled
  <2>1. lfun > rfun
    BY <1>2, <1>5 DEF HasNoFunction
  <2>2. call = Call("N_SLINE", lfile, rfile, LineAddr)
    BY <1>3, <1>5, <2>1 DEF LineCall, LineAddr
  <2>3. /\ call.addr = LineAddr /\ stabs = table
        /\ AllMatches = Stabs("N_SLINE") \cap (lfile .. rfile)
        /\ Containing = {k \in AllMatches : table[k].n_value <= LineAddr}
    BY <1>3, <2>2, CallOfTable
  <2>4. Lines = Stabs("N_SLINE") \cap (lfile .. rfile)
    BY <1>2, <1>5 DEF Lines
  <2> QED BY <2>3, <2>4 DEF LineStabs
<1> QED BY <1>4, <1>5

LEMMA LineSearched ==
    ASSUME IInv, pc = "N_SLINE", done, InC => Compiled, LineStabs # {}
    PROVE  /\ region_left <= region_right
           /\ \/ region_left = Max(LineStabs)
              \/ /\ region_left \in Lines /\ table[region_left].n_value > LineAddr
                 /\ LinesRunTo(region_left)
<1>1. table \in Tables /\ eip \in Addrs /\ SearchInv /\ LineCall /\ FileRegion(lfile, rfile)
  BY DEF IInv, LineCall
<1>2. lfile = FileStab
  BY <1>1, CodeInFile, LinesInFile DEF LineStabs
<1>3. stabs = table /\ AllMatches = Lines /\ call.addr = LineAddr /\ Containing = LineStabs
  BY <1>1, <1>2, LineSearchIs
<1>4. region_left <= region_right
  BY <1>1, <1>3, FoundRegion
<1>5. FindsRegion
  BY <1>1 DEF SearchInv
<1> QED BY <1>3, <1>4, <1>5 DEF FindsRegion, RunTo, LinesRunTo

LEMMA BeforeFunctions ==
    ASSUME IInv, pc = "N_SLINE", done, InC, ~Compiled
    PROVE  region_left > region_right
<1>1. /\ table \in Tables /\ eip \in Addrs /\ SearchInv /\ LineCall
      /\ FileRegion(lfile, rfile) /\ FunRegion(lfun, rfun) /\ lfun \in Int /\ rfun \in Int
  BY DEF IInv, LineCall, FunRegion
<1>2. lfile = FileStab
  BY <1>1, CodeInFile DEF InC
<1>3. AllBehind(lfun, rfun)
  BY <1>1, <1>2, FunctionIs
<1>4. lfun <= rfun
  BY <1>3 DEF AllBehind
<1>5. Stabs("N_SLINE") \cap (lfun .. rfun) = {}
  BY <1>1, <1>3, NoLineBefore
<1>6. call = Call("N_SLINE", lfun, rfun, eip - table[lfun].n_value)
      /\ lfun \in DOMAIN table /\ rfun \in DOMAIN table
  BY <1>1, <1>4, LineCallOrdered DEF LineCall
<1>7. AllMatches = {} /\ Containing = {}
  BY <1>1, <1>5, <1>6, CallOfTable
<1>8. NothingFound
  BY <1>1 DEF SearchInv
<1> QED BY <1>7, <1>8 DEF NothingFound

-----------------------------------------------------------------------------
(***************************************************************************)
(* The scans from the function: all its parameters follow it, and without  *)
(* an included file in between the file of the function is the line's.     *)
(***************************************************************************)
LEMMA ParamsAll ==
    ASSUME table \in Tables, eip \in Addrs, FileRegion(lfile, rfile), lfile = FileStab,
           FunRegion(lfun, rfun), Compiled
    PROVE  Params = Stabs("N_PSYM") \cap InFun
<1>1. /\ Final \in Nat /\ DOMAIN table = 0 .. Final /\ InCodeOrder(table)
      /\ \A type : Stabs(type) \subseteq 0 .. Final
  BY TableFacts
<1>2. InFunction(lfun, rfun) /\ InFun = lfun + 1 .. rfun /\ FunStab = lfun
  BY FunctionIs
<1>3. /\ lfun \in Int /\ rfun \in Int /\ lfile \in 0 .. Final /\ rfile \in 0 .. Final
      /\ lfile < lfun /\ lfun <= rfun /\ rfun <= rfile
      /\ \A k \in Stabs("N_FUN") \cap (lfile .. rfile) : k > lfun => k > rfun
      /\ rfun = rfile \/ rfun + 1 \in Stabs("N_FUN")
      /\ rfile = Final \/ rfile + 1 \in Stabs("N_SO")
  BY <1>1, <1>2 DEF InFunction, FileRegion, FunRegion
<1>4. \A k \in Stabs("N_PSYM") :
         /\ k \in Int /\ (k - 1 \in Stabs("N_FUN") \/ k - 1 \in Stabs("N_PSYM"))
         /\ k + 1 \in 0 .. Final /\ k + 1 \notin Stabs("N_FUN") /\ k + 1 \notin Stabs("N_SO")
  BY <1>1 DEF InCodeOrder, Stabs
<1>5. \A k \in lfun .. rfun : table[k].n_type = "N_PSYM" <=> k \in Stabs("N_PSYM")
  BY <1>1, <1>3 DEF Stabs, StabsOf
<1>6. ASSUME NEW k \in Params PROVE k \in Stabs("N_PSYM") \cap InFun
  <2>1. k \in lfun + 1 .. rfun - 1 /\ \A j \in lfun + 1 .. k : table[j].n_type = "N_PSYM"
    BY <1>6 DEF Params
  <2>2. k \in Int /\ k \in lfun + 1 .. k /\ k \in lfun .. rfun
    BY <1>3, <2>1
  <2> QED BY <1>2, <1>3, <1>5, <2>1, <2>2
<1>7. ASSUME NEW k \in Stabs("N_PSYM"), k \in InFun PROVE k \in Params
  <2>1. k \in Int /\ k \in lfun + 1 .. rfun
    BY <1>2, <1>4, <1>7
  <2>2. k # rfun
    <3>1. rfun + 1 \in Stabs("N_FUN") \/ rfun + 1 \in Stabs("N_SO") \/ rfun = Final
      BY <1>3
    <3>2. rfun = Final => ~(rfun + 1 \in 0 .. Final)
      BY <1>1
    <3> QED BY <1>4, <3>1, <3>2
  <2> DEFINE Others == {j \in lfun + 1 .. k : j \notin Stabs("N_PSYM")}
  <2>3. Others = {}
    <3> SUFFICES ASSUME Others # {} PROVE FALSE
      OBVIOUS
    <3>1. Others \subseteq lfun + 1 .. k /\ lfun + 1 \in Int
      BY <1>3
    <3>2. PICK j \in Others : \A i \in Others : j >= i
      <4> HIDE DEF Others
      <4> QED BY <2>1, <3>1, MaxOfIndices
    <3>3. j \in Int /\ lfun < j /\ j < k /\ j \notin Stabs("N_PSYM")
      BY <1>3, <1>7, <2>1, <3>2
    <3>4. j + 1 \in Stabs("N_PSYM")
      BY <1>3, <2>1, <3>2, <3>3
    <3>5. j \in Stabs("N_FUN")
      <4>1. j + 1 - 1 = j
        BY <3>3
      <4> QED BY <1>4, <3>3, <3>4, <4>1
    <3>6. j \in lfile .. rfile /\ ~(j > rfun)
      BY <1>3, <2>1, <3>3
    <3> QED BY <1>3, <3>3, <3>5, <3>6
  <2>4. \A j \in lfun + 1 .. k : table[j].n_type = "N_PSYM"
    <3>1. \A j \in lfun + 1 .. k : j \in lfun .. rfun
      BY <1>3, <2>1
    <3> QED BY <1>5, <2>3, <3>1
  <2> QED BY <1>3, <2>1, <2>2, <2>4 DEF Params
<1> QED BY <1>6, <1>7

LEMMA FileNamed ==
    ASSUME table \in Tables, eip \in Addrs, FileRegion(lfile, rfile), lfile = FileStab,
           NEW start \in lfile .. rfile, NEW line \in lfile .. rfile, start <= line,
           \A k \in start + 1 .. line : ~NamesFile(k)
    PROVE  /\ FileStabs(start) # {}
           /\ FileStabs(start) = {k \in InFile : k <= line /\ NamesFile(k)}
<1>1. /\ lfile \in Int /\ rfile \in Int /\ lfile \in Stabs("N_SO")
      /\ table[lfile].n_value # 0 /\ InFile = lfile .. rfile
  BY TableFacts, WithinFile, FileIs DEF FileRegion
<1>2. NamesFile(lfile)
  BY <1>1 DEF NamesFile, Stabs, StabsOf
<1>3. lfile \in FileStabs(start)
  BY <1>1, <1>2 DEF FileStabs
<1>4. \A k \in InFile : k <= line /\ NamesFile(k) => k <= start
  BY <1>1
<1> QED BY <1>1, <1>3, <1>4 DEF FileStabs
-----------------------------------------------------------------------------
(***************************************************************************)
(* The steps.  The table and the address asked for stay what they are.     *)
(***************************************************************************)
LEMMA SameQuestion ==
    ASSUME UNCHANGED <<table, eip>>
    PROVE  /\ Final' = Final /\ (\A type : Stabs(type)' = Stabs(type))
           /\ (\A type : AtOrBefore(type)' = AtOrBefore(type))
           /\ FileStab' = FileStab /\ InFile' = InFile /\ FunStab' = FunStab
           /\ InFun' = InFun /\ (InC' <=> InC) /\ (Compiled' <=> Compiled)
           /\ Lines' = Lines /\ LineAddr' = LineAddr /\ LineStabs' = LineStabs
           /\ (\A k : LinesRunTo(k)' <=> LinesRunTo(k))
           /\ (\A k : NamesFile(k)' <=> NamesFile(k))
BY DEF Final, Stabs, StabsOf, AtOrBefore, FileStab, InFile, FunStab, InFun, InC, Compiled,
       Lines, LineAddr, LineStabs, LinesRunTo, NamesFile

LEMMA SameRegions ==
    ASSUME UNCHANGED <<table, eip, lfile, rfile>>
    PROVE  /\ FileRegion(lfile, rfile) => FileRegion(lfile, rfile)'
           /\ UNCHANGED <<lfun, rfun>> /\ FunRegion(lfun, rfun) => FunRegion(lfun, rfun)'
<1>1. FileRegion(lfile, rfile) => FileRegion(lfile, rfile)'
  BY SameQuestion DEF FileRegion
<1>2. ASSUME UNCHANGED <<lfun, rfun>>, FunRegion(lfun, rfun) PROVE FunRegion(lfun, rfun)'
  BY <1>2, SameQuestion DEF FunRegion, HasNoFunction, AllBehind, InFunction
<1> QED BY <1>1, <1>2

\* While no answer is given nothing is claimed of it.
LEMMA NoAnswerYet ==
    pc # "returned" /\ ret = 1 => FunctionRight /\ LineStabRight /\ FileRight
BY DEF FunctionRight, LineStabRight, FileRight

LEMMA SearchingStep ==
    ASSUME IInv, Searching
    PROVE  IInv'
<1>1. SearchNext /\ UNCHANGED <<infoVars, regionVars, table, eip, pc>>
  BY DEF Searching
<1>2. UNCHANGED <<eip_fn_addr, ret, lfile, rfile, lfun, rfun, table, eip, pc>>
  BY <1>1 DEF infoVars, regionVars
<1>3. ~done /\ UNCHANGED call
  BY <1>1 DEF SearchNext, NoMatch, Before, After, Exact, Return, InLoop
<1>4. SearchInv'
  BY <1>1, SearchNextInv DEF IInv
<1>5. pc # "returned" /\ pc' # "returned" /\ ret' = 1
  BY <1>2, <1>3 DEF IInv
<1>6. FunctionRight' /\ LineStabRight' /\ FileRight'
  <2>1. (pc # "returned" /\ ret = 1)'
    BY <1>5
  <2> QED BY <2>1, NoAnswerYet, PTL
<1>7. /\ FileCall => FileCall'
      /\ FunCall => FunCall'
      /\ LineCall => LineCall'
  <2>1. FileCall => FileCall'
    BY <1>2, <1>3, SameQuestion DEF FileCall, Call
  <2>2. FunCall => FunCall'
    BY <1>2, <1>3, SameRegions DEF FunCall, Call
  <2>3. LineCall => LineCall'
    BY <1>2, <1>3, SameRegions DEF LineCall, Call
  <2> QED BY <2>1, <2>2, <2>3
<1> QED BY <1>2, <1>4, <1>5, <1>6, <1>7 DEF IInv

LEMMA NoFileStep ==
    ASSUME IInv, NoFile
    PROVE  IInv'
<1>1. /\ pc = "N_SO" /\ done /\ region_left = 0 /\ ret' = -1 /\ pc' = "returned"
      /\ UNCHANGED <<searchVars, table, eip>>
  BY DEF NoFile, Returned
<1>2. AtOrBefore("N_SO")' = {}
  BY <1>1, FileSearched, SameQuestion
<1>3. SearchInv' /\ done'
  <2>1. [SearchNext]_searchVars /\ done' = done
    BY <1>1 DEF searchVars
  <2> QED BY <1>1, <2>1, SearchNextInv DEF IInv
<1>4. FunctionRight' /\ LineStabRight' /\ FileRight'
  BY <1>1, <1>2 DEF FunctionRight, LineStabRight, FileRight
<1> QED BY <1>1, <1>3, <1>4 DEF IInv

LEMMA BeginsInv ==
    ASSUME NEW type, NEW left, NEW right, NEW a, StartSearch(type, left, right, a),
           InOrder(Call(type, left, right, a))
    PROVE  SearchInv'
<1>1. /\ call' = Call(type, left, right, a) /\ region_left' = left /\ region_right' = right
      /\ addr' = a /\ l' = left /\ r' = right /\ any_matches' = FALSE /\ done' = FALSE
  BY DEF StartSearch
<1>2. LET c == Call(type, left, right, a) IN c.left = left /\ c.right = right /\ c.addr = a
  BY DEF Call
<1>3. InOrder(call)'
  BY <1>1 DEF InOrder
<1>4. SearchBegins'
  BY <1>1, <1>2, <1>3 DEF SearchBegins
<1> QED BY <1>4, BeginInv, PTL

LEMMA FileFoundStep ==
    ASSUME IInv, FileFound
    PROVE  IInv'
<1>1. /\ pc = "N_SO" /\ done /\ region_left # 0
      /\ lfile' = region_left /\ rfile' = region_right
      /\ StartSearch("N_FUN", region_left, region_right, eip)
      /\ UNCHANGED <<infoVars, table, eip>>
  BY DEF FileFound, Returned
<1>2. table \in Tables /\ eip \in Addrs /\ ret' = 1
  BY <1>1 DEF IInv, infoVars
<1>3. FileRegion(region_left, region_right)
  BY <1>1, FileSearched
<1>4. FileRegion(lfile, rfile)'
  BY <1>1, <1>3, SameQuestion DEF FileRegion
<1>5. SearchInv'
  <2>1. PICK left, right : left = region_left /\ right = region_right
    OBVIOUS
  <2>2. InOrder(Call("N_FUN", left, right, eip)) /\ StartSearch("N_FUN", left, right, eip)
    BY <1>1, <1>2, <1>3, <2>1, FunOrdered
  <2> QED BY <2>2, BeginsInv
<1>6. call' = Call("N_FUN", lfile, rfile, eip)' /\ pc' = "N_FUN"
  BY <1>1 DEF StartSearch, Call
<1>7. FunctionRight' /\ LineStabRight' /\ FileRight'
  <2>1. (pc # "returned" /\ ret = 1)'
    BY <1>2, <1>6
  <2> QED BY <2>1, NoAnswerYet, PTL
<1> QED BY <1>1, <1>2, <1>4, <1>5, <1>6, <1>7 DEF IInv, FunCall

LEMMA LineBegins ==
    ASSUME IInv, FunctionFound \/ NoFunction
    PROVE  IInv'
<1>1. /\ pc = "N_FUN" /\ done /\ lfun' = region_left /\ rfun' = region_right
      /\ UNCHANGED <<lfile, rfile, ret, table, eip>>
  BY DEF FunctionFound, NoFunction, Returned
<1>2. table \in Tables /\ eip \in Addrs /\ ret' = 1 /\ FileRegion(lfile, rfile)
  BY <1>1 DEF IInv, FunCall
<1>3. FunRegion(region_left, region_right)
  BY <1>1, FunSearched
<1>4. PICK left \in Int, right \in Int : left = region_left /\ right = region_right
  BY <1>3 DEF FunRegion
<1>5. FileRegion(lfile, rfile)' /\ FunRegion(lfun, rfun)'
  <2>1. FunRegion(lfun, rfun)'
    BY <1>1, <1>3, SameQuestion DEF FunRegion, HasNoFunction, AllBehind, InFunction
  <2> QED BY <1>1, <1>2, <2>1, SameRegions
<1>6. /\ left <= right => InOrder(Call("N_SLINE", left, right, eip - table[left].n_value))
      /\ left > right => InOrder(Call("N_SLINE", lfile, rfile, eip))
  BY <1>2, <1>3, <1>4, LineCallOrdered
<1>7. ASSUME FunctionFound PROVE SearchInv' /\ LineCall' /\ pc' = "N_SLINE"
  <2>1. /\ left <= right /\ eip_fn_addr' = table[left].n_value
        /\ StartSearch("N_SLINE", left, right, eip - table[left].n_value)
    BY <1>4, <1>7 DEF FunctionFound
  <2>2. SearchInv'
    <3>1. PICK a : a = eip - table[left].n_value
      OBVIOUS
    <3> QED BY <1>6, <2>1, <3>1, BeginsInv
  <2>3. LineCall' /\ pc' = "N_SLINE"
    <3>1. call' = Call("N_SLINE", left, right, eip - table[left].n_value) /\ pc' = "N_SLINE"
      BY <2>1 DEF StartSearch
    <3>2. /\ left = lfun' /\ right = rfun' /\ table' = table /\ eip' = eip
          /\ lfun' <= rfun'
      BY <1>1, <1>4, <2>1
    <3>3. call' = Call("N_SLINE", lfun, rfun, eip - table[lfun].n_value)'
      BY <3>1, <3>2 DEF Call
    <3> QED BY <1>5, <2>1, <3>1, <3>2, <3>3 DEF LineCall
  <2> QED BY <2>2, <2>3
<1>8. ASSUME NoFunction PROVE SearchInv' /\ LineCall' /\ pc' = "N_SLINE"
  <2>1. left > right /\ StartSearch("N_SLINE", lfile, rfile, eip)
    BY <1>4, <1>8 DEF NoFunction
  <2>2. SearchInv'
    <3>1. PICK lo, hi, a : lo = lfile /\ hi = rfile /\ a = eip
      OBVIOUS
    <3> QED BY <1>6, <2>1, <3>1, BeginsInv
  <2>3. LineCall' /\ pc' = "N_SLINE"
    <3>1. call' = Call("N_SLINE", lfile, rfile, eip) /\ pc' = "N_SLINE"
      BY <2>1 DEF StartSearch
    <3>2. ~(lfun' <= rfun')
      <4>1. lfun' = left /\ rfun' = right
        BY <1>1, <1>4
      <4> QED BY <2>1, <4>1
    <3>3. call' = Call("N_SLINE", lfile, rfile, eip)'
      BY <1>1, <3>1 DEF Call
    <3> QED BY <1>5, <3>1, <3>2, <3>3 DEF LineCall
  <2> QED BY <2>2, <2>3
<1>9. SearchInv' /\ LineCall' /\ pc' = "N_SLINE"
  BY <1>7, <1>8
<1>10. FunctionRight' /\ LineStabRight' /\ FileRight'
  <2>1. (pc # "returned" /\ ret = 1)'
    BY <1>2, <1>9
  <2> QED BY <2>1, NoAnswerYet, PTL
<1> QED BY <1>1, <1>2, <1>9, <1>10 DEF IInv

LEMMA NoLineStep ==
    ASSUME IInv, NoLine
    PROVE  IInv'
<1>1. /\ pc = "N_SLINE" /\ done /\ region_left > region_right /\ ret' = -1
      /\ pc' = "returned" /\ UNCHANGED <<searchVars, table, eip>>
  BY DEF NoLine, Returned
<1>2. SearchInv' /\ done'
  <2>1. [SearchNext]_searchVars /\ done' = done
    BY <1>1 DEF searchVars
  <2> QED BY <1>1, <2>1, SearchNextInv DEF IInv
<1>3. ~((InC => Compiled) /\ LineStabs # {})
  <2>1. SearchTypeOK /\ InOrder(call)
    BY <1>1 DEF IInv, SearchInv
  <2>2. region_left \in Int /\ region_right \in Int
    BY <2>1, CallInOrder DEF SearchTypeOK
  <2> QED BY <1>1, <2>2, LineSearched
<1>4. FunctionRight' /\ LineStabRight' /\ FileRight'
  <2>1. ~((InC' => Compiled') /\ LineStabs' # {})
    BY <1>1, <1>3, SameQuestion
  <2>2. LineStabRight'
    BY <1>1, <2>1 DEF LineStabRight
  <2>3. FunctionRight' /\ FileRight'
    BY <1>1 DEF FunctionRight, FileRight
  <2> QED BY <2>2, <2>3
<1> QED BY <1>1, <1>2, <1>4 DEF IInv

LEMMA LineFoundStep ==
    ASSUME IInv, LineFound
    PROVE  IInv'
<1> DEFINE lline == IF lfun <= rfun THEN lfun ELSE lfile
<1>1. /\ pc = "N_SLINE" /\ done /\ region_left <= region_right
      /\ eip_file' = IF FileStabs(lline) = {} THEN Unknown ELSE Max(FileStabs(lline))
      /\ eip_fn_narg' = Cardinality(Params)
      /\ ret' = 0 /\ pc' = "returned"
      /\ UNCHANGED <<searchVars, eip_fn_addr, table, eip>>
  BY DEF LineFound, Returned
<1>2. /\ table \in Tables /\ eip \in Addrs /\ SearchInv /\ LineCall
      /\ FileRegion(lfile, rfile) /\ FunRegion(lfun, rfun)
  BY <1>1 DEF IInv, LineCall
<1>3. region_left \in Int /\ region_right \in Int
  <2>1. SearchTypeOK /\ InOrder(call)
    BY <1>1, <1>2 DEF SearchInv
  <2> QED BY <2>1, CallInOrder DEF SearchTypeOK
<1>4. InC => Compiled
  BY <1>1, <1>3, BeforeFunctions
<1>5. SearchInv' /\ done'
  <2>1. [SearchNext]_searchVars /\ done' = done
    BY <1>1 DEF searchVars
  <2> QED BY <1>1, <1>2, <2>1, SearchNextInv
<1>6. FunctionRight'
  <2> SUFFICES ASSUME Compiled
               PROVE  /\ eip_fn_addr = table[FunStab].n_value
                      /\ Params = Stabs("N_PSYM") \cap InFun
    BY <1>1, SameQuestion DEF FunctionRight
  <2>1. lfile = FileStab
    BY <1>2, CodeInFile, TableFacts DEF Compiled
  <2>2. FunStab = lfun /\ InFunction(lfun, rfun)
    BY <1>2, <2>1, FunctionIs
  <2>3. eip_fn_addr = table[FunStab].n_value
    BY <1>2, <2>2 DEF LineCall, InFunction
  <2> QED BY <1>2, <2>1, <2>3, ParamsAll
<1>7. LineStabRight'
  <2>1. AtOrBefore("N_SO") # {}
    BY <1>2 DEF FileRegion
  <2>2. LineStabs # {} => \/ region_left = Max(LineStabs)
                          \/ /\ region_left \in Lines /\ table[region_left].n_value > LineAddr
                             /\ LinesRunTo(region_left)
    BY <1>1, <1>4, LineSearched
  <2>3. region_left' = region_left /\ table' = table
    BY <1>1 DEF searchVars
  <2> QED BY <1>1, <1>4, <2>1, <2>2, <2>3, SameQuestion DEF LineStabRight
<1>8. FileRight'
  <2> DEFINE line == Max(LineStabs)
             start == IF Compiled THEN FunStab ELSE FileStab
             names == {k \in InFile : k <= line /\ NamesFile(k)}
  <2> SUFFICES ASSUME LineStabs # {}, \A k \in start + 1 .. line : ~NamesFile(k)
               PROVE  eip_file' = Max(names)
    BY <1>1, SameQuestion DEF FileRight
  <2>1. lfile = FileStab
    BY <1>2, CodeInFile, LinesInFile DEF LineStabs
  <2>2. /\ ~InC => HasNoFunction(lfun, rfun)
        /\ Compiled => InFunction(lfun, rfun) /\ FunStab = lfun /\ InFun = lfun + 1 .. rfun
        /\ InFile = lfile .. rfile
    BY <1>2, <2>1, FunctionIs, FileIs
  <2>3. lfile \in Int /\ rfile \in Int /\ lfile <= rfile /\ lfun \in Int /\ rfun \in Int
    BY <1>2, WithinFile DEF FunRegion
  <2>4. lline = start
    BY <1>4, <2>1, <2>2, <2>3 DEF HasNoFunction, InFunction
  <2>5. line \in LineStabs
    <3>1. LineStabs \subseteq lfile .. rfile
      BY <2>2, LinesInFile DEF LineStabs
    <3> QED BY <2>3, <3>1, MaxOfIndices
  <2>6. line \in lfile .. rfile /\ start \in lfile .. rfile /\ start <= line
    <3>1. line \in Lines /\ line \in lfile .. rfile
      BY <2>2, <2>5, LinesInFile DEF LineStabs
    <3>2. CASE Compiled
      <4>1. line \in lfun + 1 .. rfun /\ start = lfun /\ lfile < lfun /\ lfun <= rfun /\ rfun <= rfile
        BY <2>2, <3>1, <3>2 DEF Lines, InFunction
      <4> HIDE DEF line, start
      <4> QED BY <2>3, <3>1, <4>1
    <3>3. CASE ~Compiled
      BY <2>1, <2>3, <3>1, <3>3
    <3> QED BY <3>2, <3>3
  <2>7. FileStabs(start) # {} /\ FileStabs(start) = names
    <3>1. PICK a \in lfile .. rfile, b \in lfile .. rfile : a = start /\ b = line
      BY <2>6
    <3>2. a <= b /\ \A k \in a + 1 .. b : ~NamesFile(k)
      BY <2>6, <3>1
    <3>3. FileStabs(a) # {} /\ FileStabs(a) = {k \in InFile : k <= b /\ NamesFile(k)}
      BY <1>2, <2>1, <3>2, FileNamed
    <3> QED BY <3>1, <3>3
  <2> HIDE DEF lline, names
  <2> QED BY <1>1, <2>4, <2>7
<1> QED BY <1>1, <1>2, <1>5, <1>6, <1>7, <1>8 DEF IInv

-----------------------------------------------------------------------------
LEMMA InitInv == Init => IInv
<1> SUFFICES ASSUME Init PROVE IInv
  OBVIOUS
<1>1. /\ table \in Tables /\ eip \in Addrs /\ pc = "N_SO" /\ ret = 1
      /\ call = Call("N_SO", 0, Final, eip)
      /\ region_left = 0 /\ region_right = Final
      /\ addr = eip /\ l = 0 /\ r = Final /\ any_matches = FALSE /\ done = FALSE
  BY DEF Init, Final
<1>2. call.left = 0 /\ call.right = Final /\ call.addr = eip
  BY <1>1 DEF Call
<1>3. SearchInv
  BY <1>1, <1>2, FileOrdered, BeginInv DEF SearchBegins
<1> QED BY <1>1, <1>3, NoAnswerYet DEF IInv, FileCall

LEMMA NextInv == IInv /\ [Next]_vars => IInv'
<1> SUFFICES ASSUME IInv, [Next]_vars PROVE IInv'
  OBVIOUS
<1>1. CASE UNCHANGED vars
  <2>1. UNCHANGED <<searchVars, table, eip, pc, lfile, rfile, lfun, rfun, eip_fn_addr,
                    eip_fn_narg, eip_file, ret, region_left, call, done>>
    BY <1>1 DEF vars, infoVars, regionVars, searchVars
  <2>2. SearchInv'
    BY <2>1, SearchNextInv DEF IInv
  <2>3. (FileCall => FileCall') /\ (FunCall => FunCall') /\ (LineCall => LineCall')
    BY <2>1, SameQuestion, SameRegions DEF FileCall, FunCall, LineCall, Call
  <2>4. FunctionRight' /\ LineStabRight' /\ FileRight'
    BY <2>1, SameQuestion DEF IInv, FunctionRight, LineStabRight, FileRight
  <2> QED BY <2>1, <2>2, <2>3, <2>4 DEF IInv
<1> QED
  BY <1>1, SearchingStep, NoFileStep, FileFoundStep, LineBegins, NoLineStep, LineFoundStep DEF Next

(***************************************************************************)
(* Between its searches debuginfo_eip is in the region of a file, and of a *)
(* function of it, that has the address, or knows that it has none.        *)
(***************************************************************************)
THEOREM KdebugInvariance == Spec => []IInv
BY InitInv, NextInv, PTL DEF Spec

(***************************************************************************)
(* The function it names is the one the address is in, with the number of  *)
(* its parameters.                                                         *)
(***************************************************************************)
THEOREM FunctionNamed == Spec => []FunctionRight
<1>1. IInv => FunctionRight
  BY DEF IInv
<1> QED BY <1>1, KdebugInvariance, PTL

(***************************************************************************)
(* It finds the line of an address, or a line that the search ran on to,   *)
(* and fails where there is none.                                          *)
(***************************************************************************)
THEOREM LineFoundRight == Spec => []LineStabRight
<1>1. IInv => LineStabRight
  BY DEF IInv
<1> QED BY <1>1, KdebugInvariance, PTL

(***************************************************************************)
(* The file it names is the line's, if no included one begins between the  *)
(* function and the line.                                                  *)
(***************************************************************************)
THEOREM FileNamedRight == Spec => []FileRight
<1>1. IInv => FileRight
  BY DEF IInv
<1> QED BY <1>1, KdebugInvariance, PTL
=================================================================================
