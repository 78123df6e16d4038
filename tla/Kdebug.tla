--------------------------------- MODULE Kdebug ---------------------------------
(***************************************************************************)
(* debuginfo_eip of kern/kdebug.c: three calls of stab_binsearch, each in  *)
(* the region the one before left, and the scans from there for the file   *)
(* name and the arguments.  A string is named by the stab that has it; the *)
(* string table is valid.                                                  *)
(***************************************************************************)
EXTENDS StabSearch

CONSTANTS
    Tables,   \* __STAB_BEGIN__ .. __STAB_END__, as functions on 0 .. n - 1
    Addrs     \* the addresses asked for, all >= ULIM

\* The stabs of a type; the stabs j < k with no file, or no file and no
\* function, beginning between them or at k.
StabsOf(t, type) == {k \in DOMAIN t : t[k].n_type = type}
SameFile(t, j, k) == j < k /\ \A i \in StabsOf(t, "N_SO") : ~(j < i /\ i <= k)
SameFunction(t, j, k) ==
    SameFile(t, j, k) /\ \A i \in StabsOf(t, "N_FUN") : ~(j < i /\ i <= k)

(***************************************************************************)
(* What the compiler and the linker make (GNUmakefile, kern/kernel.ld):    *)
(* the section's header comes first; files are in order, one with code in  *)
(* it is more than a byte long; so is a function, which pushes the frame   *)
(* pointer and sets it; the lines of a function, or of a file without      *)
(* one, are in order, in a file with functions all are in one; and the     *)
(* parameters come right after the function, with its lines behind them.   *)
(***************************************************************************)
InLinkOrder(t) ==
    /\ \A j, k \in StabsOf(t, "N_SO") : j < k =>
          /\ t[j].n_value <= t[k].n_value
          /\ (\E i \in StabsOf(t, "N_FUN") \cup StabsOf(t, "N_SLINE") : j < i /\ i < k)
                => t[j].n_value + 1 < t[k].n_value
    /\ \A j, k \in StabsOf(t, "N_FUN") :
          SameFile(t, j, k) => t[j].n_value + 1 < t[k].n_value
    /\ \A j, k \in StabsOf(t, "N_SLINE") :
          SameFunction(t, j, k) => t[j].n_value <= t[k].n_value

InCodeOrder(t) ==
    /\ \A j \in StabsOf(t, "N_SLINE"), k \in StabsOf(t, "N_FUN") :
          SameFile(t, j, k) => \E i \in StabsOf(t, "N_FUN") : SameFile(t, i, j)
    /\ \A k \in StabsOf(t, "N_PSYM") :
          /\ k - 1 \in StabsOf(t, "N_FUN") \cup StabsOf(t, "N_PSYM")
          /\ k + 1 \in DOMAIN t \ (StabsOf(t, "N_FUN") \cup StabsOf(t, "N_SO"))

ASSUME TablesLinked ==
    \A t \in Tables :
        /\ IsFiniteSet(DOMAIN t) /\ 0 \in DOMAIN t
        /\ DOMAIN t = 0 .. Cardinality(DOMAIN t) - 1
        /\ \A k \in DOMAIN t : t[k].n_value \in Nat
        /\ t[0].n_type # "N_SO" /\ \A k \in StabsOf(t, "N_SO") : t[k].n_value # 0
        /\ InLinkOrder(t) /\ InCodeOrder(t)

ASSUME AddrsAreInt == Addrs \subseteq Int

VARIABLES
    table, eip,             \* the table and the address asked for
    pc,                     \* the type searched for, or "returned"
    lfile, rfile, lfun, rfun,
    eip_fn_addr, eip_line, eip_file, eip_fn_narg,
    ret

infoVars   == <<eip_fn_addr, eip_line, eip_file, eip_fn_narg, ret>>
regionVars == <<lfile, rfile, lfun, rfun>>
vars       == <<searchVars, infoVars, regionVars, table, eip, pc>>

Unknown == -1 \* "<unknown>"

Call(type, left, right, a) ==
    [stabs |-> table, left |-> left, right |-> right, type |-> type, addr |-> a]

\* The call of stab_binsearch with these arguments begins.
StartSearch(type, left, right, a) ==
    /\ call' = Call(type, left, right, a)
    /\ region_left' = left /\ region_right' = right
    /\ addr' = a /\ l' = left /\ r' = right
    /\ any_matches' = FALSE /\ done' = FALSE
    /\ pc' = type

Init ==
    /\ table \in Tables /\ eip \in Addrs
    /\ call = Call("N_SO", 0, Cardinality(DOMAIN table) - 1, eip)
    /\ region_left = 0 /\ region_right = Cardinality(DOMAIN table) - 1
    /\ addr = eip /\ l = 0 /\ r = Cardinality(DOMAIN table) - 1
    /\ any_matches = FALSE /\ done = FALSE
    /\ pc = "N_SO"
    /\ lfile = 0 /\ rfile = 0 /\ lfun = 0 /\ rfun = 0
    /\ eip_fn_addr = eip /\ eip_line = 0 /\ eip_file = Unknown /\ eip_fn_narg = 0
    /\ ret = 1

-----------------------------------------------------------------------------
Returned(type) == pc = type /\ done

\* stab_binsearch runs.
Searching ==
    /\ SearchNext
    /\ UNCHANGED <<infoVars, regionVars, table, eip, pc>>

NoFile ==
    /\ Returned("N_SO") /\ region_left = 0
    /\ ret' = -1 /\ pc' = "returned"
    /\ UNCHANGED <<searchVars, regionVars, eip_fn_addr, eip_line, eip_file,
                   eip_fn_narg, table, eip>>

FileFound ==
    /\ Returned("N_SO") /\ region_left # 0
    /\ lfile' = region_left /\ rfile' = region_right
    /\ StartSearch("N_FUN", region_left, region_right, eip)
    /\ UNCHANGED <<infoVars, lfun, rfun, table, eip>>

\* Mutant: the line is searched by absolute address.
FunctionFound_Absolute ==
    /\ Returned("N_FUN") /\ region_left <= region_right
    /\ lfun' = region_left /\ rfun' = region_right
    /\ eip_fn_addr' = table[region_left].n_value
    /\ StartSearch("N_SLINE", region_left, region_right, eip)
    /\ UNCHANGED <<lfile, rfile, eip_line, eip_file, eip_fn_narg, ret, table, eip>>

\* Line stabs hold offsets in the function.  With all functions behind the
\* address region_left is the file's stab, and the difference, which wraps
\* around in the code, is looked for where there is no line.
FunctionFound ==
    /\ Returned("N_FUN") /\ region_left <= region_right
    /\ lfun' = region_left /\ rfun' = region_right
    /\ eip_fn_addr' = table[region_left].n_value
    /\ StartSearch("N_SLINE", region_left, region_right,
                   eip - table[region_left].n_value)
    /\ UNCHANGED <<lfile, rfile, eip_line, eip_file, eip_fn_narg, ret, table, eip>>

\* An assembly file: its line stabs hold addresses.
NoFunction ==
    /\ Returned("N_FUN") /\ region_left > region_right
    /\ lfun' = region_left /\ rfun' = region_right
    /\ eip_fn_addr' = eip
    /\ StartSearch("N_SLINE", lfile, rfile, eip)
    /\ UNCHANGED <<lfile, rfile, eip_line, eip_file, eip_fn_narg, ret, table, eip>>

NoLine ==
    /\ Returned("N_SLINE") /\ region_left > region_right
    /\ ret' = -1 /\ pc' = "returned"
    /\ UNCHANGED <<searchVars, regionVars, eip_fn_addr, eip_line, eip_file,
                   eip_fn_narg, table, eip>>

NamesFile(j) == \/ table[j].n_type = "N_SOL"
                \/ table[j].n_type = "N_SO" /\ table[j].n_value # 0

\* Mutant: the scan leaves out lfile.
FileStabs_Exclusive(k) == {j \in lfile + 1 .. k : NamesFile(j)}

\* The stabs a scan down from k to lfile stops at, the last of them first.
FileStabs(k) == {j \in lfile .. k : NamesFile(j)}

\* Mutant: the scan starts at lfun itself.
Params_FromLfun ==
    {k \in lfun .. rfun - 1 : \A j \in lfun .. k : table[j].n_type = "N_PSYM"}

\* The N_PSYM stabs right after lfun, before rfun.
Params ==
    {k \in lfun + 1 .. rfun - 1 :
        \A j \in lfun + 1 .. k : table[j].n_type = "N_PSYM"}

\* lline is where the line search began: lfun, or lfile without a function.
\* The scan for the file name starts there and not, as the comment above it
\* says, at the line.
LineFound ==
    LET lline == IF lfun <= rfun THEN lfun ELSE lfile IN
    /\ Returned("N_SLINE") /\ region_left <= region_right
    /\ eip_line' = region_right
    /\ eip_file' = IF FileStabs(lline) = {} THEN Unknown
                   ELSE Max(FileStabs(lline))
    /\ eip_fn_narg' = Cardinality(Params)
    /\ ret' = 0 /\ pc' = "returned"
    /\ UNCHANGED <<searchVars, regionVars, eip_fn_addr, table, eip>>

Next ==
    \/ Searching
    \/ NoFile \/ FileFound
    \/ FunctionFound \/ NoFunction
    \/ NoLine \/ LineFound

Spec == Init /\ [][Next]_vars

-----------------------------------------------------------------------------
Stabs(type) == StabsOf(table, type)

\* The stabs of a type at or before the address; the file that contains it
\* and its stabs; the function that does.
AtOrBefore(type) == {k \in Stabs(type) : table[k].n_value <= eip}
FileStab  == Max(AtOrBefore("N_SO"))
InFile    == {k \in DOMAIN table : k >= FileStab /\ \A j \in Stabs("N_SO") : j > FileStab => k < j}
FunStab   == Max(AtOrBefore("N_FUN") \cap InFile)
InFun     == {k \in InFile : k > FunStab /\ \A j \in Stabs("N_FUN") : j > FunStab => k < j}
InC       == Stabs("N_FUN") \cap InFile # {}
Compiled  == AtOrBefore("N_FUN") \cap InFile # {}

\* The lines of the address's function or assembly file, where it is in
\* their terms, and those at or before it.
Lines     == Stabs("N_SLINE") \cap (IF Compiled THEN InFun ELSE InFile)
LineAddr  == IF Compiled THEN eip - table[FunStab].n_value ELSE eip
LineStabs == {k \in Lines : table[k].n_value <= LineAddr}

\* A line begins at every address from the one asked for up to that of k.
LinesRunTo(k) ==
    \A b \in LineAddr .. table[k].n_value : \E i \in Lines : table[i].n_value = b

(***************************************************************************)
(* "Address of start of function" (kern/kdebug.h): in a compiled file    *)
(* it is the start of the function the address lies in, and eip_fn_narg    *)
(* the number of that function's parameters.                               *)
(***************************************************************************)
FunctionRight ==
    ret = 0 /\ AtOrBefore("N_SO") # {} /\ Compiled =>
        /\ eip_fn_addr = table[FunStab].n_value
        /\ eip_fn_narg = Cardinality(Stabs("N_PSYM") \cap InFun)

(***************************************************************************)
(* It fails for an address before every file, or before the first function *)
(* of a compiled one.  It succeeds when the address has a line stab, and   *)
(* the one it found is the last at or before the address in that function  *)
(* or file; or, when lines begin at the address and at every one after it  *)
(* up to some line, perhaps that one: the search goes on from an exact     *)
(* match for the next address.                                             *)
(***************************************************************************)
LineStabRight ==
    pc = "returned" =>
        /\ AtOrBefore("N_SO") = {} \/ (InC /\ ~Compiled) => ret = -1
        /\ AtOrBefore("N_SO") # {} /\ (InC => Compiled) /\ LineStabs # {} =>
              /\ ret = 0
              /\ \/ region_left = Max(LineStabs)
                 \/ /\ region_left \in Lines /\ table[region_left].n_value > LineAddr
                    /\ LinesRunTo(region_left)

(***************************************************************************)
(* "The relevant filename" (kern/kdebug.c:189) of a line: the last stab     *)
(* that names a file at or before the line's.  The scan in lines 194-197   *)
(* starts at the function and not at the line, so that this holds only     *)
(* when the function does not change to an included file before the line.  *)
(***************************************************************************)
FileRight ==
    ret = 0 /\ AtOrBefore("N_SO") # {} /\ LineStabs # {} =>
        LET line  == Max(LineStabs)
            start == IF Compiled THEN FunStab ELSE FileStab
        IN  (\A k \in start + 1 .. line : ~NamesFile(k))
               => eip_file = Max({k \in InFile : k <= line /\ NamesFile(k)})
=================================================================================
