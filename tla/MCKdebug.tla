-------------------------------- MODULE MCKdebug --------------------------------
(***************************************************************************)
(* Kdebug on tables as the compiler and the linker make them: the header,  *)
(* an assembly file with the N_SO that ends it one address before the      *)
(* next file, a C file with one or two functions, and the closing N_SO.    *)
(* A function has up to two parameters, a line at its first instruction    *)
(* and two further on, perhaps from an included file, or at the next two   *)
(* addresses.                                                              *)
(***************************************************************************)
EXTENDS Kdebug, Sequences

Stab(t, v) == [n_type |-> t, n_value |-> v]

Function(start, params, second, included) ==
       <<Stab("N_FUN", start)>>
    \o [k \in 1 .. params |-> Stab("N_PSYM", 8)]
    \o <<Stab("N_SLINE", 0)>>
    \o (IF included THEN <<Stab("N_SOL", start + second)>> ELSE <<>>)
    \o <<Stab("N_SLINE", second), Stab("N_SLINE", second + 1)>>

CFile(start, params, second, two, included) ==
       <<Stab("N_SO", start), Stab("N_SO", start)>>
    \o Function(start + 2, params, second, included)
    \o (IF two THEN Function(start + 6, 1, second, FALSE) ELSE <<>>)

AsmFile(start) ==
    <<Stab("N_SO", start), Stab("N_SLINE", start), Stab("N_SLINE", start + 2),
      Stab("N_SO", start + 3)>>

ZeroBased(s) == [k \in 0 .. Len(s) - 1 |-> s[k + 1]]

Program(params, second, two, included) ==
    ZeroBased(<<Stab("N_UNDF", 1)>> \o AsmFile(10)
                \o CFile(14, params, second, two, included)
                \o <<Stab("N_SO", 26)>>)

MCTables ==
    {Program(params, second, two, included) :
        params \in 0 .. 2, second \in 1 .. 2, two \in BOOLEAN, included \in BOOLEAN}

MCAddrs == 9 .. 27
=================================================================================
