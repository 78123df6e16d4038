------------------------------ MODULE MCStabSearch ------------------------------
(***************************************************************************)
(* Every table of up to five stabs whose N_SO ones are in order, at three  *)
(* addresses two apart, and of up to four, at three adjacent ones; every   *)
(* address below, at, between and above theirs; and a longer table with    *)
(* two stabs at one address.                                               *)
(***************************************************************************)
EXTENDS SearchCall

Stab(t, v) == [n_type |-> t, n_value |-> v]
Entries(values) == {Stab("N_SO", v) : v \in values} \cup {Stab("N_SLINE", 0)}

Sorted(t) ==
    \A j, k \in DOMAIN t :
        j < k /\ t[j].n_type = "N_SO" /\ t[k].n_type = "N_SO" => t[j].n_value <= t[k].n_value

Tables(n, values) == {t \in [0 .. n - 1 -> Entries(values)] : Sorted(t)}

AllSearches(n, values) ==
    {[stabs |-> t, left |-> 0, right |-> n - 1, type |-> "N_SO", addr |-> a] :
        t \in Tables(n, values), a \in 0 .. 6}

\* A table that makes the search stop at the first of two stabs at one
\* address, after exact matches at the addresses before.
TwoAtOneAddress ==
    [k \in 0 .. 14 |-> CASE k = 3 -> Stab("N_SO", 1) [] k = 4 -> Stab("N_SO", 2)
                         [] k \in {5, 7} -> Stab("N_SO", 3)
                         [] OTHER -> Stab("N_SLINE", 0)]

MCSearches ==
    UNION {AllSearches(n, {1, 3, 5}) : n \in 1 .. 5}
    \cup UNION {AllSearches(n, {1, 2, 3}) : n \in 1 .. 4}
    \cup {[stabs |-> TwoAtOneAddress, left |-> 0, right |-> 14, type |-> "N_SO",
           addr |-> a] : a \in 0 .. 4}
=================================================================================
