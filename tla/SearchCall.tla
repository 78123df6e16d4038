------------------------------- MODULE SearchCall -------------------------------
(***************************************************************************)
(* One call of stab_binsearch by itself.                                   *)
(***************************************************************************)
EXTENDS StabSearch

CONSTANTS
    Searches  \* the calls: [stabs, left, right, type, addr]

ASSUME SearchesInOrder == \A s \in Searches : InOrder(s)

SearchInit ==
    /\ call \in Searches
    /\ region_left = call.left /\ region_right = call.right
    /\ addr = call.addr
    /\ l = call.left /\ r = call.right
    /\ any_matches = FALSE
    /\ done = FALSE

SearchSpec == SearchInit /\ [][SearchNext]_searchVars /\ WF_searchVars(SearchNext)

\* The search ends: l and r close in although an exact match leaves l at m.
Terminates == <>done
=================================================================================
