------------------------------ MODULE MCConsOutput ------------------------------
(***************************************************************************)
(* ConsOutput on a screen of two rows of two cells, so that a tab goes     *)
(* over every row end and scrolls twice, with two polls in a wait.         *)
(***************************************************************************)
EXTENDS ConsOutput

MCGlyph     == {" ", "a"}
MCPrintable == {"a", BS, NL, CR, TAB}
MCBiosText  == {[k \in Cells |-> "a"], [k \in Cells |-> " "]}
MCNoSerial  == <<"a">>
=================================================================================
