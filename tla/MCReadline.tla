------------------------------- MODULE MCReadline -------------------------------
(***************************************************************************)
(* Readline on a screen of three rows of two cells with room for three   *)
(* characters and the 0 in the buffer, so that a line with its prompt      *)
(* goes over two row ends and scrolls.                                     *)
(***************************************************************************)
EXTENDS Readline

MCGlyph  == {" ", "a", "del", ">"}
MCKey    == {"a", "del", BS, NL, CR, TAB}
MCPrompt == <<">">>
=================================================================================
