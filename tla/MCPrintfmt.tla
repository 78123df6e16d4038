------------------------------ MODULE MCPrintfmt ------------------------------
(***************************************************************************)
(* One directive with every combination of flags that it reads, and pairs  *)
(* of directives, with plain text before and after them.  Words of four    *)
(* and six bits.                                                           *)
(***************************************************************************)
EXTENDS Printfmt

D(pad, alt, width, prec, long, conv) ==
    [before |-> <<"a">>, pad |-> pad, alt |-> alt, width |-> width, prec |-> prec,
     long |-> long, conv |-> conv]

Pads   == {<<>>, <<"-">>, <<"0">>}
Widths == {<<>>, <<"3">>, <<"1", "0">>, <<"*">>}
Precs  == {<<>>, <<"1">>, <<"*">>}

Numbers == {D(pad, <<>>, w, <<>>, long, conv) :
              pad \in Pads, w \in Widths, long \in {<<>>, <<"l">>, <<"l", "l">>},
              conv \in {"d", "u", "o", "x"}}
Texts   == {D(pad, alt, w, prec, <<>>, "s") :
              pad \in Pads, alt \in {<<>>, <<"#">>}, w \in Widths, prec \in Precs}
Others  == {D(pad, <<>>, w, <<>>, <<>>, conv) :
              pad \in Pads, w \in Widths, conv \in {"c", "e", "p", "%", "q", NUL}}
Few     == {D(<<>>, <<>>, w, <<>>, <<>>, conv) :
              w \in {<<>>, <<"*">>}, conv \in {"d", "s", "q", "%"}}

MCFormats ==
    {[directives |-> ds, rest |-> <<>>] :
        ds \in {<<d>> : d \in Numbers \cup Texts \cup Others} \cup {<<d, e>> : d, e \in Few}}
    \cup {[directives |-> ds, rest |-> <<"b">>] : ds \in {<<>>} \cup {<<d>> : d \in Few}}

MCInts      == {0, 3, 5, -1, -8}
MCLongLongs == {7, 31, -32}
MCCodes     == {3, -3, 5}
MCStrings   == {<<>>, <<"a", "\t">>, <<"a", "b", "c", "d">>}
MCChars     == {"a", "%"}
MCErrors    == 1 :> <<"unspecified error">> @@ 3 :> <<"invalid parameter">>
===============================================================================
