-------------------------------- MODULE MCMonitor --------------------------------
(***************************************************************************)
(* Monitor with room for three arguments.  The names of two commands begin *)
(* alike.  The lines are every text of up to three characters from the     *)
(* space and the letters of those names, and longer ones that reach the    *)
(* limit on arguments, the other commands and their missing arguments.     *)
(***************************************************************************)
EXTENDS Monitor

\* readline lets only the last of these into a line.
MCWhitespace == <<"tab", "return", "newline", " ">>

Cmd(name, func) == [name |-> name, func |-> func]
MCCommands == <<Cmd(<<"h">>, "mon_help"), Cmd(<<"h", "k">>, "mon_kerninfo"),
                Cmd(<<"b">>, "mon_backtrace"), Cmd(<<"s">>, "mon_showmappings")>>

MCCode == [c \in {"0", "1", "a", "b", "h", "k", "s", "x"} |->
              CASE c = "0" -> 48 [] c = "1" -> 49 [] c = "a" -> 97 [] c = "b" -> 98
                [] c = "h" -> 104 [] c = "k" -> 107 [] c = "s" -> 115 [] c = "x" -> 120]

Texts(S, n) == UNION {[1 .. k -> S] : k \in 0 .. n}

\* A stage of mem_init that panics, before and after lcr3, and the longest
\* way to a panic, in page_free.
MCPanicsBefore ==
    {<<"check_kern_pgdir">>,
     <<"check_page", "page_insert", "page_remove", "page_decref", "page_free">>}
MCPanicsAfter  == {<<"check_page_installed_pgdir">>}

MCLines ==
         Texts({" ", "h", "k"}, 3)
    \cup {<<"h", " ", "h", " ", "k">>, <<"h", " ", "h", " ", "h", " ">>,
          <<"h", " ", "h", " ", "h", " ", "k">>,
          <<"b">>, <<" ", "b", " ", "h">>,
          <<"s">>, <<"s", " ", "0", "x", "1">>,
          <<"s", " ", "0", "x", "b", "1", " ", "0">>,
          <<"s", " ", "0", "x", "1", "0", "a", " ", "k">>,
          <<"s", " ", "b", " ", "a">>}
==================================================================================
