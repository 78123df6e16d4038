--------------------------------- MODULE Monitor ---------------------------------
(***************************************************************************)
(* The kernel monitor, kern/monitor.c, and how the kernel gets there       *)
(* (kern/init.c).  runcmd splits the line in readline's static buffer in   *)
(* place, remembers where its words begin, and calls a command.  What the  *)
(* kernel prints of its own is abstracted to a word for each message.      *)
(***************************************************************************)
EXTENDS CString, FiniteSets, SequencesExt

CONSTANTS
    Lines,      \* what readline can return
    BUFLEN,     \* the size of readline's buffer
    MAXARGS,
    WHITESPACE,
    commands,   \* a sequence of [name, func]
    Code,       \* the byte each character is
    PanicsBefore, PanicsAfter, \* the calls from mem_init to _panic, before
                               \* and after its lcr3
    Word        \* bound: numbers are taken modulo this, 2^32

ASSUME LinesFit == \A line \in Lines : Len(line) < BUFLEN
ASSUME ArgsOK   == MAXARGS \in Nat /\ MAXARGS > 3

VARIABLES
    panicstr,   \* _panic has been called
    zeroMapped, \* entry_pgdir is in use, which maps address 0
    callers,    \* the functions that led to the monitor, the latest last
    mem,        \* readline's static buf
    buf, argc, argv,
    pc,
    i,          \* the argument mon_showmappings is at
    bound,      \* _bound
    ebp,        \* the frame mon_backtrace is at, or NoFrame
    said,       \* what a command printed since the last line was typed
    typed       \* history: that line

bootVars == <<panicstr, zeroMapped, callers>>
lineVars == <<mem, buf, argc, argv>>
funcVars == <<i, bound, ebp>>
vars     == <<bootVars, lineVars, funcVars, pc, said, typed>>

Junk    == -2  \* what was in a local variable's place on the stack
NoFrame == 0   \* entry clears ebp before it calls i386_init

Init ==
    /\ panicstr = FALSE /\ zeroMapped = TRUE
    /\ callers = <<"entry", "i386_init">>
    /\ mem = [a \in 0 .. BUFLEN - 1 |-> NUL]
    /\ buf = NULL /\ argc = 0 /\ argv = [k \in 0 .. MAXARGS - 1 |-> Junk]
    /\ i = 0 /\ bound = <<0, 0>> /\ ebp = NoFrame
    /\ pc = "mem_init" /\ said = <<>> /\ typed = <<>>

-----------------------------------------------------------------------------
\* i386_init's call of mem_init returns, or mem_init panics and _panic calls
\* the monitor.  No command panics (the entries that pgdir_walk follows point
\* into memory), so that panicstr is not set when _panic is called.
mem_init ==
    /\ pc = "mem_init"
    /\ \/ /\ callers' = callers \o <<"monitor">>
          /\ zeroMapped' = FALSE
          /\ UNCHANGED panicstr
       \/ /\ ~panicstr /\ panicstr' = TRUE
          /\ zeroMapped' \in BOOLEAN
          /\ \E calls \in IF zeroMapped' THEN PanicsBefore ELSE PanicsAfter :
                callers' = callers \o <<"mem_init">> \o calls \o <<"_panic", "monitor">>
    /\ pc' = "prompt"
    /\ UNCHANGED <<lineVars, funcVars, said, typed>>

\* monitor: readline returns a line, and runcmd is called.
readline(line) ==
    /\ pc = "prompt"
    /\ mem' = [a \in DOMAIN mem |-> IF a < Len(line) THEN line[a + 1]
                                    ELSE IF a = Len(line) THEN NUL ELSE mem[a]]
    /\ buf' = 0 /\ argc' = 0
    /\ argv' = [k \in 0 .. MAXARGS - 1 |-> IF k = 0 THEN NULL ELSE Junk]
    /\ typed' = line /\ said' = <<>>
    /\ pc' = "gobble"
    /\ UNCHANGED <<bootVars, funcVars>>

IsSpace(c) == strchr(Literal(WHITESPACE), 1, c) # NULL

\* Where the run of bytes that are, or are not, white space ends.
EndOfRun(p, space) ==
    LET end[a \in p .. BUFLEN - 1] ==
            IF mem[a] # NUL /\ IsSpace(mem[a]) = space THEN end[a + 1] ELSE a
    IN  end[p]

\* Mutant: the white space is passed over and stays.
Gobble_NotEnded ==
    /\ pc = "gobble"
    /\ LET end == EndOfRun(buf, TRUE) IN
       /\ buf' = end
       /\ pc' = IF mem[end] = NUL THEN "lookup" ELSE "argument"
    /\ UNCHANGED <<bootVars, mem, argc, argv, funcVars, said, typed>>

\* White space is overwritten, which ends the word before it.
Gobble ==
    /\ pc = "gobble"
    /\ LET end == EndOfRun(buf, TRUE) IN
       /\ mem' = [a \in DOMAIN mem |-> IF a \in buf .. end - 1 THEN NUL ELSE mem[a]]
       /\ buf' = end
       /\ pc' = IF mem[end] = NUL THEN "lookup" ELSE "argument"
    /\ UNCHANGED <<bootVars, argc, argv, funcVars, said, typed>>

TooMany ==
    /\ pc = "argument" /\ argc = MAXARGS - 1
    /\ said' = <<"Too many arguments">>
    /\ pc' = "prompt"
    /\ UNCHANGED <<bootVars, lineVars, funcVars, typed>>

Argument ==
    /\ pc = "argument" /\ argc # MAXARGS - 1
    /\ argv' = [argv EXCEPT ![argc] = buf]
    /\ argc' = argc + 1
    /\ buf' = EndOfRun(buf, FALSE)
    /\ pc' = "gobble"
    /\ UNCHANGED <<bootVars, mem, funcVars, said, typed>>

\* The string at p, as a sequence.
StringAt(p) == [k \in 1 .. strlen(mem, p) |-> mem[p + k - 1]]

\* The commands whose name the first argument is.
Found == {c \in DOMAIN commands : strcmp(mem, argv[0], Literal(commands[c].name), 1) = 0}

\* The rest of runcmd: argv is ended, and a command called by its pc.
Lookup ==
    /\ pc = "lookup"
    /\ argv' = [argv EXCEPT ![argc] = NULL]
    /\ i' = 0 /\ ebp' = Len(callers) + 1
    /\ IF argc = 0 THEN pc' = "prompt" /\ UNCHANGED said
       ELSE IF Found = {} THEN pc' = "prompt" /\ said' = <<"Unknown command", StringAt(argv[0])>>
       ELSE pc' = commands[CHOOSE c \in Found : \A d \in Found : c <= d].func /\ UNCHANGED said
    /\ UNCHANGED <<bootVars, mem, buf, argc, bound, typed>>

-----------------------------------------------------------------------------
mon_help ==
    /\ pc = "mon_help"
    /\ said' = [c \in DOMAIN commands |-> commands[c].name]
    /\ pc' = "prompt"
    /\ UNCHANGED <<bootVars, lineVars, funcVars, typed>>

mon_kerninfo ==
    /\ pc = "mon_kerninfo"
    /\ said' = <<"Special kernel symbols">>
    /\ pc' = "prompt"
    /\ UNCHANGED <<bootVars, lineVars, funcVars, typed>>

\* The function a frame returns to.  The frames of runcmd and mon_backtrace
\* are on top of the callers'; entry has none.  Every call of the source has a
\* frame here; the compiler may leave some out.
ReturnsTo(frame) == (callers \o <<"runcmd">>)[frame]

\* Mutant: a frame that returns to assembly is tried again.
mon_backtrace_Stays ==
    /\ pc = "mon_backtrace"
    /\ IF ebp = NoFrame THEN pc' = "prompt" /\ UNCHANGED <<said, ebp>>
       ELSE /\ said' = IF ReturnsTo(ebp) = "entry" THEN said ELSE Append(said, ReturnsTo(ebp))
            /\ ebp' = IF ReturnsTo(ebp) = "entry" THEN ebp ELSE ebp - 1
            /\ UNCHANGED pc
    /\ UNCHANGED <<bootVars, lineVars, i, bound, typed>>

\* One round of the loop, or its end.
mon_backtrace ==
    /\ pc = "mon_backtrace"
    /\ IF ebp = NoFrame THEN pc' = "prompt" /\ UNCHANGED <<said, ebp>>
       ELSE /\ said' = Append(said, ReturnsTo(ebp))
            /\ ebp' = ebp - 1
            /\ UNCHANGED pc
    /\ UNCHANGED <<bootVars, lineVars, i, bound, typed>>

Digit(c) == IF Code[c] >= Code["a"] THEN Code[c] - Code["a"] + 10 ELSE Code[c] - Code["0"]

\* The digits from the third character on, whatever the first two are.
Number(p) ==
    LET len == strlen(mem, p)
        num[j \in 1 .. len] ==
            IF j <= 2 THEN 0 ELSE (num[j - 1] * 16 + Digit(mem[p + j - 1])) % Word
    IN  IF len = 0 THEN 0 ELSE num[len]

\* argv[i + 1] is read whatever argc is.  At NULL are the interrupt vectors
\* of the BIOS as long as address 0 is mapped; Junk points anywhere.
ReadBound ==
    /\ pc = "mon_showmappings" /\ i < 2
    /\ LET p == argv[i + 1] IN
       IF p \in {NULL, Junk}
       THEN /\ p = Junk \/ zeroMapped
            /\ bound' = [bound EXCEPT ![i + 1] = Junk]
       ELSE bound' = [bound EXCEPT ![i + 1] = Number(p)]
    /\ i' = i + 1
    /\ UNCHANGED <<bootVars, lineVars, ebp, pc, said, typed>>

\* A page fault; without interrupt descriptors the machine resets.
PageFault ==
    /\ pc = "mon_showmappings" /\ i < 2
    /\ argv[i + 1] = Junk \/ (argv[i + 1] = NULL /\ ~zeroMapped)
    /\ pc' = "reset"
    /\ UNCHANGED <<bootVars, lineVars, funcVars, said, typed>>

ShowBound ==
    /\ pc = "mon_showmappings" /\ i = 2
    /\ said' = <<"Lmao", bound[1]>>
    /\ pc' = "prompt"
    /\ UNCHANGED <<bootVars, lineVars, funcVars, typed>>

runcmd == Gobble \/ TooMany \/ Argument \/ Lookup
Command == mon_help \/ mon_kerninfo \/ mon_backtrace \/ ReadBound \/ PageFault \/ ShowBound
Kernel == mem_init \/ runcmd \/ Command

Next == Kernel \/ \E line \in Lines : readline(line)

Spec == Init /\ [][Next]_vars /\ WF_vars(Kernel)

-----------------------------------------------------------------------------
\* Pointers lead into the buffer, and the parse stays inside it and argv.
TypeOK ==
    /\ panicstr \in BOOLEAN /\ zeroMapped \in BOOLEAN
    /\ mem[BUFLEN - 1] = NUL /\ buf \in DOMAIN mem \cup {NULL}
    /\ argc \in 0 .. MAXARGS - 1
    /\ \A k \in DOMAIN argv : argv[k] \in DOMAIN mem \cup {NULL, Junk}
    /\ i \in 0 .. 2 /\ ebp \in 0 .. Len(callers) + 1
    /\ \A b \in {bound[1], bound[2]} : b \in 0 .. Word - 1 \cup {Junk}

\* The words of a line: the longest runs without white space.
Spaces == ToSet(WHITESPACE)
WordStarts(line) ==
    {k \in DOMAIN line : line[k] \notin Spaces /\ (k = 1 \/ line[k - 1] \in Spaces)}
WordFrom(line, k) ==
    SubSeq(line, k, Max({j \in k .. Len(line) : \A n \in k .. j : line[n] \notin Spaces}))
Words(line) ==
    LET starts == SetToSortSeq(WordStarts(line), <)
    IN  [n \in DOMAIN starts |-> WordFrom(line, starts[n])]

\* A number as "0x" and digits, and its value.
HexDigits == <<"0", "1", "2", "3", "4", "5", "6", "7", "8", "9", "a", "b", "c", "d", "e", "f">>
IsNumber(w) == /\ Len(w) > 2 /\ w[1] = "0" /\ w[2] = "x"
               /\ \A k \in 3 .. Len(w) : w[k] \in ToSet(HexDigits)
HexValue(w) ==
    MapThenSumSet(LAMBDA k : (CHOOSE d \in 1 .. 16 : HexDigits[d] = w[k]) * 16 ^ (Len(w) - k)
                             - 16 ^ (Len(w) - k),
                  3 .. Len(w)) % Word

\* The functions a line calls: at most one.
Called(line) ==
    {commands[c].func : c \in {d \in DOMAIN commands :
        /\ Len(Words(line)) \in 1 .. MAXARGS - 1
        /\ commands[d].name = Words(line)[1]}}

\* What may be printed for a line.
Answers(line) ==
    LET w == Words(line) IN
    IF w = <<>> THEN {<<>>}
    ELSE IF Len(w) > MAXARGS - 1 THEN {<<"Too many arguments">>}
    ELSE IF Called(line) = {} THEN {<<"Unknown command", w[1]>>}
    ELSE IF "mon_help" \in Called(line) THEN {[c \in DOMAIN commands |-> commands[c].name]}
    ELSE IF "mon_kerninfo" \in Called(line) THEN {<<"Special kernel symbols">>}
    ELSE IF "mon_backtrace" \in Called(line) THEN {Reverse(callers \o <<"runcmd">>)}
    ELSE IF Len(w) >= 3 /\ IsNumber(w[2]) THEN {<<"Lmao", HexValue(w[2])>>}
    ELSE {<<"Lmao", n>> : n \in {Junk} \cup 0 .. Word - 1}

(***************************************************************************)
(* The monitor does what the line says, whatever the buffer held before:   *)
(* a command sees the words of the line, ended by a null pointer, and only *)
(* the command named runs; backtrace shows every active function from the  *)
(* inner to the outer; showmappings asks for the number given, and is all  *)
(* that can reset the machine, when an argument is missing.                *)
(***************************************************************************)
AnswerRight ==
    /\ TypeOK
    /\ pc \in {c.func : c \in ToSet(commands)} =>
         /\ pc \in Called(typed)
         /\ argc = Len(Words(typed)) /\ argv[argc] = NULL
         /\ \A k \in 1 .. argc : StringAt(argv[k - 1]) = Words(typed)[k]
    /\ pc = "prompt" => said \in Answers(typed)
    /\ pc = "reset" => "mon_showmappings" \in Called(typed) /\ Len(Words(typed)) < 3

(***************************************************************************)
(* After the boot, and after every line, the prompt comes back, unless the *)
(* machine resets.                                                         *)
(***************************************************************************)
PromptReturns == []<>(pc \in {"prompt", "reset"})
==================================================================================
