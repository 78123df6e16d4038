-------------------------------- MODULE Readline --------------------------------
(***************************************************************************)
(* readline of lib/readline.c on the screen of Cga, and the output between *)
(* two calls.  The monitor prints a prompt, reads a line with an echo on   *)
(* the screen, and prints what the command has to say.                     *)
(***************************************************************************)
EXTENDS Cga

CONSTANTS
    BUFLEN,
    Prompt,  \* the characters of the prompt
    Key,     \* the bytes getchar can return that readline takes or ignores
    DEL      \* '\x7f'

ASSUME BuflenOK     == BUFLEN \in Nat /\ BUFLEN > 1
ASSUME PromptPlain  == Prompt \in Seq(Glyph)
ASSUME KeyKinds     == Key \subseteq Glyph \cup Control
ASSUME LineFitsOnScreen == Len(Prompt) + BUFLEN - 1 <= CRT_SIZE - CRT_COLS

VARIABLES
    screen,
    line,     \* the static buf
    i,
    reading   \* inside readline

vars == <<screen, line, i, reading>>

Init ==
    /\ screen \in {[buf |-> [k \in Cells |-> Blank], pos |-> p] : p \in Cells}
    /\ line = [k \in 0 .. BUFLEN - 1 |-> NUL]
    /\ i = 0
    /\ reading = FALSE

\* Output between two lines, by commands and panics.
cprintf(c) ==
    /\ ~reading
    /\ screen' = cga_putc(screen, c)
    /\ UNCHANGED <<line, i, reading>>

readline ==
    /\ ~reading
    /\ screen' = Put(screen, Prompt)
    /\ i' = 0
    /\ reading' = TRUE
    /\ UNCHANGED line

IsErase(c) == c = BS \/ c = DEL

Erase(c) ==
    /\ reading /\ IsErase(c) /\ i > 0
    /\ screen' = cga_putc(screen, BS)
    /\ i' = i - 1
    /\ UNCHANGED <<line, reading>>

\* Mutant: the echo does not wait for room in the buffer.
Insert_EchoFirst(c) ==
    /\ reading /\ c \in Glyph /\ ~(IsErase(c) /\ i > 0)
    /\ screen' = cga_putc(screen, c)
    /\ IF i < BUFLEN - 1 THEN line' = [line EXCEPT ![i] = c] /\ i' = i + 1
       ELSE UNCHANGED <<line, i>>
    /\ UNCHANGED reading

\* A byte from ' ' up, DEL with nothing to erase among them.
Insert(c) ==
    /\ reading /\ c \in Glyph /\ ~(IsErase(c) /\ i > 0) /\ i < BUFLEN - 1
    /\ screen' = cga_putc(screen, c)
    /\ line' = [line EXCEPT ![i] = c]
    /\ i' = i + 1
    /\ UNCHANGED reading

Enter(c) ==
    /\ reading /\ c \in {NL, CR}
    /\ screen' = cga_putc(screen, NL)
    /\ line' = [line EXCEPT ![i] = NUL]
    /\ reading' = FALSE
    /\ UNCHANGED i

\* getchar returns c.  Any other byte is dropped.
Typed(c) == Erase(c) \/ Insert(c) \/ Enter(c)

Next ==
    \/ \E c \in Glyph \cup Control : cprintf(c)
    \/ readline
    \/ \E c \in Key : Typed(c)

Spec == Init /\ [][Next]_vars

-----------------------------------------------------------------------------
\* The screen stays a screen with the cursor on it, and the index in buf.
TypeOK ==
    /\ screen \in Screens
    /\ DOMAIN line = 0 .. BUFLEN - 1
    /\ \A k \in DOMAIN line : line[k] \in Glyph \cup {NUL}
    /\ i \in 0 .. BUFLEN - 1
    /\ reading \in BOOLEAN

(***************************************************************************)
(* What the user sees is what readline will return: the characters before  *)
(* the cursor are the prompt and the line typed so far, across the end of  *)
(* a row, the end of the screen and any number of corrections.             *)
(***************************************************************************)
ScreenShowsLine ==
    /\ TypeOK
    /\ reading =>
        /\ screen.pos >= Len(Prompt) + i
        /\ \A k \in 0 .. i - 1 : screen.buf[screen.pos - i + k] = line[k]
        /\ \A k \in 1 .. Len(Prompt) :
              screen.buf[screen.pos - i - Len(Prompt) + k - 1] = Prompt[k]

(***************************************************************************)
(* Nothing that was erased stays visible: while a line is edited on a      *)
(* fresh row, the cells from the cursor to the end of the screen's last    *)
(* row are blank whenever they were when the line began.                   *)
(***************************************************************************)
ErasedIsBlank ==
    [][reading /\ reading' =>
         LET tail(s) == {k \in Cells : k >= s.pos} IN
         (\A k \in tail(screen) : screen.buf[k] = Blank)
            => \A k \in tail(screen') : screen'.buf[k] = Blank]_vars
=================================================================================
