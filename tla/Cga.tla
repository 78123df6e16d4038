---------------------------------- MODULE Cga ----------------------------------
(***************************************************************************)
(* The text screen of kern/console.c: cga_putc on crt_buf and crt_pos, as  *)
(* an operator on the pair.  Attributes are left out; the hardware cursor  *)
(* follows crt_pos.                                                        *)
(***************************************************************************)
EXTENDS CString, SequencesExt

CONSTANTS
    CRT_ROWS, CRT_COLS,
    Glyph               \* the bytes that are shown as they are

ASSUME ScreenSize == CRT_ROWS \in Nat /\ CRT_ROWS > 1 /\ CRT_COLS \in Nat /\ CRT_COLS > 1

CRT_SIZE == CRT_ROWS * CRT_COLS
Cells    == 0 .. CRT_SIZE - 1
Blank    == " "

\* The control bytes '\b', '\n', '\r' and '\t'.
BS  == "backspace"
NL  == "newline"
CR  == "return"
TAB == "tab"
Control == {BS, NL, CR, TAB}

ASSUME GlyphsPlain == Blank \in Glyph /\ Glyph \cap Control = {}

\* crt_buf and crt_pos.
Screens == [buf : [Cells -> Glyph], pos : Cells]

-----------------------------------------------------------------------------
\* With the cursor below the last row every row moves up.
Scroll(s) ==
    IF s.pos < CRT_SIZE THEN s
    ELSE LET moved == memmove(s.buf, 0, CRT_COLS, CRT_SIZE - CRT_COLS)
         IN  [buf |-> [k \in Cells |-> IF k < CRT_SIZE - CRT_COLS THEN moved[k] ELSE Blank],
              pos |-> s.pos - CRT_COLS]

RowStart(pos) == pos - (pos % CRT_COLS)

\* Mutant: the cursor goes back over the cell without clearing it.
Backspace_NoErase(s) == [s EXCEPT !.pos = IF @ > 0 THEN @ - 1 ELSE @]

Backspace(s) ==
    IF s.pos = 0 THEN s
    ELSE [buf |-> [s.buf EXCEPT ![s.pos - 1] = Blank], pos |-> s.pos - 1]

Newline(s) == [s EXCEPT !.pos = RowStart(@ + CRT_COLS)]
Return(s)  == [s EXCEPT !.pos = RowStart(@)]
Show(s, c) == [buf |-> [s.buf EXCEPT ![s.pos] = c], pos |-> s.pos + 1]

\* cga_putc of anything but a tab.
PutPlain(s, c) ==
    Scroll(CASE c = BS -> Backspace(s)
             [] c = NL -> Newline(s)
             [] c = CR -> Return(s)
             [] OTHER    -> Show(s, c))

FiveSpaces(s) ==
    LET put(t) == PutPlain(t, Blank) IN put(put(put(put(put(s)))))

\* A tab is five spaces, put one by one.
cga_putc(s, c) == IF c = TAB THEN Scroll(FiveSpaces(s)) ELSE PutPlain(s, c)

\* A string, as cprintf("%s") prints it.
Put(s, str) ==
    LET put[k \in 0 .. Len(str)] == IF k = 0 THEN s ELSE cga_putc(put[k - 1], str[k])
    IN  put[Len(str)]
===============================================================================
