----------------------------- MODULE ReadlineProofs -----------------------------
(***************************************************************************)
(* What the user sees is what readline returns, for a screen, a buffer and *)
(* a prompt of any length.  ScreenShowsLine is inductive: its proof takes  *)
(* what one shown or erased character does to the cells before and behind  *)
(* the cursor, across a row's end and when the screen scrolls, which rests *)
(* on memmove reading each row before it overwrites it.                    *)
(***************************************************************************)
EXTENDS Readline, TLAPS, WellFoundedInduction

\* There is a least number in every set of them.
LEMMA LeastNat ==
    ASSUME NEW T, T \subseteq Nat, T # {}
    PROVE  \E x \in T : \A y \in T : x <= y
<1> DEFINE R == OpToRel(<, Nat)
<1>1. IsWellFoundedOn(R, Nat)
  BY NatLessThanWellFounded
<1>2. \A x, y \in Nat : x < y => <<x, y>> \in R
  BY DEF OpToRel
<1>3. \E x \in T : \A y \in T : ~(<<y, x>> \in R)
  <2> HIDE DEF R
  <2> QED BY <1>1, WFMin
<1>4. PICK x \in T : \A y \in T : ~(<<y, x>> \in R)
  BY <1>3
<1> HIDE DEF R
<1>5. \A y \in T : ~(y < x)
  BY <1>2, <1>4, Zenon
<1>6. \A y \in T : x <= y
  BY <1>5, SMT
<1> QED BY <1>6

(***************************************************************************)
(* memmove down to the start of the memory: upwards, so that each byte is  *)
(* read before it is overwritten.                                          *)
(***************************************************************************)
LEMMA MovedDown ==
    ASSUME NEW S, NEW m, m \in [S -> Glyph], NEW d \in Nat \ {0}, NEW n \in Nat,
           0 .. n + d - 1 \subseteq S
    PROVE  \A j \in 0 .. n - 1 : memmove(m, 0, d, n)[j] = m[j + d]
<1> DEFINE After(k) == [j \in S |-> IF j \in 0 .. k - 1 THEN m[j + d] ELSE m[j]]
           step(f) == [k \in 0 .. n |->
                         IF k = 0 THEN m
                         ELSE [f[k - 1] EXCEPT ![0 + (k - 1)] = f[k - 1][d + (k - 1)]]]
           copied == CHOOSE f : f = step(f)
<1>1. memmove(m, 0, d, n) = copied[n]
  <2>1. ~(d < 0)
    OBVIOUS
  <2> QED BY <2>1 DEF memmove
<1> DEFINE g == [k \in 0 .. n |-> After(k)]
<1>2. After(0) = m
  OBVIOUS
<1>3. ASSUME NEW k \in 0 .. n, k # 0
      PROVE  After(k) = [After(k - 1) EXCEPT ![0 + (k - 1)] = After(k - 1)[d + (k - 1)]]
  <2>1. k - 1 \in Nat /\ k - 1 \in S /\ d + (k - 1) \in S /\ ~(d + (k - 1) \in 0 .. (k - 1) - 1)
    <3>1. k - 1 \in 0 .. n + d - 1 /\ d + (k - 1) \in 0 .. n + d - 1
      BY <1>3
    <3> QED BY <1>3, <3>1
  <2>2. After(k - 1)[d + (k - 1)] = m[(k - 1) + d]
    BY <2>1
  <2>3. ASSUME NEW j \in S
        PROVE  After(k)[j] = IF j = k - 1 THEN m[(k - 1) + d] ELSE After(k - 1)[j]
    <3>1. j \in 0 .. k - 1 <=> j \in 0 .. (k - 1) - 1 \/ j = k - 1
      BY <2>1
    <3> QED BY <2>1, <3>1
  <2>4. 0 + (k - 1) = k - 1
    OBVIOUS
  <2> QED BY <2>2, <2>3, <2>4
<1>4. g = step(g)
  <2> HIDE DEF After
  <2>1. \A k \in 0 .. n : k # 0 => k - 1 \in 0 .. n
    OBVIOUS
  <2> QED BY <1>2, <1>3, <2>1
<1>5. copied = step(copied)
  <2> HIDE DEF g, step
  <2> QED BY <1>4
<1>6. \A k \in 0 .. n : copied[k] = After(k)
  <2> HIDE DEF After, copied
  <2> DEFINE Bad == {k \in 0 .. n : copied[k] # After(k)}
  <2> SUFFICES ASSUME Bad # {} PROVE FALSE
    OBVIOUS
  <2>1. PICK k \in Bad : \A y \in Bad : k <= y
    <3>1. Bad \subseteq Nat
      OBVIOUS
    <3> HIDE DEF Bad
    <3> QED BY <3>1, LeastNat
  <2>2. copied[0] = m
    BY <1>5
  <2>3. k # 0
    BY <1>2, <2>1, <2>2
  <2>4. k - 1 \in 0 .. n /\ copied[k - 1] = After(k - 1)
    BY <2>1, <2>3
  <2>5. copied[k] = [copied[k - 1] EXCEPT ![0 + (k - 1)] = copied[k - 1][d + (k - 1)]]
    BY <1>5, <2>1, <2>3
  <2>6. copied[k] = After(k)
    BY <1>3, <2>1, <2>3, <2>4, <2>5
  <2> QED BY <2>1, <2>6
<1>7. \A j \in 0 .. n - 1 : j \in S /\ After(n)[j] = m[j + d]
  OBVIOUS
<1> HIDE DEF After, copied
<1> QED BY <1>1, <1>6, <1>7
-----------------------------------------------------------------------------
(***************************************************************************)
(* What is put on a screen leaves a screen.                                *)
(***************************************************************************)
LEMMA Sizes ==
    /\ CRT_COLS \in Nat /\ CRT_COLS > 1
    /\ CRT_SIZE \in Nat /\ CRT_SIZE > CRT_COLS
    /\ 0 \in Cells
<1>1. CRT_ROWS \in Nat /\ CRT_ROWS > 1 /\ CRT_COLS \in Nat /\ CRT_COLS > 1
  BY ScreenSize
<1>2. CRT_ROWS * CRT_COLS \in Nat /\ CRT_ROWS * CRT_COLS > CRT_COLS
  <2>1. CRT_ROWS - 2 \in Nat /\ CRT_COLS \in Nat
    BY <1>1
  <2>2. (CRT_ROWS - 2) * CRT_COLS \in Nat
    BY <2>1
  <2>3. CRT_ROWS * CRT_COLS = (CRT_ROWS - 2) * CRT_COLS + CRT_COLS + CRT_COLS
    BY <1>1
  <2> QED BY <1>1, <2>2, <2>3
<1> QED BY <1>1, <1>2 DEF CRT_SIZE, Cells

LEMMA RowStarts ==
    ASSUME NEW pos \in Nat
    PROVE  RowStart(pos) \in 0 .. pos
<1>1. CRT_COLS \in Nat /\ CRT_COLS > 1
  BY Sizes
<1>2. pos % CRT_COLS \in 0 .. CRT_COLS - 1
  BY <1>1
<1>3. pos < CRT_COLS => pos % CRT_COLS = pos
  BY <1>1
<1> QED BY <1>1, <1>2, <1>3 DEF RowStart

\* Each row moves up by one, and the last is blank.
RowsUp(b) ==
    [k \in Cells |-> IF k < CRT_SIZE - CRT_COLS THEN b[k + CRT_COLS] ELSE Blank]

LEMMA ScrollIs ==
    ASSUME NEW b \in [Cells -> Glyph], NEW p \in CRT_SIZE .. CRT_SIZE + CRT_COLS - 1
    PROVE  Scroll([buf |-> b, pos |-> p]) = [buf |-> RowsUp(b), pos |-> p - CRT_COLS]
<1> DEFINE moved == memmove(b, 0, CRT_COLS, CRT_SIZE - CRT_COLS)
<1>1. CRT_COLS \in Nat \ {0} /\ CRT_SIZE - CRT_COLS \in Nat /\ CRT_SIZE \in Nat
  BY Sizes
<1>2. 0 .. (CRT_SIZE - CRT_COLS) + CRT_COLS - 1 \subseteq Cells
  BY <1>1 DEF Cells
<1>3. \A j \in 0 .. (CRT_SIZE - CRT_COLS) - 1 : moved[j] = b[j + CRT_COLS]
  <2>1. \A d \in Nat \ {0}, n \in Nat :
          0 .. n + d - 1 \subseteq Cells =>
            \A j \in 0 .. n - 1 : memmove(b, 0, d, n)[j] = b[j + d]
    BY MovedDown
  <2> QED BY <1>1, <1>2, <2>1, Zenon
<1>4. \A k \in Cells : k < CRT_SIZE - CRT_COLS => moved[k] = b[k + CRT_COLS]
  <2>1. \A k \in Cells : k < CRT_SIZE - CRT_COLS => k \in 0 .. (CRT_SIZE - CRT_COLS) - 1
    BY <1>1 DEF Cells
  <2> HIDE DEF moved
  <2> QED BY <1>3, <2>1
<1>5. ~(p < CRT_SIZE)
  BY <1>1
<1>6. Scroll([buf |-> b, pos |-> p]) =
        [buf |-> [k \in Cells |-> IF k < CRT_SIZE - CRT_COLS THEN moved[k] ELSE Blank],
         pos |-> p - CRT_COLS]
  BY <1>5 DEF Scroll
<1> HIDE DEF moved
<1> QED BY <1>4, <1>6 DEF RowsUp

LEMMA ScrollStays ==
    ASSUME NEW b \in [Cells -> Glyph], NEW p \in 0 .. CRT_SIZE + CRT_COLS - 1
    PROVE  Scroll([buf |-> b, pos |-> p]) \in Screens
<1>1. CASE p < CRT_SIZE
  <2>1. p \in Cells /\ Scroll([buf |-> b, pos |-> p]) = [buf |-> b, pos |-> p]
    BY <1>1, Sizes DEF Scroll, Cells
  <2> QED BY <2>1 DEF Screens
<1>2. CASE ~(p < CRT_SIZE)
  <2>1. Scroll([buf |-> b, pos |-> p]) = [buf |-> RowsUp(b), pos |-> p - CRT_COLS]
    <3>1. p \in CRT_SIZE .. CRT_SIZE + CRT_COLS - 1
      BY <1>2, Sizes
    <3> QED BY <3>1, ScrollIs
  <2>2. p - CRT_COLS \in Cells
    BY <1>2, Sizes DEF Cells
  <2>3. RowsUp(b) \in [Cells -> Glyph]
    <3>1. \A k \in Cells : k < CRT_SIZE - CRT_COLS => k + CRT_COLS \in Cells
      BY Sizes DEF Cells
    <3> QED BY <3>1, GlyphsPlain DEF RowsUp
  <2> QED BY <2>1, <2>2, <2>3 DEF Screens
<1> QED BY <1>1, <1>2

LEMMA PutStays ==
    ASSUME NEW s \in Screens, NEW c \in Glyph \cup Control
    PROVE  c # TAB => PutPlain(s, c) \in Screens
<1> SUFFICES ASSUME c # TAB PROVE PutPlain(s, c) \in Screens
  OBVIOUS
<1>1. PICK b \in [Cells -> Glyph], p \in Cells : s = [buf |-> b, pos |-> p]
  BY DEF Screens
<1>2. p \in Nat /\ p < CRT_SIZE
  BY <1>1, Sizes DEF Cells
<1>3. CASE c = BS
  <2>1. PutPlain(s, c) = Scroll(Backspace(s))
    BY <1>3 DEF PutPlain, BS, NL, CR
  <2>2. CASE p = 0
    BY <1>1, <1>2, <2>1, <2>2, Sizes, ScrollStays DEF Backspace
  <2>3. CASE p # 0
    <3>1. Backspace(s) = [buf |-> [b EXCEPT ![p - 1] = Blank], pos |-> p - 1]
      BY <1>1, <2>3 DEF Backspace
    <3>2. p - 1 \in 0 .. CRT_SIZE + CRT_COLS - 1
      BY <1>2, <2>3, Sizes
    <3>3. [b EXCEPT ![p - 1] = Blank] \in [Cells -> Glyph]
      BY GlyphsPlain
    <3> QED BY <2>1, <3>1, <3>2, <3>3, ScrollStays
  <2> QED BY <2>2, <2>3
<1>4. CASE c = NL
  <2>1. PutPlain(s, c) = Scroll(Newline(s))
    BY <1>4 DEF PutPlain, BS, NL, CR
  <2>2. Newline(s) = [buf |-> b, pos |-> RowStart(p + CRT_COLS)]
    BY <1>1 DEF Newline
  <2>3. RowStart(p + CRT_COLS) \in 0 .. CRT_SIZE + CRT_COLS - 1
    <3>1. p + CRT_COLS \in Nat
      BY <1>2, Sizes
    <3>2. RowStart(p + CRT_COLS) \in 0 .. p + CRT_COLS
      BY <3>1, RowStarts
    <3> QED BY <1>2, <3>2, Sizes
  <2> QED BY <1>1, <2>1, <2>2, <2>3, ScrollStays
<1>5. CASE c = CR
  <2>1. PutPlain(s, c) = Scroll(Return(s))
    BY <1>5 DEF PutPlain, BS, NL, CR
  <2>2. Return(s) = [buf |-> b, pos |-> RowStart(p)]
    BY <1>1 DEF Return
  <2>3. RowStart(p) \in 0 .. CRT_SIZE + CRT_COLS - 1
    <3>1. RowStart(p) \in 0 .. p
      BY <1>2, RowStarts
    <3> QED BY <1>2, <3>1, Sizes
  <2> QED BY <1>1, <2>1, <2>2, <2>3, ScrollStays
<1>6. CASE c \in Glyph
  <2>1. PutPlain(s, c) = Scroll(Show(s, c))
    BY <1>6, GlyphsPlain DEF PutPlain, Control
  <2>2. Show(s, c) = [buf |-> [b EXCEPT ![p] = c], pos |-> p + 1]
    BY <1>1 DEF Show
  <2>3. [b EXCEPT ![p] = c] \in [Cells -> Glyph] /\ p + 1 \in 0 .. CRT_SIZE + CRT_COLS - 1
    BY <1>1, <1>2, <1>6, Sizes
  <2> QED BY <2>1, <2>2, <2>3, ScrollStays
<1> QED BY <1>3, <1>4, <1>5, <1>6 DEF Control

LEMMA ScreenStays ==
    ASSUME NEW s \in Screens, NEW c \in Glyph \cup Control
    PROVE  cga_putc(s, c) \in Screens
<1>1. CASE c # TAB
  BY <1>1, PutStays DEF cga_putc
<1>2. CASE c = TAB
  <2> DEFINE put(t) == PutPlain(t, Blank)
  <2>1. \A t \in Screens : put(t) \in Screens
    <3>1. Blank \in Glyph \cup Control /\ Blank # TAB
      BY GlyphsPlain DEF Control
    <3> QED BY <3>1, PutStays
  <2>2. put(put(put(put(put(s))))) \in Screens
    <3> HIDE DEF put
    <3> QED BY <2>1
  <2>3. FiveSpaces(s) \in Screens
    BY <2>2 DEF FiveSpaces
  <2>4. Scroll(FiveSpaces(s)) = FiveSpaces(s)
    <3>1. FiveSpaces(s).pos < CRT_SIZE
      BY <2>3, Sizes DEF Screens, Cells
    <3> QED BY <3>1 DEF Scroll
  <2> QED BY <1>2, <2>3, <2>4 DEF cga_putc
<1> QED BY <1>1, <1>2
-----------------------------------------------------------------------------
(***************************************************************************)
(* One character, or one erased, and the text around the cursor.           *)
(***************************************************************************)
\* The n cells before the cursor show the first n characters of t.
EndsWith(s, n, t) ==
    /\ s.pos >= n
    /\ \A k \in 1 .. n : s.buf[s.pos - n + k - 1] = t[k]

\* The cells from the cursor on are blank.
Clear(s) == \A k \in Cells : k >= s.pos => s.buf[k] = Blank

\* A character takes the cursor's cell, and at the end of the screen the rows
\* move up.
LEMMA Shown ==
    ASSUME NEW b \in [Cells -> Glyph], NEW p \in Cells, NEW c \in Glyph
    PROVE  LET up == [b EXCEPT ![p] = c] IN
           /\ p + 1 < CRT_SIZE =>
                cga_putc([buf |-> b, pos |-> p], c) = [buf |-> up, pos |-> p + 1]
           /\ ~(p + 1 < CRT_SIZE) =>
                /\ p = CRT_SIZE - 1
                /\ cga_putc([buf |-> b, pos |-> p], c) =
                     [buf |-> RowsUp(up), pos |-> CRT_SIZE - CRT_COLS]
<1> DEFINE s  == [buf |-> b, pos |-> p]
           up == [b EXCEPT ![p] = c]
<1>1. p \in Nat /\ p < CRT_SIZE
  BY Sizes DEF Cells
<1>2. up \in [Cells -> Glyph]
  OBVIOUS
<1>3. cga_putc(s, c) = Scroll([buf |-> up, pos |-> p + 1])
  <2>1. c \notin Control
    BY GlyphsPlain
  <2>2. cga_putc(s, c) = Scroll(Show(s, c))
    BY <2>1 DEF cga_putc, PutPlain, Control
  <2>3. Show(s, c) = [buf |-> up, pos |-> p + 1]
    BY DEF Show
  <2> QED BY <2>2, <2>3
<1>4. p + 1 < CRT_SIZE => cga_putc(s, c) = [buf |-> up, pos |-> p + 1]
  BY <1>3 DEF Scroll
<1>5. ASSUME ~(p + 1 < CRT_SIZE)
      PROVE  /\ p = CRT_SIZE - 1
             /\ cga_putc(s, c) = [buf |-> RowsUp(up), pos |-> CRT_SIZE - CRT_COLS]
  <2>1. p = CRT_SIZE - 1 /\ p + 1 = CRT_SIZE /\ CRT_SIZE \in CRT_SIZE .. CRT_SIZE + CRT_COLS - 1
    BY <1>1, <1>5, Sizes
  <2>2. Scroll([buf |-> up, pos |-> CRT_SIZE]) = [buf |-> RowsUp(up), pos |-> CRT_SIZE - CRT_COLS]
    <3> HIDE DEF up
    <3> QED BY <1>2, <2>1, ScrollIs
  <2> QED BY <1>3, <2>1, <2>2
<1> QED BY <1>4, <1>5

\* It stands behind the text that was there, as long as that text is shorter
\* than the screen without its last row.
LEMMA OneMore ==
    ASSUME NEW s \in Screens, NEW c \in Glyph, NEW n \in 0 .. CRT_SIZE - CRT_COLS - 1,
           NEW t, EndsWith(s, n, t), t[n + 1] = c
    PROVE  EndsWith(cga_putc(s, c), n + 1, t)
<1>1. PICK b \in [Cells -> Glyph], p \in Cells : s = [buf |-> b, pos |-> p]
  BY DEF Screens
<1> DEFINE up == [b EXCEPT ![p] = c]
<1>2. p \in Nat /\ p < CRT_SIZE /\ n \in Nat
  BY Sizes DEF Cells
<1>3. p >= n /\ \A k \in 1 .. n : b[p - n + k - 1] = t[k]
  BY <1>1 DEF EndsWith
<1>4. \A k \in 1 .. n + 1 : up[p - n + k - 1] = t[k]
  <2> SUFFICES ASSUME NEW k \in 1 .. n + 1 PROVE up[p - n + k - 1] = t[k]
    OBVIOUS
  <2>1. p - n + k - 1 \in Cells
    BY <1>2, <1>3, Sizes DEF Cells
  <2>2. CASE k = n + 1
    <3>1. p - n + k - 1 = p
      BY <1>2, <2>2
    <3> QED BY <2>2, <3>1
  <2>3. CASE k # n + 1
    <3>1. k \in 1 .. n /\ p - n + k - 1 # p
      BY <1>2, <2>3
    <3> QED BY <1>3, <2>1, <3>1
  <2> QED BY <2>2, <2>3
<1> HIDE DEF up
<1>5. CASE p + 1 < CRT_SIZE
  <2>1. cga_putc(s, c) = [buf |-> up, pos |-> p + 1]
    BY <1>1, <1>5, Shown DEF up
  <2>2. \A k \in 1 .. n + 1 : (p + 1) - (n + 1) + k - 1 = p - n + k - 1
    BY <1>2
  <2> QED BY <1>2, <1>3, <1>4, <2>1, <2>2 DEF EndsWith
<1>6. CASE ~(p + 1 < CRT_SIZE)
  <2> DEFINE v == RowsUp(up)
             q == CRT_SIZE - CRT_COLS
  <2>1. p = CRT_SIZE - 1 /\ cga_putc(s, c) = [buf |-> v, pos |-> q]
    BY <1>1, <1>6, Shown DEF up
  <2>2. \A k \in 1 .. n + 1 : v[q - (n + 1) + k - 1] = t[k]
    <3> SUFFICES ASSUME NEW k \in 1 .. n + 1 PROVE v[q - (n + 1) + k - 1] = t[k]
      OBVIOUS
    <3>1. /\ q - (n + 1) + k - 1 \in Cells
          /\ q - (n + 1) + k - 1 < CRT_SIZE - CRT_COLS
          /\ q - (n + 1) + k - 1 + CRT_COLS = p - n + k - 1
      BY <1>2, <2>1, Sizes DEF Cells
    <3>2. v[q - (n + 1) + k - 1] = up[q - (n + 1) + k - 1 + CRT_COLS]
      BY <3>1 DEF RowsUp
    <3> QED BY <1>4, <3>1, <3>2
  <2>3. q >= n + 1
    BY <1>2, Sizes
  <2> HIDE DEF v, q
  <2> QED BY <2>1, <2>2, <2>3 DEF EndsWith
<1> QED BY <1>5, <1>6

LEMMA StaysClear ==
    ASSUME NEW s \in Screens, NEW c \in Glyph, Clear(s)
    PROVE  Clear(cga_putc(s, c))
<1>1. PICK b \in [Cells -> Glyph], p \in Cells : s = [buf |-> b, pos |-> p]
  BY DEF Screens
<1> DEFINE up == [b EXCEPT ![p] = c]
<1>2. CASE p + 1 < CRT_SIZE
  <2>1. cga_putc(s, c) = [buf |-> up, pos |-> p + 1]
    BY <1>1, <1>2, Shown
  <2>2. \A k \in Cells : k >= p + 1 => up[k] = Blank
    <3> SUFFICES ASSUME NEW k \in Cells, k >= p + 1 PROVE up[k] = Blank
      OBVIOUS
    <3>1. k # p /\ k >= p
      BY Sizes DEF Cells
    <3> QED BY <1>1, <3>1 DEF Clear
  <2> HIDE DEF up
  <2> QED BY <2>1, <2>2 DEF Clear
<1>3. CASE ~(p + 1 < CRT_SIZE)
  <2> DEFINE v == RowsUp(up)
             q == CRT_SIZE - CRT_COLS
  <2> HIDE DEF up
  <2>1. cga_putc(s, c) = [buf |-> v, pos |-> q]
    BY <1>1, <1>3, Shown DEF up
  <2>2. \A k \in Cells : k >= q => v[k] = Blank
    <3> SUFFICES ASSUME NEW k \in Cells, k >= q PROVE v[k] = Blank
      OBVIOUS
    <3>1. ~(k < CRT_SIZE - CRT_COLS)
      BY Sizes DEF Cells
    <3> QED BY <3>1 DEF RowsUp
  <2> HIDE DEF v, q
  <2> QED BY <2>1, <2>2 DEF Clear
<1> QED BY <1>2, <1>3

\* An erased character leaves what is before it, and a blank.
LEMMA OneLess ==
    ASSUME NEW s \in Screens, NEW n \in Nat, NEW t, EndsWith(s, n + 1, t)
    PROVE  /\ EndsWith(cga_putc(s, BS), n, t)
           /\ Clear(s) => Clear(cga_putc(s, BS))
<1>1. PICK b \in [Cells -> Glyph], p \in Cells : s = [buf |-> b, pos |-> p]
  BY DEF Screens
<1> DEFINE up == [b EXCEPT ![p - 1] = Blank]
<1>2. p \in Nat /\ p < CRT_SIZE
  BY Sizes DEF Cells
<1>3. p >= n + 1 /\ \A k \in 1 .. n + 1 : b[p - (n + 1) + k - 1] = t[k]
  BY <1>1 DEF EndsWith
<1>4. cga_putc(s, BS) = [buf |-> up, pos |-> p - 1]
  <2>1. p # 0 /\ p - 1 < CRT_SIZE
    BY <1>2, <1>3, Sizes
  <2>2. cga_putc(s, BS) = Scroll(Backspace(s))
    BY DEF cga_putc, PutPlain, BS, NL, CR, TAB
  <2>3. Backspace(s) = [buf |-> up, pos |-> p - 1]
    BY <1>1, <2>1 DEF Backspace
  <2> HIDE DEF up
  <2> QED BY <2>1, <2>2, <2>3 DEF Scroll
<1>5. \A k \in 1 .. n : up[(p - 1) - n + k - 1] = t[k]
  <2> SUFFICES ASSUME NEW k \in 1 .. n PROVE up[(p - 1) - n + k - 1] = t[k]
    OBVIOUS
  <2>1. /\ (p - 1) - n + k - 1 \in Cells /\ (p - 1) - n + k - 1 # p - 1
        /\ (p - 1) - n + k - 1 = p - (n + 1) + k - 1 /\ k \in 1 .. n + 1
    BY <1>2, <1>3, Sizes DEF Cells
  <2> QED BY <1>3, <2>1
<1>6. ASSUME Clear(s) PROVE \A k \in Cells : k >= p - 1 => up[k] = Blank
  <2> SUFFICES ASSUME NEW k \in Cells, k >= p - 1 PROVE up[k] = Blank
    OBVIOUS
  <2>1. k = p - 1 \/ (k # p - 1 /\ k >= p)
    BY <1>2, Sizes DEF Cells
  <2> QED BY <1>1, <1>6, <2>1 DEF Clear
<1>7. p - 1 >= n
  BY <1>2, <1>3
<1> HIDE DEF up
<1> QED BY <1>4, <1>5, <1>6, <1>7 DEF EndsWith, Clear
-----------------------------------------------------------------------------
(***************************************************************************)
(* The prompt: a string is on the screen when its characters were put one  *)
(* after the other.                                                        *)
(***************************************************************************)
LEMMA PutIs ==
    ASSUME NEW s, NEW str \in Seq(Glyph)
    PROVE  \E f : /\ f = [k \in 0 .. Len(str) |->
                            IF k = 0 THEN s ELSE cga_putc(f[k - 1], str[k])]
                  /\ Put(s, str) = f[Len(str)]
<1> DEFINE step(f, n) == [k \in 0 .. n |-> IF k = 0 THEN s ELSE cga_putc(f[k - 1], str[k])]
           Bad == {n \in Nat : ~\E f : f = step(f, n)}
           put == CHOOSE f : f = step(f, Len(str))
<1>1. Bad = {}
  <2> SUFFICES ASSUME Bad # {} PROVE FALSE
    OBVIOUS
  <2>1. PICK n \in Bad : \A y \in Bad : n <= y
    <3>1. Bad \subseteq Nat
      OBVIOUS
    <3> HIDE DEF Bad
    <3> QED BY <3>1, LeastNat
  <2>2. n \in Nat /\ ~\E f : f = step(f, n)
    BY <2>1
  <2>3. CASE n = 0
    <3> DEFINE g == [k \in 0 .. 0 |-> s]
    <3>1. g = step(g, 0)
      OBVIOUS
    <3> HIDE DEF g, step
    <3> QED BY <2>2, <2>3, <3>1
  <2>4. CASE n # 0
    <3>1. n - 1 \in Nat /\ n - 1 \notin Bad
      <4> HIDE DEF Bad
      <4> QED BY <2>1, <2>2, <2>4
    <3>2. PICK f : f = step(f, n - 1)
      BY <3>1
    <3> DEFINE g == [k \in 0 .. n |-> IF k = n THEN cga_putc(f[n - 1], str[n]) ELSE f[k]]
    <3>3. ASSUME NEW k \in 0 .. n
          PROVE  g[k] = IF k = 0 THEN s ELSE cga_putc(g[k - 1], str[k])
      <4>1. CASE k = n
        <5>1. g[k] = cga_putc(f[n - 1], str[n]) /\ g[n - 1] = f[n - 1]
          BY <2>2, <2>4, <3>1, <4>1
        <5> HIDE DEF g
        <5> QED BY <2>4, <4>1, <5>1
      <4>2. CASE k # n
        <5>1. k \in 0 .. n - 1 /\ (k # 0 => k - 1 \in 0 .. n /\ k - 1 # n)
          BY <2>2, <4>2
        <5>2. f[k] = IF k = 0 THEN s ELSE cga_putc(f[k - 1], str[k])
          BY <3>2, <5>1
        <5>3. g[k] = f[k] /\ (k # 0 => g[k - 1] = f[k - 1])
          BY <4>2, <5>1
        <5> HIDE DEF g
        <5> QED BY <5>2, <5>3
      <4> QED BY <4>1, <4>2
    <3>4. g = step(g, n)
      <4>1. g = [k \in 0 .. n |-> g[k]]
        OBVIOUS
      <4> HIDE DEF g
      <4> QED BY <3>3, <4>1
    <3> HIDE DEF g, step
    <3> QED BY <2>2, <3>4
  <2> QED BY <2>3, <2>4
<1>2. Len(str) \in Nat
  OBVIOUS
<1>3. \E f : f = step(f, Len(str))
  <2> HIDE DEF step
  <2> QED BY <1>1, <1>2
<1>4. put = step(put, Len(str))
  <2> HIDE DEF step
  <2> QED BY <1>3
<1>5. Put(s, str) = put[Len(str)]
  BY DEF Put
<1>6. put = [k \in 0 .. Len(str) |-> IF k = 0 THEN s ELSE cga_putc(put[k - 1], str[k])]
  <2> DEFINE p == put
  <2>1. p = step(p, Len(str))
    BY <1>4
  <2> HIDE DEF put
  <2> QED BY <2>1
<1> HIDE DEF put
<1> QED BY <1>5, <1>6

\* By induction over its length: a least k at which it fails would come from
\* k - 1, where it holds.
LEMMA PromptShown ==
    ASSUME NEW s \in Screens
    PROVE  /\ Put(s, Prompt) \in Screens
           /\ EndsWith(Put(s, Prompt), Len(Prompt), Prompt)
<1>1. PICK f : /\ f = [k \in 0 .. Len(Prompt) |->
                         IF k = 0 THEN s ELSE cga_putc(f[k - 1], Prompt[k])]
               /\ Put(s, Prompt) = f[Len(Prompt)]
  BY PromptPlain, PutIs
<1>2. Len(Prompt) \in Nat /\ \A k \in 1 .. Len(Prompt) : Prompt[k] \in Glyph
  BY PromptPlain
<1> DEFINE Good(k) == f[k] \in Screens /\ EndsWith(f[k], k, Prompt)
           Bad == {k \in 0 .. Len(Prompt) : ~Good(k)}
<1>3. f[0] = s /\ \A k \in 1 .. Len(Prompt) : f[k] = cga_putc(f[k - 1], Prompt[k])
  <2>1. 0 \in 0 .. Len(Prompt) /\ \A k \in 1 .. Len(Prompt) : k \in 0 .. Len(Prompt) /\ k # 0
    BY <1>2
  <2> QED BY <1>1, <2>1
<1>4. Good(0)
  <2>1. s.pos >= 0 /\ \A k \in 1 .. 0 : FALSE
    BY Sizes DEF Screens, Cells
  <2> QED BY <1>3, <2>1 DEF EndsWith
<1>5. ASSUME NEW k \in 1 .. Len(Prompt), Good(k - 1)
      PROVE  Good(k)
  <2>1. k - 1 \in 0 .. CRT_SIZE - CRT_COLS - 1 /\ (k - 1) + 1 = k
    BY <1>2, LineFitsOnScreen, BuflenOK, Sizes
  <2>2. Prompt[k] \in Glyph
    BY <1>2
  <2>3. cga_putc(f[k - 1], Prompt[k]) \in Screens
    BY <1>5, <2>2, ScreenStays
  <2>4. EndsWith(cga_putc(f[k - 1], Prompt[k]), k, Prompt)
    <3>1. \A n \in 0 .. CRT_SIZE - CRT_COLS - 1 :
            EndsWith(f[k - 1], n, Prompt) /\ Prompt[n + 1] = Prompt[k]
              => EndsWith(cga_putc(f[k - 1], Prompt[k]), n + 1, Prompt)
      BY <1>5, <2>2, OneMore
    <3> QED BY <1>5, <2>1, <3>1
  <2> QED BY <1>3, <2>3, <2>4
<1>6. Bad = {}
  <2> SUFFICES ASSUME Bad # {} PROVE FALSE
    OBVIOUS
  <2> HIDE DEF Good
  <2>1. PICK k \in Bad : \A y \in Bad : k <= y
    <3>1. Bad \subseteq Nat
      OBVIOUS
    <3> HIDE DEF Bad
    <3> QED BY <3>1, LeastNat
  <2>2. k \in 0 .. Len(Prompt) /\ ~Good(k) /\ k # 0
    BY <1>4, <2>1
  <2>3. k - 1 \in 0 .. Len(Prompt) /\ k \in 1 .. Len(Prompt)
    BY <1>2, <2>2
  <2>4. Good(k - 1)
    BY <1>2, <2>1, <2>3
  <2> QED BY <1>5, <2>2, <2>3, <2>4
<1>7. Good(Len(Prompt))
  <2> HIDE DEF Good
  <2> QED BY <1>2, <1>6
<1> QED BY <1>1, <1>7
-----------------------------------------------------------------------------
(***************************************************************************)
(* The steps of the editor.                                                *)
(***************************************************************************)
\* What has to stand before the cursor: the prompt, then the buffer.
Text == [k \in 1 .. Len(Prompt) + BUFLEN |->
            IF k <= Len(Prompt) THEN Prompt[k] ELSE line[k - Len(Prompt) - 1]]

IInv == TypeOK /\ (reading => EndsWith(screen, Len(Prompt) + i, Text))

LEMMA Lengths ==
    /\ Len(Prompt) \in Nat /\ BUFLEN \in Nat /\ BUFLEN > 1
    /\ Len(Prompt) + BUFLEN - 1 <= CRT_SIZE - CRT_COLS
    /\ TypeOK => i \in Nat /\ i <= BUFLEN - 1
BY PromptPlain, BuflenOK, LineFitsOnScreen DEF TypeOK

LEMMA EndsAlike ==
    ASSUME NEW s, NEW n, NEW t, NEW u, EndsWith(s, n, t), \A k \in 1 .. n : u[k] = t[k]
    PROVE  EndsWith(s, n, u)
BY DEF EndsWith

LEMMA Begins ==
    ASSUME IInv, readline
    PROVE  IInv'
<1>1. /\ screen' = Put(screen, Prompt) /\ i' = 0 /\ reading' = TRUE /\ line' = line
      /\ TypeOK
  BY DEF readline, IInv
<1>2. screen' \in Screens /\ EndsWith(screen', Len(Prompt), Prompt)
  BY <1>1, PromptShown DEF TypeOK
<1>3. TypeOK'
  BY <1>1, <1>2, Lengths DEF TypeOK
<1>4. \A k \in 1 .. Len(Prompt) : Text'[k] = Prompt[k]
  <2> SUFFICES ASSUME NEW k \in 1 .. Len(Prompt) PROVE Text'[k] = Prompt[k]
    OBVIOUS
  <2>1. k \in 1 .. Len(Prompt) + BUFLEN /\ k <= Len(Prompt)
    BY Lengths
  <2> QED BY <2>1 DEF Text
<1>5. EndsWith(screen', Len(Prompt), Text')
  BY <1>2, <1>4, EndsAlike
<1>6. Len(Prompt) + i' = Len(Prompt)
  BY <1>1, Lengths
<1> QED BY <1>3, <1>5, <1>6 DEF IInv, EndsWith

LEMMA Erases ==
    ASSUME IInv, NEW c, Erase(c)
    PROVE  IInv' /\ (Clear(screen) => Clear(screen'))
<1>1. /\ reading /\ i > 0 /\ screen' = cga_putc(screen, BS) /\ i' = i - 1
      /\ line' = line /\ reading' = reading /\ TypeOK
      /\ EndsWith(screen, Len(Prompt) + i, Text)
  BY DEF Erase, IInv
<1>2. screen \in Screens /\ i \in Nat /\ i <= BUFLEN - 1
  BY <1>1, Lengths DEF TypeOK
<1>3. PICK n \in Nat : n + 1 = Len(Prompt) + i /\ n = Len(Prompt) + (i - 1)
  <2>1. Len(Prompt) + i - 1 \in Nat
    BY <1>1, <1>2, Lengths
  <2> QED BY <2>1, <1>2, Lengths
<1>4. EndsWith(screen', n, Text) /\ (Clear(screen) => Clear(screen'))
  BY <1>1, <1>2, <1>3, OneLess
<1>5. Text' = Text
  BY <1>1 DEF Text
<1>6. EndsWith(screen', Len(Prompt) + i', Text')
  BY <1>1, <1>3, <1>4, <1>5
<1>7. TypeOK'
  <2>1. screen' \in Screens
    <3>1. BS \in Glyph \cup Control
      BY DEF Control
    <3> QED BY <1>1, <1>2, <3>1, ScreenStays
  <2> QED BY <1>1, <1>2, <2>1, Lengths DEF TypeOK
<1> QED BY <1>4, <1>6, <1>7 DEF IInv, EndsWith

LEMMA Inserts ==
    ASSUME IInv, NEW c, Insert(c)
    PROVE  IInv' /\ (Clear(screen) => Clear(screen'))
<1>1. /\ reading /\ c \in Glyph /\ i < BUFLEN - 1 /\ screen' = cga_putc(screen, c)
      /\ line' = [line EXCEPT ![i] = c] /\ i' = i + 1 /\ reading' = reading /\ TypeOK
      /\ EndsWith(screen, Len(Prompt) + i, Text)
  BY DEF Insert, IInv
<1>2. screen \in Screens /\ i \in Nat /\ i \in 0 .. BUFLEN - 1 /\ DOMAIN line = 0 .. BUFLEN - 1
  BY <1>1, Lengths DEF TypeOK
<1>3. PICK n \in 0 .. CRT_SIZE - CRT_COLS - 1 : n = Len(Prompt) + i
  BY <1>1, <1>2, Lengths, Sizes
<1>4. \A k \in 1 .. n : Text'[k] = Text[k]
  <2> SUFFICES ASSUME NEW k \in 1 .. n PROVE Text'[k] = Text[k]
    OBVIOUS
  <2>1. k \in 1 .. Len(Prompt) + BUFLEN
    BY <1>2, <1>3, Lengths
  <2>2. ~(k <= Len(Prompt)) => /\ k - Len(Prompt) - 1 \in 0 .. BUFLEN - 1
                               /\ k - Len(Prompt) - 1 # i
    BY <1>2, <1>3, Lengths
  <2>3. ~(k <= Len(Prompt)) => line'[k - Len(Prompt) - 1] = line[k - Len(Prompt) - 1]
    BY <1>1, <1>2, <2>2
  <2> QED BY <2>1, <2>3 DEF Text
<1>5. Text'[n + 1] = c
  <2>1. /\ n + 1 \in 1 .. Len(Prompt) + BUFLEN /\ ~(n + 1 <= Len(Prompt))
        /\ (n + 1) - Len(Prompt) - 1 = i
    BY <1>1, <1>2, <1>3, Lengths
  <2>2. line'[i] = c
    BY <1>1, <1>2
  <2> QED BY <2>1, <2>2 DEF Text
<1>6. EndsWith(screen', n + 1, Text')
  <2>1. EndsWith(screen, n, Text')
    BY <1>1, <1>3, <1>4, EndsAlike
  <2> QED BY <1>1, <1>2, <1>5, <2>1, OneMore
<1>7. Len(Prompt) + i' = n + 1
  BY <1>1, <1>2, <1>3, Lengths
<1>8. TypeOK'
  <2>1. screen' \in Screens
    BY <1>1, <1>2, ScreenStays
  <2>2. DOMAIN line' = 0 .. BUFLEN - 1
        /\ \A k \in DOMAIN line' : line'[k] \in Glyph \cup {NUL}
    BY <1>1, <1>2 DEF TypeOK
  <2>3. i' \in 0 .. BUFLEN - 1
    BY <1>1, <1>2, Lengths
  <2> QED BY <1>1, <2>1, <2>2, <2>3 DEF TypeOK
<1>9. Clear(screen) => Clear(screen')
  BY <1>1, <1>2, StaysClear
<1> QED BY <1>6, <1>7, <1>8, <1>9 DEF IInv, EndsWith

LEMMA NextInv ==
    ASSUME IInv, [Next]_vars
    PROVE  /\ IInv'
           /\ Next /\ reading /\ reading' => (Clear(screen) => Clear(screen'))
<1>1. ASSUME NEW c \in Glyph \cup Control, cprintf(c)
      PROVE  IInv' /\ ~reading
  <2>1. screen' \in Screens
    BY <1>1, ScreenStays DEF cprintf, IInv, TypeOK
  <2> QED BY <1>1, <2>1 DEF cprintf, IInv, TypeOK
<1>2. CASE readline
  BY <1>2, Begins DEF readline
<1>3. ASSUME NEW c \in Key, Typed(c)
      PROVE  IInv' /\ (reading' => (Clear(screen) => Clear(screen')))
  <2>1. CASE Erase(c)
    BY <2>1, Erases
  <2>2. CASE Insert(c)
    BY <2>2, Inserts
  <2>3. CASE Enter(c)
    <3>1. /\ screen' = cga_putc(screen, NL) /\ line' = [line EXCEPT ![i] = NUL]
          /\ reading' = FALSE /\ i' = i /\ TypeOK
      BY <2>3 DEF Enter, IInv
    <3>2. screen' \in Screens
      <4>1. NL \in Glyph \cup Control
        BY DEF Control
      <4> QED BY <3>1, <4>1, ScreenStays DEF TypeOK
    <3>3. DOMAIN line' = 0 .. BUFLEN - 1
          /\ \A k \in DOMAIN line' : line'[k] \in Glyph \cup {NUL}
      BY <3>1 DEF TypeOK
    <3> QED BY <3>1, <3>2, <3>3 DEF TypeOK, IInv
  <2> QED BY <1>3, <2>1, <2>2, <2>3 DEF Typed
<1>4. CASE UNCHANGED vars
  <2>1. screen' = screen /\ line' = line /\ i' = i /\ reading' = reading
    BY <1>4 DEF vars
  <2> QED BY <2>1 DEF IInv, TypeOK, EndsWith, Text
<1> QED BY <1>1, <1>2, <1>3, <1>4 DEF Next

(***************************************************************************)
(* readline keeps the prompt and the line in its buffer before the cursor. *)
(***************************************************************************)
THEOREM EditorInvariance == Spec => []IInv
<1>1. Init => IInv
  <2> SUFFICES ASSUME Init PROVE IInv
    OBVIOUS
  <2>1. PICK p \in Cells : screen = [buf |-> [k \in Cells |-> Blank], pos |-> p]
    BY DEF Init
  <2>2. screen \in Screens
    BY <2>1, GlyphsPlain DEF Screens
  <2>3. 0 \in 0 .. BUFLEN - 1
    BY Lengths
  <2> QED BY <2>2, <2>3 DEF Init, IInv, TypeOK
<1>2. IInv /\ [Next]_vars => IInv'
  BY NextInv
<1> QED BY <1>1, <1>2, PTL DEF Spec

(***************************************************************************)
(* The screen shows the line that readline will return.                    *)
(***************************************************************************)
THEOREM LineShown == Spec => []ScreenShowsLine
<1>1. IInv => ScreenShowsLine
  <2> SUFFICES ASSUME IInv PROVE ScreenShowsLine
    OBVIOUS
  <2> SUFFICES ASSUME reading
               PROVE  /\ screen.pos >= Len(Prompt) + i
                      /\ \A k \in 0 .. i - 1 : screen.buf[screen.pos - i + k] = line[k]
                      /\ \A k \in 1 .. Len(Prompt) :
                            screen.buf[screen.pos - i - Len(Prompt) + k - 1] = Prompt[k]
    BY DEF IInv, ScreenShowsLine
  <2> DEFINE n == Len(Prompt) + i
  <2>1. /\ screen.pos >= n
        /\ \A k \in 1 .. n : screen.buf[screen.pos - n + k - 1] = Text[k]
    BY DEF IInv, EndsWith
  <2>2. i \in Nat /\ i <= BUFLEN - 1 /\ screen.pos \in Int /\ Len(Prompt) \in Nat /\ BUFLEN \in Nat
    BY Lengths DEF IInv, TypeOK, Screens, Cells
  <2>3. ASSUME NEW k \in 0 .. i - 1
        PROVE  screen.buf[screen.pos - i + k] = line[k]
    <3>1. PICK j \in 1 .. n : j = Len(Prompt) + k + 1
      BY <2>2
    <3>2. /\ screen.pos - n + j - 1 = screen.pos - i + k
          /\ j \in 1 .. Len(Prompt) + BUFLEN /\ ~(j <= Len(Prompt)) /\ j - Len(Prompt) - 1 = k
      BY <2>2, <3>1
    <3>3. Text[j] = line[k]
      BY <3>2 DEF Text
    <3> QED BY <2>1, <3>2, <3>3
  <2>4. ASSUME NEW k \in 1 .. Len(Prompt)
        PROVE  screen.buf[screen.pos - i - Len(Prompt) + k - 1] = Prompt[k]
    <3>1. /\ screen.pos - n + k - 1 = screen.pos - i - Len(Prompt) + k - 1
          /\ k \in 1 .. n /\ k \in 1 .. Len(Prompt) + BUFLEN /\ k <= Len(Prompt)
      BY <2>2
    <3>2. Text[k] = Prompt[k]
      BY <3>1 DEF Text
    <3> QED BY <2>1, <3>1, <3>2
  <2> QED BY <2>1, <2>3, <2>4
<1> QED BY <1>1, EditorInvariance, PTL

(***************************************************************************)
(* Nothing that was erased with backspace stays visible.                   *)
(***************************************************************************)
THEOREM NothingErasedStays == Spec => ErasedIsBlank
<1> DEFINE tail(s) == {k \in Cells : k >= s.pos}
           Blanked == (\A k \in tail(screen) : screen.buf[k] = Blank)
                         => \A k \in tail(screen') : screen'.buf[k] = Blank
<1>1. IInv /\ [Next]_vars => [reading /\ reading' => Blanked]_vars
  <2> SUFFICES ASSUME IInv, Next, reading, reading' PROVE Blanked
    OBVIOUS
  <2>1. Clear(screen) => Clear(screen')
    BY NextInv
  <2> QED BY <2>1 DEF Clear
<1> QED BY <1>1, EditorInvariance, PTL DEF Spec, ErasedIsBlank
===============================================================================
