---------------------------- MODULE ConsOutputProofs ----------------------------
(***************************************************************************)
(* The console's drivers keep their promises, for a screen of any size,    *)
(* any text, any number of polls and any devices.  The invariant says, at  *)
(* each point of a call and of a call within it, how much has been written *)
(* to each port and to the screen, and what the polling loop knows.        *)
(***************************************************************************)
EXTENDS ConsOutput, TLAPS, SequenceTheorems

Bytes  == Glyph \cup Control
Places == {"serial_wait", "serial_write", "lpt_wait", "lpt_write", "cga", "cursor"}
Frames == [c : Bytes, at : Places, spaces : 0 .. 5]

\* Only a tab at the screen has put some of its spaces, and all at the cursor.
FrameOK(f) ==
    /\ (f.c # TAB \/ f.at \notin {"cga", "cursor"}) => f.spaces = 5
    /\ f.c = TAB /\ f.at = "cursor" => f.spaces = 0

CallOK ==
    /\ call \in Seq(Frames) /\ Len(call) <= 2
    /\ call # <<>> => FrameOK(Top) /\ setup = "done"
    /\ Len(call) = 2 => /\ call[1].c = TAB /\ call[1].at = "cga" /\ call[1].spaces \in 0 .. 4
                        /\ Top.c = Blank

\* The bytes that the frame has written to a port, the character's own.
Wrote(f, d) ==
    IF f.at \in {"cga", "cursor"} \/ (d = "serial" /\ f.at \in {"lpt_wait", "lpt_write"})
    THEN 1 ELSE 0

\* The bytes that the calls have written to a port.
Progress(d) ==
    (IF Len(call) = 2 THEN 5 - call[1].spaces ELSE 0) + Wrote(Top, d) + (5 - Top.spaces)

LinesInv ==
    /\ sent \in [Ports -> Seq(Bytes)]
    /\ call = <<>> => \A d \in Ports : sent[d] = due
    /\ call # <<>> =>
          /\ due = OnLine(call[1].c)
          /\ \A d \in Ports :
                /\ Len(sent[d]) = Progress(d)
                /\ \A j \in 1 .. Len(sent[d]) : sent[d][j] = due[j]

\* All looks in this wait found the device busy; a write follows one that did
\* not, or as many as there may be.
WaitInv ==
    /\ present \subseteq Ports /\ busy \subseteq present
    /\ i \in 0 .. Polls /\ waited \in 0 .. Polls + 1 /\ ~hasty
    /\ At("serial_wait") \/ At("lpt_wait") => waited = i
    /\ At("serial_write") => "serial" \notin busy \/ waited = Polls + 1
    /\ At("lpt_write") => "lpt" \notin busy \/ waited = Polls + 1
    /\ At("cga") \/ At("cursor") => waited = 0

-----------------------------------------------------------------------------
WellFormed(s) ==
    s = [buf |-> s.buf, pos |-> s.pos] /\ DOMAIN s.buf = Cells /\ s.pos \in Cells

\* A screen after some of the five spaces of a tab.
Blanks(n, s) ==
    LET put(t) == PutPlain(t, Blank) IN
    CASE n = 0 -> s
      [] n = 1 -> put(s)
      [] n = 2 -> put(put(s))
      [] n = 3 -> put(put(put(s)))
      [] n = 4 -> put(put(put(put(s))))
      [] n = 5 -> put(put(put(put(put(s)))))

SpacesPut == IF Len(call) = 2 THEN 4 - call[1].spaces ELSE 5 - Top.spaces

\* What the probe has done to the text the BIOS left.
SetupInv ==
    /\ adapter \in {"CGA", "MONO"}
    /\ setup \in {"probe", "choose", "serial_init", "done"}
    /\ before \in Screens /\ cursor = before.pos
    /\ setup = "probe"  => screen.buf = before.buf
    /\ setup = "choose" => IF adapter = "CGA"
                           THEN /\ screen.buf = [before.buf EXCEPT ![0] = Mark]
                                /\ was = before.buf[0]
                           ELSE screen.buf = before.buf
    /\ setup = "serial_init" => screen = before

ScreenInv ==
    /\ WellFormed(screen) /\ cursor \in Cells
    /\ setup # "done" => SetupInv
    /\ setup \in {"serial_init", "done"} => addr_6845 = adapter
    /\ setup = "done" /\ call = <<>> => screen.pos = cursor
    /\ call # <<>> =>
          screen = IF Top.at # "cursor" THEN Blanks(SpacesPut, before)
                   ELSE IF Top.c = TAB THEN cga_putc(before, TAB)
                   ELSE PutPlain(Blanks(SpacesPut, before), Top.c)

Setup == /\ adapter \in {"CGA", "MONO"}
         /\ setup \in {"probe", "choose", "serial_init", "done"}
         /\ todo \in Seq(Glyph)

IInv == Setup /\ CallOK /\ LinesInv /\ WaitInv /\ ScreenInv

-----------------------------------------------------------------------------
(***************************************************************************)
(* The screen keeps its size, and its position stays on it.                *)
(***************************************************************************)
LEMMA Sizes ==
    /\ CRT_COLS \in Nat /\ CRT_COLS > 1
    /\ CRT_SIZE \in Nat /\ CRT_SIZE >= CRT_COLS
    /\ 0 \in Cells
<1>1. CRT_ROWS \in Nat /\ CRT_ROWS > 1 /\ CRT_COLS \in Nat /\ CRT_COLS > 1
  BY ScreenSize
<1>2. CRT_ROWS * CRT_COLS \in Nat /\ CRT_ROWS * CRT_COLS >= CRT_COLS
  <2>1. CRT_ROWS - 1 \in Nat /\ CRT_COLS \in Nat
    BY <1>1
  <2>2. (CRT_ROWS - 1) * CRT_COLS \in Nat
    BY <2>1
  <2>3. CRT_ROWS * CRT_COLS = (CRT_ROWS - 1) * CRT_COLS + CRT_COLS
    BY <1>1
  <2> QED BY <1>1, <2>2, <2>3
<1> QED BY <1>1, <1>2 DEF CRT_SIZE, Cells

LEMMA RowStarts ==
    ASSUME NEW pos \in Nat
    PROVE  RowStart(pos) \in 0 .. pos
<1>1. CRT_COLS \in Nat /\ CRT_COLS > 1
  BY Sizes
<1>2. pos % CRT_COLS \in 0 .. CRT_COLS - 1
  BY <1>1
<1>3. pos < CRT_COLS => pos % CRT_COLS = pos
  BY <1>1
<1> QED BY <1>1, <1>2, <1>3 DEF RowStart

LEMMA ScrollKeeps ==
    ASSUME NEW b, NEW p \in 0 .. CRT_SIZE + CRT_COLS - 1, DOMAIN b = Cells
    PROVE  WellFormed(Scroll([buf |-> b, pos |-> p]))
<1> DEFINE s == [buf |-> b, pos |-> p]
           moved == memmove(b, 0, CRT_COLS, CRT_SIZE - CRT_COLS)
           up == [k \in Cells |-> IF k < CRT_SIZE - CRT_COLS THEN moved[k] ELSE Blank]
<1>1. s.buf = b /\ s.pos = p
  OBVIOUS
<1>2. CASE p < CRT_SIZE
  <2>1. Scroll(s) = s
    BY <1>1, <1>2 DEF Scroll
  <2>2. p \in Cells
    BY <1>2, Sizes DEF Cells
  <2> QED BY <1>1, <2>1, <2>2 DEF WellFormed
<1>3. CASE ~(p < CRT_SIZE)
  <2>1. Scroll(s) = [buf |-> up, pos |-> p - CRT_COLS]
    BY <1>1, <1>3 DEF Scroll
  <2>2. p - CRT_COLS \in Cells
    BY <1>3, Sizes DEF Cells
  <2>3. DOMAIN up = Cells
    OBVIOUS
  <2> HIDE DEF up
  <2> QED BY <2>1, <2>2, <2>3 DEF WellFormed
<1> QED BY <1>2, <1>3

LEMMA PutKeeps ==
    ASSUME NEW s, WellFormed(s), NEW c
    PROVE  WellFormed(PutPlain(s, c))
<1>1. PICK b, p : s = [buf |-> b, pos |-> p] /\ DOMAIN b = Cells /\ p \in Cells
  BY DEF WellFormed
<1>2. p \in Nat /\ p < CRT_SIZE
  BY <1>1, Sizes DEF Cells
<1>3. CASE c = BS
  <2>1. PutPlain(s, c) = Scroll(Backspace(s))
    BY <1>3 DEF PutPlain, BS, NL, CR
  <2>2. CASE p = 0
    BY <1>1, <1>2, <2>1, <2>2, Sizes, ScrollKeeps DEF Backspace
  <2>3. CASE p # 0
    <3>1. Backspace(s) = [buf |-> [b EXCEPT ![p - 1] = Blank], pos |-> p - 1]
      BY <1>1, <2>3 DEF Backspace
    <3>2. DOMAIN [b EXCEPT ![p - 1] = Blank] = Cells /\ p - 1 \in 0 .. CRT_SIZE + CRT_COLS - 1
      BY <1>1, <1>2, <2>3, Sizes
    <3> QED BY <2>1, <3>1, <3>2, ScrollKeeps
  <2> QED BY <2>2, <2>3
<1>4. CASE c = NL
  <2>1. PutPlain(s, c) = Scroll(Newline(s))
    BY <1>4 DEF PutPlain, BS, NL, CR
  <2>2. Newline(s) = [buf |-> b, pos |-> RowStart(p + CRT_COLS)]
    BY <1>1 DEF Newline
  <2>3. RowStart(p + CRT_COLS) \in 0 .. CRT_SIZE + CRT_COLS - 1
    <3>1. p + CRT_COLS \in Nat
      BY <1>2, Sizes
    <3>2. RowStart(p + CRT_COLS) \in 0 .. p + CRT_COLS
      BY <3>1, RowStarts
    <3> QED BY <1>2, <3>2, Sizes
  <2> QED BY <1>1, <2>1, <2>2, <2>3, ScrollKeeps
<1>5. CASE c = CR
  <2>1. PutPlain(s, c) = Scroll(Return(s))
    BY <1>5 DEF PutPlain, BS, NL, CR
  <2>2. Return(s) = [buf |-> b, pos |-> RowStart(p)]
    BY <1>1 DEF Return
  <2>3. RowStart(p) \in 0 .. CRT_SIZE + CRT_COLS - 1
    <3>1. RowStart(p) \in 0 .. p
      BY <1>2, RowStarts
    <3> QED BY <1>2, <3>1, Sizes
  <2> QED BY <1>1, <2>1, <2>2, <2>3, ScrollKeeps
<1>6. CASE c \notin {BS, NL, CR}
  <2>1. PutPlain(s, c) = Scroll(Show(s, c))
    BY <1>6 DEF PutPlain
  <2>2. Show(s, c) = [buf |-> [b EXCEPT ![p] = c], pos |-> p + 1]
    BY <1>1 DEF Show
  <2>3. DOMAIN [b EXCEPT ![p] = c] = Cells /\ p + 1 \in 0 .. CRT_SIZE + CRT_COLS - 1
    BY <1>1, <1>2, Sizes
  <2> QED BY <2>1, <2>2, <2>3, ScrollKeeps
<1> QED BY <1>3, <1>4, <1>5, <1>6

LEMMA ScrolledAlready ==
    ASSUME NEW s, WellFormed(s)
    PROVE  Scroll(s) = s
BY Sizes DEF WellFormed, Cells, Scroll

LEMMA BlanksAre ==
    ASSUME NEW s
    PROVE  /\ \A n \in 0 .. 4 : PutPlain(Blanks(n, s), Blank) = Blanks(n + 1, s)
           /\ Blanks(0, s) = s
           /\ Scroll(Blanks(5, s)) = cga_putc(s, TAB)
<1> DEFINE put(t) == PutPlain(t, Blank)
<1>1. /\ Blanks(0, s) = s
      /\ Blanks(1, s) = put(Blanks(0, s))
      /\ Blanks(2, s) = put(Blanks(1, s))
      /\ Blanks(3, s) = put(Blanks(2, s))
      /\ Blanks(4, s) = put(Blanks(3, s))
      /\ Blanks(5, s) = put(Blanks(4, s))
      /\ Blanks(5, s) = FiveSpaces(s)
  BY DEF Blanks, FiveSpaces
<1>2. \A n \in 0 .. 4 : n = 0 \/ n = 1 \/ n = 2 \/ n = 3 \/ n = 4
  OBVIOUS
<1>3. \A n \in 0 .. 4 : put(Blanks(n, s)) = Blanks(n + 1, s)
  BY <1>1, <1>2
<1> QED BY <1>1, <1>3 DEF cga_putc

-----------------------------------------------------------------------------
(***************************************************************************)
(* The stack of calls.                                                     *)
(***************************************************************************)
LEMMA StackIs ==
    ASSUME call \in Seq(Frames), Len(call) <= 2, call # <<>>
    PROVE  /\ Len(call) \in 1 .. 2 /\ Top \in Frames /\ Top = call[Len(call)]
           /\ Len(call) = 1 => call = <<Top>> /\ call[1] = Top
           /\ Len(call) = 2 => call[1] \in Frames
<1>1. Len(call) \in 1 .. 2
  <2>1. Len(call) \in Nat \ {0}
    BY EmptySeq, Zenon
  <2>2. \A n \in Nat \ {0} : n <= 2 => n \in 1 .. 2
    OBVIOUS
  <2> QED BY <2>1, <2>2, Zenon
<1>2. Top = call[Len(call)] /\ Top \in Frames
  BY <1>1, ElementOfSeq DEF Top, Last
<1>3. ASSUME Len(call) = 1 PROVE call = <<Top>>
  <2>1. <<Top>> \in Seq(Frames) /\ Len(<<Top>>) = 1 /\ <<Top>>[1] = Top
    BY <1>2
  <2> QED BY <1>2, <1>3, <2>1, SeqEqual
<1>4. Len(call) = 2 => call[1] \in Frames
  BY ElementOfSeq
<1> QED BY <1>1, <1>2, <1>3, <1>4

LEMMA Moved ==
    ASSUME call \in Seq(Frames), Len(call) <= 2, call # <<>>,
           NEW f \in Frames, call' = [call EXCEPT ![Len(call)] = f]
    PROVE  /\ call' \in Seq(Frames) /\ Len(call') = Len(call) /\ call' # <<>>
           /\ Top' = f
           /\ Len(call) = 2 => call'[1] = call[1]
           /\ Len(call) = 1 => call'[1] = f
<1>1. Len(call) \in 1 .. 2
  BY StackIs
<1>2. /\ call' \in Seq(Frames) /\ Len(call') = Len(call)
      /\ \A j \in 1 .. Len(call) : call'[j] = IF j = Len(call) THEN f ELSE call[j]
  BY <1>1, ExceptSeq
<1>3. call' # <<>>
  BY <1>1, <1>2
<1>4. Top' = f
  <2>1. Top' = call'[Len(call')]
    BY DEF Top, Last
  <2> QED BY <1>1, <1>2, <2>1
<1>5. /\ Len(call) = 2 => call'[1] = call[1]
      /\ Len(call) = 1 => call'[1] = f
  BY <1>1, <1>2
<1> QED BY <1>2, <1>3, <1>4, <1>5

\* GoTo changes the place of the inner call only.
LEMMA Went ==
    ASSUME call \in Seq(Frames), Len(call) <= 2, call # <<>>,
           NEW place \in Places, GoTo(place)
    PROVE  /\ call' \in Seq(Frames) /\ Len(call') = Len(call) /\ call' # <<>>
           /\ Top' = [Top EXCEPT !.at = place]
           /\ Len(call) = 2 => call'[1] = call[1]
           /\ call'[1].c = call[1].c
<1>1. PICK f : f = [Top EXCEPT !.at = place]
  OBVIOUS
<1>2. Top \in Frames /\ Len(call) \in 1 .. 2 /\ Top = call[Len(call)]
      /\ (Len(call) = 1 => call[1] = Top)
  BY StackIs
<1>3. f \in Frames /\ f.c = Top.c
  BY <1>1, <1>2 DEF Frames
<1>4. call' = [call EXCEPT ![Len(call)] = f]
  BY <1>1, <1>2 DEF GoTo
<1>5. /\ call' \in Seq(Frames) /\ Len(call') = Len(call) /\ call' # <<>>
      /\ Top' = f
      /\ Len(call) = 2 => call'[1] = call[1]
      /\ Len(call) = 1 => call'[1] = f
  BY <1>3, <1>4, Moved
<1>6. call'[1].c = call[1].c
  BY <1>2, <1>3, <1>5
<1> QED BY <1>1, <1>5, <1>6

LEMMA Returned ==
    ASSUME call \in Seq(Frames), Len(call) <= 2, call # <<>>, call' = Front(call)
    PROVE  /\ Len(call) = 1 => call' = <<>>
           /\ Len(call) = 2 => call' = <<call[1]>> /\ call'[1] = call[1] /\ Top' = call[1]
                               /\ Len(call') = 1 /\ call' # <<>>
<1>1. Len(call) \in 1 .. 2 /\ (Len(call) = 2 => call[1] \in Frames)
  BY StackIs
<1>2. CASE Len(call) = 1
  BY <1>2, SubSeqEmpty DEF Front
<1>3. CASE Len(call) = 2
  <2>1. call' = SubSeq(call, 1, 1)
    BY <1>3 DEF Front
  <2>2. \A j \in 1 .. 1 : call[j] \in Frames
    BY <1>1, <1>3
  <2>3. call' \in Seq(Frames) /\ Len(call') = 1 /\ call'[1] = call[1]
    <3>1. /\ SubSeq(call, 1, 1) \in Seq(Frames)
          /\ Len(SubSeq(call, 1, 1)) = IF 1 <= 1 THEN 1 - 1 + 1 ELSE 0
          /\ \A j \in 1 .. 1 - 1 + 1 : SubSeq(call, 1, 1)[j] = call[1 + j - 1]
      BY <2>2, SubSeqProperties
    <3>2. 1 - 1 + 1 = 1 /\ 1 + 1 - 1 = 1
      OBVIOUS
    <3>3. SubSeq(call, 1, 1)[1] = call[1]
      BY <3>1, <3>2
    <3> QED BY <2>1, <3>1, <3>2, <3>3
  <2>4. call' = <<call[1]>>
    <3>1. <<call[1]>> \in Seq(Frames) /\ Len(<<call[1]>>) = 1 /\ <<call[1]>>[1] = call[1]
      BY <1>1, <1>3
    <3> QED BY <2>3, <3>1, SeqEqual
  <2>5. Top' = call[1]
    BY <2>3 DEF Top, Last
  <2> QED BY <1>3, <2>3, <2>4, <2>5
<1> QED BY <1>1, <1>2, <1>3

LEMMA Appended ==
    ASSUME NEW S, NEW h \in Seq(S), NEW g \in S
    PROVE  /\ Append(h, g) \in Seq(S)
           /\ Len(h) \in Nat /\ Len(Append(h, g)) = Len(h) + 1
           /\ \A j \in 1 .. Len(h) : Append(h, g)[j] = h[j]
           /\ Append(h, g)[Len(h) + 1] = g
BY AppendProperties, LenProperties

LEMMA Pushed ==
    ASSUME call \in Seq(Frames), Len(call) = 1, NEW f \in Frames, NEW g \in Frames,
           call' = Append([call EXCEPT ![1] = f], g)
    PROVE  /\ call' \in Seq(Frames) /\ Len(call') = 2 /\ call' # <<>>
           /\ call'[1] = f /\ call'[2] = g
<1>1. 1 \in 1 .. Len(call)
  OBVIOUS
<1>2. /\ [call EXCEPT ![1] = f] \in Seq(Frames)
      /\ Len([call EXCEPT ![1] = f]) = Len(call)
      /\ \A j \in 1 .. Len(call) : [call EXCEPT ![1] = f][j] = IF j = 1 THEN f ELSE call[j]
  BY <1>1, ExceptSeq
<1>3. PICK h \in Seq(Frames) : h = [call EXCEPT ![1] = f] /\ Len(h) = 1 /\ h[1] = f
  BY <1>1, <1>2
<1>4. /\ Append(h, g) \in Seq(Frames)
      /\ Len(Append(h, g)) = Len(h) + 1
      /\ \A j \in 1 .. Len(h) : Append(h, g)[j] = h[j]
      /\ Append(h, g)[Len(h) + 1] = g
  BY Appended
<1>5. Len(h) + 1 = 2 /\ 1 \in 1 .. Len(h)
  <2>1. Len(h) = 1
    BY <1>3, Zenon
  <2>2. 1 + 1 = 2 /\ 1 \in 1 .. 1
    OBVIOUS
  <2> QED BY <2>1, <2>2, Zenon
<1>6. call' \in Seq(Frames) /\ Len(call') = 2 /\ call'[1] = f /\ call'[2] = g
  BY <1>3, <1>4, <1>5
<1>7. call' # <<>>
  BY <1>6
<1> QED BY <1>6, <1>7

(***************************************************************************)
(* The bytes of a character on the lines.                                  *)
(***************************************************************************)
LEMMA BytesOnLine ==
    ASSUME NEW c \in Bytes
    PROVE  /\ OnLine(c) \in Seq(Bytes)
           /\ Len(OnLine(c)) = IF c = TAB THEN 6 ELSE 1
           /\ OnLine(c)[1] = c
           /\ c = TAB => \A k \in 2 .. 6 : OnLine(c)[k] = Blank
<1>1. Blank \in Bytes /\ TAB \in Bytes
  BY GlyphsPlain DEF Bytes, Control
<1>2. CASE c = TAB
  <2>1. OnLine(c) = <<TAB, Blank, Blank, Blank, Blank, Blank>>
    BY <1>2 DEF OnLine
  <2>2. \A k \in 2 .. 6 : k = 2 \/ k = 3 \/ k = 4 \/ k = 5 \/ k = 6
    OBVIOUS
  <2> QED BY <1>1, <1>2, <2>1, <2>2
<1>3. CASE c # TAB
  BY <1>3 DEF OnLine
<1> QED BY <1>2, <1>3

LEMMA ProgressInt ==
    ASSUME IInv, call # <<>>
    PROVE  \A d \in Ports : Progress(d) \in Int
<1>1. Top \in Frames /\ (Len(call) = 2 => call[1] \in Frames)
  BY StackIs DEF IInv, CallOK
<1>2. Top.spaces \in Int /\ (Len(call) = 2 => call[1].spaces \in Int)
  BY <1>1 DEF Frames
<1>3. \A d \in Ports : Wrote(Top, d) \in Int
  BY DEF Wrote
<1> QED BY <1>2, <1>3 DEF Progress

\* The byte that a port has to get next is the one the inner call writes.
LEMMA NextDue ==
    ASSUME IInv, call # <<>>, NEW d \in Ports,
           \/ d = "serial" /\ Top.at = "serial_write"
           \/ d = "lpt" /\ Top.at = "lpt_write"
    PROVE  Top.c \in Bytes /\ due[Progress(d) + 1] = Top.c
<1>1. /\ call \in Seq(Frames) /\ Len(call) <= 2 /\ FrameOK(Top)
      /\ Len(call) = 2 => /\ call[1].c = TAB /\ call[1].at = "cga" /\ call[1].spaces \in 0 .. 4
                          /\ Top.c = Blank
      /\ due = OnLine(call[1].c)
  BY DEF IInv, CallOK, LinesInv
<1>2. /\ Len(call) \in 1 .. 2 /\ Top \in Frames
      /\ Len(call) = 1 => call[1] = Top
      /\ Len(call) = 2 => call[1] \in Frames
  BY <1>1, StackIs
<1>3. Top.c \in Bytes /\ Top.spaces = 5 /\ Wrote(Top, d) = 0
  BY <1>1, <1>2 DEF Frames, FrameOK, Wrote
<1>4. CASE Len(call) = 1
  <2>1. Progress(d) = 0
    BY <1>3, <1>4 DEF Progress
  <2>2. due[1] = Top.c
    BY <1>1, <1>2, <1>3, <1>4, BytesOnLine
  <2> QED BY <1>3, <2>1, <2>2
<1>5. CASE Len(call) = 2
  <2>1. Progress(d) = 5 - call[1].spaces
    BY <1>1, <1>3, <1>5 DEF Progress
  <2>2. TAB \in Bytes
    BY DEF Bytes, Control
  <2>3. \A k \in 2 .. 6 : due[k] = Blank
    BY <1>1, <1>5, <2>2, BytesOnLine
  <2>4. Progress(d) + 1 \in 2 .. 6
    BY <1>1, <1>5, <2>1
  <2> QED BY <1>1, <1>3, <1>5, <2>3, <2>4
<1> QED BY <1>2, <1>4, <1>5

-----------------------------------------------------------------------------
(***************************************************************************)
(* The drivers of the ports.                                               *)
(***************************************************************************)
Lines == {"serial_wait", "serial_write", "lpt_wait", "lpt_write"}

LEMMA Driving ==
    ASSUME IInv, call # <<>>, Top.at \in Lines,
           NEW place \in {"serial_write", "lpt_wait", "lpt_write", "cga"}, GoTo(place),
           UNCHANGED <<initVars, screen, cursor, before, todo>>
    PROVE  /\ Setup' /\ CallOK' /\ ScreenInv'
           /\ call' # <<>> /\ Top'.at = place /\ call'[1].c = call[1].c
           /\ \A d \in Ports :
                 Progress(d)' = Progress(d) - Wrote(Top, d) + Wrote([at |-> place], d)
<1>1. /\ call \in Seq(Frames) /\ Len(call) <= 2 /\ FrameOK(Top) /\ setup = "done"
      /\ Len(call) = 2 => /\ call[1].c = TAB /\ call[1].at = "cga" /\ call[1].spaces \in 0 .. 4
                          /\ Top.c = Blank
  BY DEF IInv, CallOK
<1>2. place \in Places
  BY DEF Places
<1>3. PICK f : f = [Top EXCEPT !.at = place]
  OBVIOUS
<1>4. /\ call' \in Seq(Frames) /\ Len(call') = Len(call) /\ call' # <<>>
      /\ Top' = f
      /\ Len(call) = 2 => call'[1] = call[1]
      /\ call'[1].c = call[1].c
  BY <1>1, <1>2, <1>3, Went
<1>5. Top \in Frames
  BY <1>1, StackIs
<1>6. /\ f.at = place /\ f.c = Top.c /\ f.spaces = Top.spaces /\ Top.spaces \in Int
      /\ Top.at # "cursor" /\ Top.at # "cga"
  BY <1>3, <1>5 DEF Frames, Lines
<1>7. FrameOK(f)
  BY <1>1, <1>6 DEF FrameOK
<1>8. CallOK'
  BY <1>1, <1>4, <1>6, <1>7 DEF CallOK, initVars
<1>9. SpacesPut' = SpacesPut
  BY <1>4, <1>6 DEF SpacesPut
<1>10. ScreenInv'
  BY <1>1, <1>4, <1>6, <1>9 DEF IInv, ScreenInv, initVars
<1>11. ASSUME NEW d \in Ports
       PROVE  Progress(d)' = Progress(d) - Wrote(Top, d) + Wrote([at |-> place], d)
  <2>1. Wrote(f, d) = Wrote([at |-> place], d) /\ Wrote(f, d) \in Int /\ Wrote(Top, d) \in Int
    BY <1>6 DEF Wrote
  <2>2. PICK base \in Int : base = IF Len(call) = 2 THEN 5 - call[1].spaces ELSE 0
    BY <1>1
  <2>3. Progress(d) = base + Wrote(Top, d) + (5 - Top.spaces)
    BY <2>2 DEF Progress
  <2>4. Progress(d)' = base + Wrote(f, d) + (5 - f.spaces)
    BY <1>4, <2>2 DEF Progress
  <2> HIDE DEF Progress
  <2> QED BY <1>6, <2>1, <2>2, <2>3, <2>4
<1>12. Setup'
  BY DEF IInv, Setup, initVars
<1> QED BY <1>4, <1>6, <1>8, <1>10, <1>11, <1>12

LEMMA WaitStep ==
    ASSUME IInv, NEW d \in Ports, NEW wait, NEW write,
           \/ d = "serial" /\ wait = "serial_wait" /\ write = "serial_write"
           \/ d = "lpt" /\ wait = "lpt_wait" /\ write = "lpt_write",
           Wait(d, wait, write)
    PROVE  IInv'
<1>1. /\ call # <<>> /\ Top.at = wait /\ Top.at \in Lines
      /\ write \in {"serial_write", "lpt_wait", "lpt_write", "cga"}
      /\ UNCHANGED <<initVars, screen, cursor, busy, todo, due, before, sent, hasty>>
  BY DEF Wait, At, Lines
<1>2. /\ waited = i /\ i \in 0 .. Polls /\ ~hasty /\ present \subseteq Ports /\ busy \subseteq present
      /\ Polls \in Nat
  BY <1>1, PollsOK DEF IInv, WaitInv, At
<1>3. CASE d \in busy /\ i < Polls
  <2>1. i' = i + 1 /\ waited' = waited + 1 /\ UNCHANGED call
    BY <1>3 DEF Wait
  <2>2. Top' = Top /\ SpacesPut' = SpacesPut /\ (\A e \in Ports : Progress(e)' = Progress(e))
    BY <2>1 DEF Top, Last, SpacesPut, Progress
  <2>3. Setup' /\ CallOK' /\ ScreenInv'
    BY <1>1, <2>1, <2>2 DEF IInv, Setup, CallOK, ScreenInv, SetupInv, initVars
  <2>4. LinesInv'
    BY <1>1, <2>1, <2>2 DEF IInv, LinesInv
  <2>5. WaitInv'
    BY <1>1, <1>2, <1>3, <2>1, <2>2 DEF WaitInv, At, initVars
  <2> QED BY <2>3, <2>4, <2>5 DEF IInv
<1>4. CASE ~(d \in busy /\ i < Polls)
  <2>1. GoTo(write) /\ i' = i /\ waited' = IF d \in busy THEN waited + 1 ELSE waited
    BY <1>4 DEF Wait
  <2>2. /\ Setup' /\ CallOK' /\ ScreenInv'
        /\ call' # <<>> /\ Top'.at = write /\ call'[1].c = call[1].c
        /\ \A e \in Ports :
              Progress(e)' = Progress(e) - Wrote(Top, e) + Wrote([at |-> write], e)
    BY <1>1, <2>1, Driving
  <2>3. \A e \in Ports : Progress(e)' = Progress(e)
    <3>1. \A e \in Ports : Wrote(Top, e) = Wrote([at |-> write], e) /\ Wrote(Top, e) \in Int
      BY <1>1 DEF Wrote
    <3>2. \A e \in Ports : Progress(e) \in Int
      BY <1>1, ProgressInt
    <3> QED BY <2>2, <3>1, <3>2
  <2>4. LinesInv'
    BY <1>1, <2>2, <2>3 DEF IInv, LinesInv
  <2>5. WaitInv'
    <3>1. /\ waited' \in 0 .. Polls + 1 /\ i' \in 0 .. Polls
          /\ d \in busy => waited' = Polls + 1
      BY <1>2, <1>4, <2>1
    <3> QED BY <1>1, <1>2, <2>2, <3>1 DEF WaitInv, At, initVars
  <2> QED BY <2>2, <2>4, <2>5 DEF IInv
<1> QED BY <1>3, <1>4

LEMMA WriteStep ==
    ASSUME IInv, NEW d \in Ports, NEW write, NEW next,
           \/ d = "serial" /\ write = "serial_write" /\ next = "lpt_wait"
           \/ d = "lpt" /\ write = "lpt_write" /\ next = "cga",
           Write(d, write, next)
    PROVE  IInv'
<1>1. /\ call # <<>> /\ Top.at = write /\ Top.at \in Lines
      /\ next \in {"serial_write", "lpt_wait", "lpt_write", "cga"}
      /\ UNCHANGED <<initVars, screen, cursor, todo, due, before>>
      /\ sent' = [sent EXCEPT ![d] = Append(@, Top.c)]
      /\ busy' = busy \cup ({d} \cap present)
      /\ hasty' = (hasty \/ (d \in busy /\ waited <= Polls))
      /\ waited' = 0 /\ GoTo(next) /\ i' = 0
  BY DEF Write, At, Lines
<1>2. /\ d \notin busy \/ waited = Polls + 1
      /\ ~hasty /\ present \subseteq Ports /\ busy \subseteq present /\ Polls \in Nat
  BY <1>1, PollsOK DEF IInv, WaitInv, At
<1>3. /\ Setup' /\ CallOK' /\ ScreenInv'
      /\ call' # <<>> /\ Top'.at = next /\ call'[1].c = call[1].c
      /\ \A e \in Ports : Progress(e)' = Progress(e) - Wrote(Top, e) + Wrote([at |-> next], e)
  BY <1>1, Driving
<1>4. WaitInv'
  <2>1. ~hasty'
    <3>1. ~(d \in busy /\ waited <= Polls)
      BY <1>2
    <3> QED BY <1>1, <1>2, <3>1, Zenon
  <2> QED BY <1>1, <1>2, <1>3, <2>1 DEF WaitInv, At, initVars
<1>5. /\ Progress(d)' = Progress(d) + 1
      /\ \A e \in Ports : e # d => Progress(e)' = Progress(e)
  <2>1. /\ Wrote(Top, d) = 0 /\ Wrote([at |-> next], d) = 1
        /\ \A e \in Ports : e # d => Wrote(Top, e) = Wrote([at |-> next], e)
        /\ \A e \in Ports : Wrote(Top, e) \in Int
    BY <1>1 DEF Wrote, Ports
  <2>2. \A e \in Ports : Progress(e) \in Int
    BY <1>1, ProgressInt
  <2> QED BY <1>3, <2>1, <2>2
<1>6. /\ due = OnLine(call[1].c) /\ sent \in [Ports -> Seq(Bytes)]
      /\ \A e \in Ports : /\ Len(sent[e]) = Progress(e)
                          /\ \A j \in 1 .. Len(sent[e]) : sent[e][j] = due[j]
  BY <1>1 DEF IInv, LinesInv
<1>7. Top.c \in Bytes /\ due[Progress(d) + 1] = Top.c
  BY <1>1, <1>6, NextDue
<1>8. PICK s \in Seq(Bytes) : s = sent[d]
  BY <1>6
<1>9. /\ Append(s, Top.c) \in Seq(Bytes) /\ Len(Append(s, Top.c)) = Len(s) + 1 /\ Len(s) \in Nat
      /\ \A j \in 1 .. Len(s) : Append(s, Top.c)[j] = s[j]
      /\ Append(s, Top.c)[Len(s) + 1] = Top.c
  BY <1>7, AppendProperties, LenProperties
<1>10. /\ sent' \in [Ports -> Seq(Bytes)] /\ sent'[d] = Append(s, Top.c)
       /\ \A e \in Ports : e # d => sent'[e] = sent[e]
  BY <1>1, <1>6, <1>8, <1>9
<1>11. /\ Len(sent'[d]) = Progress(d)'
       /\ \A j \in 1 .. Len(sent'[d]) : sent'[d][j] = due[j]
  <2>1. Len(s) = Progress(d) /\ \A j \in 1 .. Len(s) : s[j] = due[j]
    BY <1>6, <1>8
  <2>2. \A j \in 1 .. Len(s) + 1 : j \in 1 .. Len(s) \/ j = Len(s) + 1
    BY <1>9
  <2> QED BY <1>5, <1>7, <1>9, <1>10, <2>1, <2>2
<1>12. LinesInv'
  <2>1. ASSUME NEW e \in Ports
        PROVE  /\ Len(sent'[e]) = Progress(e)'
               /\ \A j \in 1 .. Len(sent'[e]) : sent'[e][j] = due'[j]
    <3>1. CASE e = d
      BY <1>1, <1>11, <3>1
    <3>2. CASE e # d
      BY <1>1, <1>5, <1>6, <1>10, <3>2
    <3> QED BY <3>1, <3>2
  <2> QED BY <1>1, <1>3, <1>6, <1>10, <2>1 DEF LinesInv
<1> QED BY <1>3, <1>4, <1>12 DEF IInv

LEMMA TabPushes ==
    ASSUME IInv, Tab, Top.spaces > 0
    PROVE  call' # <<>>
<1>1. call' = Append([call EXCEPT ![Len(call)].spaces = @ - 1], Frame(Blank))
  BY DEF Tab
<1> QED BY <1>1

-----------------------------------------------------------------------------
(***************************************************************************)
(* The driver of the screen.                                               *)
(***************************************************************************)
LEMMA AtScreen ==
    ASSUME IInv, call # <<>>, Top.at \in {"cga", "cursor"}
    PROVE  /\ call \in Seq(Frames) /\ Len(call) <= 2 /\ Len(call) \in 1 .. 2 /\ setup = "done"
           /\ Top \in Frames /\ FrameOK(Top) /\ Top.spaces \in 0 .. 5
           /\ Len(call) = 1 => call = <<Top>> /\ call[1] = Top
           /\ Len(call) = 2 => /\ call[1] \in Frames /\ call[1].c = TAB /\ call[1].at = "cga"
                               /\ call[1].spaces \in 0 .. 4 /\ Top.c = Blank /\ Top.spaces = 5
           /\ Blank # TAB /\ waited = 0
           /\ WellFormed(screen) /\ cursor \in Cells /\ addr_6845 = adapter
<1>1. /\ call \in Seq(Frames) /\ Len(call) <= 2 /\ FrameOK(Top) /\ setup = "done"
      /\ Len(call) = 2 => /\ call[1].c = TAB /\ call[1].at = "cga" /\ call[1].spaces \in 0 .. 4
                          /\ Top.c = Blank
  BY DEF IInv, CallOK
<1>2. /\ Len(call) \in 1 .. 2 /\ Top \in Frames
      /\ Len(call) = 1 => call = <<Top>> /\ call[1] = Top
      /\ Len(call) = 2 => call[1] \in Frames
  BY <1>1, StackIs
<1>3. Blank # TAB
  BY DEF Blank, TAB
<1>4. Top.spaces \in 0 .. 5
  BY <1>2 DEF Frames
<1>5. Len(call) = 2 => Top.spaces = 5
  BY <1>1, <1>3 DEF FrameOK
<1>6. waited = 0
  BY DEF IInv, WaitInv, At
<1>7. WellFormed(screen) /\ cursor \in Cells /\ addr_6845 = adapter
  BY <1>1 DEF IInv, ScreenInv
<1> QED BY <1>1, <1>2, <1>3, <1>4, <1>5, <1>6, <1>7

\* A tab begins one of its spaces.
LEMMA TabCalls ==
    ASSUME IInv, Tab, Top.spaces > 0
    PROVE  IInv'
<1>1. /\ call # <<>> /\ Top.at = "cga" /\ Top.c = TAB /\ i' = 0
      /\ call' = Append([call EXCEPT ![Len(call)].spaces = @ - 1], Frame(Blank))
      /\ UNCHANGED <<initVars, screen, cursor, busy, todo, due, before, sent, waited, hasty>>
  BY DEF Tab, At, history
<1>2. /\ call \in Seq(Frames) /\ Len(call) \in 1 .. 2 /\ setup = "done" /\ Top.spaces \in 0 .. 5
      /\ Len(call) = 1 /\ call[1] = Top /\ Top \in Frames /\ waited = 0
      /\ WellFormed(screen) /\ cursor \in Cells /\ addr_6845 = adapter
  BY <1>1, AtScreen
<1>3. PICK s \in 1 .. 5 : s = Top.spaces
  BY <1>2
<1>4. PICK f, g : f = [Top EXCEPT !.spaces = s - 1] /\ g = Frame(Blank)
  OBVIOUS
<1>5. /\ f \in Frames /\ f.c = TAB /\ f.at = "cga" /\ f.spaces = s - 1
      /\ g \in Frames /\ g.c = Blank /\ g.at = "serial_wait" /\ g.spaces = 5 /\ FrameOK(g)
  <2>1. Blank \in Bytes
    BY GlyphsPlain DEF Bytes
  <2> QED BY <1>1, <1>2, <1>3, <1>4, <2>1 DEF Frames, Frame, Places, FrameOK
<1>6. [call EXCEPT ![Len(call)].spaces = @ - 1] = [call EXCEPT ![1] = f]
  BY <1>2, <1>3, <1>4
<1>7. call' = Append([call EXCEPT ![1] = f], g)
  BY <1>1, <1>4, <1>6
<1>8. /\ call' \in Seq(Frames) /\ Len(call') = 2 /\ call' # <<>>
       /\ call'[1] = f /\ call'[2] = g
  BY <1>2, <1>5, <1>7, Pushed
<1>9. Top' = g
  BY <1>8 DEF Top, Last
<1>10. CallOK'
  BY <1>1, <1>2, <1>3, <1>5, <1>8, <1>9 DEF CallOK, initVars
<1>11. \A d \in Ports : Progress(d)' = Progress(d)
  <2>1. \A d \in Ports : Wrote(Top, d) = 1 /\ Wrote(g, d) = 0
    BY <1>1, <1>5 DEF Wrote
  <2>2. \A d \in Ports : Progress(d) = 0 + 1 + (5 - s)
    BY <1>2, <1>3, <2>1 DEF Progress
  <2>3. \A d \in Ports : Progress(d)' = 5 - (s - 1) + 0 + (5 - 5)
    BY <1>5, <1>8, <1>9, <2>1 DEF Progress
  <2> QED BY <1>3, <2>2, <2>3
<1>12. LinesInv'
  BY <1>1, <1>2, <1>5, <1>8, <1>11 DEF IInv, LinesInv
<1>13. WaitInv'
  BY <1>1, <1>2, <1>5, <1>9, PollsOK DEF IInv, WaitInv, At, initVars
<1>14. ScreenInv'
  <2>1. SpacesPut = 5 - s /\ SpacesPut' = 4 - (s - 1)
    BY <1>2, <1>3, <1>5, <1>8 DEF SpacesPut
  <2>2. SpacesPut' = SpacesPut
    BY <1>3, <2>1
  <2> QED BY <1>1, <1>2, <1>5, <1>8, <1>9, <2>2 DEF IInv, ScreenInv, initVars
<1>15. Setup'
  BY <1>1 DEF IInv, Setup, initVars
<1> QED BY <1>10, <1>12, <1>13, <1>14, <1>15 DEF IInv

\* The character, or the end of a tab, is on the screen.
LEMMA Shown ==
    ASSUME IInv, call # <<>>, Top.at = "cga", GoTo("cursor"),
           IF Top.c = TAB THEN Top.spaces = 0 /\ screen' = Scroll(screen)
                          ELSE screen' = PutPlain(screen, Top.c),
           UNCHANGED <<initVars, cursor, busy, i, todo, history>>
    PROVE  IInv'
<1>1. /\ call \in Seq(Frames) /\ Len(call) <= 2 /\ Len(call) \in 1 .. 2 /\ setup = "done"
      /\ Top \in Frames /\ FrameOK(Top) /\ Top.spaces \in 0 .. 5
      /\ Len(call) = 1 => call = <<Top>> /\ call[1] = Top
      /\ Len(call) = 2 => /\ call[1] \in Frames /\ call[1].c = TAB /\ call[1].at = "cga"
                          /\ call[1].spaces \in 0 .. 4 /\ Top.c = Blank /\ Top.spaces = 5
      /\ Blank # TAB /\ waited = 0
      /\ WellFormed(screen) /\ cursor \in Cells /\ addr_6845 = adapter
  BY AtScreen
<1>2. UNCHANGED <<initVars, cursor, busy, i, todo, due, before, sent, waited, hasty>>
  BY DEF history
<1>3. PICK f : f = [Top EXCEPT !.at = "cursor"]
  OBVIOUS
<1>4. /\ call' \in Seq(Frames) /\ Len(call') = Len(call) /\ call' # <<>>
      /\ Top' = f
      /\ Len(call) = 2 => call'[1] = call[1]
      /\ call'[1].c = call[1].c
  <2>1. "cursor" \in Places
    BY DEF Places
  <2> QED BY <1>1, <1>3, <2>1, Went
<1>5. f.at = "cursor" /\ f.c = Top.c /\ f.spaces = Top.spaces
  BY <1>1, <1>3 DEF Frames
<1>6. FrameOK(f)
  BY <1>1, <1>5 DEF FrameOK
<1>7. CallOK'
  BY <1>1, <1>2, <1>4, <1>5, <1>6 DEF CallOK, initVars
<1>8. \A d \in Ports : Progress(d)' = Progress(d)
  <2>1. \A d \in Ports : Wrote(Top, d) = 1 /\ Wrote(f, d) = 1
    BY <1>5 DEF Wrote
  <2> QED BY <1>4, <1>5, <2>1 DEF Progress
<1>9. LinesInv'
  BY <1>2, <1>4, <1>8 DEF IInv, LinesInv
<1>10. WaitInv'
  BY <1>1, <1>2, <1>4, <1>5 DEF IInv, WaitInv, At, initVars
<1>11. SpacesPut' = SpacesPut
  BY <1>4, <1>5 DEF SpacesPut
<1>12. WellFormed(screen)'
  <2>1. WellFormed(screen')
    BY <1>1, PutKeeps, ScrolledAlready
  <2> QED BY <2>1 DEF WellFormed
<1>13. screen = Blanks(SpacesPut, before)
  BY DEF IInv, ScreenInv
<1>14. screen' = IF Top.c = TAB THEN cga_putc(before, TAB)
                 ELSE PutPlain(Blanks(SpacesPut, before), Top.c)
  <2>1. CASE Top.c = TAB
    <3>1. SpacesPut = 5
      BY <1>1, <2>1 DEF SpacesPut
    <3> QED BY <1>13, <2>1, <3>1, BlanksAre
  <2>2. CASE Top.c # TAB
    BY <1>13, <2>2
  <2> QED BY <2>1, <2>2
<1>15. ScreenInv'
  BY <1>1, <1>2, <1>4, <1>5, <1>11, <1>12, <1>14 DEF ScreenInv, initVars
<1>16. Setup'
  BY <1>2 DEF IInv, Setup, initVars
<1> QED BY <1>7, <1>9, <1>10, <1>15, <1>16 DEF IInv

\* The call of a space returns to its tab.
LEMMA InnerReturns ==
    ASSUME IInv, MoveCursor, Len(call) = 2
    PROVE  IInv' /\ call' # <<>>
<1>1. /\ call # <<>> /\ Top.at = "cursor" /\ call' = Front(call)
      /\ cursor' = IF addr_6845 = adapter THEN screen.pos ELSE cursor
      /\ UNCHANGED <<initVars, screen, busy, i, todo, due, before, sent, waited, hasty>>
  BY DEF MoveCursor, At, history
<1>2. /\ call \in Seq(Frames) /\ setup = "done" /\ Blank # TAB /\ waited = 0
      /\ call[1] \in Frames /\ call[1].c = TAB /\ call[1].at = "cga"
      /\ call[1].spaces \in 0 .. 4 /\ Top.c = Blank /\ Top.spaces = 5
      /\ WellFormed(screen) /\ cursor \in Cells /\ addr_6845 = adapter
  BY <1>1, AtScreen
<1>3. /\ call' = <<call[1]>> /\ call'[1] = call[1] /\ Top' = call[1]
      /\ Len(call') = 1 /\ call' # <<>>
  BY <1>1, <1>2, Returned
<1>4. PICK f \in Frames : f = call[1]
  BY <1>2
<1>5. CallOK'
  <2>1. call' \in Seq(Frames)
    BY <1>3, <1>4
  <2>2. FrameOK(f)
    BY <1>2, <1>4 DEF FrameOK
  <2> QED BY <1>1, <1>2, <1>3, <1>4, <2>1, <2>2 DEF CallOK, initVars
<1>6. \A d \in Ports : Progress(d)' = Progress(d)
  <2>1. \A d \in Ports : Wrote(Top, d) = 1 /\ Wrote(f, d) = 1
    BY <1>1, <1>2, <1>4 DEF Wrote
  <2>2. \A d \in Ports : Progress(d) = 5 - f.spaces + 1 + (5 - 5)
    BY <1>2, <1>4, <2>1 DEF Progress
  <2>3. \A d \in Ports : Progress(d)' = 0 + 1 + (5 - f.spaces)
    BY <1>3, <1>4, <2>1 DEF Progress
  <2> QED BY <1>2, <1>4, <2>2, <2>3
<1>7. LinesInv'
  BY <1>1, <1>3, <1>6 DEF IInv, LinesInv
<1>8. WaitInv'
  BY <1>1, <1>2, <1>3 DEF IInv, WaitInv, At, initVars
<1>9. ScreenInv'
  <2>1. SpacesPut = 4 - f.spaces /\ SpacesPut' = 5 - f.spaces
    BY <1>3, <1>4 DEF SpacesPut
  <2>2. screen = PutPlain(Blanks(SpacesPut, before), Blank)
    BY <1>1, <1>2 DEF IInv, ScreenInv
  <2>3. SpacesPut \in 0 .. 4 /\ SpacesPut' = SpacesPut + 1
    BY <1>2, <1>4, <2>1
  <2>4. screen = Blanks(SpacesPut', before)
    BY <2>2, <2>3, BlanksAre
  <2>5. cursor' \in Cells
    BY <1>1, <1>2 DEF WellFormed
  <2> QED BY <1>1, <1>2, <1>3, <2>4, <2>5 DEF ScreenInv, initVars, WellFormed
<1>10. Setup'
  BY <1>1 DEF IInv, Setup, initVars
<1> QED BY <1>3, <1>5, <1>7, <1>8, <1>9, <1>10 DEF IInv

\* The call of a character returns: all of it is on the lines and on the screen.
LEMMA OuterReturns ==
    ASSUME IInv, MoveCursor, Len(call) # 2
    PROVE  /\ IInv' /\ call' = <<>> /\ setup' = "done"
           /\ call[1].c \in Bytes
           /\ [screen' EXCEPT !.pos = cursor'] = cga_putc(before, call[1].c)
<1>1. /\ call # <<>> /\ Top.at = "cursor" /\ call' = Front(call)
      /\ cursor' = IF addr_6845 = adapter THEN screen.pos ELSE cursor
      /\ UNCHANGED <<initVars, screen, busy, i, todo, due, before, sent, waited, hasty>>
  BY DEF MoveCursor, At, history
<1>2. /\ call \in Seq(Frames) /\ Len(call) = 1 /\ setup = "done" /\ waited = 0
      /\ call[1] = Top /\ Top \in Frames /\ FrameOK(Top)
      /\ WellFormed(screen) /\ cursor \in Cells /\ addr_6845 = adapter
  BY <1>1, AtScreen
<1>3. call' = <<>>
  BY <1>1, <1>2, Returned
<1>4. CallOK'
  BY <1>3, EmptySeq DEF CallOK
<1>5. LinesInv'
  <2>1. /\ sent \in [Ports -> Seq(Bytes)] /\ due = OnLine(Top.c)
        /\ \A d \in Ports :
              /\ Len(sent[d]) = Progress(d)
              /\ \A j \in 1 .. Len(sent[d]) : sent[d][j] = due[j]
    BY <1>1, <1>2 DEF IInv, LinesInv
  <2>2. Top.c \in Bytes /\ Top.spaces = IF Top.c = TAB THEN 0 ELSE 5
    BY <1>1, <1>2 DEF Frames, FrameOK
  <2>3. due \in Seq(Bytes) /\ Len(due) = IF Top.c = TAB THEN 6 ELSE 1
    BY <2>1, <2>2, BytesOnLine
  <2>4. ASSUME NEW d \in Ports PROVE sent[d] = due
    <3>1. Progress(d) = 0 + 1 + (5 - Top.spaces)
      BY <1>1, <1>2 DEF Progress, Wrote
    <3>2. Len(sent[d]) = Len(due)
      <4>1. Len(sent[d]) = 6 - Top.spaces
        <5>1. Top.spaces \in Int
          BY <1>2 DEF Frames
        <5> QED BY <2>1, <3>1, <5>1
      <4>2. CASE Top.c = TAB
        BY <2>2, <2>3, <4>1, <4>2
      <4>3. CASE Top.c # TAB
        BY <2>2, <2>3, <4>1, <4>3
      <4> QED BY <4>2, <4>3
    <3> QED BY <2>1, <2>3, <3>2, SeqEqual
  <2> QED BY <1>1, <1>3, <2>1, <2>4 DEF LinesInv
<1>6. WaitInv'
  BY <1>1, <1>3 DEF IInv, WaitInv, At, initVars
<1>7. cursor' = screen.pos /\ cursor' \in Cells
  BY <1>1, <1>2 DEF WellFormed
<1>8. ScreenInv'
  BY <1>1, <1>2, <1>3, <1>7 DEF ScreenInv, initVars, WellFormed
<1>9. Setup'
  BY <1>1 DEF IInv, Setup, initVars
<1>10. Top.c \in Bytes
  BY <1>2 DEF Frames
<1>11. screen = cga_putc(before, Top.c)
  <2>1. CASE Top.c = TAB
    BY <1>1, <2>1 DEF IInv, ScreenInv
  <2>2. CASE Top.c # TAB
    <3>1. Top.spaces = 5
      BY <1>2, <2>2 DEF FrameOK
    <3>2. SpacesPut = 0
      BY <1>2, <3>1 DEF SpacesPut
    <3>3. screen = PutPlain(Blanks(SpacesPut, before), Top.c)
      BY <1>1, <2>2 DEF IInv, ScreenInv
    <3> QED BY <2>2, <3>2, <3>3, BlanksAre DEF cga_putc
  <2> QED BY <2>1, <2>2
<1>12. [screen' EXCEPT !.pos = cursor'] = screen
  <2>1. PICK b, p : screen = [buf |-> b, pos |-> p]
    BY <1>2 DEF WellFormed
  <2> QED BY <1>1, <1>7, <2>1
<1> QED BY <1>1, <1>2, <1>3, <1>4, <1>5, <1>6, <1>8, <1>9, <1>10, <1>11, <1>12 DEF IInv, initVars

-----------------------------------------------------------------------------
(***************************************************************************)
(* The devices, and steps that change nothing.                             *)
(***************************************************************************)
LEMMA Unmoved ==
    ASSUME IInv, UNCHANGED <<initVars, screen, cursor, call, i, todo, history>>,
           busy' \subseteq busy
    PROVE  IInv'
<1>1. UNCHANGED <<adapter, present, setup, was, addr_6845, screen, cursor, call, i, todo,
                  due, before, sent, waited, hasty>>
  BY DEF initVars, history
<1>2. Top' = Top /\ SpacesPut' = SpacesPut /\ (\A d \in Ports : Progress(d)' = Progress(d))
  BY <1>1 DEF Top, Last, SpacesPut, Progress
<1>3. Setup' /\ CallOK'
  BY <1>1, <1>2 DEF IInv, Setup, CallOK
<1>4. LinesInv'
  BY <1>1, <1>2 DEF IInv, LinesInv
<1>5. WaitInv'
  BY <1>1, <1>2 DEF IInv, WaitInv, At
<1>6. ScreenInv'
  BY <1>1, <1>2 DEF IInv, ScreenInv, SetupInv, WellFormed
<1> QED BY <1>3, <1>4, <1>5, <1>6 DEF IInv

(***************************************************************************)
(* cons_init.                                                              *)
(***************************************************************************)
LEMMA Idle ==
    ASSUME IInv, setup # "done",
           UNCHANGED <<adapter, present, cursor, busy, call, i, history>>
    PROVE  /\ call = <<>> /\ call' = <<>> /\ SetupInv /\ WellFormed(screen)
           /\ CallOK' /\ LinesInv' /\ WaitInv'
<1>1. UNCHANGED <<due, before, sent, waited, hasty>>
  BY DEF history
<1>2. call = <<>> /\ call' = <<>>
  BY DEF IInv, CallOK
<1>3. CallOK'
  BY <1>2, EmptySeq DEF CallOK
<1>4. LinesInv'
  BY <1>1, <1>2 DEF IInv, LinesInv
<1>5. WaitInv'
  BY <1>1, <1>2 DEF IInv, WaitInv, At
<1> QED BY <1>2, <1>3, <1>4, <1>5 DEF IInv, ScreenInv

LEMMA ProbeStep ==
    ASSUME IInv, Probe
    PROVE  IInv'
<1>1. /\ setup = "probe" /\ setup' = "choose" /\ UNCHANGED <<before, todo>>
      /\ UNCHANGED <<adapter, present, cursor, busy, call, i, history>>
      /\ IF adapter = "CGA"
         THEN was' = screen.buf[0] /\ screen' = [screen EXCEPT !.buf[0] = Mark]
         ELSE UNCHANGED <<was, screen>>
  BY DEF Probe, history
<1>2. /\ call = <<>> /\ call' = <<>> /\ SetupInv /\ WellFormed(screen)
      /\ CallOK' /\ LinesInv' /\ WaitInv'
  BY <1>1, Idle
<1>3. PICK b, p : screen = [buf |-> b, pos |-> p] /\ DOMAIN b = Cells /\ p \in Cells
  BY <1>2 DEF WellFormed
<1>4. b = before.buf
  BY <1>1, <1>2, <1>3 DEF SetupInv
<1>5. CASE adapter = "CGA"
  <2>1. screen' = [buf |-> [b EXCEPT ![0] = Mark], pos |-> p] /\ was' = b[0]
    BY <1>1, <1>3, <1>5
  <2>2. WellFormed(screen)'
    BY <1>3, <2>1 DEF WellFormed
  <2>3. SetupInv'
    BY <1>1, <1>2, <1>4, <1>5, <2>1 DEF SetupInv
  <2> QED BY <1>1, <1>2, <2>2, <2>3 DEF IInv, Setup, ScreenInv
<1>6. CASE adapter # "CGA"
  <2>1. screen' = screen
    BY <1>1, <1>6
  <2>2. WellFormed(screen)'
    BY <1>2, <2>1 DEF WellFormed
  <2>3. SetupInv'
    BY <1>1, <1>2, <1>3, <1>4, <1>6, <2>1 DEF SetupInv
  <2> QED BY <1>1, <1>2, <2>2, <2>3 DEF IInv, Setup, ScreenInv
<1> QED BY <1>5, <1>6

\* The probe is undone, and its result is the adapter that is there.
LEMMA ChooseStep ==
    ASSUME IInv, Choose
    PROVE  IInv'
<1>1. /\ setup = "choose" /\ setup' = "serial_init" /\ UNCHANGED <<before, todo>>
      /\ UNCHANGED <<adapter, present, cursor, busy, call, i, history>>
      /\ IF screen.buf[0] = Mark
         THEN addr_6845' = "CGA"
              /\ screen' = [buf |-> [screen.buf EXCEPT ![0] = was], pos |-> cursor]
         ELSE addr_6845' = "MONO" /\ screen' = [screen EXCEPT !.pos = cursor]
  BY DEF Choose, history
<1>2. /\ call = <<>> /\ call' = <<>> /\ SetupInv /\ WellFormed(screen)
      /\ CallOK' /\ LinesInv' /\ WaitInv'
  BY <1>1, Idle
<1>3. PICK b, p : before = [buf |-> b, pos |-> p] /\ b \in [Cells -> Glyph] /\ p \in Cells
  BY <1>2 DEF SetupInv, Screens
<1>4. cursor = p /\ 0 \in Cells /\ b[0] # Mark /\ adapter \in {"CGA", "MONO"}
  BY <1>2, <1>3, Sizes, MarkIsNoGlyph DEF SetupInv
<1>5. screen' = before /\ addr_6845' = adapter
  <2>1. CASE adapter = "CGA"
    <3>1. screen.buf = [b EXCEPT ![0] = Mark] /\ was = b[0]
      BY <1>1, <1>2, <1>3, <2>1 DEF SetupInv
    <3>2. screen.buf[0] = Mark /\ [screen.buf EXCEPT ![0] = was] = b
      BY <1>3, <1>4, <3>1
    <3> QED BY <1>1, <1>3, <1>4, <2>1, <3>2
  <2>2. CASE adapter = "MONO"
    <3>1. screen.buf = b
      BY <1>1, <1>2, <1>3, <2>2 DEF SetupInv
    <3>2. PICK q : screen = [buf |-> b, pos |-> q]
      BY <1>2, <3>1 DEF WellFormed
    <3> QED BY <1>1, <1>3, <1>4, <2>2, <3>1, <3>2
  <2> QED BY <1>4, <2>1, <2>2
<1>6. WellFormed(screen)'
  <2>1. WellFormed(before)
    BY <1>3 DEF WellFormed
  <2> QED BY <1>5, <2>1 DEF WellFormed
<1>7. SetupInv'
  BY <1>1, <1>2, <1>5 DEF SetupInv
<1> QED BY <1>1, <1>2, <1>5, <1>6, <1>7 DEF IInv, Setup, ScreenInv

LEMMA SerialStep ==
    ASSUME IInv, serial_init
    PROVE  IInv' /\ call' = <<>> /\ setup' = "done" /\ before' = before
           /\ [screen' EXCEPT !.pos = cursor'] = before
<1>1. /\ setup = "serial_init" /\ setup' = "done"
      /\ UNCHANGED <<adapter, present, addr_6845, screen, cursor, busy, call, i, before, history>>
      /\ todo' = IF "serial" \in present THEN <<>> ELSE NoSerial
  BY DEF serial_init, history
<1>2. /\ call = <<>> /\ call' = <<>> /\ SetupInv /\ WellFormed(screen)
      /\ CallOK' /\ LinesInv' /\ WaitInv'
  BY <1>1, Idle
<1>3. todo' \in Seq(Glyph)
  BY <1>1, PrintableOK, EmptySeq
<1>4. screen = before /\ cursor = before.pos
  BY <1>1, <1>2 DEF SetupInv
<1>5. [screen EXCEPT !.pos = cursor] = screen
  <2>1. PICK b, p : screen = [buf |-> b, pos |-> p]
    BY <1>2 DEF WellFormed
  <2> QED BY <1>4, <2>1
<1>6. ScreenInv'
  BY <1>1, <1>2, <1>4 DEF IInv, ScreenInv, WellFormed
<1>7. Setup'
  BY <1>1, <1>3 DEF IInv, Setup
<1> QED BY <1>1, <1>2, <1>4, <1>5, <1>6, <1>7 DEF IInv

(***************************************************************************)
(* A call of cons_putc begins.                                             *)
(***************************************************************************)
LEMMA Begun ==
    ASSUME IInv, NEW c \in Bytes, cons_putc(c), todo' \in Seq(Glyph)
    PROVE  /\ IInv' /\ call' # <<>> /\ setup = "done" /\ call = <<>>
           /\ [screen EXCEPT !.pos = cursor] = before'
<1>1. /\ setup = "done" /\ call = <<>> /\ call' = <<Frame(c)>> /\ i' = 0
      /\ due' = OnLine(c) /\ sent' = [d \in Ports |-> <<>>] /\ before' = screen
      /\ waited' = 0 /\ UNCHANGED <<screen, cursor, busy, hasty>>
      /\ UNCHANGED <<adapter, present, setup, was, addr_6845>>
  BY DEF cons_putc, initVars
<1>2. PICK f : f = Frame(c)
  OBVIOUS
<1>3. /\ f \in Frames /\ f.c = c /\ f.at = "serial_wait" /\ f.spaces = 5 /\ FrameOK(f)
  BY <1>2 DEF Frames, Frame, Places, FrameOK
<1>4. /\ call' \in Seq(Frames) /\ Len(call') = 1 /\ call' # <<>> /\ call'[1] = f
      /\ Top' = f
  BY <1>1, <1>2, <1>3 DEF Top, Last
<1>5. CallOK'
  BY <1>1, <1>3, <1>4 DEF CallOK
<1>6. LinesInv'
  <2>1. \A d \in Ports : Progress(d)' = 0
    BY <1>3, <1>4 DEF Progress, Wrote
  <2>2. \A d \in Ports : sent'[d] = <<>>
    BY <1>1
  <2>3. sent' \in [Ports -> Seq(Bytes)]
    BY <1>1, EmptySeq
  <2>4. Len(<<>>) = 0
    BY EmptySeq
  <2>5. \A d \in Ports : Len(sent'[d]) = Progress(d)'
    BY <2>1, <2>2, <2>4, Zenon
  <2>6. \A d \in Ports : \A j \in 1 .. Len(sent'[d]) : sent'[d][j] = due'[j]
    <3>1. \A d \in Ports : Len(sent'[d]) = 0
      BY <2>2, <2>4, Zenon
    <3> QED BY <3>1
  <2> QED BY <1>1, <1>3, <1>4, <2>3, <2>5, <2>6 DEF LinesInv
<1>7. WaitInv'
  BY <1>1, <1>3, <1>4, PollsOK DEF IInv, WaitInv, At
<1>8. WellFormed(screen) /\ screen.pos = cursor /\ cursor \in Cells /\ addr_6845 = adapter
  BY <1>1 DEF IInv, ScreenInv
<1>9. [screen EXCEPT !.pos = cursor] = screen
  <2>1. PICK b, p : screen = [buf |-> b, pos |-> p]
    BY <1>8 DEF WellFormed
  <2> QED BY <1>8, <2>1
<1>10. ScreenInv'
  <2>1. SpacesPut' = 0
    BY <1>3, <1>4 DEF SpacesPut
  <2>2. screen = Blanks(0, screen)
    BY BlanksAre
  <2> QED BY <1>1, <1>3, <1>4, <1>8, <2>1, <2>2 DEF ScreenInv, WellFormed
<1>11. Setup'
  BY <1>1 DEF IInv, Setup
<1> QED BY <1>1, <1>4, <1>5, <1>6, <1>7, <1>9, <1>10, <1>11 DEF IInv

LEMMA BytesKnown ==
    /\ Printable \subseteq Bytes
    /\ \A s \in Seq(Glyph) : s # <<>> => Head(s) \in Bytes /\ Tail(s) \in Seq(Glyph)
BY PrintableOK, HeadTailProperties DEF Bytes

-----------------------------------------------------------------------------
(***************************************************************************)
(* Every step, and what the user sees of it.                               *)
(***************************************************************************)
UserSees == IF setup = "done" /\ call = <<>> THEN [screen EXCEPT !.pos = cursor] ELSE before

LEMMA InitInv == Init => IInv /\ UserSees \in Screens
<1> SUFFICES ASSUME Init PROVE IInv /\ UserSees \in Screens
  OBVIOUS
<1>1. PICK text \in [Cells -> Glyph] : screen = [buf |-> text, pos |-> 0]
  BY BiosTextOK DEF Init
<1>2. cursor \in Cells /\ 0 \in Cells /\ before = [buf |-> text, pos |-> cursor]
  BY <1>1, Sizes DEF Init
<1>3. before \in Screens
  BY <1>1, <1>2 DEF Screens
<1>4. Setup /\ CallOK
  BY EmptySeq DEF Init, Setup, CallOK
<1>5. LinesInv
  BY EmptySeq DEF Init, LinesInv
<1>6. WaitInv
  BY PollsOK DEF Init, WaitInv, At
<1>7. SetupInv
  BY <1>1, <1>2, <1>3 DEF Init, SetupInv
<1>8. WellFormed(screen)
  BY <1>1, <1>2 DEF WellFormed
<1>9. ScreenInv
  BY <1>2, <1>7, <1>8 DEF Init, ScreenInv
<1>10. UserSees \in Screens
  BY <1>3 DEF Init, UserSees
<1> QED BY <1>4, <1>5, <1>6, <1>9, <1>10 DEF IInv

LEMMA NextInv ==
    ASSUME IInv, [Next]_vars
    PROVE  /\ IInv'
           /\ UserSees' = UserSees \/ \E c \in Bytes : UserSees' = cga_putc(UserSees, c)
<1>1. CASE Probe
  <2>1. setup # "done" /\ setup' # "done" /\ before' = before
    BY <1>1 DEF Probe, history
  <2> QED BY <1>1, <2>1, ProbeStep DEF UserSees
<1>2. CASE Choose
  <2>1. setup # "done" /\ setup' # "done" /\ before' = before
    BY <1>2 DEF Choose, history
  <2> QED BY <1>2, <2>1, ChooseStep DEF UserSees
<1>3. CASE serial_init
  <2>1. setup # "done"
    BY <1>3 DEF serial_init
  <2> QED BY <1>3, <2>1, SerialStep DEF UserSees
<1>4. ASSUME NEW c \in Bytes, cons_putc(c), todo' \in Seq(Glyph)
      PROVE  IInv' /\ UserSees' = UserSees
  BY <1>4, Begun DEF UserSees
<1>5. CASE cprintf
  <2>1. Head(todo) \in Bytes /\ Tail(todo) \in Seq(Glyph)
    BY <1>5, BytesKnown DEF cprintf, IInv, Setup
  <2> QED BY <1>4, <1>5, <2>1 DEF cprintf
<1>6. CASE \E c \in Printable : cputchar(c)
  <2>1. PICK c \in Printable : cputchar(c)
    BY <1>6
  <2>2. c \in Bytes /\ todo' \in Seq(Glyph)
    BY <2>1, BytesKnown DEF cputchar, IInv, Setup
  <2> QED BY <1>4, <2>1, <2>2 DEF cputchar
<1>7. CASE serial_putc \/ lpt_putc
  <2>1. call # <<>> /\ call' # <<>> /\ before' = before
    <3>1. /\ call # <<>> /\ before' = before
          /\ call' = call \/ \E place \in Places : GoTo(place)
      BY <1>7 DEF serial_putc, lpt_putc, Wait, Write, At, Places
    <3>2. call \in Seq(Frames) /\ Len(call) <= 2
      BY DEF IInv, CallOK
    <3> QED BY <3>1, <3>2, Went
  <2>2. IInv'
    <3>1. ASSUME Wait("serial", "serial_wait", "serial_write") PROVE IInv'
      <4>1. "serial" \in Ports
        BY DEF Ports
      <4> QED BY <3>1, <4>1, WaitStep
    <3>2. ASSUME Wait("lpt", "lpt_wait", "lpt_write") PROVE IInv'
      <4>1. "lpt" \in Ports
        BY DEF Ports
      <4> QED BY <3>2, <4>1, WaitStep
    <3>3. ASSUME Write("serial", "serial_write", "lpt_wait") PROVE IInv'
      <4>1. "serial" \in Ports
        BY DEF Ports
      <4> QED BY <3>3, <4>1, WriteStep
    <3>4. ASSUME Write("lpt", "lpt_write", "cga") PROVE IInv'
      <4>1. "lpt" \in Ports
        BY DEF Ports
      <4> QED BY <3>4, <4>1, WriteStep
    <3> QED BY <1>7, <3>1, <3>2, <3>3, <3>4 DEF serial_putc, lpt_putc
  <2> QED BY <2>1, <2>2 DEF UserSees
<1>8. CASE Tab
  <2>1. call # <<>> /\ Top.at = "cga" /\ Top.c = TAB /\ before' = before
    BY <1>8 DEF Tab, At, history
  <2>2. call \in Seq(Frames) /\ Len(call) <= 2 /\ Top.spaces \in 0 .. 5
    BY <2>1, AtScreen
  <2>3. CASE Top.spaces > 0
    <3>1. IInv'
      BY <1>8, <2>3, TabCalls
    <3>2. call' # <<>>
      BY <1>8, <2>1, <2>2, <2>3, TabPushes
    <3> QED BY <2>1, <3>1, <3>2 DEF UserSees
  <2>4. CASE ~(Top.spaces > 0)
    <3>1. /\ Top.spaces = 0 /\ screen' = Scroll(screen) /\ GoTo("cursor")
          /\ UNCHANGED <<initVars, cursor, busy, i, todo, history>>
      BY <1>8, <2>2, <2>4 DEF Tab
    <3>2. IInv'
      BY <2>1, <3>1, Shown
    <3>3. call' # <<>>
      BY <2>1, <2>2, <3>1, Went DEF Places
    <3> QED BY <2>1, <3>2, <3>3 DEF UserSees
  <2> QED BY <2>3, <2>4
<1>9. CASE Char
  <2>1. /\ call # <<>> /\ Top.at = "cga" /\ Top.c # TAB /\ screen' = PutPlain(screen, Top.c)
        /\ GoTo("cursor") /\ before' = before
        /\ UNCHANGED <<initVars, cursor, busy, i, todo, history>>
    BY <1>9 DEF Char, At, history
  <2>2. call \in Seq(Frames) /\ Len(call) <= 2
    BY <2>1, AtScreen
  <2>3. IInv'
    BY <2>1, Shown
  <2>4. call' # <<>>
    BY <2>1, <2>2, Went DEF Places
  <2> QED BY <2>1, <2>3, <2>4 DEF UserSees
<1>10. CASE MoveCursor
  <2>1. call # <<>> /\ before' = before
    BY <1>10 DEF MoveCursor, At, history
  <2>2. CASE Len(call) = 2
    BY <1>10, <2>1, <2>2, InnerReturns DEF UserSees
  <2>3. CASE Len(call) # 2
    <3>1. /\ IInv' /\ call' = <<>> /\ setup' = "done" /\ call[1].c \in Bytes
          /\ [screen' EXCEPT !.pos = cursor'] = cga_putc(before, call[1].c)
      BY <1>10, <2>3, OuterReturns
    <3> QED BY <2>1, <3>1 DEF UserSees
  <2> QED BY <2>2, <2>3
<1>11. CASE (\E d \in Ports : Device(d)) \/ UNCHANGED vars
  <2>1. /\ UNCHANGED <<initVars, screen, cursor, call, i, todo, history>>
        /\ busy' \subseteq busy
    BY <1>11 DEF Device, vars
  <2>2. UserSees' = UserSees
    BY <2>1 DEF UserSees, initVars, history
  <2> QED BY <2>1, <2>2, Unmoved
<1> QED BY <1>1, <1>2, <1>3, <1>5, <1>6, <1>7, <1>8, <1>9, <1>10, <1>11 DEF Next, Kernel

(***************************************************************************)
(* A call writes the character, of a tab its spaces too, to both ports, in *)
(* order, and gives up on a device only after all its polls, whatever      *)
(* their number and whichever devices have stopped.                        *)
(***************************************************************************)
THEOREM LinesCorrect == Spec => []LinesCarryText
<1>1. IInv => LinesCarryText
  <2> SUFFICES ASSUME IInv PROVE LinesCarryText
    OBVIOUS
  <2>1. /\ adapter \in {"CGA", "MONO"} /\ setup \in {"probe", "choose", "serial_init", "done"}
        /\ present \subseteq Ports /\ busy \subseteq present
        /\ i \in 0 .. Polls /\ waited \in 0 .. Polls + 1
    BY DEF IInv, Setup, WaitInv
  <2>2. DOMAIN screen.buf = Cells /\ screen.pos \in Cells /\ cursor \in Cells
    BY DEF IInv, ScreenInv, WellFormed
  <2>3. Len(call) <= 2 /\ (Len(call) = 2 => call[1].c = TAB /\ call[2].c = Blank)
    <3>1. ASSUME Len(call) = 2 PROVE call[1].c = TAB /\ call[2].c = Blank
      <4>1. call[1].c = TAB /\ Top.c = Blank
        BY <3>1 DEF IInv, CallOK
      <4>2. Top = call[2]
        BY <3>1 DEF Top, Last
      <4> QED BY <4>1, <4>2
    <3> QED BY <3>1 DEF IInv, CallOK
  <2>4. ~hasty /\ (call = <<>> => \A d \in Ports : sent[d] = due)
    BY DEF IInv, WaitInv, LinesInv
  <2> QED BY <2>1, <2>2, <2>3, <2>4 DEF LinesCarryText, TypeOK
<1> QED BY InitInv, NextInv, <1>1, PTL DEF Spec

\* Terminal has the operators of Cga, on the same screen.
LEMMA SameScreen ==
    /\ Screen!Screens = Screens /\ Screen!Control = Control
    /\ \A s, c : Screen!cga_putc(s, c) = cga_putc(s, c)
<1>1. /\ Screen!CRT_SIZE = CRT_SIZE /\ Screen!Cells = Cells /\ Screen!Blank = Blank
      /\ Screen!BS = BS /\ Screen!NL = NL /\ Screen!CR = CR /\ Screen!TAB = TAB
  BY DEF Screen!CRT_SIZE, CRT_SIZE, Screen!Cells, Cells, Screen!Blank, Blank, Screen!BS, BS,
         Screen!NL, NL, Screen!CR, CR, Screen!TAB, TAB
<1>2. Screen!Screens = Screens /\ Screen!Control = Control
  BY <1>1 DEF Screen!Screens, Screens, Screen!Control, Control
<1>3. \A b, to, from, n : Screen!memmove(b, to, from, n) = memmove(b, to, from, n)
  BY DEF Screen!memmove, memmove
<1>4. ASSUME NEW s PROVE Screen!Scroll(s) = Scroll(s)
  BY <1>1, <1>3 DEF Screen!Scroll, Scroll
<1>5. ASSUME NEW s, NEW c
      PROVE  /\ Screen!Backspace(s) = Backspace(s) /\ Screen!Newline(s) = Newline(s)
             /\ Screen!Return(s) = Return(s) /\ Screen!Show(s, c) = Show(s, c)
  BY <1>1 DEF Screen!Backspace, Backspace, Screen!Newline, Newline, Screen!RowStart, RowStart,
              Screen!Return, Return, Screen!Show, Show
<1>6. ASSUME NEW s, NEW c PROVE Screen!PutPlain(s, c) = PutPlain(s, c)
  BY <1>1, <1>4, <1>5 DEF Screen!PutPlain, PutPlain
<1>7. ASSUME NEW s PROVE Screen!FiveSpaces(s) = FiveSpaces(s)
  BY <1>1, <1>6 DEF Screen!FiveSpaces, FiveSpaces
<1>8. ASSUME NEW s, NEW c PROVE Screen!cga_putc(s, c) = cga_putc(s, c)
  BY <1>1, <1>4, <1>6, <1>7 DEF Screen!cga_putc, cga_putc
<1> QED BY <1>2, <1>8

(***************************************************************************)
(* The screen and its cursor go from call to call as Terminal says: the    *)
(* probe leaves no trace, and the nested calls of a tab add up to one      *)
(* character, wherever they scroll.                                        *)
(***************************************************************************)
THEOREM OutputImplementsTerminal == Spec => ImplementsTerminal
<1>1. Init => Screen!Init
  BY InitInv, SameScreen DEF Screen!Init, UserSees
<1>2. IInv /\ [Next]_vars => [Screen!Next]_UserSees
  <2> SUFFICES ASSUME IInv, [Next]_vars PROVE [Screen!Next]_UserSees
    OBVIOUS
  <2>1. CASE UserSees' = UserSees
    BY <2>1
  <2>2. ASSUME NEW c \in Bytes, UserSees' = cga_putc(UserSees, c)
        PROVE  Screen!Next
    <3>1. UserSees' = Screen!cga_putc(UserSees, c) /\ c \in Glyph \cup Screen!Control
      BY <2>2, SameScreen DEF Bytes
    <3> QED BY <3>1 DEF Screen!Next, Screen!cputchar, UserSees
  <2> QED BY <2>1, <2>2, NextInv
<1>3. ImplementsTerminal <=> Screen!Init /\ [][Screen!Next]_UserSees
  BY DEF ImplementsTerminal, Screen!Spec, UserSees
<1> QED BY InitInv, NextInv, <1>1, <1>2, <1>3, PTL DEF Spec
=================================================================================
