-------------------------------- MODULE ConsInput --------------------------------
(***************************************************************************)
(* The console's input side, kern/console.c: getchar polls cons_getc,      *)
(* which drains the UART and the keyboard controller into the circular     *)
(* buffer `cons` and takes one character out.  The devices receive bytes   *)
(* between any two of the kernel's device reads.  Interrupts are off, so   *)
(* cons_intr runs only inside cons_getc.                                   *)
(***************************************************************************)
EXTENDS Integers, Sequences, Functions

CONSTANTS
    Char,         \* what a device read can return for a character
    NoChar,       \* 0: a byte that is no character, or the lack of one
    CONSBUFSIZE,
    KbdQueue,     \* bytes the keyboard can have on their way
    Mouse,        \* a byte from the mouse, which shares the keyboard's controller
    MaxAhead      \* bound: characters typed and not read yet

ASSUME CharsAreNotZero == NoChar \notin Char /\ Mouse \notin Char \cup {NoChar}
ASSUME BufHasRoom      == CONSBUFSIZE \in Nat /\ CONSBUFSIZE > 1
ASSUME KbdQueueNat     == KbdQueue \in Nat

VARIABLES
    serial_exists, \* what serial_init found
    uart,          \* the receive register: <<>> or <<byte>>
    kbd,           \* bytes in the keyboard controller, head in its output buffer
    buf, rpos, wpos,
    pc,            \* where getchar's loop is; "idle" between two calls
    got,           \* what cons_getc returned last
    waiting        \* history: characters that came in, not taken and not lost

devVars  == <<serial_exists, uart, kbd>>
ringVars == <<buf, rpos, wpos, waiting>>
vars     == <<devVars, ringVars, pc, got>>

Positions == 0 .. CONSBUFSIZE - 1

\* A keyboard byte that is no character, or one from the mouse.
KbdByte == Char \cup {NoChar, Mouse}

Init ==
    /\ serial_exists \in BOOLEAN
    /\ uart = <<>> /\ kbd = <<>>
    /\ buf = [k \in Positions |-> NoChar]
    /\ rpos = 0 /\ wpos = 0
    /\ waiting = <<>>
    /\ pc = "idle" /\ got = NoChar

-----------------------------------------------------------------------------
\* The devices.  The UART's FIFO is off: a byte that was not read in time is
\* overwritten.  The keyboard holds its bytes until the controller is free.
Ahead == Len(waiting) + Len(uart) + Len(kbd)

SerialArrives(c) ==
    /\ serial_exists /\ Ahead < MaxAhead
    /\ uart' = <<c>>
    /\ UNCHANGED <<serial_exists, kbd, ringVars, pc, got>>

KbdArrives(c) ==
    /\ Len(kbd) < KbdQueue /\ Ahead < MaxAhead
    /\ kbd' = Append(kbd, c)
    /\ UNCHANGED <<serial_exists, uart, ringVars, pc, got>>

-----------------------------------------------------------------------------
At(place) == pc = place
NextPos(k) == IF k + 1 = CONSBUFSIZE THEN 0 ELSE k + 1

\* What the history says of a character that comes in: one that fills the
\* last place makes the buffer look empty, and all of it is lost.
Queued(c) == IF Len(waiting) + 1 = CONSBUFSIZE THEN <<>> ELSE Append(waiting, c)

\* Mutant: the write position wraps one byte late.
cons_intr_Put_LateWrap(c) ==
    IF c = NoChar THEN UNCHANGED ringVars
    ELSE /\ buf' = [buf EXCEPT ![wpos] = c]
         /\ wpos' = IF wpos = CONSBUFSIZE THEN 0 ELSE wpos + 1
         /\ waiting' = Queued(c)
         /\ UNCHANGED rpos

\* Mutant: buf[++wpos] for buf[wpos++].
cons_intr_Put_PreIncrement(c) ==
    IF c = NoChar THEN UNCHANGED ringVars
    ELSE /\ buf' = [buf EXCEPT ![NextPos(wpos)] = c]
         /\ wpos' = NextPos(wpos)
         /\ waiting' = Queued(c)
         /\ UNCHANGED rpos

\* The body of cons_intr's loop: zeroes are dropped.
cons_intr_Put(c) ==
    IF c = NoChar THEN UNCHANGED ringVars
    ELSE /\ buf' = [buf EXCEPT ![wpos] = c]
         /\ wpos' = NextPos(wpos)
         /\ waiting' = Queued(c)
         /\ UNCHANGED rpos

getchar ==
    /\ At("idle")
    /\ pc' = "serial_intr"
    /\ UNCHANGED <<devVars, ringVars, got>>

\* One round of cons_intr(serial_proc_data), or its end.
serial_intr ==
    /\ At("serial_intr")
    /\ IF serial_exists /\ uart # <<>>
       THEN cons_intr_Put(uart[1]) /\ uart' = <<>> /\ UNCHANGED pc
       ELSE pc' = "kbd_intr" /\ UNCHANGED <<uart, ringVars>>
    /\ UNCHANGED <<serial_exists, kbd, got>>

\* kbd_proc_data returns -1 and reads nothing while the output buffer is
\* empty or holds a byte from the mouse.
KbdHasData == kbd # <<>> /\ Head(kbd) # Mouse

\* One round of cons_intr(kbd_proc_data), or its end.
kbd_intr ==
    /\ At("kbd_intr")
    /\ IF KbdHasData
       THEN cons_intr_Put(Head(kbd)) /\ kbd' = Tail(kbd) /\ UNCHANGED pc
       ELSE pc' = "cons_getc" /\ UNCHANGED <<kbd, ringVars>>
    /\ UNCHANGED <<serial_exists, uart, got>>

\* Mutant: a read position past the write position is taken for an empty
\* buffer.
cons_getc_Stuck ==
    /\ At("cons_getc")
    /\ IF rpos < wpos
       THEN /\ got' = buf[rpos]
            /\ rpos' = NextPos(rpos)
            /\ waiting' = Tail(waiting)
            /\ pc' = "idle"
       ELSE /\ got' = NoChar
            /\ pc' = "serial_intr"
            /\ UNCHANGED <<rpos, waiting>>
    /\ UNCHANGED <<devVars, buf, wpos>>

\* The rest of cons_getc.  getchar calls it again when it returns 0.
cons_getc ==
    /\ At("cons_getc")
    /\ IF rpos # wpos
       THEN /\ got' = buf[rpos]
            /\ rpos' = NextPos(rpos)
            /\ waiting' = Tail(waiting)
            /\ pc' = "idle"
       ELSE /\ got' = NoChar
            /\ pc' = "serial_intr"
            /\ UNCHANGED <<rpos, waiting>>
    /\ UNCHANGED <<devVars, buf, wpos>>

Devices ==
    \/ \E c \in Char \cup {NoChar} : SerialArrives(c)
    \/ \E c \in KbdByte : KbdArrives(c)

Kernel == getchar \/ serial_intr \/ kbd_intr \/ cons_getc

Next == Devices \/ Kernel

\* The monitor calls getchar for ever and nothing else runs.
Spec == Init /\ [][Next]_vars /\ WF_vars(Kernel)

-----------------------------------------------------------------------------
\* Every variable stays in its range; the positions are indices of buf.
TypeOK ==
    /\ serial_exists \in BOOLEAN
    /\ uart \in Seq(Char \cup {NoChar}) /\ Len(uart) <= 1
    /\ kbd \in Seq(KbdByte) /\ Len(kbd) <= KbdQueue
    /\ buf \in [Positions -> Char \cup {NoChar}]
    /\ rpos \in Positions /\ wpos \in Positions
    /\ waiting \in Seq(Char)
    /\ pc \in {"idle", "serial_intr", "kbd_intr", "cons_getc"}
    /\ got \in Char \cup {NoChar}

\* The characters from rpos up to wpos, around the end of the buffer.
Contents ==
    [k \in 1 .. (wpos - rpos) % CONSBUFSIZE |-> buf[(rpos + k - 1) % CONSBUFSIZE]]

(***************************************************************************)
(* The buffer is a queue: it holds the characters that came in and were    *)
(* not taken, in their order, wherever the positions stand.  Writing never *)
(* waits for reading: the character that fills it empties it, and so       *)
(* characters are only ever lost CONSBUFSIZE at a time.                    *)
(***************************************************************************)
RingIsQueue == TypeOK /\ Contents = waiting

(***************************************************************************)
(* cons_getc returns the oldest character of the queue, and 0 only when    *)
(* the queue is empty (kern/console.c:409, which knows no other reason).   *)
(***************************************************************************)
OldestFirst ==
    [][At("cons_getc") => got' = IF waiting = <<>> THEN NoChar ELSE Head(waiting)]_<<pc, got>>

(***************************************************************************)
(* Once the devices are quiet, all that was typed and not lost is read,    *)
(* except behind a byte from the mouse: kbd_proc_data does not read that   *)
(* byte, although kern/console.c:325 says "Ignore data from mouse", and so *)
(* never gets past it.  While they are not quiet, cons_intr goes on for as *)
(* long as bytes come in.                                                  *)
(***************************************************************************)
Quiet == <>[][~Devices]_vars
AllTypedRead == Quiet => <>[](waiting = <<>> /\ uart = <<>> /\ ~KbdHasData)
==================================================================================
