------------------------------- MODULE ConsOutput -------------------------------
(***************************************************************************)
(* The console's output side, kern/console.c: cons_init, and cons_putc     *)
(* with its three drivers.  serial_putc and lpt_putc poll the status of    *)
(* their port, a limited number of times, and write.  cga_putc prints a    *)
(* tab by five nested calls of cons_putc.  The UART and the printer work   *)
(* beside the kernel, or have stopped, or are not there.                   *)
(***************************************************************************)
EXTENDS Cga, FiniteSets

CONSTANTS
    Polls,     \* 12800
    BiosText,  \* what can be on the screen when the kernel starts
    NoSerial,  \* the text "Serial port does not exist!\n"
    Printable  \* the bytes that are printed

Mark == "0xA55A"

ASSUME PollsOK     == Polls \in Nat
ASSUME BiosTextOK  == BiosText \subseteq [Cells -> Glyph]
ASSUME PrintableOK == Printable \subseteq Glyph \cup Control /\ NoSerial \in Seq(Glyph)
ASSUME MarkIsNoGlyph == Mark \notin Glyph

VARIABLES
    adapter,    \* the display adapter in the machine, "CGA" or "MONO"
    present,    \* the ports that have a device
    setup,      \* how far cons_init is
    was, addr_6845,
    screen,     \* crt_buf and crt_pos
    cursor,     \* the adapter's cursor registers
    busy,       \* the devices that hold a byte and have not passed it on
    call,       \* the calls of cons_putc, the inner one last
    i,          \* the polling loops' counter
    todo,       \* the rest of cons_init's message
    due, before, \* history: the bytes the last call has to send, and the screen
                \* when it began
    sent,       \* history: the bytes it wrote to each port
    waited,     \* history: the looks at a busy device since the last write
    hasty       \* history: a byte was lost before the wait had run out

initVars == <<adapter, present, setup, was, addr_6845>>
history == <<due, before, sent, waited, hasty>>
vars == <<initVars, screen, cursor, busy, call, i, todo, history>>

Ports == {"serial", "lpt"}

Init ==
    /\ adapter \in {"CGA", "MONO"}
    /\ present \in SUBSET Ports
    /\ setup = "probe"
    /\ was = Blank /\ addr_6845 = "none"
    /\ screen \in {[buf |-> text, pos |-> 0] : text \in BiosText}
    /\ cursor \in Cells
    /\ busy = {}
    /\ call = <<>> /\ i = 0 /\ todo = <<>>
    /\ due = <<>> /\ sent = [d \in Ports |-> <<>>]
    /\ before = [screen EXCEPT !.pos = cursor]
    /\ waited = 0 /\ hasty = FALSE

-----------------------------------------------------------------------------
\* cons_init.  A store to CGA_BUF is kept only where there is a CGA adapter.
Probe ==
    /\ setup = "probe"
    /\ IF adapter = "CGA"
       THEN was' = screen.buf[0] /\ screen' = [screen EXCEPT !.buf[0] = Mark]
       ELSE UNCHANGED <<was, screen>>
    /\ setup' = "choose"
    /\ UNCHANGED <<adapter, present, addr_6845, cursor, busy, call, i, todo, history>>

\* Mutant: the cell probed keeps the mark.
Choose_KeepsMark ==
    /\ setup = "choose"
    /\ addr_6845' = IF screen.buf[0] = Mark THEN "CGA" ELSE "MONO"
    /\ screen' = [screen EXCEPT !.pos = cursor]
    /\ setup' = "serial_init"
    /\ UNCHANGED <<adapter, present, was, cursor, busy, call, i, todo, history>>

\* The rest of cga_init.
Choose ==
    /\ setup = "choose"
    /\ IF screen.buf[0] = Mark
       THEN addr_6845' = "CGA"
            /\ screen' = [buf |-> [screen.buf EXCEPT ![0] = was], pos |-> cursor]
       ELSE addr_6845' = "MONO" /\ screen' = [screen EXCEPT !.pos = cursor]
    /\ setup' = "serial_init"
    /\ UNCHANGED <<adapter, present, was, cursor, busy, call, i, todo, history>>

\* A status register that reads 0xFF: there is no serial port.
serial_init ==
    /\ setup = "serial_init"
    /\ todo' = IF "serial" \in present THEN <<>> ELSE NoSerial
    /\ setup' = "done"
    /\ UNCHANGED <<adapter, present, was, addr_6845, screen, cursor, busy, call, i, history>>

-----------------------------------------------------------------------------
Top == Last(call)
At(place) == call # <<>> /\ Top.at = place
Frame(c) == [c |-> c, at |-> "serial_wait", spaces |-> 5]
GoTo(place) == call' = [call EXCEPT ![Len(call)].at = place]

\* The bytes of a character on the lines: a tab is sent, and so are its spaces.
OnLine(c) == IF c = TAB THEN <<TAB, Blank, Blank, Blank, Blank, Blank>> ELSE <<c>>

cons_putc(c) ==
    /\ setup = "done" /\ call = <<>>
    /\ call' = <<Frame(c)>> /\ i' = 0
    /\ due' = OnLine(c) /\ sent' = [d \in Ports |-> <<>>]
    /\ before' = screen
    /\ waited' = 0
    /\ UNCHANGED <<initVars, screen, cursor, busy, hasty>>

cprintf == todo # <<>> /\ todo' = Tail(todo) /\ cons_putc(Head(todo))

cputchar(c) == todo = <<>> /\ UNCHANGED todo /\ cons_putc(c)

\* Mutant: the wait has no limit.
Wait_Forever(d, wait, write) ==
    /\ At(wait)
    /\ d \notin busy
    /\ GoTo(write)
    /\ UNCHANGED <<initVars, screen, cursor, busy, i, todo, history>>

\* One round of the loop: the status is read before the counter.
Wait(d, wait, write) ==
    /\ At(wait)
    /\ IF d \in busy /\ i < Polls THEN i' = i + 1 /\ UNCHANGED call
                                  ELSE GoTo(write) /\ UNCHANGED i
    /\ waited' = IF d \in busy THEN waited + 1 ELSE waited
    /\ UNCHANGED <<initVars, screen, cursor, busy, todo, due, before, sent, hasty>>

\* Mutant: the counter is not set back for the next wait.
Write_KeepsCounter(d, write, next) ==
    /\ At(write)
    /\ sent' = [sent EXCEPT ![d] = Append(@, Top.c)]
    /\ busy' = busy \cup ({d} \cap present)
    /\ hasty' = (hasty \/ (d \in busy /\ waited <= Polls))
    /\ waited' = 0
    /\ GoTo(next) /\ UNCHANGED i
    /\ UNCHANGED <<initVars, screen, cursor, todo, due, before>>

\* The write that follows the wait, without another look at the status.  A
\* byte written to a busy UART replaces the one in it, and a busy printer
\* does not see the strobe: one byte is lost.
Write(d, write, next) ==
    /\ At(write)
    /\ sent' = [sent EXCEPT ![d] = Append(@, Top.c)]
    /\ busy' = busy \cup ({d} \cap present)
    /\ hasty' = (hasty \/ (d \in busy /\ waited <= Polls))
    /\ waited' = 0
    /\ GoTo(next) /\ i' = 0
    /\ UNCHANGED <<initVars, screen, cursor, todo, due, before>>

serial_putc == Wait("serial", "serial_wait", "serial_write")
               \/ Write("serial", "serial_write", "lpt_wait")
lpt_putc    == Wait("lpt", "lpt_wait", "lpt_write")
               \/ Write("lpt", "lpt_write", "cga")

\* cga_putc up to the cursor, of a tab by way of its spaces.
Tab ==
    /\ At("cga") /\ Top.c = TAB
    /\ IF Top.spaces > 0
       THEN /\ call' = Append([call EXCEPT ![Len(call)].spaces = @ - 1], Frame(Blank))
            /\ i' = 0
            /\ UNCHANGED screen
       ELSE /\ screen' = Scroll(screen)
            /\ GoTo("cursor") /\ UNCHANGED i
    /\ UNCHANGED <<initVars, cursor, busy, todo, history>>

Char ==
    /\ At("cga") /\ Top.c # TAB
    /\ screen' = PutPlain(screen, Top.c)
    /\ GoTo("cursor")
    /\ UNCHANGED <<initVars, cursor, busy, i, todo, history>>

\* "move that little blinky thing", and return.
MoveCursor ==
    /\ At("cursor")
    /\ cursor' = IF addr_6845 = adapter THEN screen.pos ELSE cursor
    /\ call' = Front(call)
    /\ UNCHANGED <<initVars, screen, busy, i, todo, history>>

\* A device passes its byte on.  Nothing says that it does.
Device(d) ==
    /\ d \in busy
    /\ busy' = busy \ {d}
    /\ UNCHANGED <<initVars, screen, cursor, call, i, todo, history>>

Kernel ==
    \/ Probe \/ Choose \/ serial_init
    \/ cprintf
    \/ serial_putc \/ lpt_putc
    \/ Tab \/ Char \/ MoveCursor

Next ==
    \/ Kernel
    \/ \E c \in Printable : cputchar(c)
    \/ \E d \in Ports : Device(d)

\* The processor runs; the devices need not.
Spec == Init /\ [][Next]_vars /\ WF_vars(Kernel)

-----------------------------------------------------------------------------
\* Calls are at most two deep, a space inside a tab, and no wait is longer
\* than Polls.
TypeOK ==
    /\ adapter \in {"CGA", "MONO"} /\ present \subseteq Ports /\ busy \subseteq present
    /\ setup \in {"probe", "choose", "serial_init", "done"}
    /\ DOMAIN screen.buf = Cells /\ screen.pos \in Cells /\ cursor \in Cells
    /\ Len(call) <= 2 /\ (Len(call) = 2 => call[1].c = TAB /\ call[2].c = Blank)
    /\ i \in 0 .. Polls /\ waited \in 0 .. Polls + 1

(***************************************************************************)
(* A call writes the character, of a tab its spaces too, to both ports, in *)
(* order, and a device loses a byte only when it stayed busy through all   *)
(* the polls of a wait (serial_putc, lpt_putc: 12800), those for the other *)
(* device or an earlier byte not counted.                                  *)
(***************************************************************************)
LinesCarryText ==
    /\ TypeOK
    /\ ~hasty
    /\ call = <<>> => \A d \in Ports : sent[d] = due

(***************************************************************************)
(* The screen and its hardware cursor go from one call of cputchar to the  *)
(* next as Terminal says, whichever adapter is there, from what the BIOS   *)
(* left: cga_init's probe leaves no trace, and the five nested calls of a  *)
(* tab, each of which may scroll, add up to one character.                 *)
(***************************************************************************)
Screen == INSTANCE Terminal WITH
    shown <- IF setup = "done" /\ call = <<>> THEN [screen EXCEPT !.pos = cursor]
                                              ELSE before
ImplementsTerminal == Screen!Spec

(***************************************************************************)
(* cons_init and every call of cputchar return, although the devices may   *)
(* have stopped for good.                                                  *)
(***************************************************************************)
CallsReturn == []<>(setup = "done" /\ call = <<>> /\ todo = <<>>)
=================================================================================
