-------------------------------- MODULE Terminal --------------------------------
(***************************************************************************)
(* What cputchar promises the rest of the kernel: a screen on which one    *)
(* character after the other appears, each at once.  Readline is written   *)
(* on this screen; ConsOutput shows that the drivers keep the promise.     *)
(***************************************************************************)
EXTENDS Cga

VARIABLE shown  \* the cells, and the place of the cursor the user sees

Init == shown \in Screens

cputchar(c) == shown' = cga_putc(shown, c)

Next == \E c \in Glyph \cup Control : cputchar(c)

Spec == Init /\ [][Next]_shown
=================================================================================
