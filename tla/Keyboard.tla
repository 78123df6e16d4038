-------------------------------- MODULE Keyboard --------------------------------
(***************************************************************************)
(* kbd_proc_data of kern/console.c: scan codes to characters, with the     *)
(* static `shift` between calls, behind a keyboard whose keys go down and  *)
(* up at any time and whose codes wait in a queue.                         *)
(*                                                                         *)
(* Scan codes are the real ones.  The keys are those whose handling        *)
(* differs: the modifiers, CapsLock, a letter, a digit and Delete, with    *)
(* the entries of the four maps that these reach.                          *)
(***************************************************************************)
EXTENDS Integers, SequencesExt

CONSTANTS
    Keyboards, \* keyboards, as the sets of their keys
    QueueMax   \* bound: events not processed yet

\* The keys that Make gives a code.
AllKeys == {"lshift", "rshift", "lctrl", "rctrl", "lalt", "ralt",
            "caps", "a", "1", "delete"}

ASSUME KeyboardsHaveCodes == \A ks \in Keyboards : ks \subseteq AllKeys

VARIABLES
    keys,      \* the keys of the keyboard
    shift,     \* kbd_proc_data's static, as the set of its flags
    ret,       \* what kbd_proc_data returned last
    rebooted,  \* written to port 0x92
    queue,     \* events on their way: [bytes, char, reset]
    down,      \* keys held down, at the keyboard
    caps       \* history: CapsLock was pressed an odd number of times

kbdVars == <<shift, ret, rebooted>>
vars    == <<keys, kbdVars, queue, down, caps>>

E0 == 224
KEY_DEL == 233
Ctrl(c) == c - 64 \* C(x)

-----------------------------------------------------------------------------
\* The keyboard.  What a key sends when it goes down; the last byte has the
\* top bit set when it goes up.
Make(key) ==
    CASE key = "lshift" -> <<42>>
      [] key = "rshift" -> <<54>>
      [] key = "lctrl"  -> <<29>>
      [] key = "rctrl"  -> <<E0, 29>>
      [] key = "lalt"   -> <<56>>
      [] key = "ralt"   -> <<E0, 56>>
      [] key = "caps"   -> <<58>>
      [] key = "a"      -> <<30>>
      [] key = "1"      -> <<2>>
      [] key = "delete" -> <<E0, 83>>

Break(key) == Front(Make(key)) \o <<Last(Make(key)) + 128>>

KeysOf(flag) ==
    CASE flag = "SHIFT" -> {"lshift", "rshift"} \cap keys
      [] flag = "CTL"   -> {"lctrl", "rctrl"} \cap keys
      [] flag = "ALT"   -> {"lalt", "ralt"} \cap keys

Modifiers == {"SHIFT", "CTL", "ALT"}
Held(flag) == KeysOf(flag) \cap down # {}

\* What a key means with the keys held and CapsLock as they are: a control
\* character under Ctrl, else the shifted or the plain one, CapsLock
\* exchanging the cases of letters.
Meaning(key) ==
    CASE key = "a" -> IF Held("CTL") THEN Ctrl(65)
                      ELSE IF Held("SHIFT") # caps THEN 65 ELSE 97
      [] key = "1" -> IF Held("CTL") THEN 0 ELSE IF Held("SHIFT") THEN 33 ELSE 49
      [] key = "delete" -> KEY_DEL
      [] OTHER -> 0

Event(bytes, char, reset) == [bytes |-> bytes, char |-> char, reset |-> reset]

\* A key that is held down repeats its code; CapsLock does not.
Press(key) ==
    /\ key = "caps" => key \notin down
    /\ Len(queue) < QueueMax
    /\ queue' = Append(queue, Event(Make(key), Meaning(key),
                                    key = "delete" /\ Held("CTL") /\ Held("ALT")))
    /\ down' = down \cup {key}
    /\ caps' = IF key = "caps" THEN ~caps ELSE caps
    /\ UNCHANGED <<keys, kbdVars>>

Release(key) ==
    /\ key \in down
    /\ Len(queue) < QueueMax
    /\ queue' = Append(queue, Event(Break(key), 0, FALSE))
    /\ down' = down \ {key}
    /\ UNCHANGED <<keys, kbdVars, caps>>

-----------------------------------------------------------------------------
shiftcode(data) ==
    CASE data \in {29, 157}  -> {"CTL"}
      [] data \in {42, 54}   -> {"SHIFT"}
      [] data \in {56, 184}  -> {"ALT"}
      [] OTHER               -> {}

togglecode(data) ==
    CASE data = 58 -> {"CAPSLOCK"}
      [] data = 69 -> {"NUMLOCK"}
      [] data = 70 -> {"SCROLLLOCK"}
      [] OTHER     -> {}

\* The maps at 'a' (0x1E), '1' (0x02) and KEY_DEL (0xD3); no other key in
\* use has a character.
normalmap(data) == CASE data = 30 -> 97 [] data = 2 -> 49 [] data = 211 -> KEY_DEL [] OTHER -> 0
shiftmap(data)  == CASE data = 30 -> 65 [] data = 2 -> 33 [] data = 211 -> KEY_DEL [] OTHER -> 0
ctlmap(data)    == CASE data = 30 -> Ctrl(65) [] data = 211 -> KEY_DEL [] OTHER -> 0

charcode(flags, data) ==
    IF "CTL" \in flags THEN ctlmap(data)
    ELSE IF "SHIFT" \in flags THEN shiftmap(data) ELSE normalmap(data)

SwapCase(c) == IF c \in 97 .. 122 THEN c - 32 ELSE IF c \in 65 .. 90 THEN c + 32 ELSE c

\* One byte read by kbd_proc_data.
data == Head(Head(queue).bytes)
Consumed ==
    queue' = IF Len(Head(queue).bytes) = 1 THEN Tail(queue)
             ELSE [queue EXCEPT ![1].bytes = Tail(@)]

Escape ==
    /\ queue # <<>> /\ data = E0
    /\ shift' = shift \cup {"E0ESC"}
    /\ ret' = 0
    /\ Consumed
    /\ UNCHANGED <<keys, rebooted, down, caps>>

\* Mutant: the release of an escaped key leaves the escape pending.
KeyReleased_KeepsEscape ==
    /\ queue # <<>> /\ data # E0 /\ data >= 128
    /\ shift' = shift \ shiftcode(IF "E0ESC" \in shift THEN data ELSE data - 128)
    /\ ret' = 0
    /\ Consumed
    /\ UNCHANGED <<keys, rebooted, down, caps>>

KeyReleased ==
    LET code == IF "E0ESC" \in shift THEN data ELSE data - 128 IN
    /\ queue # <<>> /\ data # E0 /\ data >= 128
    /\ shift' = shift \ (shiftcode(code) \cup {"E0ESC"})
    /\ ret' = 0
    /\ Consumed
    /\ UNCHANGED <<keys, rebooted, down, caps>>

ResetHeld_Either(flags) == {"CTL", "ALT"} \cap flags # {} \* mutant
ResetHeld(flags) == {"CTL", "ALT"} \subseteq flags

KeyPressed ==
    LET code  == IF "E0ESC" \in shift THEN data + 128 ELSE data
        flags == SymDiff((shift \ {"E0ESC"}) \cup shiftcode(code), togglecode(code))
        c     == charcode(flags, code)
    IN /\ queue # <<>> /\ data < 128
       /\ shift' = flags
       /\ ret' = IF "CAPSLOCK" \in flags THEN SwapCase(c) ELSE c
       /\ rebooted' = (rebooted \/ (ResetHeld(flags) /\ c = KEY_DEL))
       /\ Consumed
       /\ UNCHANGED <<keys, down, caps>>

kbd_proc_data == Escape \/ KeyReleased \/ KeyPressed

Init ==
    /\ keys \in Keyboards
    /\ shift = {} /\ ret = 0 /\ rebooted = FALSE
    /\ queue = <<>> /\ down = {} /\ caps = FALSE

Next == ~rebooted /\ ((\E key \in keys : Press(key) \/ Release(key)) \/ kbd_proc_data)

Spec == Init /\ [][Next]_vars

-----------------------------------------------------------------------------
(***************************************************************************)
(* When the codes are all processed no modifier is stuck: a flag is set    *)
(* only if a key of it is down, and is set if its only key is; no escape   *)
(* is pending, and CapsLock is as it was left.                             *)
(***************************************************************************)
NoStuckModifier ==
    queue = <<>> =>
        /\ \A flag \in Modifiers :
              /\ flag \in shift => Held(flag)
              /\ Held(flag) /\ Cardinality(KeysOf(flag)) = 1 => flag \in shift
        /\ "E0ESC" \notin shift
        /\ "CAPSLOCK" \in shift <=> caps

(***************************************************************************)
(* Each key gives the character it meant at the moment it was pressed,     *)
(* whatever was pressed or released since and however late its codes are   *)
(* read, if no modifier has two keys.                                      *)
(***************************************************************************)
DecodesAsPressed ==
    [][/\ \A flag \in Modifiers : Cardinality(KeysOf(flag)) <= 1
       /\ queue # <<>> /\ queue' = Tail(queue)
       => ret' = Head(queue).char /\ rebooted' = Head(queue).reset]_vars

(***************************************************************************)
(* The machine is reset only by a Delete pressed with Ctrl and Alt down.   *)
(***************************************************************************)
ResetOnlyOnRequest == [][rebooted' => Head(queue).reset]_vars
=================================================================================
