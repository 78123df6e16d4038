----------------------------- MODULE ConsInputProofs -----------------------------
(***************************************************************************)
(* The console's input buffer is a queue, for a buffer of any size and any *)
(* bytes.  RingIsQueue is inductive as it stands; what its proof takes is  *)
(* the arithmetic of positions that wrap.                                  *)
(***************************************************************************)
EXTENDS ConsInput, TLAPS, SequenceTheorems

\* The steps from one position to another, and the position of the k-th
\* character from one.
Distance(from, to) == (to - from) % CONSBUFSIZE
Place(from, k) == (from + k - 1) % CONSBUFSIZE

-----------------------------------------------------------------------------
(***************************************************************************)
(* Positions wrap at most once in a difference or a sum of two of them.    *)
(***************************************************************************)
LEMMA OneWrap ==
    ASSUME NEW x \in Int
    PROVE  /\ x \in 0 .. CONSBUFSIZE - 1 => x % CONSBUFSIZE = x
           /\ x \in CONSBUFSIZE .. 2 * CONSBUFSIZE - 1 =>
                x % CONSBUFSIZE = x - CONSBUFSIZE
           /\ x \in 1 - CONSBUFSIZE .. -1 => x % CONSBUFSIZE = x + CONSBUFSIZE
BY BufHasRoom

LEMMA Wrapped ==
    ASSUME NEW from \in Positions
    PROVE  /\ \A to \in Positions :
                Distance(from, to) = IF from <= to THEN to - from
                                     ELSE to - from + CONSBUFSIZE
           /\ \A k \in 1 .. CONSBUFSIZE :
                Place(from, k) = IF from + k - 1 < CONSBUFSIZE THEN from + k - 1
                                 ELSE from + k - 1 - CONSBUFSIZE
<1>1. ASSUME NEW to \in Positions
      PROVE  Distance(from, to) = IF from <= to THEN to - from
                                  ELSE to - from + CONSBUFSIZE
  <2>1. to - from \in Int /\ (from <= to => to - from \in 0 .. CONSBUFSIZE - 1)
        /\ (~(from <= to) => to - from \in 1 - CONSBUFSIZE .. -1)
    BY BufHasRoom DEF Positions
  <2> QED BY <2>1, OneWrap DEF Distance
<1>2. ASSUME NEW k \in 1 .. CONSBUFSIZE
      PROVE  Place(from, k) = IF from + k - 1 < CONSBUFSIZE THEN from + k - 1
                              ELSE from + k - 1 - CONSBUFSIZE
  <2>1. PICK x : x = from + k - 1
    OBVIOUS
  <2>2. x \in Int /\ (x < CONSBUFSIZE => x \in 0 .. CONSBUFSIZE - 1)
        /\ (~(x < CONSBUFSIZE) => x \in CONSBUFSIZE .. 2 * CONSBUFSIZE - 1)
    BY <2>1, BufHasRoom DEF Positions
  <2>3. x % CONSBUFSIZE = IF x < CONSBUFSIZE THEN x ELSE x - CONSBUFSIZE
    BY <2>2, OneWrap
  <2>4. Place(from, k) = x % CONSBUFSIZE
    BY <2>1 DEF Place
  <2> QED BY <2>1, <2>3, <2>4, BufHasRoom DEF Positions
<1> QED BY <1>1, <1>2

(***************************************************************************)
(* Moving either position on by one.                                       *)
(***************************************************************************)
LEMMA MovedOn ==
    ASSUME NEW from \in Positions, NEW to \in Positions
    PROVE  /\ NextPos(to) \in Positions
           /\ Distance(from, to) \in 0 .. CONSBUFSIZE - 1
           /\ Distance(from, to) = 0 <=> from = to
           /\ Distance(from, NextPos(to)) =
                IF Distance(from, to) + 1 = CONSBUFSIZE THEN 0
                ELSE Distance(from, to) + 1
           /\ from # to => Distance(NextPos(from), to) = Distance(from, to) - 1
           /\ Place(from, Distance(from, to) + 1) = to
           /\ \A k \in 1 .. Distance(from, to) :
                Place(from, k) \in Positions /\ Place(from, k) # to
           /\ Place(from, 1) = from
           /\ \A k \in 1 .. CONSBUFSIZE - 1 : Place(NextPos(from), k) = Place(from, k + 1)
<1>1. CONSBUFSIZE \in Nat /\ CONSBUFSIZE > 1 /\ from \in 0 .. CONSBUFSIZE - 1
      /\ to \in 0 .. CONSBUFSIZE - 1
  BY BufHasRoom DEF Positions
<1>2. \A p \in Positions : NextPos(p) \in Positions
                       /\ NextPos(p) = IF p + 1 = CONSBUFSIZE THEN 0 ELSE p + 1
  BY <1>1 DEF Positions, NextPos
<1>3. /\ Distance(from, to) = IF from <= to THEN to - from ELSE to - from + CONSBUFSIZE
      /\ Distance(from, NextPos(to)) = IF from <= NextPos(to) THEN NextPos(to) - from
                                       ELSE NextPos(to) - from + CONSBUFSIZE
      /\ Distance(NextPos(from), to) = IF NextPos(from) <= to THEN to - NextPos(from)
                                       ELSE to - NextPos(from) + CONSBUFSIZE
  BY <1>2, Wrapped
<1>4. Distance(from, to) \in 0 .. CONSBUFSIZE - 1 /\ (Distance(from, to) = 0 <=> from = to)
  BY <1>1, <1>3
<1>5. /\ Distance(from, NextPos(to)) = IF Distance(from, to) + 1 = CONSBUFSIZE THEN 0
                                       ELSE Distance(from, to) + 1
      /\ from # to => Distance(NextPos(from), to) = Distance(from, to) - 1
  BY <1>1, <1>2, <1>3
<1>6. \A k \in 1 .. CONSBUFSIZE :
         /\ Place(from, k) = IF from + k - 1 < CONSBUFSIZE THEN from + k - 1
                             ELSE from + k - 1 - CONSBUFSIZE
         /\ Place(NextPos(from), k) = IF NextPos(from) + k - 1 < CONSBUFSIZE
                                      THEN NextPos(from) + k - 1
                                      ELSE NextPos(from) + k - 1 - CONSBUFSIZE
  BY <1>2, Wrapped
<1>7. Place(from, Distance(from, to) + 1) = to /\ Place(from, 1) = from
  BY <1>1, <1>3, <1>4, <1>6
<1>8. ASSUME NEW k \in 1 .. Distance(from, to)
      PROVE  Place(from, k) \in Positions /\ Place(from, k) # to
  BY <1>1, <1>3, <1>4, <1>6 DEF Positions
<1>9. ASSUME NEW k \in 1 .. CONSBUFSIZE - 1
      PROVE  Place(NextPos(from), k) = Place(from, k + 1)
  BY <1>1, <1>2, <1>6 DEF Positions
<1> QED BY <1>2, <1>4, <1>5, <1>7, <1>8, <1>9

(***************************************************************************)
(* What RingIsQueue says, place by place.                                  *)
(***************************************************************************)
LEMMA QueueInPlaces ==
    ASSUME NEW b, NEW from \in Positions, NEW to \in Positions, NEW q \in Seq(Char)
    PROVE  [k \in 1 .. Distance(from, to) |-> b[Place(from, k)]] = q <=>
             /\ Len(q) = Distance(from, to)
             /\ \A k \in 1 .. Distance(from, to) : q[k] = b[Place(from, k)]
<1>1. Distance(from, to) \in Nat
  BY MovedOn, BufHasRoom
<1>2. q = [k \in 1 .. Len(q) |-> q[k]] /\ Len(q) \in Nat
  BY LenProperties
<1>3. \A a, c \in Nat : 1 .. a = 1 .. c <=> a = c
  OBVIOUS
<1> QED BY <1>1, <1>2, <1>3

\* Contents, in the same terms.
LEMMA ContentsInPlaces ==
    /\ Contents = [k \in 1 .. Distance(rpos, wpos) |-> buf[Place(rpos, k)]]
    /\ Contents' = [k \in 1 .. Distance(rpos', wpos') |-> buf'[Place(rpos', k)]]
BY DEF Contents, Distance, Place

LEMMA InPlaces ==
    ASSUME RingIsQueue
    PROVE  /\ TypeOK /\ rpos \in Positions /\ wpos \in Positions /\ waiting \in Seq(Char)
           /\ Len(waiting) = Distance(rpos, wpos)
           /\ \A k \in 1 .. Distance(rpos, wpos) : waiting[k] = buf[Place(rpos, k)]
<1>1. TypeOK /\ rpos \in Positions /\ wpos \in Positions /\ waiting \in Seq(Char)
  BY DEF RingIsQueue, TypeOK
<1>2. [k \in 1 .. Distance(rpos, wpos) |-> buf[Place(rpos, k)]] = waiting
  BY ContentsInPlaces DEF RingIsQueue
<1> QED BY <1>1, <1>2, QueueInPlaces

-----------------------------------------------------------------------------
(***************************************************************************)
(* cons_intr puts a character behind the others, or, in the last place,    *)
(* empties the buffer.                                                     *)
(***************************************************************************)
LEMMA PutKeepsQueue ==
    ASSUME RingIsQueue, NEW c \in Char \cup {NoChar}, cons_intr_Put(c)
    PROVE  /\ buf' \in [Positions -> Char \cup {NoChar}]
           /\ rpos' \in Positions /\ wpos' \in Positions
           /\ waiting' \in Seq(Char)
           /\ Contents' = waiting'
<1> DEFINE n == Distance(rpos, wpos)
<1>1. TypeOK /\ rpos \in Positions /\ wpos \in Positions /\ waiting \in Seq(Char)
      /\ Len(waiting) = n /\ \A k \in 1 .. n : waiting[k] = buf[Place(rpos, k)]
  BY InPlaces
<1>2. CASE c = NoChar
  BY <1>2 DEF cons_intr_Put, ringVars, RingIsQueue, TypeOK, Contents
<1>3. CASE c # NoChar
  <2>1. c \in Char /\ buf' = [buf EXCEPT ![wpos] = c] /\ wpos' = NextPos(wpos)
        /\ waiting' = Queued(c) /\ rpos' = rpos
    BY <1>3 DEF cons_intr_Put
  <2>2. /\ buf' \in [Positions -> Char \cup {NoChar}]
        /\ rpos' \in Positions /\ wpos' \in Positions
        /\ waiting' \in Seq(Char)
    BY <1>1, <2>1, MovedOn, AppendProperties, EmptySeq DEF TypeOK, Queued
  <2>3. n \in 0 .. CONSBUFSIZE - 1 /\ CONSBUFSIZE \in Nat
    BY <1>1, MovedOn, BufHasRoom
  <2> HIDE DEF n
  <2>4. /\ Len(waiting') = Distance(rpos', wpos')
        /\ \A k \in 1 .. Distance(rpos', wpos') : waiting'[k] = buf'[Place(rpos', k)]
    <3>1. CASE n + 1 = CONSBUFSIZE
      <4>1. Distance(rpos', wpos') = 0
        BY <1>1, <2>1, <3>1, MovedOn DEF n
      <4> QED BY <1>1, <2>1, <3>1, <4>1, EmptySeq DEF Queued
    <3>2. CASE n + 1 # CONSBUFSIZE
      <4>1. Distance(rpos', wpos') = n + 1
        BY <1>1, <2>1, <3>2, MovedOn DEF n
      <4>2. /\ waiting' = Append(waiting, c) /\ Len(waiting') = n + 1
            /\ waiting'[n + 1] = c
            /\ \A k \in 1 .. n : waiting'[k] = waiting[k]
        BY <1>1, <2>1, <3>2, AppendProperties DEF Queued
      <4>3. buf'[Place(rpos, n + 1)] = c
        BY <1>1, <2>1, MovedOn DEF TypeOK, n
      <4>4. \A k \in 1 .. n : buf'[Place(rpos, k)] = buf[Place(rpos, k)]
        BY <1>1, <2>1, MovedOn DEF TypeOK, n
      <4>5. \A k \in 1 .. n + 1 : k \in 1 .. n \/ k = n + 1
        BY <2>3
      <4> QED BY <1>1, <2>1, <4>1, <4>2, <4>3, <4>4, <4>5
    <3> QED BY <3>1, <3>2
  <2> QED BY <2>2, <2>4, QueueInPlaces, ContentsInPlaces
<1> QED BY <1>2, <1>3

(***************************************************************************)
(* cons_getc takes the first character, when there is one.                 *)
(***************************************************************************)
LEMMA TakeKeepsQueue ==
    ASSUME RingIsQueue, cons_getc
    PROVE  /\ rpos' \in Positions /\ waiting' \in Seq(Char)
           /\ Contents' = waiting'
           /\ got' = IF waiting = <<>> THEN NoChar ELSE Head(waiting)
           /\ got' \in Char \cup {NoChar}
<1> DEFINE n == Distance(rpos, wpos)
<1>1. /\ TypeOK /\ rpos \in Positions /\ wpos \in Positions /\ waiting \in Seq(Char)
      /\ Len(waiting) = n /\ \A k \in 1 .. n : waiting[k] = buf[Place(rpos, k)]
      /\ UNCHANGED <<buf, wpos>>
  BY InPlaces DEF cons_getc
<1>2. n \in 0 .. CONSBUFSIZE - 1 /\ CONSBUFSIZE \in Nat /\ (n = 0 <=> rpos = wpos)
  BY <1>1, MovedOn, BufHasRoom
<1>3. CASE rpos = wpos
  <2>1. got' = NoChar /\ UNCHANGED <<rpos, waiting>>
    BY <1>3 DEF cons_getc
  <2>2. waiting = <<>>
    BY <1>1, <1>2, <1>3, EmptySeq
  <2>3. Contents' = Contents
    BY <1>1, <2>1 DEF Contents
  <2> QED BY <1>1, <2>1, <2>2, <2>3 DEF RingIsQueue
<1>4. CASE rpos # wpos
  <2>1. got' = buf[rpos] /\ rpos' = NextPos(rpos) /\ waiting' = Tail(waiting)
    BY <1>4 DEF cons_getc
  <2>2. /\ waiting # <<>> /\ Head(waiting) = waiting[1]
        /\ waiting' \in Seq(Char) /\ Len(waiting') = n - 1
        /\ \A k \in 1 .. n - 1 : waiting'[k] = waiting[k + 1]
    BY <1>1, <1>2, <1>4, <2>1, HeadTailProperties, EmptySeq
  <2>3. rpos' \in Positions /\ Distance(rpos', wpos') = n - 1
    BY <1>1, <1>4, <2>1, MovedOn
  <2>4. got' = Head(waiting) /\ got' \in Char \cup {NoChar}
    <3>1. 1 \in 1 .. n /\ Place(rpos, 1) = rpos
      BY <1>1, <1>2, <1>4, MovedOn
    <3> QED BY <1>1, <2>1, <2>2, <3>1 DEF TypeOK
  <2> HIDE DEF n
  <2>5. \A k \in 1 .. n - 1 : waiting'[k] = buf'[Place(rpos', k)]
    <3> SUFFICES ASSUME NEW k \in 1 .. n - 1
                 PROVE  waiting'[k] = buf[Place(NextPos(rpos), k)]
      BY <1>1, <2>1
    <3>1. k \in 1 .. CONSBUFSIZE - 1 /\ k + 1 \in 1 .. n
      BY <1>2
    <3>2. Place(NextPos(rpos), k) = Place(rpos, k + 1)
      BY <1>1, <3>1, MovedOn
    <3> QED BY <1>1, <2>2, <3>1, <3>2
  <2> QED BY <1>1, <2>2, <2>3, <2>4, <2>5, QueueInPlaces, ContentsInPlaces
<1> QED BY <1>3, <1>4

-----------------------------------------------------------------------------
LEMMA InitQueue == Init => RingIsQueue
<1> SUFFICES ASSUME Init PROVE RingIsQueue
  OBVIOUS
<1>1. 0 \in Positions /\ Distance(0, 0) = 0
  BY BufHasRoom, MovedOn DEF Positions
<1>2. TypeOK
  BY <1>1, EmptySeq, KbdQueueNat DEF TypeOK, Init
<1>3. Contents = waiting
  BY <1>1, EmptySeq, QueueInPlaces, ContentsInPlaces DEF Init
<1> QED BY <1>2, <1>3 DEF RingIsQueue

(***************************************************************************)
(* A step that leaves the buffer alone keeps the queue.                    *)
(***************************************************************************)
LEMMA RingUntouched ==
    ASSUME RingIsQueue, UNCHANGED ringVars
    PROVE  /\ buf' \in [Positions -> Char \cup {NoChar}]
           /\ rpos' \in Positions /\ wpos' \in Positions
           /\ waiting' \in Seq(Char)
           /\ Contents' = waiting'
BY DEF RingIsQueue, TypeOK, ringVars, Contents

LEMMA NextQueue == RingIsQueue /\ [Next]_vars => RingIsQueue'
<1> SUFFICES ASSUME RingIsQueue, [Next]_vars PROVE RingIsQueue'
  OBVIOUS
<1> USE DEF RingIsQueue, TypeOK
<1>1. ASSUME NEW c \in Char \cup {NoChar}, SerialArrives(c) PROVE RingIsQueue'
  <2>1. uart' = <<c>> /\ UNCHANGED <<serial_exists, kbd, ringVars, pc, got>>
    BY <1>1 DEF SerialArrives
  <2>2. uart' \in Seq(Char \cup {NoChar}) /\ Len(uart') <= 1
    BY <2>1
  <2> QED BY <2>1, <2>2, RingUntouched
<1>2. ASSUME NEW c \in KbdByte, KbdArrives(c) PROVE RingIsQueue'
  <2>1. kbd' = Append(kbd, c) /\ Len(kbd) < KbdQueue
        /\ UNCHANGED <<serial_exists, uart, ringVars, pc, got>>
    BY <1>2 DEF KbdArrives
  <2>2. kbd' \in Seq(KbdByte) /\ Len(kbd') <= KbdQueue
    BY <2>1, AppendProperties, LenProperties, KbdQueueNat
  <2> QED BY <2>1, <2>2, RingUntouched
<1>3. CASE getchar
  <2>1. pc' = "serial_intr" /\ UNCHANGED <<devVars, ringVars, got>>
    BY <1>3 DEF getchar
  <2> QED BY <2>1, RingUntouched DEF devVars
<1>4. CASE serial_intr
  <2>1. UNCHANGED <<serial_exists, kbd, got>> /\ pc' \in {pc, "kbd_intr"}
    BY <1>4 DEF serial_intr
  <2>2. CASE serial_exists /\ uart # <<>>
    <3>1. cons_intr_Put(uart[1]) /\ uart' = <<>>
      BY <1>4, <2>2 DEF serial_intr
    <3>2. uart[1] \in Char \cup {NoChar}
      BY <2>2, EmptySeq, ElementOfSeq, LenProperties
    <3>3. uart' \in Seq(Char \cup {NoChar}) /\ Len(uart') <= 1
      BY <3>1, EmptySeq
    <3> QED BY <2>1, <3>1, <3>2, <3>3, PutKeepsQueue
  <2>3. CASE ~(serial_exists /\ uart # <<>>)
    <3>1. UNCHANGED <<uart, ringVars>>
      BY <1>4, <2>3 DEF serial_intr
    <3> QED BY <2>1, <3>1, RingUntouched
  <2> QED BY <2>2, <2>3
<1>5. CASE kbd_intr
  <2>1. UNCHANGED <<serial_exists, uart, got>> /\ pc' \in {pc, "cons_getc"}
    BY <1>5 DEF kbd_intr
  <2>2. CASE KbdHasData
    <3>1. cons_intr_Put(Head(kbd)) /\ kbd' = Tail(kbd) /\ kbd # <<>> /\ Head(kbd) # Mouse
      BY <1>5, <2>2 DEF kbd_intr, KbdHasData
    <3>2. Head(kbd) \in Char \cup {NoChar} /\ kbd' \in Seq(KbdByte) /\ Len(kbd') <= KbdQueue
      BY <3>1, HeadTailProperties, LenProperties, KbdQueueNat DEF KbdByte
    <3> QED BY <2>1, <3>1, <3>2, PutKeepsQueue
  <2>3. CASE ~KbdHasData
    <3>1. UNCHANGED <<kbd, ringVars>>
      BY <1>5, <2>3 DEF kbd_intr
    <3> QED BY <2>1, <3>1, RingUntouched
  <2> QED BY <2>2, <2>3
<1>6. CASE cons_getc
  <2>1. UNCHANGED <<devVars, buf, wpos>> /\ pc' \in {"idle", "serial_intr"}
    BY <1>6 DEF cons_getc
  <2> QED BY <1>6, <2>1, TakeKeepsQueue DEF devVars
<1>7. CASE UNCHANGED vars
  BY <1>7, RingUntouched DEF vars, devVars
<1> QED BY <1>1, <1>2, <1>3, <1>4, <1>5, <1>6, <1>7 DEF Next, Devices, Kernel

(***************************************************************************)
(* At every moment the buffer holds the characters that came in and were   *)
(* not taken, in their order, wherever its positions stand.                *)
(***************************************************************************)
THEOREM InputIsQueue == Spec => []RingIsQueue
BY InitQueue, NextQueue, PTL DEF Spec

(***************************************************************************)
(* cons_getc returns the oldest character, and 0 only when there is none.  *)
(***************************************************************************)
THEOREM InputInOrder == Spec => OldestFirst
<1> DEFINE Oldest == got' = IF waiting = <<>> THEN NoChar ELSE Head(waiting)
<1>1. RingIsQueue /\ [Next]_vars => [At("cons_getc") => Oldest]_<<pc, got>>
  <2> SUFFICES ASSUME RingIsQueue, Next, At("cons_getc"), <<pc, got>>' # <<pc, got>>
               PROVE  Oldest
    BY DEF vars
  <2>1. CASE Devices
    BY <2>1 DEF Devices, SerialArrives, KbdArrives
  <2>2. CASE Kernel
    BY <2>2, TakeKeepsQueue DEF Kernel, At, getchar, serial_intr, kbd_intr
  <2> QED BY <2>1, <2>2 DEF Next
<1> QED BY <1>1, InputIsQueue, PTL DEF Spec, OldestFirst
=============================================================================
