----------------------------- MODULE KeyboardProofs -----------------------------
(***************************************************************************)
(* kbd_proc_data keeps track of the keys, for any keyboards and any number *)
(* of codes on their way.  The invariant follows the flags event by event  *)
(* through the queue: what they are before each, given what is pending,    *)
(* and that after the last they agree with the keys held.                  *)
(***************************************************************************)
EXTENDS Keyboard, TLAPS, FiniteSetTheorems, SequenceTheorems

Lasting == Modifiers \cup {"CAPSLOCK"}
Escaped == {"rctrl", "ralt", "delete"}

Sent(key, up) == IF up THEN Break(key) ELSE Make(key)

FlagOf(key) ==
    CASE key \in {"lshift", "rshift"} -> {"SHIFT"}
      [] key \in {"lctrl", "rctrl"}   -> {"CTL"}
      [] key \in {"lalt", "ralt"}     -> {"ALT"}
      [] OTHER                        -> {}

LockOf(key) == IF key = "caps" THEN {"CAPSLOCK"} ELSE {}

\* What an event makes of the flags, and what it gives.
After(flags, key, up) ==
    IF up THEN flags \ FlagOf(key)
    ELSE SymDiff(flags \cup FlagOf(key), LockOf(key))

Char(flags, key) ==
    CASE key = "a" -> IF "CTL" \in flags THEN Ctrl(65)
                      ELSE IF "SHIFT" \in flags <=> "CAPSLOCK" \in flags THEN 97 ELSE 65
      [] key = "1" -> IF "CTL" \in flags THEN 0 ELSE IF "SHIFT" \in flags THEN 33 ELSE 49
      [] key = "delete" -> KEY_DEL
      [] OTHER -> 0

Resets(flags, key, up) == ~up /\ key = "delete" /\ {"CTL", "ALT"} \subseteq flags

-----------------------------------------------------------------------------
(***************************************************************************)
(* The codes of a key: the bytes that it sends, and what the tables say of *)
(* the last one.                                                           *)
(***************************************************************************)
CodeIs(key, b) ==
    LET code == IF key \in Escaped THEN b + 128 ELSE b IN
    /\ Make(key)  = IF key \in Escaped THEN <<E0, b>> ELSE <<b>>
    /\ Break(key) = IF key \in Escaped THEN <<E0, b + 128>> ELSE <<b + 128>>
    /\ b + 128 # E0
    /\ shiftcode(code) = FlagOf(key)
    /\ togglecode(code) = LockOf(key)
    /\ \A flags : charcode(flags, code) =
            CASE key = "a" -> IF "CTL" \in flags THEN Ctrl(65)
                              ELSE IF "SHIFT" \in flags THEN 65 ELSE 97
              [] key = "1" -> IF "CTL" \in flags THEN 0
                              ELSE IF "SHIFT" \in flags THEN 33 ELSE 49
              [] key = "delete" -> KEY_DEL
              [] OTHER -> 0

LEMMA BreakOne ==
    ASSUME NEW key, NEW b \in Nat, Make(key) = <<b>>
    PROVE  Break(key) = <<b + 128>>
<1>1. Len(Make(key)) = 1 /\ Make(key) \in Seq(Nat) /\ Make(key)[1] = b
  OBVIOUS
<1>2. Front(Make(key)) = << >>
  BY <1>1, SubSeqEmpty DEF Front
<1>3. Last(Make(key)) = b
  BY <1>1 DEF Last
<1> QED BY <1>2, <1>3 DEF Break

LEMMA FrontOfTwo ==
    ASSUME NEW x \in Nat, NEW y \in Nat
    PROVE  Front(<<x, y>>) = <<x>> /\ Last(<<x, y>>) = y
<1> DEFINE t == <<x, y>>
           s == SubSeq(t, 1, 1)
<1>1. t \in Seq(Nat) /\ Len(t) = 2 /\ t[1] = x /\ t[2] = y
  OBVIOUS
<1>2. \A i \in 1 .. 1 : t[i] \in Nat
  BY <1>1
<1>3. s \in Seq(Nat) /\ Len(s) = 1 /\ \A i \in 1 .. 1 : s[i] = t[i]
  <2> HIDE DEF t
  <2>1. /\ SubSeq(t, 1, 1) \in Seq(Nat)
        /\ Len(SubSeq(t, 1, 1)) = IF 1 <= 1 THEN 1 - 1 + 1 ELSE 0
        /\ \A i \in 1 .. 1 - 1 + 1 : SubSeq(t, 1, 1)[i] = t[1 + i - 1]
    BY <1>2, SubSeqProperties
  <2>2. 1 - 1 + 1 = 1 /\ 1 + 1 - 1 = 1
    OBVIOUS
  <2>3. s[1] = t[1]
    BY <2>1, <2>2
  <2> QED BY <2>1, <2>2, <2>3
<1>4. s = <<x>>
  <2>1. <<x>> \in Seq(Nat) /\ Len(<<x>>) = 1 /\ <<x>>[1] = x
    OBVIOUS
  <2> HIDE DEF s, t
  <2>2. s[1] = x
    BY <1>1, <1>3
  <2>3. \A i \in 1 .. Len(s) : s[i] = <<x>>[i]
    BY <1>3, <2>1, <2>2
  <2> QED BY <1>3, <2>1, <2>3, SeqEqual
<1> QED BY <1>1, <1>4 DEF Front, Last

LEMMA OneAndOne ==
    ASSUME NEW x \in Nat, NEW y \in Nat
    PROVE  <<x>> \o <<y>> = <<x, y>>
<1> DEFINE s == <<x>>
           t == <<y>>
           u == <<x, y>>
<1>1. /\ s \in Seq(Nat) /\ Len(s) = 1 /\ s[1] = x
      /\ t \in Seq(Nat) /\ Len(t) = 1 /\ t[1] = y
      /\ u \in Seq(Nat) /\ Len(u) = 2 /\ u[1] = x /\ u[2] = y
  OBVIOUS
<1> HIDE DEF s, t, u
<1>2. s \o t \in Seq(Nat) /\ Len(s \o t) = 2 /\ (s \o t)[1] = x /\ (s \o t)[2] = y
  <2>1. /\ s \o t \in Seq(Nat)
        /\ Len(s \o t) = Len(s) + Len(t)
        /\ \A i \in 1 .. Len(s) + Len(t) :
              (s \o t)[i] = IF i <= Len(s) THEN s[i] ELSE t[i - Len(s)]
    BY <1>1, ConcatProperties, Zenon
  <2>2. (s \o t)[1] = s[1] /\ (s \o t)[2] = t[2 - 1]
    BY <1>1, <2>1
  <2> QED BY <1>1, <2>1, <2>2
<1>3. \A i \in 1 .. Len(u) : u[i] = (s \o t)[i]
  BY <1>1, <1>2
<1>4. s \o t = u
  BY <1>1, <1>2, <1>3, SeqEqual
<1> QED BY <1>4 DEF s, t, u

LEMMA BreakTwo ==
    ASSUME NEW key, NEW b \in Nat, Make(key) = <<E0, b>>
    PROVE  Break(key) = <<E0, b + 128>>
<1>1. E0 \in Nat /\ b + 128 \in Nat
  BY DEF E0
<1>2. Front(Make(key)) = <<E0>> /\ Last(Make(key)) = b
  BY <1>1, FrontOfTwo
<1>3. <<E0>> \o <<b + 128>> = <<E0, b + 128>>
  BY <1>1, OneAndOne
<1>4. Break(key) = Front(Make(key)) \o <<Last(Make(key)) + 128>>
  BY DEF Break
<1> QED BY <1>2, <1>3, <1>4

LEMMA Codes ==
    ASSUME NEW key \in AllKeys
    PROVE  \E b \in 0 .. 127 : CodeIs(key, b)
<1>1. CASE key = "lshift"
  <2>1. Make(key) = <<42>>
    BY <1>1 DEF Make
  <2>2. Break(key) = <<170>>
    BY <2>1, BreakOne
  <2>3. shiftcode(42) = FlagOf(key) /\ togglecode(42) = LockOf(key)
    BY <1>1 DEF shiftcode, FlagOf, togglecode, LockOf
  <2>4. normalmap(42) = 0 /\ shiftmap(42) = 0 /\ ctlmap(42) = 0
    BY DEF normalmap, shiftmap, ctlmap, KEY_DEL, Ctrl
  <2>5. CodeIs(key, 42)
    BY <1>1, <2>1, <2>2, <2>3, <2>4 DEF CodeIs, Escaped, E0, charcode, Ctrl, KEY_DEL
  <2> QED BY <2>5
<1>2. CASE key = "rshift"
  <2>1. Make(key) = <<54>>
    BY <1>2 DEF Make
  <2>2. Break(key) = <<182>>
    BY <2>1, BreakOne
  <2>3. shiftcode(54) = FlagOf(key) /\ togglecode(54) = LockOf(key)
    BY <1>2 DEF shiftcode, FlagOf, togglecode, LockOf
  <2>4. normalmap(54) = 0 /\ shiftmap(54) = 0 /\ ctlmap(54) = 0
    BY DEF normalmap, shiftmap, ctlmap, KEY_DEL, Ctrl
  <2>5. CodeIs(key, 54)
    BY <1>2, <2>1, <2>2, <2>3, <2>4 DEF CodeIs, Escaped, E0, charcode, Ctrl, KEY_DEL
  <2> QED BY <2>5
<1>3. CASE key = "lctrl"
  <2>1. Make(key) = <<29>>
    BY <1>3 DEF Make
  <2>2. Break(key) = <<157>>
    BY <2>1, BreakOne
  <2>3. shiftcode(29) = FlagOf(key) /\ togglecode(29) = LockOf(key)
    BY <1>3 DEF shiftcode, FlagOf, togglecode, LockOf
  <2>4. normalmap(29) = 0 /\ shiftmap(29) = 0 /\ ctlmap(29) = 0
    BY DEF normalmap, shiftmap, ctlmap, KEY_DEL, Ctrl
  <2>5. CodeIs(key, 29)
    BY <1>3, <2>1, <2>2, <2>3, <2>4 DEF CodeIs, Escaped, E0, charcode, Ctrl, KEY_DEL
  <2> QED BY <2>5
<1>4. CASE key = "rctrl"
  <2>1. Make(key) = <<E0, 29>>
    BY <1>4 DEF Make
  <2>2. Break(key) = <<E0, 157>>
    BY <2>1, BreakTwo
  <2>3. shiftcode(157) = FlagOf(key) /\ togglecode(157) = LockOf(key)
    BY <1>4 DEF shiftcode, FlagOf, togglecode, LockOf
  <2>4. normalmap(157) = 0 /\ shiftmap(157) = 0 /\ ctlmap(157) = 0
    BY DEF normalmap, shiftmap, ctlmap, KEY_DEL, Ctrl
  <2>5. CodeIs(key, 29)
    BY <1>4, <2>1, <2>2, <2>3, <2>4 DEF CodeIs, Escaped, E0, charcode, Ctrl, KEY_DEL
  <2> QED BY <2>5
<1>5. CASE key = "lalt"
  <2>1. Make(key) = <<56>>
    BY <1>5 DEF Make
  <2>2. Break(key) = <<184>>
    BY <2>1, BreakOne
  <2>3. shiftcode(56) = FlagOf(key) /\ togglecode(56) = LockOf(key)
    BY <1>5 DEF shiftcode, FlagOf, togglecode, LockOf
  <2>4. normalmap(56) = 0 /\ shiftmap(56) = 0 /\ ctlmap(56) = 0
    BY DEF normalmap, shiftmap, ctlmap, KEY_DEL, Ctrl
  <2>5. CodeIs(key, 56)
    BY <1>5, <2>1, <2>2, <2>3, <2>4 DEF CodeIs, Escaped, E0, charcode, Ctrl, KEY_DEL
  <2> QED BY <2>5
<1>6. CASE key = "ralt"
  <2>1. Make(key) = <<E0, 56>>
    BY <1>6 DEF Make
  <2>2. Break(key) = <<E0, 184>>
    BY <2>1, BreakTwo
  <2>3. shiftcode(184) = FlagOf(key) /\ togglecode(184) = LockOf(key)
    BY <1>6 DEF shiftcode, FlagOf, togglecode, LockOf
  <2>4. normalmap(184) = 0 /\ shiftmap(184) = 0 /\ ctlmap(184) = 0
    BY DEF normalmap, shiftmap, ctlmap, KEY_DEL, Ctrl
  <2>5. CodeIs(key, 56)
    BY <1>6, <2>1, <2>2, <2>3, <2>4 DEF CodeIs, Escaped, E0, charcode, Ctrl, KEY_DEL
  <2> QED BY <2>5
<1>7. CASE key = "caps"
  <2>1. Make(key) = <<58>>
    BY <1>7 DEF Make
  <2>2. Break(key) = <<186>>
    BY <2>1, BreakOne
  <2>3. shiftcode(58) = FlagOf(key) /\ togglecode(58) = LockOf(key)
    BY <1>7 DEF shiftcode, FlagOf, togglecode, LockOf
  <2>4. normalmap(58) = 0 /\ shiftmap(58) = 0 /\ ctlmap(58) = 0
    BY DEF normalmap, shiftmap, ctlmap, KEY_DEL, Ctrl
  <2>5. CodeIs(key, 58)
    BY <1>7, <2>1, <2>2, <2>3, <2>4 DEF CodeIs, Escaped, E0, charcode, Ctrl, KEY_DEL
  <2> QED BY <2>5
<1>8. CASE key = "a"
  <2>1. Make(key) = <<30>>
    BY <1>8 DEF Make
  <2>2. Break(key) = <<158>>
    BY <2>1, BreakOne
  <2>3. shiftcode(30) = FlagOf(key) /\ togglecode(30) = LockOf(key)
    BY <1>8 DEF shiftcode, FlagOf, togglecode, LockOf
  <2>4. normalmap(30) = 97 /\ shiftmap(30) = 65 /\ ctlmap(30) = 1
    BY DEF normalmap, shiftmap, ctlmap, KEY_DEL, Ctrl
  <2>5. CodeIs(key, 30)
    BY <1>8, <2>1, <2>2, <2>3, <2>4 DEF CodeIs, Escaped, E0, charcode, Ctrl, KEY_DEL
  <2> QED BY <2>5
<1>9. CASE key = "1"
  <2>1. Make(key) = <<2>>
    BY <1>9 DEF Make
  <2>2. Break(key) = <<130>>
    BY <2>1, BreakOne
  <2>3. shiftcode(2) = FlagOf(key) /\ togglecode(2) = LockOf(key)
    BY <1>9 DEF shiftcode, FlagOf, togglecode, LockOf
  <2>4. normalmap(2) = 49 /\ shiftmap(2) = 33 /\ ctlmap(2) = 0
    BY DEF normalmap, shiftmap, ctlmap, KEY_DEL, Ctrl
  <2>5. CodeIs(key, 2)
    BY <1>9, <2>1, <2>2, <2>3, <2>4 DEF CodeIs, Escaped, E0, charcode, Ctrl, KEY_DEL
  <2> QED BY <2>5
<1>10. CASE key = "delete"
  <2>1. Make(key) = <<E0, 83>>
    BY <1>10 DEF Make
  <2>2. Break(key) = <<E0, 211>>
    BY <2>1, BreakTwo
  <2>3. shiftcode(211) = FlagOf(key) /\ togglecode(211) = LockOf(key)
    BY <1>10 DEF shiftcode, FlagOf, togglecode, LockOf
  <2>4. normalmap(211) = 233 /\ shiftmap(211) = 233 /\ ctlmap(211) = 233
    BY DEF normalmap, shiftmap, ctlmap, KEY_DEL, Ctrl
  <2>5. CodeIs(key, 83)
    BY <1>10, <2>1, <2>2, <2>3, <2>4 DEF CodeIs, Escaped, E0, charcode, Ctrl, KEY_DEL
  <2> QED BY <2>5
<1> QED BY <1>1, <1>2, <1>3, <1>4, <1>5, <1>6, <1>7, <1>8, <1>9, <1>10 DEF AllKeys

-----------------------------------------------------------------------------
(***************************************************************************)
(* The invariant.                                                          *)
(***************************************************************************)
SingleKeys == \A flag \in Modifiers : Cardinality(KeysOf(flag)) <= 1

Events == [bytes : Seq(Nat), char : Nat, reset : BOOLEAN]

\* The flags are those of the keys held.
Agree(flags) ==
    /\ \A flag \in Modifiers :
          /\ flag \in flags => Held(flag)
          /\ Held(flag) /\ Cardinality(KeysOf(flag)) = 1 => flag \in flags
    /\ "CAPSLOCK" \in flags <=> caps

\* What an event was meant to do is what it does from these flags.
Means(e, flags, key, up) ==
    /\ Resets(flags, key, up) => e.reset
    /\ SingleKeys => /\ e.char = IF up THEN 0 ELSE Char(flags, key)
                     /\ e.reset => Resets(flags, key, up)

\* F[k] are the flags after the k-th event of the queue, key K[k] released if
\* U[k], else pressed.
Follows(F, K, U) ==
    /\ F \in [0 .. Len(queue) -> SUBSET Lasting]
    /\ K \in [1 .. Len(queue) -> keys]
    /\ U \in [1 .. Len(queue) -> BOOLEAN]
    /\ F[0] = shift \ {"E0ESC"}
    /\ \A k \in 1 .. Len(queue) :
          /\ F[k] = After(F[k - 1], K[k], U[k])
          /\ Means(queue[k], F[k - 1], K[k], U[k])
          /\ k > 1 \/ "E0ESC" \notin shift => queue[k].bytes = Sent(K[k], U[k])
    /\ Agree(F[Len(queue)])

EscapePending(K, U) ==
    "E0ESC" \in shift =>
        queue # <<>> /\ K[1] \in Escaped /\ queue[1].bytes = Tail(Sent(K[1], U[1]))

Types ==
    /\ keys \in Keyboards /\ down \subseteq keys /\ caps \in BOOLEAN
    /\ rebooted \in BOOLEAN
    /\ shift \subseteq Lasting \cup {"E0ESC"}
    /\ queue \in Seq(Events)

IInv ==
    /\ Types
    /\ \E F, K, U : Follows(F, K, U) /\ EscapePending(K, U)

-----------------------------------------------------------------------------
(***************************************************************************)
(* The keys of a flag, and the flags after an event.                       *)
(***************************************************************************)
LEMMA FlagsOfKeys ==
    ASSUME keys \subseteq AllKeys
    PROVE  /\ \A flag \in Modifiers, key \in keys : flag \in FlagOf(key) <=> key \in KeysOf(flag)
           /\ \A flag \in Modifiers : KeysOf(flag) \subseteq keys /\ IsFiniteSet(KeysOf(flag))
           /\ \A key : FlagOf(key) \subseteq Modifiers
           /\ \A flag \in Modifiers : flag # "CAPSLOCK" /\ flag # "E0ESC"
<1>1. \A flag \in Modifiers, key \in keys : flag \in FlagOf(key) <=> key \in KeysOf(flag)
  BY DEF Modifiers, FlagOf, KeysOf
<1>2. \A flag \in Modifiers : KeysOf(flag) \subseteq keys /\ IsFiniteSet(KeysOf(flag))
  <2> SUFFICES ASSUME NEW flag \in Modifiers
               PROVE  KeysOf(flag) \subseteq keys /\ IsFiniteSet(KeysOf(flag))
    OBVIOUS
  <2>1. PICK x, y : KeysOf(flag) = {x, y} \cap keys
    BY DEF KeysOf, Modifiers
  <2>2. IsFiniteSet({x, y})
    <3>1. IsFiniteSet({x}) /\ IsFiniteSet({y})
      BY FS_Singleton
    <3>2. {x, y} = {x} \cup {y}
      OBVIOUS
    <3> QED BY <3>1, <3>2, FS_Union
  <2>3. {x, y} \cap keys \in SUBSET {x, y}
    OBVIOUS
  <2> QED BY <2>1, <2>2, <2>3, FS_Subset
<1>3. \A key : FlagOf(key) \subseteq Modifiers
  BY DEF FlagOf, Modifiers
<1>4. \A flag \in Modifiers : flag # "CAPSLOCK" /\ flag # "E0ESC"
  BY DEF Modifiers
<1> QED BY <1>1, <1>2, <1>3, <1>4

LEMMA AfterIs ==
    ASSUME NEW flags \in SUBSET Lasting, NEW key, NEW up \in BOOLEAN
    PROVE  /\ After(flags, key, up) \in SUBSET Lasting
           /\ \A flag \in Modifiers :
                 flag \in After(flags, key, up) <=>
                     IF flag \in FlagOf(key) THEN ~up ELSE flag \in flags
           /\ "CAPSLOCK" \in After(flags, key, up) <=>
                  IF key = "caps" /\ ~up THEN "CAPSLOCK" \notin flags
                  ELSE "CAPSLOCK" \in flags
<1>1. FlagOf(key) \subseteq Modifiers
  BY DEF FlagOf, Modifiers
<1>2. \A flag \in Modifiers : flag # "CAPSLOCK"
  BY DEF Modifiers
<1>3. LockOf(key) \subseteq {"CAPSLOCK"} /\ ("CAPSLOCK" \in LockOf(key) <=> key = "caps")
  BY DEF LockOf
<1>4. "CAPSLOCK" \notin FlagOf(key)
  BY <1>1, <1>2
<1> QED BY <1>1, <1>2, <1>3, <1>4 DEF After, SymDiff, Lasting

\* A flag with at most one key is held exactly when that key is.
LEMMA HeldIsOne ==
    ASSUME keys \subseteq AllKeys, SingleKeys, NEW flag \in Modifiers, Held(flag)
    PROVE  Cardinality(KeysOf(flag)) = 1
<1>1. IsFiniteSet(KeysOf(flag)) /\ KeysOf(flag) # {}
  BY FlagsOfKeys DEF Held
<1>2. Cardinality(KeysOf(flag)) \in Nat /\ Cardinality(KeysOf(flag)) # 0
  BY <1>1, FS_EmptySet, FS_CardinalityType
<1> QED BY <1>2 DEF SingleKeys

-----------------------------------------------------------------------------
(***************************************************************************)
(* The keyboard's steps.                                                   *)
(***************************************************************************)
LEMMA Added ==
    ASSUME IInv, NEW key \in keys, NEW up \in BOOLEAN, NEW e \in Events,
           e.bytes = Sent(key, up), queue' = Append(queue, e),
           UNCHANGED <<keys, shift, rebooted>>, down' \subseteq keys, caps' \in BOOLEAN,
           \A flags \in SUBSET Lasting :
               Agree(flags) => /\ Means(e, flags, key, up)
                               /\ Agree(After(flags, key, up))'
    PROVE  IInv'
<1>1. PICK F, K, U : Follows(F, K, U) /\ EscapePending(K, U)
  BY DEF IInv
<1>2. queue \in Seq(Events) /\ Len(queue) \in Nat
  BY DEF IInv, Types
<1>3. PICK n \in Nat : n = Len(queue)
  BY <1>2
<1> DEFINE G == [k \in 0 .. n + 1 |-> IF k <= n THEN F[k] ELSE After(F[n], key, up)]
           L == [k \in 1 .. n + 1 |-> IF k <= n THEN K[k] ELSE key]
           V == [k \in 1 .. n + 1 |-> IF k <= n THEN U[k] ELSE up]
<1>4. /\ queue' \in Seq(Events) /\ queue' # <<>> /\ Len(queue') = n + 1
      /\ \A k \in 1 .. n : queue'[k] = queue[k]
      /\ queue'[n + 1] = e
  BY <1>2, <1>3, AppendProperties
<1>5. F[n] \in SUBSET Lasting /\ Means(e, F[n], key, up) /\ Agree(After(F[n], key, up))'
  BY <1>1, <1>2, <1>3 DEF Follows
<1>6. After(F[n], key, up) \in SUBSET Lasting
  BY <1>5, AfterIs
<1>7. keys' = keys /\ shift' = shift /\ (\A d, f, k, u : Means(d, f, k, u)' <=> Means(d, f, k, u))
  BY DEF Means, SingleKeys, KeysOf
<1> DEFINE a == After(F[n], key, up)
<1>8. /\ G \in [0 .. n + 1 -> SUBSET Lasting] /\ G[n + 1] = a
      /\ \A k \in 0 .. n : G[k] = F[k]
  <2> HIDE DEF a
  <2>1. \A k \in 0 .. n : F[k] \in SUBSET Lasting
    BY <1>1, <1>3 DEF Follows
  <2> QED BY <1>2, <1>3, <1>6, <2>1 DEF a
<1>9. /\ L \in [1 .. n + 1 -> keys] /\ L[n + 1] = key
      /\ \A k \in 1 .. n : L[k] = K[k]
  BY <1>1, <1>2, <1>3 DEF Follows
<1>10. /\ V \in [1 .. n + 1 -> BOOLEAN] /\ V[n + 1] = up
      /\ \A k \in 1 .. n : V[k] = U[k]
  BY <1>1, <1>2, <1>3 DEF Follows
<1> HIDE DEF G, L, V, a
<1>11. ASSUME NEW k \in 1 .. n + 1
       PROVE  /\ G[k] = After(G[k - 1], L[k], V[k])
              /\ Means(queue'[k], G[k - 1], L[k], V[k])
              /\ k > 1 \/ "E0ESC" \notin shift => queue'[k].bytes = Sent(L[k], V[k])
  <2>1. CASE k = n + 1
    <3>1. G[k] = a /\ G[k - 1] = F[n] /\ L[k] = key /\ V[k] = up /\ queue'[k] = e
      BY <1>2, <1>3, <1>4, <1>8, <1>9, <1>10, <2>1
    <3> QED BY <1>5, <3>1 DEF a
  <2>2. CASE k # n + 1
    <3>1. k \in 1 .. n /\ k \in 0 .. n /\ k - 1 \in 0 .. n
      BY <1>2, <1>3, <2>2
    <3>2. G[k] = F[k] /\ G[k - 1] = F[k - 1] /\ L[k] = K[k] /\ V[k] = U[k] /\ queue'[k] = queue[k]
      BY <1>4, <1>8, <1>9, <1>10, <3>1
    <3> QED BY <1>1, <1>3, <3>1, <3>2 DEF Follows
  <2> QED BY <2>1, <2>2
<1>12. Follows(G, L, V)'
  <2>1. G[0] = F[0] /\ F[0] = shift \ {"E0ESC"}
    BY <1>1, <1>2, <1>3, <1>8 DEF Follows
  <2>2. Agree(G[n + 1])'
    BY <1>5, <1>8 DEF a, Agree
  <2> QED BY <1>4, <1>3, <1>7, <1>8, <1>9, <1>10, <1>11, <2>1, <2>2 DEF Follows
<1>13. EscapePending(L, V)'
  <2>1. CASE "E0ESC" \in shift
    <3>1. queue # <<>> /\ K[1] \in Escaped /\ queue[1].bytes = Tail(Sent(K[1], U[1]))
      BY <1>1, <2>1 DEF EscapePending
    <3>2. 1 \in 1 .. n
      BY <1>2, <1>3, <3>1, EmptySeq
    <3> QED BY <1>4, <1>9, <1>10, <3>1, <3>2 DEF EscapePending
  <2> QED BY <1>7, <2>1 DEF EscapePending
<1>14. Types'
  BY <1>4 DEF IInv, Types
<1> QED BY <1>12, <1>13, <1>14 DEF IInv

LEMMA PressStep ==
    ASSUME IInv, NEW key \in keys, Press(key)
    PROVE  IInv'
<1> DEFINE e == Event(Make(key), Meaning(key), key = "delete" /\ Held("CTL") /\ Held("ALT"))
<1>1. /\ queue' = Append(queue, e) /\ down' = down \cup {key}
      /\ caps' = IF key = "caps" THEN ~caps ELSE caps
      /\ UNCHANGED <<keys, shift, rebooted>>
  BY DEF Press, kbdVars
<1>2. keys \subseteq AllKeys /\ down \subseteq keys /\ caps \in BOOLEAN
  BY KeyboardsHaveCodes DEF IInv, Types
<1>3. e \in Events /\ e.bytes = Sent(key, FALSE)
  <2>1. PICK b \in 0 .. 127 : CodeIs(key, b)
    BY <1>2, Codes
  <2>2. Make(key) \in Seq(Nat)
    BY <2>1 DEF CodeIs, E0
  <2>3. Meaning(key) \in Nat
    BY DEF Meaning, Ctrl, KEY_DEL
  <2> QED BY <2>2, <2>3 DEF Event, Events, Sent
<1>4. PICK ev \in Events : ev = e
  BY <1>3
<1>5. ASSUME NEW flags \in SUBSET Lasting, Agree(flags)
      PROVE  Means(ev, flags, key, FALSE)
  <2>1. ev.char = Meaning(key) /\ ev.reset = (key = "delete" /\ Held("CTL") /\ Held("ALT"))
    BY <1>4 DEF Event
  <2>2. Resets(flags, key, FALSE) => ev.reset
    BY <1>5, <2>1 DEF Resets, Agree, Modifiers
  <2>3. ASSUME SingleKeys
        PROVE  ev.char = Char(flags, key) /\ (ev.reset => Resets(flags, key, FALSE))
    <3>1. \A flag \in Modifiers : flag \in flags <=> Held(flag)
      BY <1>5, <2>3, <1>2, HeldIsOne DEF Agree
    <3>2. ("CTL" \in flags <=> Held("CTL")) /\ ("SHIFT" \in flags <=> Held("SHIFT"))
          /\ ("ALT" \in flags <=> Held("ALT"))
      BY <3>1 DEF Modifiers
    <3>3. "CAPSLOCK" \in flags <=> caps
      BY <1>5 DEF Agree
    <3>4. Meaning(key) = Char(flags, key)
      <4>1. CASE key = "a"
        <5>1. (Held("SHIFT") # caps) <=> ~(Held("SHIFT") <=> caps)
          <6>1. Held("SHIFT") \in BOOLEAN
            BY DEF Held
          <6> HIDE DEF Held
          <6> QED BY <1>2, <6>1
        <5> QED BY <3>2, <3>3, <4>1, <5>1 DEF Meaning, Char
      <4>2. CASE key # "a"
        BY <3>2, <4>2 DEF Meaning, Char
      <4> QED BY <4>1, <4>2
    <3> QED BY <2>1, <3>2, <3>4 DEF Resets
  <2> QED BY <2>2, <2>3 DEF Means
<1>6. ASSUME NEW flags \in SUBSET Lasting, Agree(flags)
      PROVE  Agree(After(flags, key, FALSE))'
  <2>1. PICK a : a = After(flags, key, FALSE)
    OBVIOUS
  <2>2. KeysOf("SHIFT")' = KeysOf("SHIFT") /\ KeysOf("CTL")' = KeysOf("CTL")
        /\ KeysOf("ALT")' = KeysOf("ALT")
    BY <1>1 DEF KeysOf
  <2>3. ASSUME NEW flag \in Modifiers
        PROVE  /\ flag \in a => Held(flag)'
               /\ Held(flag)' /\ Cardinality(KeysOf(flag))' = 1 => flag \in a
    <3>1. KeysOf(flag)' = KeysOf(flag)
      BY <2>2 DEF Modifiers
    <3>2. Held(flag)' <=> KeysOf(flag) \cap (down \cup {key}) # {}
      BY <1>1, <3>1 DEF Held
    <3>3. flag \in a <=> flag \in FlagOf(key) \/ flag \in flags
      BY <2>1, AfterIs
    <3>4. flag \in FlagOf(key) <=> key \in KeysOf(flag)
      BY <1>2, FlagsOfKeys
    <3>5. CASE key \in KeysOf(flag)
      BY <3>2, <3>3, <3>4, <3>5
    <3>6. CASE key \notin KeysOf(flag)
      <4>1. Held(flag)' <=> Held(flag)
        BY <3>2, <3>6 DEF Held
      <4> QED BY <1>6, <3>1, <3>3, <3>4, <3>6, <4>1 DEF Agree
    <3> QED BY <3>5, <3>6
  <2>4. "CAPSLOCK" \in a <=> caps'
    <3>1. "CAPSLOCK" \in a <=> IF key = "caps" THEN "CAPSLOCK" \notin flags
                               ELSE "CAPSLOCK" \in flags
      BY <2>1, AfterIs
    <3> QED BY <1>1, <1>2, <1>6, <3>1 DEF Agree
  <2> QED BY <2>1, <2>3, <2>4 DEF Agree
<1>7. down' \subseteq keys /\ caps' \in BOOLEAN
  BY <1>1, <1>2
<1> HIDE DEF e
<1>8. ev.bytes = Sent(key, FALSE) /\ queue' = Append(queue, ev)
  BY <1>1, <1>3, <1>4
<1> QED BY <1>1, <1>5, <1>6, <1>7, <1>8, Added

LEMMA ReleaseStep ==
    ASSUME IInv, NEW key \in keys, Release(key)
    PROVE  IInv'
<1> DEFINE e == Event(Break(key), 0, FALSE)
<1>1. /\ queue' = Append(queue, e) /\ down' = down \ {key}
      /\ caps' = caps /\ UNCHANGED <<keys, shift, rebooted>>
  BY DEF Release, kbdVars
<1>2. keys \subseteq AllKeys /\ down \subseteq keys /\ caps \in BOOLEAN
  BY KeyboardsHaveCodes DEF IInv, Types
<1>3. e \in Events /\ e.bytes = Sent(key, TRUE)
  <2>1. PICK b \in 0 .. 127 : CodeIs(key, b)
    BY <1>2, Codes
  <2>2. Break(key) \in Seq(Nat)
    BY <2>1 DEF CodeIs, E0
  <2> QED BY <2>2 DEF Event, Events, Sent
<1>4. PICK ev \in Events : ev = e
  BY <1>3
<1>5. ASSUME NEW flags \in SUBSET Lasting
      PROVE  Means(ev, flags, key, TRUE)
  <2>1. ev.char = 0 /\ ev.reset = FALSE
    BY <1>4 DEF Event
  <2> QED BY <2>1 DEF Means, Resets
<1>6. ASSUME NEW flags \in SUBSET Lasting, Agree(flags)
      PROVE  Agree(After(flags, key, TRUE))'
  <2>1. PICK a : a = After(flags, key, TRUE)
    OBVIOUS
  <2>2. KeysOf("SHIFT")' = KeysOf("SHIFT") /\ KeysOf("CTL")' = KeysOf("CTL")
        /\ KeysOf("ALT")' = KeysOf("ALT")
    BY <1>1 DEF KeysOf
  <2>3. ASSUME NEW flag \in Modifiers
        PROVE  /\ flag \in a => Held(flag)'
               /\ Held(flag)' /\ Cardinality(KeysOf(flag))' = 1 => flag \in a
    <3>1. KeysOf(flag)' = KeysOf(flag)
      BY <2>2 DEF Modifiers
    <3>2. Held(flag)' <=> KeysOf(flag) \cap (down \ {key}) # {}
      BY <1>1, <3>1 DEF Held
    <3>3. flag \in a <=> flag \notin FlagOf(key) /\ flag \in flags
      BY <2>1, AfterIs
    <3>4. flag \in FlagOf(key) <=> key \in KeysOf(flag)
      BY <1>2, FlagsOfKeys
    <3>5. CASE key \in KeysOf(flag)
      <4>1. Held(flag)' => Cardinality(KeysOf(flag)) # 1
        <5>1. IsFiniteSet(KeysOf(flag))
          BY <1>2, FlagsOfKeys
        <5> QED BY <3>2, <3>5, <5>1, FS_Singleton
      <4>2. Cardinality(KeysOf(flag))' = Cardinality(KeysOf(flag))
        BY <3>1
      <4> QED BY <3>3, <3>4, <3>5, <4>1, <4>2
    <3>6. CASE key \notin KeysOf(flag)
      <4>1. Held(flag)' <=> Held(flag)
        BY <3>2, <3>6 DEF Held
      <4> QED BY <1>6, <3>1, <3>3, <3>4, <3>6, <4>1 DEF Agree
    <3> QED BY <3>5, <3>6
  <2>4. "CAPSLOCK" \in a <=> caps'
    <3>1. "CAPSLOCK" \in a <=> "CAPSLOCK" \in flags
      BY <2>1, AfterIs
    <3> QED BY <1>1, <1>6, <3>1 DEF Agree
  <2> QED BY <2>1, <2>3, <2>4 DEF Agree
<1>7. down' \subseteq keys /\ caps' \in BOOLEAN
  BY <1>1, <1>2
<1> HIDE DEF e
<1>8. ev.bytes = Sent(key, TRUE) /\ queue' = Append(queue, ev)
  BY <1>1, <1>3, <1>4
<1> QED BY <1>1, <1>5, <1>6, <1>7, <1>8, Added

-----------------------------------------------------------------------------
(***************************************************************************)
(* kbd_proc_data's steps.  The byte it reads is the escape of an event or  *)
(* its last one, in which case the escape is pending if there was one.     *)
(***************************************************************************)
LEMMA HeadEvent ==
    ASSUME IInv, queue # <<>>, NEW F, NEW K, NEW U,
           Follows(F, K, U), EscapePending(K, U)
    PROVE  \E b \in 0 .. 127 :
              LET x == IF U[1] THEN b + 128 ELSE b IN
              /\ CodeIs(K[1], b)
              /\ \/ /\ data = E0 /\ "E0ESC" \notin shift
                    /\ K[1] \in Escaped /\ Head(queue).bytes = <<E0, x>>
                 \/ /\ data = x /\ Head(queue).bytes = <<x>>
                    /\ "E0ESC" \in shift <=> K[1] \in Escaped
<1>1. /\ 1 \in 1 .. Len(queue) /\ Head(queue) = queue[1]
      /\ K[1] \in AllKeys /\ U[1] \in BOOLEAN
  <2>1. queue \in Seq(Events) /\ keys \subseteq AllKeys
    BY KeyboardsHaveCodes DEF IInv, Types
  <2>2. Len(queue) \in Nat /\ Len(queue) > 0
    BY <2>1, EmptySeq
  <2> QED BY <2>1, <2>2 DEF Follows
<1>2. PICK b \in 0 .. 127 : CodeIs(K[1], b)
  BY <1>1, Codes
<1> DEFINE x == IF U[1] THEN b + 128 ELSE b
<1>3. x \in Nat /\ E0 \in Nat
  BY DEF E0
<1>4. Sent(K[1], U[1]) = IF K[1] \in Escaped THEN <<E0, x>> ELSE <<x>>
  BY <1>1, <1>2 DEF Sent, CodeIs
<1> HIDE DEF x
<1>5. CASE "E0ESC" \in shift
  <2>1. K[1] \in Escaped /\ queue[1].bytes = Tail(<<E0, x>>)
    BY <1>4, <1>5 DEF EscapePending
  <2>2. Tail(<<E0, x>>) = <<x>>
    BY <1>3
  <2>3. Head(queue).bytes = <<x>> /\ data = x
    BY <1>1, <1>3, <2>1, <2>2 DEF data
  <2> QED BY <1>2, <1>5, <2>1, <2>3 DEF x
<1>6. CASE "E0ESC" \notin shift
  <2>1. Head(queue).bytes = Sent(K[1], U[1])
    BY <1>1, <1>6 DEF Follows
  <2>2. CASE K[1] \in Escaped
    <3>1. Head(queue).bytes = <<E0, x>> /\ data = E0
      BY <1>3, <1>4, <2>1, <2>2 DEF data
    <3> QED BY <1>2, <1>6, <2>2, <3>1 DEF x
  <2>3. CASE K[1] \notin Escaped
    <3>1. Head(queue).bytes = <<x>> /\ data = x
      BY <1>3, <1>4, <2>1, <2>3 DEF data
    <3> QED BY <1>2, <1>6, <2>3, <3>1 DEF x
  <2> QED BY <2>2, <2>3
<1> QED BY <1>5, <1>6

LEMMA EscapeStep ==
    ASSUME IInv, Escape
    PROVE  IInv' /\ Len(queue') = Len(queue)
<1>1. PICK F, K, U : Follows(F, K, U) /\ EscapePending(K, U)
  BY DEF IInv
<1>2. queue # <<>> /\ data = E0 /\ shift' = shift \cup {"E0ESC"}
      /\ UNCHANGED <<keys, rebooted, down, caps>> /\ Consumed
  BY DEF Escape
<1>3. PICK b \in 0 .. 127 :
              LET x == IF U[1] THEN b + 128 ELSE b IN
              /\ CodeIs(K[1], b)
              /\ \/ /\ data = E0 /\ "E0ESC" \notin shift
                    /\ K[1] \in Escaped /\ Head(queue).bytes = <<E0, x>>
                 \/ /\ data = x /\ Head(queue).bytes = <<x>>
                    /\ "E0ESC" \in shift <=> K[1] \in Escaped
  BY <1>1, <1>2, HeadEvent
<1> DEFINE x == IF U[1] THEN b + 128 ELSE b
<1>4. x \in Nat /\ x # E0 /\ E0 \in Nat
  BY <1>3 DEF CodeIs, E0
<1>5. CodeIs(K[1], b) /\ "E0ESC" \notin shift /\ K[1] \in Escaped
      /\ Head(queue).bytes = <<E0, x>>
  BY <1>2, <1>3, <1>4
<1>6. Sent(K[1], U[1]) = <<E0, x>>
  BY <1>5 DEF Sent, CodeIs
<1> HIDE DEF x
<1>7. PICK n \in Nat : n = Len(queue) /\ n > 0 /\ queue \in Seq(Events) /\ Head(queue) = queue[1]
  BY <1>2, EmptySeq DEF IInv, Types
<1>8. Len(Head(queue).bytes) = 2 /\ Tail(queue[1].bytes) = <<x>>
  <2>1. Len(<<E0, x>>) = 2 /\ Tail(<<E0, x>>) = <<x>>
    BY <1>4
  <2>2. queue[1].bytes = <<E0, x>>
    BY <1>5, <1>7
  <2> QED BY <1>5, <2>1, <2>2
<1>9. queue' = [queue EXCEPT ![1] = [queue[1] EXCEPT !.bytes = <<x>>]]
  <2>1. ~(Len(Head(queue).bytes) = 1)
    BY <1>8
  <2>2. queue' = [queue EXCEPT ![1].bytes = Tail(@)]
    BY <1>2, <2>1, Zenon DEF Consumed
  <2>3. queue' = [queue EXCEPT ![1] = [queue[1] EXCEPT !.bytes = Tail(queue[1].bytes)]]
    BY <2>2, <1>7
  <2> QED BY <1>8, <2>3
<1>10. PICK e : e = [queue[1] EXCEPT !.bytes = <<x>>]
  OBVIOUS
<1>11. queue[1] \in Events /\ e \in Events /\ e.bytes = <<x>>
       /\ e.char = queue[1].char /\ e.reset = queue[1].reset
  <2>1. queue[1] \in Events
    BY <1>7
  <2>2. <<x>> \in Seq(Nat)
    BY <1>4
  <2> QED BY <1>10, <2>1, <2>2 DEF Events
<1>12. /\ queue' \in Seq(Events) /\ Len(queue') = n
       /\ queue'[1] = e /\ \A k \in 1 .. n : k > 1 => queue'[k] = queue[k]
  BY <1>7, <1>9, <1>10, <1>11, ExceptSeq
<1>13. keys' = keys /\ (\A d, f, k, u : Means(d, f, k, u)' <=> Means(d, f, k, u))
  BY <1>2 DEF Means, SingleKeys, KeysOf
<1>14. \A f, k, u : Means(e, f, k, u) <=> Means(queue[1], f, k, u)
  BY <1>11 DEF Means
<1>15. Follows(F, K, U)'
  <2>1. F[0] = shift' \ {"E0ESC"}
    BY <1>1, <1>2, <1>5 DEF Follows
  <2>2. Agree(F[n])'
    BY <1>1, <1>2, <1>7 DEF Follows, Agree, Held, KeysOf
  <2>3. ASSUME NEW k \in 1 .. n
        PROVE  /\ F[k] = After(F[k - 1], K[k], U[k])
               /\ Means(queue'[k], F[k - 1], K[k], U[k])
               /\ k > 1 => queue'[k].bytes = Sent(K[k], U[k])
    <3>1. /\ F[k] = After(F[k - 1], K[k], U[k])
          /\ Means(queue[k], F[k - 1], K[k], U[k])
          /\ queue[k].bytes = Sent(K[k], U[k])
      BY <1>1, <1>5, <1>7 DEF Follows
    <3> QED BY <1>12, <1>14, <3>1
  <2>4. /\ F \in [0 .. n -> SUBSET Lasting]
        /\ K \in [1 .. n -> keys]
        /\ U \in [1 .. n -> BOOLEAN]
    BY <1>1, <1>7 DEF Follows
  <2>5. "E0ESC" \in shift'
    BY <1>2
  <2> QED BY <1>12, <1>13, <2>1, <2>2, <2>3, <2>4, <2>5 DEF Follows
<1>16. EscapePending(K, U)'
  <2>1. queue' # <<>> /\ queue'[1].bytes = <<x>>
    BY <1>7, <1>11, <1>12
  <2>2. Tail(Sent(K[1], U[1])) = <<x>>
    BY <1>4, <1>6
  <2> QED BY <1>5, <2>1, <2>2 DEF EscapePending
<1>17. Types'
  BY <1>2, <1>12 DEF IInv, Types
<1> QED BY <1>7, <1>12, <1>15, <1>16, <1>17 DEF IInv

\* The last byte of an event takes it from the queue.
LEMMA Taken ==
    ASSUME IInv, queue # <<>>, NEW F, NEW K, NEW U,
           Follows(F, K, U), queue' = Tail(queue),
           shift' = After(F[0], K[1], U[1]), "E0ESC" \notin shift',
           UNCHANGED <<keys, down, caps>>, rebooted' \in BOOLEAN
    PROVE  IInv'
<1>1. PICK n \in Nat : n = Len(queue) /\ n > 0 /\ queue \in Seq(Events)
  BY EmptySeq DEF IInv, Types
<1>2. /\ queue' \in Seq(Events) /\ Len(queue') = n - 1
      /\ \A k \in 1 .. n - 1 : queue'[k] = queue[k + 1]
  BY <1>1, HeadTailProperties
<1> DEFINE G == [k \in 0 .. n - 1 |-> F[k + 1]]
           L == [k \in 1 .. n - 1 |-> K[k + 1]]
           V == [k \in 1 .. n - 1 |-> U[k + 1]]
<1>3. /\ F \in [0 .. n -> SUBSET Lasting]
      /\ K \in [1 .. n -> keys]
      /\ U \in [1 .. n -> BOOLEAN]
      /\ F[1] = After(F[0], K[1], U[1])
      /\ Agree(F[n])
      /\ \A k \in 1 .. n : /\ F[k] = After(F[k - 1], K[k], U[k])
                           /\ Means(queue[k], F[k - 1], K[k], U[k])
                           /\ k > 1 => queue[k].bytes = Sent(K[k], U[k])
  <2>1. /\ \A k \in 1 .. n : /\ F[k] = After(F[k - 1], K[k], U[k])
                             /\ Means(queue[k], F[k - 1], K[k], U[k])
                             /\ k > 1 => queue[k].bytes = Sent(K[k], U[k])
        /\ Agree(F[n])
    BY <1>1 DEF Follows
  <2>2. 1 \in 1 .. n /\ 1 - 1 = 0
    BY <1>1
  <2>3. F[1] = After(F[1 - 1], K[1], U[1])
    BY <2>1, <2>2
  <2>4. /\ F \in [0 .. n -> SUBSET Lasting]
        /\ K \in [1 .. n -> keys]
        /\ U \in [1 .. n -> BOOLEAN]
    BY <1>1 DEF Follows
  <2>5. F[1] = After(F[0], K[1], U[1])
    BY <2>2, <2>3
  <2> QED BY <2>1, <2>4, <2>5
<1>4. /\ \A k \in 0 .. n - 1 : k + 1 \in 0 .. n
      /\ \A k \in 1 .. n - 1 : k + 1 \in 1 .. n
  BY <1>1
<1>5. /\ G \in [0 .. n - 1 -> SUBSET Lasting]
      /\ L \in [1 .. n - 1 -> keys]
      /\ V \in [1 .. n - 1 -> BOOLEAN]
  BY <1>3, <1>4
<1>6. ASSUME NEW k \in 1 .. n - 1
      PROVE  /\ G[k] = After(G[k - 1], L[k], V[k])
             /\ Means(queue'[k], G[k - 1], L[k], V[k])
             /\ queue'[k].bytes = Sent(L[k], V[k])
  <2>1. k \in 0 .. n - 1 /\ k - 1 \in 0 .. n - 1 /\ k + 1 \in 1 .. n /\ k + 1 > 1
        /\ (k - 1) + 1 = k /\ (k + 1) - 1 = k
    BY <1>1
  <2>2. G[k] = F[k + 1] /\ G[k - 1] = F[k] /\ L[k] = K[k + 1] /\ V[k] = U[k + 1]
        /\ queue'[k] = queue[k + 1]
    BY <1>2, <2>1
  <2> HIDE DEF G, L, V
  <2>3. /\ F[k + 1] = After(F[k], K[k + 1], U[k + 1])
        /\ Means(queue[k + 1], F[k], K[k + 1], U[k + 1])
        /\ queue[k + 1].bytes = Sent(K[k + 1], U[k + 1])
    BY <1>3, <2>1
  <2> QED BY <2>2, <2>3
<1>7. G[0] = F[1] /\ G[n - 1] = F[n]
  BY <1>1
<1> HIDE DEF G, L, V
<1>8. keys' = keys /\ (\A d, f, k, u : Means(d, f, k, u)' <=> Means(d, f, k, u))
  BY DEF Means, SingleKeys, KeysOf
<1>9. Agree(F[n])'
  BY <1>3 DEF Agree, Held, KeysOf
<1>10. G[0] = shift' \ {"E0ESC"}
  BY <1>3, <1>7
<1>11. Agree(G[n - 1])'
  BY <1>7, <1>9
<1>12. Follows(G, L, V)'
  BY <1>2, <1>5, <1>6, <1>8, <1>10, <1>11 DEF Follows
<1>13. EscapePending(L, V)'
  BY DEF EscapePending
<1>14. shift' \subseteq Lasting
  <2>1. 0 \in 0 .. n /\ 1 \in 0 .. n
    BY <1>1
  <2> QED BY <1>3, <2>1
<1>15. Types'
  BY <1>2, <1>14 DEF IInv, Types
<1> QED BY <1>12, <1>13, <1>15 DEF IInv

\* What kbd_proc_data makes of the last byte of an event.
LEMMA LastByte ==
    ASSUME IInv, KeyReleased \/ KeyPressed, ~rebooted
    PROVE  /\ IInv' /\ queue' = Tail(queue) /\ queue # <<>>
           /\ rebooted' => Head(queue).reset
           /\ SingleKeys => ret' = Head(queue).char /\ rebooted' = Head(queue).reset
<1>1. PICK F, K, U : Follows(F, K, U) /\ EscapePending(K, U)
  BY DEF IInv
<1>2. queue # <<>> /\ data # E0 /\ Consumed /\ UNCHANGED <<keys, down, caps>>
  BY DEF KeyReleased, KeyPressed, E0
<1>3. PICK b \in 0 .. 127 :
              LET x == IF U[1] THEN b + 128 ELSE b IN
              /\ CodeIs(K[1], b)
              /\ \/ /\ data = E0 /\ "E0ESC" \notin shift
                    /\ K[1] \in Escaped /\ Head(queue).bytes = <<E0, x>>
                 \/ /\ data = x /\ Head(queue).bytes = <<x>>
                    /\ "E0ESC" \in shift <=> K[1] \in Escaped
  BY <1>1, <1>2, HeadEvent
<1>4. 1 \in 1 .. Len(queue) /\ Head(queue) = queue[1] /\ Head(queue) \in Events
  <2>1. queue \in Seq(Events)
    BY DEF IInv, Types
  <2>2. Len(queue) \in Nat /\ Len(queue) > 0
    BY <1>2, <2>1, EmptySeq
  <2> QED BY <2>1, <2>2
<1>5. /\ F[0] = shift \ {"E0ESC"} /\ F[0] \in SUBSET Lasting /\ U[1] \in BOOLEAN
      /\ Means(Head(queue), F[0], K[1], U[1])
  <2>1. F[0] = shift \ {"E0ESC"}
    BY <1>1 DEF Follows
  <2>2. Means(queue[1], F[1 - 1], K[1], U[1]) /\ 1 - 1 = 0
    BY <1>1, <1>4 DEF Follows
  <2>3. shift \subseteq Lasting \cup {"E0ESC"}
    BY DEF IInv, Types
  <2>4. U[1] \in BOOLEAN
    BY <1>1, <1>4 DEF Follows
  <2> QED BY <1>4, <2>1, <2>2, <2>3, <2>4
<1>6. PICK flags \in SUBSET Lasting : flags = F[0]
  BY <1>5
<1>7. PICK key : key = K[1]
  OBVIOUS
<1>8. PICK up \in BOOLEAN : up = U[1] /\ key = K[1]
  BY <1>5, <1>7
<1> DEFINE x == IF up THEN b + 128 ELSE b
           code == IF key \in Escaped THEN b + 128 ELSE b
<1>9. CodeIs(key, b) /\ data = x /\ Head(queue).bytes = <<x>>
      /\ ("E0ESC" \in shift <=> key \in Escaped)
  BY <1>2, <1>3, <1>8
<1>10. queue' = Tail(queue)
  <2>1. Len(<<x>>) = 1
    OBVIOUS
  <2> HIDE DEF x
  <2>2. Len(Head(queue).bytes) = 1
    BY <1>9, <2>1
  <2> QED BY <1>2, <2>2, Zenon DEF Consumed
<1>11. shiftcode(code) = FlagOf(key) /\ togglecode(code) = LockOf(key)
       /\ flags = shift \ {"E0ESC"} /\ Means(Head(queue), flags, key, up)
  BY <1>5, <1>6, <1>8, <1>9 DEF CodeIs
<1>12. After(flags, key, up) \in SUBSET Lasting /\ "E0ESC" \notin Lasting
  BY AfterIs DEF Lasting, Modifiers
<1>13. shift' = After(flags, key, up) /\ rebooted' \in BOOLEAN => IInv'
  BY <1>1, <1>2, <1>6, <1>8, <1>10, <1>12, Taken
<1>14. Head(queue).reset \in BOOLEAN /\ rebooted \in BOOLEAN
  BY <1>4 DEF Events, IInv, Types
<1>15. CASE KeyReleased
  <2>1. up /\ x = b + 128
    <3>1. x >= 128
      BY <1>9, <1>15 DEF KeyReleased
    <3>2. CASE ~up
      BY <3>1, <3>2
    <3> QED BY <3>2
  <2>2. (IF "E0ESC" \in shift THEN data ELSE data - 128) = code
    BY <1>9, <2>1
  <2> HIDE DEF code, x
  <2>3. shift' = shift \ (shiftcode(code) \cup {"E0ESC"}) /\ ret' = 0 /\ rebooted' = rebooted
    BY <1>15, <2>2 DEF KeyReleased
  <2>4. shift' = After(flags, key, up)
    BY <1>11, <2>1, <2>3 DEF After
  <2>5. IInv' /\ ~rebooted'
    BY <1>13, <1>14, <2>3, <2>4
  <2>6. SingleKeys => Head(queue).char = 0 /\ ~Head(queue).reset
    BY <1>11, <2>1 DEF Means, Resets
  <2> QED BY <1>2, <1>10, <1>14, <2>3, <2>5, <2>6
<1>16. CASE KeyPressed
  <2>1. ~up /\ x = b
    <3>1. x < 128
      BY <1>9, <1>16 DEF KeyPressed
    <3>2. CASE up
      BY <3>1, <3>2
    <3> QED BY <3>2
  <2>2. (IF "E0ESC" \in shift THEN data + 128 ELSE data) = code
    BY <1>9, <2>1
  <2> HIDE DEF code, x
  <2> DEFINE now == SymDiff((shift \ {"E0ESC"}) \cup shiftcode(code), togglecode(code))
             c   == charcode(now, code)
  <2>3. /\ shift' = now
        /\ ret' = IF "CAPSLOCK" \in now THEN SwapCase(c) ELSE c
        /\ rebooted' = (rebooted \/ (ResetHeld(now) /\ c = KEY_DEL))
    <3>1. KeyPressed
      BY <1>16
    <3> QED BY <2>2, <3>1, Zenon DEF KeyPressed
  <2>4. now = After(flags, key, up)
    BY <1>11, <2>1 DEF After
  <2>5. c = CASE key = "a" -> IF "CTL" \in now THEN Ctrl(65)
                              ELSE IF "SHIFT" \in now THEN 65 ELSE 97
              [] key = "1" -> IF "CTL" \in now THEN 0
                              ELSE IF "SHIFT" \in now THEN 33 ELSE 49
              [] key = "delete" -> KEY_DEL
              [] OTHER -> 0
    BY <1>9 DEF CodeIs, code
  <2> HIDE DEF now, c
  <2>6. key \in {"a", "1", "delete"} => now = flags
    BY <2>1, <2>4 DEF After, FlagOf, LockOf, SymDiff
  <2>7. rebooted' <=> Resets(flags, key, up)
    <3>1. c = KEY_DEL <=> key = "delete"
      BY <2>5 DEF KEY_DEL, Ctrl
    <3> QED BY <2>1, <2>3, <2>6, <3>1 DEF Resets, ResetHeld
  <2>8. ret' = Char(flags, key)
    <3>1. CASE key = "a"
      BY <2>3, <2>5, <2>6, <3>1 DEF Char, SwapCase, Ctrl
    <3>2. CASE key = "1"
      BY <2>3, <2>5, <2>6, <3>2 DEF Char, SwapCase
    <3>3. CASE key = "delete"
      BY <2>3, <2>5, <3>3 DEF Char, SwapCase, KEY_DEL
    <3>4. CASE key \notin {"a", "1", "delete"}
      BY <2>3, <2>5, <3>4 DEF Char, SwapCase
    <3> QED BY <3>1, <3>2, <3>3, <3>4
  <2>9. rebooted' \in BOOLEAN
    BY <2>3
  <2>10. IInv'
    BY <1>13, <2>3, <2>4, <2>9
  <2>11. rebooted' => Head(queue).reset
    BY <1>11, <2>7 DEF Means
  <2>12. SingleKeys => ret' = Head(queue).char /\ rebooted' = Head(queue).reset
    <3>1. SingleKeys => /\ Head(queue).char = Char(flags, key)
                        /\ Head(queue).reset => Resets(flags, key, up)
      BY <1>11, <2>1 DEF Means
    <3> QED BY <1>14, <2>7, <2>8, <2>9, <2>11, <3>1
  <2> QED BY <1>2, <1>10, <2>10, <2>11, <2>12
<1> QED BY <1>15, <1>16

-----------------------------------------------------------------------------
LEMMA InitInv == Init => IInv
<1> SUFFICES ASSUME Init PROVE IInv
  OBVIOUS
<1>1. /\ keys \in Keyboards /\ shift = {} /\ ~rebooted /\ rebooted \in BOOLEAN
      /\ queue = <<>> /\ down = {} /\ ~caps /\ caps \in BOOLEAN
  BY DEF Init
<1>2. Types
  <2>1. queue \in Seq(Events)
    BY <1>1, EmptySeq
  <2> QED BY <1>1, <2>1 DEF Types
<1>3. Len(queue) = 0 /\ 1 .. 0 = {} /\ 0 .. 0 = {0}
  BY <1>1
<1> DEFINE F == [k \in {0} |-> {}]
           K == [k \in {} |-> 0]
           U == [k \in {} |-> FALSE]
<1>4. /\ F \in [0 .. 0 -> SUBSET Lasting] /\ F[0] = {}
      /\ K \in [1 .. 0 -> keys] /\ U \in [1 .. 0 -> BOOLEAN]
  BY <1>3
<1> HIDE DEF F, K, U
<1>5. Agree({})
  BY <1>1 DEF Agree, Held
<1>6. Follows(F, K, U) /\ EscapePending(K, U)
  BY <1>1, <1>3, <1>4, <1>5 DEF Follows, EscapePending
<1> QED BY <1>2, <1>6 DEF IInv

LEMMA NextInv == IInv /\ [Next]_vars => IInv'
<1> SUFFICES ASSUME IInv, [Next]_vars PROVE IInv'
  OBVIOUS
<1>1. CASE UNCHANGED vars
  <2>1. UNCHANGED <<keys, shift, rebooted, queue, down, caps>>
    BY <1>1 DEF vars, kbdVars
  <2>2. Types'
    BY <2>1 DEF IInv, Types
  <2>3. PICK F, K, U : Follows(F, K, U) /\ EscapePending(K, U)
    BY DEF IInv
  <2>4. Follows(F, K, U)' /\ EscapePending(K, U)'
    BY <2>1, <2>3 DEF Follows, EscapePending, Agree, Means, SingleKeys, Held, KeysOf
  <2> QED BY <2>2, <2>4 DEF IInv
<1>2. ASSUME NEW key \in keys, Press(key) \/ Release(key) PROVE IInv'
  BY <1>2, PressStep, ReleaseStep
<1>3. CASE Escape
  BY <1>3, EscapeStep
<1>4. CASE ~rebooted /\ (KeyReleased \/ KeyPressed)
  BY <1>4, LastByte
<1> QED BY <1>1, <1>2, <1>3, <1>4 DEF Next, kbd_proc_data

(***************************************************************************)
(* In every reachable state the queue can be followed to the keys held.    *)
(***************************************************************************)
THEOREM KeyboardInvariance == Spec => []IInv
BY InitInv, NextInv, PTL DEF Spec

(***************************************************************************)
(* When all codes are processed, no modifier and no escape is stuck.       *)
(***************************************************************************)
THEOREM ModifiersReleased == Spec => []NoStuckModifier
<1>1. IInv => NoStuckModifier
  <2> SUFFICES ASSUME IInv, queue = <<>>
               PROVE  /\ \A flag \in Modifiers :
                            /\ flag \in shift => Held(flag)
                            /\ Held(flag) /\ Cardinality(KeysOf(flag)) = 1 => flag \in shift
                      /\ "E0ESC" \notin shift
                      /\ "CAPSLOCK" \in shift <=> caps
    BY DEF NoStuckModifier
  <2>1. PICK F, K, U : Follows(F, K, U) /\ EscapePending(K, U)
    BY DEF IInv
  <2>2. "E0ESC" \notin shift /\ Len(queue) = 0
    BY <2>1 DEF EscapePending
  <2>3. F[0] = shift /\ Agree(F[0])
    BY <2>1, <2>2 DEF Follows
  <2>4. Agree(shift)
    BY <2>3
  <2> QED BY <2>2, <2>4 DEF Agree
<1> QED BY <1>1, KeyboardInvariance, PTL

-----------------------------------------------------------------------------
(***************************************************************************)
(* A step that takes an event from the queue is the last byte's.           *)
(***************************************************************************)
LEMMA OthersKeep ==
    ASSUME IInv, [Next]_vars, ~(~rebooted /\ (KeyReleased \/ KeyPressed))
    PROVE  /\ queue # <<>> => queue' # Tail(queue)
           /\ UNCHANGED rebooted
<1>1. queue \in Seq(Events)
  BY DEF IInv, Types
<1>2. queue # <<>> => Len(Tail(queue)) = Len(queue) - 1 /\ Len(queue) \in Nat
  BY <1>1, HeadTailProperties, EmptySeq
<1>3. CASE UNCHANGED vars
  BY <1>2, <1>3 DEF vars, kbdVars
<1>4. CASE \E key \in keys : Press(key) \/ Release(key)
  <2>1. PICK e : queue' = Append(queue, e)
    BY <1>4 DEF Press, Release
  <2>2. UNCHANGED rebooted
    BY <1>4 DEF Press, Release, kbdVars
  <2>3. Len(queue') = Len(queue) + 1
    BY <1>1, <2>1
  <2> QED BY <1>2, <2>2, <2>3
<1>5. CASE Escape
  BY <1>2, <1>5, EscapeStep DEF Escape
<1> QED BY <1>3, <1>4, <1>5 DEF Next, kbd_proc_data

(***************************************************************************)
(* Each key gives the character it meant when it was pressed.              *)
(***************************************************************************)
THEOREM KeysDecoded == Spec => DecodesAsPressed
<1>1. IInv /\ [Next]_vars =>
        [/\ \A flag \in Modifiers : Cardinality(KeysOf(flag)) <= 1
         /\ queue # <<>> /\ queue' = Tail(queue)
         => ret' = Head(queue).char /\ rebooted' = Head(queue).reset]_vars
  <2> SUFFICES ASSUME IInv, [Next]_vars, SingleKeys, queue # <<>>, queue' = Tail(queue)
               PROVE  ret' = Head(queue).char /\ rebooted' = Head(queue).reset
    BY DEF SingleKeys
  <2>1. ~rebooted /\ (KeyReleased \/ KeyPressed)
    BY OthersKeep
  <2> QED BY <2>1, LastByte
<1> QED BY <1>1, KeyboardInvariance, PTL DEF Spec, DecodesAsPressed

(***************************************************************************)
(* The machine is reset only by a Delete pressed with Ctrl and Alt down.   *)
(***************************************************************************)
THEOREM ResetRequested == Spec => ResetOnlyOnRequest
<1>1. IInv /\ [Next]_vars => [rebooted' => Head(queue).reset]_vars
  <2> SUFFICES ASSUME IInv, [Next]_vars, rebooted', ~(UNCHANGED vars)
               PROVE  Head(queue).reset
    OBVIOUS
  <2>1. ~rebooted
    BY DEF Next
  <2>2. KeyReleased \/ KeyPressed
    BY <2>1, OthersKeep
  <2> QED BY <2>1, <2>2, LastByte
<1> QED BY <1>1, KeyboardInvariance, PTL DEF Spec, ResetOnlyOnRequest
================================================================================
