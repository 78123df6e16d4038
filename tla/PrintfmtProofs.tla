---------------------------- MODULE PrintfmtProofs ----------------------------
(***************************************************************************)
(* What vprintfmt prints and what snprintf leaves in memory, for any       *)
(* formats, arguments, word sizes and buffers.                             *)
(*                                                                         *)
(* BufferBounded: the invariant IInv follows the buffer through every      *)
(* character printed; that a conversion prints a text at all takes the     *)
(* digits printnum recurs over.                                            *)
(*                                                                         *)
(* PrintsAsDirected: the invariant PlaceInv says where in the format       *)
(* vprintfmt is, what it remembers of the directive it reads, and that all *)
(* before is printed as the reference has it.                              *)
(*                                                                         *)
(* What a recursive function gives is shown by the least argument at which *)
(* it would give something else.                                           *)
(***************************************************************************)
EXTENDS Printfmt, TLAPS, SequenceTheorems, WellFoundedInduction


\* There is a least number in every set of them.
LEMMA LeastNat ==
    ASSUME NEW T, T \subseteq Nat, T # {}
    PROVE  \E x \in T : \A y \in T : x <= y
<1> DEFINE R == OpToRel(<, Nat)
<1>1. IsWellFoundedOn(R, Nat)
  BY NatLessThanWellFounded
<1>2. \A x, y \in Nat : x < y => <<x, y>> \in R
  BY DEF OpToRel
<1>3. \E x \in T : \A y \in T : ~(<<y, x>> \in R)
  <2> HIDE DEF R
  <2> QED BY <1>1, WFMin
<1>4. PICK x \in T : \A y \in T : ~(<<y, x>> \in R)
  BY <1>3
<1> HIDE DEF R
<1>5. \A y \in T : ~(y < x)
  BY <1>2, <1>4, Zenon
<1>6. \A y \in T : x <= y
  BY <1>5, SMT
<1> QED BY <1>6

\* The maximum of a set that has one.
LEMMA MaxIs ==
    ASSUME NEW S, S \subseteq Int, NEW x \in S, \A y \in S : x >= y
    PROVE  Max(S) = x
<1>1. \E z \in S : \A y \in S : z >= y
  OBVIOUS
<1>2. Max(S) \in S /\ \A y \in S : Max(S) >= y
  BY <1>1 DEF Max
<1>3. Max(S) \in Int /\ x \in Int
  BY <1>2
<1>4. Max(S) >= x /\ x >= Max(S)
  BY <1>2
<1> QED BY <1>3, <1>4

\* The minimum of two.
LEMMA MinIs ==
    ASSUME NEW x \in Int, NEW y \in Int
    PROVE  Min({x, y}) = IF x <= y THEN x ELSE y
<1> DEFINE S == {x, y}
           m == IF x <= y THEN x ELSE y
<1>1. m \in S /\ \A z \in S : m <= z
  OBVIOUS
<1>2. \A z \in S : (\A u \in S : z <= u) => z = m
  OBVIOUS
<1>3. Min(S) = CHOOSE z \in S : \A u \in S : z <= u
  BY DEF Min
<1> HIDE DEF S, m
<1>4. Min(S) = m
  BY <1>1, <1>2, <1>3
<1> QED BY <1>4 DEF S, m

\* The larger of a number and 0.
LEMMA MaxOfTwo ==
    ASSUME NEW k \in Int
    PROVE  Max({k, 0}) = IF k >= 0 THEN k ELSE 0
<1>1. k >= 0 => Max({k, 0}) = k
  BY MaxIs
<1>2. ~(k >= 0) => Max({k, 0}) = 0
  BY MaxIs
<1> QED BY <1>1, <1>2

\* A set of positions has a last one.
LEMMA LastOf ==
    ASSUME NEW lo \in Int, NEW hi \in Int, NEW S, S \subseteq lo .. hi, S # {}
    PROVE  Max(S) \in S /\ \A y \in S : Max(S) >= y
<1> DEFINE T == {hi - x : x \in S}
<1>0. \A k \in S : k \in Int /\ hi - k \in Nat
  OBVIOUS
<1>1. T \subseteq Nat /\ T # {} /\ S \subseteq Int
  BY <1>0
<1>2. PICK t \in T : \A u \in T : t <= u
  BY <1>1, LeastNat
<1>3. PICK x \in S : t = hi - x
  OBVIOUS
<1>4. \A y \in S : x >= y
  <2> SUFFICES ASSUME NEW y \in S PROVE x >= y
    OBVIOUS
  <2>1. t <= hi - y
    BY <1>2
  <2> QED BY <1>3, <2>1
<1>5. Max(S) = x
  BY <1>1, <1>4, MaxIs
<1> QED BY <1>4, <1>5

-----------------------------------------------------------------------------
(***************************************************************************)
(* What is a text.                                                         *)
(***************************************************************************)
LEMMA TextIs ==
    ASSUME NEW S, NEW s \in Seq(S)
    PROVE  IsText(s)
<1>1. Len(s) \in Nat /\ s \in [1 .. Len(s) -> S]
  BY LenProperties
<1>2. \A k \in 1 .. Len(s) : s[k] \in Range(s)
  BY <1>1 DEF Range
<1>3. s \in [1 .. Len(s) -> Range(s)]
  BY <1>1, <1>2
<1> QED BY <1>1, <1>3, SeqDef DEF IsText

\* The length of a text and its positions.
LEMMA TextLen ==
    ASSUME NEW s, IsText(s)
    PROVE  Len(s) \in Nat /\ DOMAIN s = 1 .. Len(s)
BY LenProperties DEF IsText

\* A function on 1 .. n is a text of n characters.
LEMMA TextFunction ==
    ASSUME NEW len \in Nat, NEW s, DOMAIN s = 1 .. len, s = [k \in 1 .. len |-> s[k]]
    PROVE  IsText(s) /\ Len(s) = len
<1>1. s \in [1 .. len -> Range(s)]
  BY DEF Range
<1>2. s \in Seq(Range(s))
  BY <1>1, SeqDef
<1> QED BY <1>2, LenProperties DEF IsText

\* Two texts, one after the other.
LEMMA TextConcat ==
    ASSUME NEW s, NEW t, IsText(s), IsText(t)
    PROVE  /\ IsText(s \o t)
           /\ Len(s \o t) = Len(s) + Len(t)
           /\ \A k \in 1 .. Len(s) : (s \o t)[k] = s[k]
           /\ \A k \in 1 .. Len(t) : (s \o t)[Len(s) + k] = t[k]
<1> DEFINE S == Range(s) \cup Range(t)
<1>1. s \in Seq(S) /\ t \in Seq(S)
  <2>1. Range(s) \subseteq S /\ Range(t) \subseteq S
    OBVIOUS
  <2>2. s \in Seq(Range(s)) /\ t \in Seq(Range(t))
    BY DEF IsText
  <2> HIDE DEF S
  <2>3. \A A, B, u : A \subseteq B /\ u \in Seq(A) => u \in Seq(B)
    BY SeqMonotonic
  <2> QED BY <2>1, <2>2, <2>3
<1> HIDE DEF S
<1>2. s \o t \in Seq(S)
  BY <1>1
<1>3. /\ Len(s \o t) = Len(s) + Len(t) /\ Len(s) \in Nat /\ Len(t) \in Nat
      /\ \A k \in 1 .. Len(s) + Len(t) : (s \o t)[k] =
                     IF k <= Len(s) THEN s[k] ELSE t[k - Len(s)]
  BY <1>1, ConcatProperties, TextLen
<1>4. \A k \in 1 .. Len(s) : (s \o t)[k] = s[k]
  <2>1. \A k \in 1 .. Len(s) : k \in 1 .. Len(s) + Len(t) /\ k <= Len(s)
    BY <1>3
  <2> QED BY <1>3, <2>1
<1>5. \A k \in 1 .. Len(t) : (s \o t)[Len(s) + k] = t[k]
  <2>1. \A k \in 1 .. Len(t) : /\ Len(s) + k \in 1 .. Len(s) + Len(t)
                               /\ ~(Len(s) + k <= Len(s)) /\ (Len(s) + k) - Len(s) = k
    BY <1>3
  <2> QED BY <1>3, <2>1
<1>6. IsText(s \o t)
  BY <1>2, TextIs
<1> QED BY <1>3, <1>4, <1>5, <1>6

\* The second text in the two.
LEMMA ConcatBehind ==
    ASSUME NEW s, NEW t, IsText(s), IsText(t)
    PROVE  \A k \in 1 .. Len(t) : (s \o t)[Len(s) + k] = t[k]
BY TextConcat

\* A text and one more character.
LEMMA TextAppend ==
    ASSUME NEW s, NEW c, IsText(s)
    PROVE  IsText(Append(s, c))
<1> DEFINE S == Range(s) \cup {c}
<1>1. s \in Seq(S) /\ c \in S
  <2>1. Range(s) \subseteq S
    OBVIOUS
  <2>2. s \in Seq(Range(s))
    BY DEF IsText
  <2>4. c \in S
    OBVIOUS
  <2> HIDE DEF S
  <2>3. \A A, B, u : A \subseteq B /\ u \in Seq(A) => u \in Seq(B)
    BY SeqMonotonic
  <2> QED BY <2>1, <2>2, <2>3, <2>4
<1> HIDE DEF S
<1>2. Append(s, c) \in Seq(S)
  BY <1>1
<1> QED BY <1>2, TextIs

\* Padding is a text.
LEMMA TextRepeat ==
    ASSUME NEW c, NEW k \in Int
    PROVE  IsText(Repeat(c, k))
<1>1. PICK m \in Nat : m = Max({k, 0})
  BY MaxOfTwo
<1>2. Repeat(c, k) = [j \in 1 .. m |-> c]
  BY <1>1 DEF Repeat
<1>3. [j \in 1 .. m |-> c] \in [1 .. m -> {c}]
  OBVIOUS
<1>4. [j \in 1 .. m |-> c] \in Seq({c})
  BY <1>3, SeqDef
<1> QED BY <1>2, <1>4, TextIs

\* A part of a text is a text.
LEMMA TextSubSeq ==
    ASSUME NEW s, IsText(s), NEW k \in 0 .. Len(s)
    PROVE  IsText(SubSeq(s, 1, k))
<1>1. s \in Seq(Range(s)) /\ Len(s) \in Nat
  BY TextLen DEF IsText
<1>2. \A j \in 1 .. k : s[j] \in Range(s)
  BY <1>1, TextLen DEF Range
<1>3. SubSeq(s, 1, k) \in Seq(Range(s))
  BY <1>1, <1>2
<1> QED BY <1>3, TextIs

\* So is a text with characters replaced.
LEMMA TextMap ==
    ASSUME NEW s, IsText(s), NEW u, u = [k \in DOMAIN s |-> u[k]]
    PROVE  IsText(u)
BY TextLen, TextFunction

-----------------------------------------------------------------------------
(***************************************************************************)
(* The recursions: printnum over the digits of a number, and the reading   *)
(* of the digits of a width.                                               *)
(***************************************************************************)
LEMMA FewerDigits ==
    ASSUME NEW base \in {8, 10, 16}, NEW k \in Nat, k >= base
    PROVE  k \div base \in Nat /\ k \div base < k
<1>1. CASE base = 8
  BY <1>1
<1>2. CASE base = 10
  BY <1>2
<1>3. CASE base = 16
  BY <1>3
<1> QED BY <1>1, <1>2, <1>3

Digits(num, base) ==
    LET digits[k \in 0 .. num] ==
            Append(IF k >= base THEN digits[k \div base] ELSE <<>>, Digit[(k % base) + 1])
    IN  digits[num]

\* The recursion of printnum is a function on 0 .. num.
LEMMA DigitsRecursion ==
    ASSUME NEW num \in Nat, NEW base \in {8, 10, 16}
    PROVE  \E f : /\ Digits(num, base) = f[num]
                  /\ \A k \in 0 .. num :
                       /\ IsText(f[k])
                       /\ f[k] = Append(IF k >= base THEN f[k \div base] ELSE <<>>,
                                        Digit[(k % base) + 1])
<1> DEFINE E(f, k) == Append(IF k >= base THEN f[k \div base] ELSE <<>>, Digit[(k % base) + 1])
           step(f, m) == [k \in 0 .. m |-> E(f, k)]
           Bad == {m \in Nat : ~\E f : f = step(f, m)}
           digits == CHOOSE f : f = step(f, num)
<1>1. Digits(num, base) = digits[num]
  BY DEF Digits
<1>2. ASSUME NEW m \in Nat, NEW f, m = 0 \/ f = step(f, m - 1)
      PROVE  \E g : g = step(g, m)
  <2> DEFINE g == [k \in 0 .. m |-> IF k = m THEN E(f, m) ELSE f[k]]
  <2>1. ASSUME NEW k \in 0 .. m
        PROVE  g[k] = E(g, k)
    <3>1. k >= base => g[k \div base] = f[k \div base]
      <4>1. k >= base => k \div base \in 0 .. m /\ k \div base # m
        BY FewerDigits
      <4> HIDE DEF E
      <4> QED BY <4>1
    <3>2. g[k] = E(f, k)
      <4>1. CASE k = m
        <5> HIDE DEF E
        <5> QED BY <4>1
      <4>2. CASE k # m
        <5>1. k \in 0 .. m - 1 /\ m # 0
          BY <4>2
        <5> HIDE DEF E
        <5> QED BY <1>2, <4>2, <5>1
      <4> QED BY <4>1, <4>2
    <3> HIDE DEF g
    <3> QED BY <3>1, <3>2
  <2>2. g = step(g, m)
    <3>1. g = [k \in 0 .. m |-> g[k]]
      <4> HIDE DEF E
      <4> QED OBVIOUS
    <3> HIDE DEF g, E
    <3> QED BY <2>1, <3>1
  <2> HIDE DEF g, step
  <2> QED BY <2>2
<1> HIDE DEF E
<1>3. Bad = {}
  <2> SUFFICES ASSUME Bad # {} PROVE FALSE
    OBVIOUS
  <2>1. PICK m \in Bad : \A y \in Bad : m <= y
    <3>1. Bad \subseteq Nat
      OBVIOUS
    <3> HIDE DEF Bad
    <3> QED BY <3>1, LeastNat
  <2>2. m \in Nat /\ ~\E f : f = step(f, m)
    BY <2>1
  <2>3. m # 0 => m - 1 \in Nat /\ m - 1 \notin Bad
    <3> HIDE DEF Bad
    <3> QED BY <2>1, <2>2
  <2>4. \E f : m = 0 \/ f = step(f, m - 1)
    <3> HIDE DEF step
    <3> QED BY <2>3
  <2> HIDE DEF step
  <2> QED BY <1>2, <2>2, <2>4
<1>4. digits = step(digits, num)
  <2>1. \E f : f = step(f, num)
    <3> HIDE DEF step
    <3> QED BY <1>3
  <2> HIDE DEF step
  <2> QED BY <2>1
<1> HIDE DEF digits
<1>5. \A k \in 0 .. num : digits[k] = E(digits, k)
  BY <1>4
<1> DEFINE Wrong == {k \in 0 .. num : ~IsText(digits[k])}
<1>6. Wrong = {}
  <2> SUFFICES ASSUME Wrong # {} PROVE FALSE
    OBVIOUS
  <2>1. PICK m \in Wrong : \A y \in Wrong : m <= y
    <3>1. Wrong \subseteq Nat
      OBVIOUS
    <3> HIDE DEF Wrong
    <3> QED BY <3>1, LeastNat
  <2>2. m \in 0 .. num /\ ~IsText(digits[m])
    BY <2>1
  <2>3. IsText(IF m >= base THEN digits[m \div base] ELSE <<>>)
    <3>1. CASE m >= base
      <4>1. m \div base \in Nat /\ m \div base < m
        BY <2>2, <3>1, FewerDigits
      <4>2. m \div base \in 0 .. num /\ m \div base \notin Wrong
        <5> HIDE DEF Wrong
        <5> QED BY <2>1, <2>2, <4>1
      <4> QED BY <3>1, <4>2
    <3>2. CASE ~(m >= base)
      <4>1. <<>> \in Seq({})
        OBVIOUS
      <4> QED BY <3>2, <4>1, TextIs
    <3> QED BY <3>1, <3>2
  <2>4. digits[m] = Append(IF m >= base THEN digits[m \div base] ELSE <<>>,
                            Digit[(m % base) + 1])
    BY <1>5, <2>2 DEF E
  <2> QED BY <2>2, <2>3, <2>4, TextAppend
<1>7. \A k \in 0 .. num : IsText(digits[k]) /\ digits[k] = E(digits, k)
  BY <1>5, <1>6
<1> QED BY <1>1, <1>7 DEF E

\* printnum is padding and digits.
LEMMA PrintnumIs ==
    ASSUME NEW num, NEW base, NEW width
    PROVE  printnum(num, base, width) =
             Repeat(spec.padc, width - Len(Digits(num, base))) \o Digits(num, base)
BY DEF printnum, Digits

\* Its text.
LEMMA PrintnumText ==
    ASSUME NEW num \in Nat, NEW base \in {8, 10, 16}, NEW width \in Int
    PROVE  IsText(printnum(num, base, width))
<1>1. IsText(Digits(num, base))
  <2>1. num \in 0 .. num
    OBVIOUS
  <2> QED BY <2>1, DigitsRecursion
<1>2. width - Len(Digits(num, base)) \in Int
  BY <1>1, TextLen
<1> QED BY <1>1, <1>2, PrintnumIs, TextRepeat, TextConcat

\* The digits have values.
LEMMA DigitsAreNumbers ==
    ASSUME NEW c \in Decimal
    PROVE  Value(c) \in Nat
<1>1. \E k \in 0 .. 15 : Digit[k + 1] = c
  <2>1. PICK j \in 1 .. 10 : c = Digit[j]
    BY DEF Decimal
  <2>2. j - 1 \in 0 .. 15 /\ (j - 1) + 1 = j
    OBVIOUS
  <2> QED BY <2>1, <2>2
<1>2. Value(c) \in 0 .. 15
  BY <1>1 DEF Value
<1> QED BY <1>2

\* What vprintfmt reads of digits is a number.
LEMMA NumberIs ==
    ASSUME NEW s, NEW len \in Nat, Len(s) = len, \A k \in 1 .. len : s[k] \in Decimal
    PROVE  Number(s) \in Nat /\ (len = 0 => Number(s) = 0)
<1> DEFINE step(f, m) == [k \in 0 .. m |-> IF k = 0 THEN 0 ELSE f[k - 1] * 10 + Value(s[k])]
           v == CHOOSE f : f = step(f, len)
           Bad == {m \in Nat : ~\E f : f = step(f, m)}
<1>1. Number(s) = v[len]
  BY DEF Number
<1>2. ASSUME NEW m \in Nat, NEW f, m = 0 \/ f = step(f, m - 1)
      PROVE  \E g : g = step(g, m)
  <2> DEFINE g == [k \in 0 .. m |-> IF k = 0 THEN 0
                                    ELSE IF k = m THEN f[m - 1] * 10 + Value(s[m]) ELSE f[k]]
  <2>1. ASSUME NEW k \in 0 .. m
        PROVE  g[k] = IF k = 0 THEN 0 ELSE g[k - 1] * 10 + Value(s[k])
    <3>1. CASE k = 0
      BY <3>1
    <3>2. CASE k # 0
      <4>1. k - 1 \in 0 .. m - 1 /\ k - 1 \in 0 .. m /\ k - 1 # m /\ m # 0
        BY <3>2
      <4>2. k - 1 = 0 => f[k - 1] = 0
        BY <1>2, <4>1
      <4>3. g[k - 1] = f[k - 1]
        BY <4>1, <4>2
      <4>4. g[k] = f[k - 1] * 10 + Value(s[k])
        <5>1. CASE k = m
          BY <3>2, <5>1
        <5>2. CASE k # m
          <6>1. k \in 0 .. m - 1
            BY <5>2
          <6>2. f[k] = f[k - 1] * 10 + Value(s[k])
            BY <1>2, <3>2, <4>1, <6>1
          <6> QED BY <3>2, <5>2, <6>2
        <5> QED BY <5>1, <5>2
      <4> HIDE DEF g
      <4> QED BY <3>2, <4>3, <4>4
    <3> QED BY <3>1, <3>2
  <2>2. g = step(g, m)
    <3>1. g = [k \in 0 .. m |-> g[k]]
      OBVIOUS
    <3> HIDE DEF g
    <3> QED BY <2>1, <3>1
  <2> HIDE DEF g, step
  <2> QED BY <2>2
<1>3. Bad = {}
  <2> SUFFICES ASSUME Bad # {} PROVE FALSE
    OBVIOUS
  <2>1. PICK m \in Bad : \A y \in Bad : m <= y
    <3>1. Bad \subseteq Nat
      OBVIOUS
    <3> HIDE DEF Bad
    <3> QED BY <3>1, LeastNat
  <2>2. m \in Nat /\ ~\E f : f = step(f, m)
    BY <2>1
  <2>3. m # 0 => m - 1 \in Nat /\ m - 1 \notin Bad
    <3> HIDE DEF Bad
    <3> QED BY <2>1, <2>2
  <2>4. \E f : m = 0 \/ f = step(f, m - 1)
    <3> HIDE DEF step
    <3> QED BY <2>3
  <2> HIDE DEF step
  <2> QED BY <1>2, <2>2, <2>4
<1>4. v = step(v, len)
  <2>1. \E f : f = step(f, len)
    <3> HIDE DEF step
    <3> QED BY <1>3
  <2> HIDE DEF step
  <2> QED BY <2>1
<1> HIDE DEF v
<1>5. \A k \in 0 .. len : v[k] = IF k = 0 THEN 0 ELSE v[k - 1] * 10 + Value(s[k])
  BY <1>4
<1> DEFINE Wrong == {k \in 0 .. len : v[k] \notin Nat}
<1>6. Wrong = {}
  <2> SUFFICES ASSUME Wrong # {} PROVE FALSE
    OBVIOUS
  <2>1. PICK k \in Wrong : \A y \in Wrong : k <= y
    <3>1. Wrong \subseteq Nat
      OBVIOUS
    <3> HIDE DEF Wrong
    <3> QED BY <3>1, LeastNat
  <2>2. k \in 0 .. len /\ v[k] \notin Nat /\ k # 0
    BY <1>5, <2>1
  <2>3. k - 1 \in 0 .. len /\ k - 1 \notin Wrong /\ k \in 1 .. len
    <3> HIDE DEF Wrong
    <3> QED BY <2>1, <2>2
  <2>4. v[k - 1] \in Nat /\ Value(s[k]) \in Nat
    BY <2>3, DigitsAreNumbers
  <2> QED BY <1>5, <2>2, <2>4
<1>7. v[len] \in Nat /\ (len = 0 => v[len] = 0)
  <2>1. len \in 0 .. len
    OBVIOUS
  <2>2. v[len] \in Nat
    BY <1>6, <2>1
  <2> QED BY <1>5, <2>1, <2>2
<1> QED BY <1>1, <1>7

-----------------------------------------------------------------------------
(***************************************************************************)
(* What a conversion prints is a text, for every argument.                 *)
(***************************************************************************)
FlagsOf(s) ==
    /\ {"width", "precision"} \subseteq DOMAIN s
    /\ s.width \in Int /\ s.precision \in Int
Flagged == FlagsOf(spec)

\* The flags a directive starts with.
LEMMA StartFlags == FlagsOf(NoFlags)
<1>1. NoFlags.width = -1 /\ NoFlags.precision = -1
  BY Zenon DEF NoFlags
<1>2. {"width", "precision"} \subseteq DOMAIN NoFlags
  BY Zenon DEF NoFlags
<1> QED BY <1>1, <1>2 DEF FlagsOf

\* A text of one character.
LEMMA Single == \A c : IsText(<<c>>) /\ Len(<<c>>) = 1
<1> SUFFICES ASSUME NEW c PROVE IsText(<<c>>) /\ Len(<<c>>) = 1
  OBVIOUS
<1>1. <<c>> \in Seq({c})
  OBVIOUS
<1> QED BY <1>1, TextIs

\* The arguments are integers.
LEMMA ArgumentsInt ==
    /\ IntMod \in Nat \ {0} /\ LongLongMod \in Nat \ {0}
    /\ Ints \subseteq Int /\ LongLongs \subseteq Int /\ Codes \subseteq Int
    /\ VaInts \subseteq Int
<1>1. IntMod \in Nat \ {0} /\ LongLongMod \in Nat \ {0}
  BY WordSizes
<1>2. IntMod \div 2 \in Int /\ LongLongMod \div 2 \in Int
  BY <1>1
<1>3. Ints \subseteq Int /\ LongLongs \subseteq Int /\ Codes \subseteq Int
  BY <1>2, IntsFit, LongLongsFit, CodesFit
<1> QED BY <1>1, <1>3 DEF VaInts

\* A number reduced to its word.
LEMMA Reduced ==
    ASSUME NEW v \in Int, NEW m \in Nat \ {0}
    PROVE  v % m \in Nat
OBVIOUS

\* A number is printed as a text.
LEMMA NumberText ==
    ASSUME Flagged, NEW num \in Nat, NEW base \in {8, 10, 16}
    PROVE  IsText(number(num, base))
<1>1. spec.width \in Int
  BY DEF Flagged, FlagsOf
<1> QED BY <1>1, PrintnumText DEF number

\* So is a signed one.
LEMMA SignedIsText ==
    ASSUME Flagged, NEW v \in VaInts
    PROVE  IsText(SignedText(v))
<1>1. v \in Int /\ LongLongMod \in Nat \ {0}
  BY ArgumentsInt
<1> DEFINE num == IF v < 0 THEN (-v) % LongLongMod ELSE v
<1>2. num \in Nat
  <2>1. CASE v < 0
    BY <1>1, <2>1, Reduced
  <2>2. CASE ~(v < 0)
    BY <1>1, <2>2
  <2> QED BY <2>1, <2>2
<1>3. SignedText(v) = (IF v < 0 THEN <<"-">> ELSE <<>>) \o number(num, 10)
  BY DEF SignedText
<1> HIDE DEF num
<1>4. IsText(number(num, 10))
  BY <1>2, NumberText
<1>5. IsText(IF v < 0 THEN <<"-">> ELSE <<>>)
  <2>1. <<>> \in Seq({})
    OBVIOUS
  <2> QED BY <2>1, TextIs, Single
<1> QED BY <1>3, <1>4, <1>5, TextConcat

\* So is an error code.
LEMMA ErrorIsText ==
    ASSUME Flagged, NEW v \in Codes
    PROVE  IsText(ErrorText(v))
<1>1. Abs(v) \in Nat
  BY ArgumentsInt DEF Abs
<1>2. CASE Abs(v) \in DOMAIN error_string
  BY <1>2, TextsFit DEF ErrorText
<1>3. CASE Abs(v) \notin DOMAIN error_string
  <2> DEFINE error == <<"e", "r", "r", "o", "r", " ">>
  <2>1. IsText(printnum(Abs(v), 10, -1))
    BY <1>1, PrintnumText
  <2>2. ErrorText(v) = error \o printnum(Abs(v), 10, -1)
    BY <1>3 DEF ErrorText
  <2>3. error \in Seq({"e", "r", "o", " "})
    OBVIOUS
  <2> HIDE DEF error
  <2> QED BY <2>1, <2>2, <2>3, TextIs, TextConcat
<1> QED BY <1>2, <1>3

\* So is a string.
LEMMA StringIsText ==
    ASSUME Flagged, NEW s \in Strings \cup {NULL}
    PROVE  IsText(StringText(s))
<1> DEFINE p     == IF s = NULL THEN <<"(", "n", "u", "l", "l", ")">> ELSE s
           shown == IF spec.precision < 0 THEN p
                    ELSE SubSeq(p, 1, Min({spec.precision, Len(p)}))
           left  == IF spec.width > 0 /\ spec.padc # "-" THEN spec.width - Len(shown) ELSE 0
           rest  == IF spec.width > 0 /\ spec.padc # "-" THEN Min({left, 0}) ELSE spec.width
           marked == [k \in DOMAIN shown |->
                        IF spec.altflag /\ shown[k] = "\t" THEN "?" ELSE shown[k]]
<1>1. spec.width \in Int /\ spec.precision \in Int
  BY DEF Flagged, FlagsOf
<1>2. IsText(p)
  <2>1. <<"(", "n", "u", "l", "l", ")">> \in Seq({"(", "n", "u", "l", ")"})
    OBVIOUS
  <2>2. IsText(<<"(", "n", "u", "l", "l", ")">>)
    BY <2>1, TextIs
  <2> QED BY <2>2, TextsFit
<1>3. StringText(s) = Repeat(spec.padc, left) \o marked \o Repeat(" ", rest - Len(shown))
  BY DEF StringText
<1> HIDE DEF p
<1>4. IsText(shown)
  <2>1. CASE spec.precision < 0
    BY <1>2, <2>1
  <2>2. CASE ~(spec.precision < 0)
    <3>1. Len(p) \in Nat
      BY <1>2, TextLen
    <3>2. Min({spec.precision, Len(p)}) \in 0 .. Len(p)
      BY <1>1, <2>2, <3>1, MinIs
    <3> QED BY <1>2, <2>2, <3>2, TextSubSeq
  <2> QED BY <2>1, <2>2
<1> HIDE DEF shown
<1>5. Len(shown) \in Nat
  BY <1>4, TextLen
<1>6. left \in Int
  BY <1>1, <1>5
<1>7. rest - Len(shown) \in Int
  <2> HIDE DEF left
  <2>1. Min({left, 0}) \in Int
    BY <1>6, MinIs
  <2> QED BY <1>1, <1>5, <2>1
<1>8. IsText(marked)
  <2>1. marked = [k \in DOMAIN shown |-> marked[k]]
    OBVIOUS
  <2> HIDE DEF marked
  <2> QED BY <1>4, <2>1, TextMap
<1> HIDE DEF left, rest, marked
<1>9. IsText(Repeat(spec.padc, left)) /\ IsText(Repeat(" ", rest - Len(shown)))
  BY <1>6, <1>7, TextRepeat
<1>10. IsText(Repeat(spec.padc, left) \o marked)
  BY <1>8, <1>9, TextConcat
<1> QED BY <1>3, <1>9, <1>10, TextConcat

\* Every argument, whatever the conversion, gives a text.
LEMMA ConversionText ==
    ASSUME Flagged, Conversions
    PROVE  \E text, used : IsText(text) /\ Convert(text, used)
<1>1. CASE ch = "c" /\ \E c \in Chars : Convert(<<c>>, <<c>>)
  BY <1>1, Single
<1>2. CASE ch = "e" /\ \E v \in Codes : Convert(ErrorText(v), <<v>>)
  BY <1>2, ErrorIsText
<1>3. CASE ch = "s" /\ \E s \in Strings \cup {NULL} : Convert(StringText(s), <<s>>)
  BY <1>3, StringIsText
<1>4. CASE ch = "d" /\ \E v \in VaInts : Convert(SignedText(v), <<v>>)
  BY <1>4, SignedIsText
<1>5. CASE /\ ch \in DOMAIN Base
           /\ \E v \in VaInts : Convert(number(Unsigned(v), Base[ch]), <<v>>)
  <2>1. Base[ch] \in {8, 10, 16}
    BY <1>5 DEF Base
  <2>2. PICK v \in VaInts : Convert(number(Unsigned(v), Base[ch]), <<v>>)
    BY <1>5
  <2>3. Unsigned(v) \in Nat
    <3>1. v \in Int /\ (IF spec.lflag >= 2 THEN LongLongMod ELSE IntMod) \in Nat \ {0}
      BY ArgumentsInt
    <3> QED BY <3>1, Reduced DEF Unsigned
  <2>4. IsText(number(Unsigned(v), Base[ch]))
    BY <2>1, <2>3, NumberText
  <2> QED BY <2>2, <2>4
<1>6. CASE ch = "p" /\ \E v \in Ints : Convert(<<"0", "x">> \o number(v % IntMod, 16), <<v>>)
  <2>1. PICK v \in Ints : Convert(<<"0", "x">> \o number(v % IntMod, 16), <<v>>)
    BY <1>6
  <2>2. v % IntMod \in Nat
    BY ArgumentsInt, Reduced
  <2>3. IsText(number(v % IntMod, 16))
    BY <2>2, NumberText
  <2>4. IsText(<<"0", "x">>)
    <3>1. <<"0", "x">> \in Seq({"0", "x"})
      OBVIOUS
    <3> QED BY <3>1, TextIs
  <2>5. IsText(<<"0", "x">> \o number(v % IntMod, 16))
    BY <2>3, <2>4, TextConcat
  <2> QED BY <2>1, <2>5
<1>7. CASE ch = "%" /\ Convert(<<"%">>, <<>>)
  BY <1>7, Single
<1> QED BY <1>1, <1>2, <1>3, <1>4, <1>5, <1>6, <1>7 DEF Conversions

-----------------------------------------------------------------------------
(***************************************************************************)
(* The invariant: fmt is read from the front, back no further than to a %, *)
(* and snprintf's buffer has the beginning of what was printed.            *)
(***************************************************************************)
ReaderInv ==
    /\ call \in {"cprintf", "snprintf"} /\ n \in 0 .. MemSize /\ done \in BOOLEAN
    /\ IsText(fmt) /\ IsText(out)
    /\ next \in Nat \ {0}
    /\ escape => \E j \in 1 .. next - 1 : fmt[j] = "%"
    /\ Flagged

Buffered == call = "snprintf" /\ n > 0
Stored   == Min({n - 1, Len(out)})

BufferInv ==
    /\ Buffered =>
        /\ b = [mem |-> b.mem, buf |-> Stored, ebuf |-> n - 1, cnt |-> Len(out)]
        /\ DOMAIN b.mem = 0 .. MemSize - 1
        /\ \A k \in n .. MemSize - 1 : b.mem[k] = "untouched"
        /\ \A k \in 0 .. Stored - 1 : b.mem[k] = out[k + 1]
        /\ done => ret = Len(out) /\ b.mem[Stored] = NUL
    /\ ~Buffered => n = 0 /\ \A k \in 0 .. MemSize - 1 : b.mem[k] = "untouched"

IInv == ReaderInv /\ BufferInv

\* The buffer has room for what it stores, and for the 0.
LEMMA StoredIs ==
    ASSUME ReaderInv, n > 0
    PROVE  /\ Len(out) \in Nat /\ n \in Nat /\ n <= MemSize /\ MemSize \in Nat
           /\ Stored = IF n - 1 <= Len(out) THEN n - 1 ELSE Len(out)
           /\ Stored \in 0 .. n - 1
<1>1. Len(out) \in Nat /\ n \in Nat /\ n <= MemSize /\ MemSize \in Nat
  BY TextLen, SizesFit DEF ReaderInv
<1>2. Stored = IF n - 1 <= Len(out) THEN n - 1 ELSE Len(out)
  BY <1>1, MinIs DEF Stored
<1> QED BY <1>1, <1>2

\* How a buffer of n1 bytes takes lt more characters after lo.
LEMMA Filling ==
    ASSUME NEW n1 \in Nat, NEW lo \in Nat, NEW lt \in Nat,
           NEW st, st = IF n1 <= lo THEN n1 ELSE lo,
           NEW more, more = IF lt <= n1 - st THEN lt ELSE n1 - st
    PROVE  /\ more \in Nat /\ st \in Nat /\ st + more <= n1 /\ more <= lt
           /\ st + more = IF n1 <= lo + lt THEN n1 ELSE lo + lt
           /\ more > 0 => st = lo
OBVIOUS

\* One text printed: the buffer's part of the invariant holds again.
LEMMA PutKeeps ==
    ASSUME IInv, Running, NEW text, IsText(text), putch(text),
           UNCHANGED <<input, done, ret>>
    PROVE  IsText(out') /\ BufferInv'
<1>1. /\ out' = out \o text
      /\ b' = IF call = "snprintf" THEN sprintputch(b, text) ELSE b
      /\ ReaderInv /\ BufferInv /\ IsText(out) /\ ~done
      /\ call' = call /\ n' = n /\ done' = done
  BY DEF putch, IInv, ReaderInv, Running, input
<1>2. /\ IsText(out') /\ Len(out') = Len(out) + Len(text)
      /\ \A k \in 1 .. Len(out) : out'[k] = out[k]
      /\ \A k \in 1 .. Len(text) : out'[Len(out) + k] = text[k]
  BY <1>1, TextConcat
<1>3. CASE ~Buffered
  <2>1. n \in Nat
    BY <1>1, StoredIs, SizesFit DEF ReaderInv
  <2>2. call # "snprintf" /\ n = 0
    BY <1>1, <1>3, <2>1 DEF BufferInv, Buffered, Running
  <2> QED BY <1>1, <1>2, <1>3, <2>2 DEF BufferInv, Buffered
<1>4. CASE Buffered
  <2>1. /\ n > 0 /\ Len(out) \in Nat /\ n \in Nat /\ n <= MemSize /\ MemSize \in Nat
        /\ Stored = IF n - 1 <= Len(out) THEN n - 1 ELSE Len(out)
        /\ Stored \in 0 .. n - 1
    BY <1>1, <1>4, StoredIs DEF Buffered
  <2>2. /\ b = [mem |-> b.mem, buf |-> Stored, ebuf |-> n - 1, cnt |-> Len(out)]
        /\ DOMAIN b.mem = 0 .. MemSize - 1
        /\ \A k \in n .. MemSize - 1 : b.mem[k] = "untouched"
        /\ \A k \in 0 .. Stored - 1 : b.mem[k] = out[k + 1]
    BY <1>1, <1>4 DEF BufferInv
  <2>3. PICK n1 \in Nat, lo \in Nat, lt \in Nat, st \in Nat :
            n1 = n - 1 /\ lo = Len(out) /\ lt = Len(text) /\ st = Stored
    BY <2>1, TextLen
  <2>4. PICK more : more = Min({lt, n1 - st})
    OBVIOUS
  <2>5. more = IF lt <= n1 - st THEN lt ELSE n1 - st
    BY <2>4, MinIs
  <2>6. st = IF n1 <= lo THEN n1 ELSE lo
    BY <2>1, <2>3
  <2>7. /\ more \in Nat /\ st + more <= n1 /\ more <= lt
        /\ st + more = IF n1 <= lo + lt THEN n1 ELSE lo + lt
        /\ more > 0 => st = lo
    BY <2>5, <2>6, Filling
  <2>8. b' = [b EXCEPT !.cnt = @ + Len(text), !.mem = Stores(@, b.buf, more, text),
                       !.buf = @ + more]
    <3>1. b' = sprintputch(b, text)
      BY <1>1, <1>4 DEF Buffered
    <3>2. Min({Len(text), b.ebuf - b.buf}) = more
      <4>1. b.ebuf = n1 /\ b.buf = st
        BY <2>2, <2>3
      <4> QED BY <2>3, <2>4, <4>1
    <3> QED BY <3>1, <3>2 DEF sprintputch
  <2>9. b' = [mem |-> Stores(b.mem, st, more, text), buf |-> st + more, ebuf |-> n1,
              cnt |-> lo + lt]
    <3>1. PICK mem : mem = b.mem
      OBVIOUS
    <3>2. b = [mem |-> mem, buf |-> st, ebuf |-> n1, cnt |-> lo]
      BY <2>2, <2>3, <3>1
    <3>3. b' = [mem |-> Stores(mem, st, more, text), buf |-> st + more, ebuf |-> n1,
                cnt |-> lo + lt]
      BY <2>3, <2>8, <3>2
    <3> QED BY <3>1, <3>3
  <2>10. b'.mem = [k \in 0 .. MemSize - 1 |->
                        IF k \in st .. st + more - 1 THEN text[k - st + 1] ELSE b.mem[k]]
    BY <2>2, <2>9 DEF Stores
  <2>11. Stored' = st + more
    <3>1. Stored' = Min({n1, lo + lt})
      BY <1>1, <1>2, <2>3 DEF Stored
    <3>2. Min({n1, lo + lt}) = IF n1 <= lo + lt THEN n1 ELSE lo + lt
      BY MinIs
    <3> QED BY <2>7, <3>1, <3>2
  <2>12. n = n1 + 1 /\ n1 < MemSize /\ MemSize \in Nat
    BY <2>1, <2>3
  <2>13. \A k \in n .. MemSize - 1 : b'.mem[k] = "untouched"
    <3>1. \A k \in n .. MemSize - 1 : k \in 0 .. MemSize - 1 /\ k \notin st .. st + more - 1
      BY <2>7, <2>12
    <3> QED BY <2>2, <2>10, <3>1
  <2>14. ASSUME NEW k \in 0 .. st + more - 1
         PROVE  b'.mem[k] = out'[k + 1]
    <3>1. k \in 0 .. MemSize - 1
      BY <2>7, <2>12
    <3>2. CASE k < st
      <4>1. k \notin st .. st + more - 1 /\ k \in 0 .. st - 1 /\ k + 1 \in 1 .. lo
        BY <2>6, <2>7, <3>2
      <4> QED BY <1>2, <2>2, <2>3, <2>10, <3>1, <4>1
    <3>3. CASE ~(k < st)
      <4>1. /\ k \in st .. st + more - 1 /\ st = lo
            /\ k - st + 1 \in 1 .. lt /\ lo + (k - st + 1) = k + 1
        BY <2>7, <3>1, <3>3
      <4>2. b'.mem[k] = text[k - st + 1]
        BY <2>10, <3>1, <4>1
      <4>3. out'[lo + (k - st + 1)] = text[k - st + 1]
        BY <1>2, <2>3, <4>1
      <4> QED BY <4>1, <4>2, <4>3
    <3> QED BY <3>2, <3>3
  <2>15. DOMAIN b'.mem = 0 .. MemSize - 1
    BY <2>10
  <2>16. \A k \in 0 .. Stored' - 1 : b'.mem[k] = out'[k + 1]
    <3> SUFFICES ASSUME NEW k \in 0 .. Stored' - 1 PROVE b'.mem[k] = out'[k + 1]
      OBVIOUS
    <3>1. k \in 0 .. st + more - 1
      BY <2>7, <2>11
    <3> QED BY <2>14, <3>1
  <2>17. b' = [mem |-> b'.mem, buf |-> Stored', ebuf |-> n' - 1, cnt |-> Len(out')]
    BY <1>1, <1>2, <2>3, <2>9, <2>11
  <2>18. Buffered'
    BY <1>1, <1>4 DEF Buffered
  <2>19. ~done' /\ \A k \in n' .. MemSize - 1 : b'.mem[k] = "untouched"
    BY <1>1, <2>13
  <2> HIDE DEF Stored, Buffered
  <2> QED BY <1>2, <2>15, <2>16, <2>17, <2>18, <2>19, Zenon DEF BufferInv
<1> QED BY <1>3, <1>4

\* A step that prints nothing leaves the buffer as it is.
LEMMA BufferSame ==
    ASSUME BufferInv, UNCHANGED <<input, out, b, done, ret>>
    PROVE  BufferInv'
BY DEF BufferInv, Buffered, Stored, input

\* A flag changes the flags and the place, and nothing else.
LEMMA FlagStep ==
    ASSUME IInv, Running, escape, NEW newspec, NEW skip \in Nat \ {0}, Flag(newspec, skip),
           FlagsOf(newspec)
    PROVE  IInv'
<1>1. /\ ReaderInv /\ BufferInv /\ UNCHANGED <<input, out, b, done, ret>>
      /\ escape' = escape /\ spec' = newspec /\ next' = next + skip
  BY DEF IInv, Flag
<1>2. Flagged'
  BY <1>1 DEF Flagged
<1>3. next' \in Nat \ {0} /\ \E j \in 1 .. next' - 1 : fmt'[j] = "%"
  <2>1. PICK j \in 1 .. next - 1 : fmt[j] = "%"
    BY <1>1 DEF ReaderInv
  <2>2. next' \in Nat \ {0} /\ j \in 1 .. next' - 1
    BY <1>1 DEF ReaderInv
  <2> QED BY <1>1, <2>1, <2>2 DEF input
<1> QED BY <1>1, <1>2, <1>3, BufferSame DEF ReaderInv, IInv, input

\* A width or a precision is a number.
LEMMA PrecisionFlagged ==
    ASSUME Flagged, NEW v \in Int
    PROVE  FlagsOf(process_precision(v))
BY DEF Flagged, FlagsOf, process_precision

\* No flag breaks the invariant.
LEMMA FlagsStep ==
    ASSUME IInv, Flags
    PROVE  IInv'
<1>1. Running /\ escape /\ Flagged /\ ReaderInv
  BY DEF Flags, IInv, ReaderInv
<1>2. CASE ch \in {"-", "0"} /\ Flag([spec EXCEPT !.padc = ch], 1)
  <2>1. FlagsOf([spec EXCEPT !.padc = ch])
    BY <1>1, <1>2 DEF Flagged, FlagsOf
  <2> QED BY <1>1, <1>2, <2>1, FlagStep
<1>3. CASE WidthDigits
  <2> DEFINE S == {j \in next .. Len(fmt) : \A k \in next .. j : fmt[k] \in Decimal}
             last == Max(S)
             s == SubSeq(fmt, next, last)
  <2>1. ch \in Decimal /\ Flag(process_precision(Number(s)), last + 1 - next)
    BY <1>3 DEF WidthDigits
  <2>2. next \in Nat \ {0} /\ Len(fmt) \in Nat /\ fmt \in Seq(Range(fmt))
    BY <1>1, TextLen DEF ReaderInv, IsText
  <2>3. next <= Len(fmt) /\ fmt[next] \in Decimal
    <3>1. NUL \notin Decimal
      BY DEF NUL, Decimal, Digit
    <3>2. ~(next > Len(fmt)) /\ fmt[next] \in Decimal
      BY <2>1, <3>1 DEF ch
    <3> QED BY <2>2, <3>2
  <2>4. next \in S
    <3>1. \A k \in next .. next : k = next
      BY <2>2
    <3> QED BY <2>2, <2>3, <3>1
  <2>5. last \in S
    <3>1. S \subseteq next .. Len(fmt) /\ S # {}
      BY <2>4
    <3>2. PICK lo \in Int, hi \in Int : lo = next /\ hi = Len(fmt)
      BY <2>2
    <3> HIDE DEF S
    <3>3. S \subseteq lo .. hi
      BY <3>1, <3>2
    <3>4. Max(S) \in S
      BY <3>1, <3>3, LastOf
    <3> QED BY <3>4
  <2>6. last \in next .. Len(fmt) /\ \A k \in next .. last : fmt[k] \in Decimal
    <3> HIDE DEF last
    <3> QED BY <2>5
  <2> HIDE DEF last
  <2>7. last + 1 - next \in Nat \ {0}
    BY <2>2, <2>6
  <2>8. Len(s) = last + 1 - next /\ \A k \in 1 .. last + 1 - next : s[k] = fmt[next + k - 1]
    <3>1. s \in Seq(Range(fmt)) /\ Len(s) = last - next + 1
          /\ \A k \in 1 .. last - next + 1 : s[k] = fmt[next + k - 1]
      <4>1. \A k \in next .. last : fmt[k] \in Range(fmt)
        BY <2>2, <2>6, TextLen, <1>1 DEF Range, ReaderInv
      <4> QED BY <2>2, <2>6, <4>1
    <3> QED BY <2>2, <2>6, <3>1
  <2> HIDE DEF s
  <2>9. Number(s) \in Nat
    <3>1. \A k \in 1 .. last + 1 - next : next + k - 1 \in next .. last
      BY <2>2, <2>6
    <3>2. \A k \in 1 .. last + 1 - next : s[k] \in Decimal
      BY <2>6, <2>8, <3>1
    <3>3. PICK m \in Nat : m = last + 1 - next
      BY <2>7
    <3> QED BY <2>8, <3>2, <3>3, NumberIs
  <2> QED BY <1>1, <2>1, <2>7, <2>9, FlagStep, PrecisionFlagged
<1>4. CASE Star
  <2>1. PICK v \in Ints : Flag(process_precision(v), 1)
    BY <1>4 DEF Star
  <2> QED BY <1>1, <2>1, ArgumentsInt, FlagStep, PrecisionFlagged
<1>5. CASE Flag([spec EXCEPT !.width = IF @ < 0 THEN 0 ELSE @], 1)
  <2>1. FlagsOf([spec EXCEPT !.width = IF @ < 0 THEN 0 ELSE @])
    BY <1>1 DEF Flagged, FlagsOf
  <2> QED BY <1>1, <1>5, <2>1, FlagStep
<1>6. CASE Flag([spec EXCEPT !.altflag = TRUE], 1)
  <2>1. FlagsOf([spec EXCEPT !.altflag = TRUE])
    BY <1>1 DEF Flagged, FlagsOf
  <2> QED BY <1>1, <1>6, <2>1, FlagStep
<1>7. CASE Flag([spec EXCEPT !.lflag = @ + 1], 1)
  <2>1. FlagsOf([spec EXCEPT !.lflag = @ + 1])
    BY <1>1 DEF Flagged, FlagsOf
  <2> QED BY <1>1, <1>7, <2>1, FlagStep
<1> QED BY <1>2, <1>3, <1>4, <1>5, <1>6, <1>7 DEF Flags

\* The end of fmt: the 0 goes behind what is stored, still inside the buffer.
LEMMA ReturnStep ==
    ASSUME IInv, Return
    PROVE  IInv'
<1>1. /\ ReaderInv /\ BufferInv /\ Running
      /\ UNCHANGED <<call, n, fmt, next, escape, spec, out>>
      /\ done' = TRUE /\ ret' = b.cnt
      /\ b' = IF call = "snprintf" THEN [b EXCEPT !.mem[b.buf] = NUL] ELSE b
  BY DEF Return, IInv, input
<1>2. ReaderInv'
  BY <1>1 DEF ReaderInv, Flagged
<1>3. BufferInv'
  <2>1. CASE Buffered
    <3>1. /\ n > 0 /\ n \in Nat /\ n <= MemSize /\ MemSize \in Nat /\ Stored \in 0 .. n - 1
      BY <1>1, <2>1, StoredIs DEF Buffered
    <3>2. /\ b = [mem |-> b.mem, buf |-> Stored, ebuf |-> n - 1, cnt |-> Len(out)]
          /\ DOMAIN b.mem = 0 .. MemSize - 1
          /\ \A k \in n .. MemSize - 1 : b.mem[k] = "untouched"
          /\ \A k \in 0 .. Stored - 1 : b.mem[k] = out[k + 1]
      BY <1>1, <2>1 DEF BufferInv
    <3>3. PICK st \in Nat : st = Stored
      BY <3>1
    <3> DEFINE mem == b.mem
    <3>4. b' = [mem |-> [mem EXCEPT ![st] = NUL], buf |-> st, ebuf |-> n - 1, cnt |-> Len(out)]
      <4>1. b = [mem |-> mem, buf |-> st, ebuf |-> n - 1, cnt |-> Len(out)]
        BY <3>2, <3>3
      <4>2. b' = [b EXCEPT !.mem[b.buf] = NUL]
        BY <1>1, <2>1 DEF Buffered
      <4> QED BY <4>1, <4>2
    <3>5. /\ DOMAIN b'.mem = 0 .. MemSize - 1 /\ b'.mem[st] = NUL
          /\ \A k \in 0 .. MemSize - 1 : k # st => b'.mem[k] = b.mem[k]
      BY <3>1, <3>2, <3>3, <3>4
    <3>6. \A k \in n .. MemSize - 1 : b'.mem[k] = "untouched"
      <4>1. \A k \in n .. MemSize - 1 : k \in 0 .. MemSize - 1 /\ k # st
        BY <3>1, <3>3
      <4> QED BY <3>2, <3>5, <4>1
    <3>7. \A k \in 0 .. st - 1 : b'.mem[k] = out[k + 1]
      <4>1. \A k \in 0 .. st - 1 : k \in 0 .. MemSize - 1 /\ k # st
        BY <3>1, <3>3
      <4> QED BY <3>2, <3>3, <3>5, <4>1
    <3>8. Stored' = st /\ Buffered' /\ n' = n /\ out' = out
      BY <1>1, <2>1, <3>3 DEF Stored, Buffered
    <3>9. b' = [mem |-> b'.mem, buf |-> Stored', ebuf |-> n' - 1, cnt |-> Len(out')]
      BY <3>4, <3>8
    <3>10. ret' = Len(out') /\ b'.mem[Stored'] = NUL
      BY <1>1, <3>2, <3>5, <3>8
    <3>11. /\ \A k \in n' .. MemSize - 1 : b'.mem[k] = "untouched"
           /\ \A k \in 0 .. Stored' - 1 : b'.mem[k] = out'[k + 1]
      BY <3>6, <3>7, <3>8
    <3> QED BY <3>5, <3>8, <3>9, <3>10, <3>11, Zenon DEF BufferInv
  <2>2. CASE ~Buffered
    <3>1. call # "snprintf"
      BY <1>1, <2>2, SizesFit DEF Buffered, BufferInv, Running
    <3> QED BY <1>1, <2>2, <3>1 DEF BufferInv, Buffered
  <2> QED BY <2>1, <2>2
<1> QED BY <1>2, <1>3 DEF IInv

\* A step that prints a text and leaves the escape.
LEMMA PrintStep ==
    ASSUME IInv, Running, NEW text, IsText(text), putch(text),
           UNCHANGED <<input, spec, done, ret>>, escape' = FALSE, next' \in Nat \ {0}
    PROVE  IInv'
<1>1. IsText(out') /\ BufferInv'
  BY PutKeeps
<1>2. Flagged'
  BY DEF IInv, ReaderInv, Flagged
<1> QED BY <1>1, <1>2 DEF IInv, ReaderInv, input

-----------------------------------------------------------------------------
(***************************************************************************)
(* Division, and the digits printnum leaves.                               *)
(***************************************************************************)
\* Products keep the order.
LEMMA MulMono ==
    ASSUME NEW p \in Nat \ {0}, NEW a \in Int, NEW c \in Int, a <= c
    PROVE  p * a <= p * c
OBVIOUS

\* The quotient, by its bounds.
LEMMA DivIs ==
    ASSUME NEW m \in Nat, NEW p \in Nat \ {0}
    PROVE  /\ m \div p \in Nat
           /\ p * (m \div p) <= m /\ m < p * (m \div p) + p
<1>1. m \div p \in Int /\ m % p \in 0 .. p - 1 
  OBVIOUS
<1>2. m = p * (m \div p) + (m % p)
  OBVIOUS
<1> QED BY <1>1, <1>2

\* It is the only one.
LEMMA DivUnique ==
    ASSUME NEW m \in Nat, NEW p \in Nat \ {0}, NEW q \in Int, p * q <= m, m < p * q + p
    PROVE  m \div p = q
<1>1. PICK r \in Int : r = m \div p
  BY DivIs
<1>2. p * r <= m /\ m < p * r + p
  BY <1>1, DivIs
<1>3. ~(r < q)
  <2>1. r < q => p * (r + 1) <= p * q
    BY MulMono
  <2>2. p * (r + 1) = p * r + p
    OBVIOUS
  <2>3. p * r \in Int /\ p * q \in Int
    OBVIOUS
  <2> QED BY <1>2, <2>1, <2>2, <2>3
<1>4. ~(q < r)
  <2>1. q < r => p * (q + 1) <= p * r
    BY MulMono
  <2>2. p * (q + 1) = p * q + p
    OBVIOUS
  <2> QED BY <1>2, <2>1, <2>2
<1> QED BY <1>1, <1>3, <1>4

\* Dividing twice is dividing by the product.
LEMMA DivDiv ==
    ASSUME NEW m \in Nat, NEW p \in Nat \ {0}, NEW base \in {8, 10, 16}
    PROVE  (m \div base) \div p = m \div (p * base)
<1>1. PICK q \in Nat : q = m \div base
  BY DivIs
<1>2. PICK r \in Nat : r = q \div p
  BY DivIs
<1>3. base * q <= m /\ m < base * q + base
  BY <1>1, DivIs
<1>4. PICK z \in Int : z = p * r
  OBVIOUS
<1>5. z <= q /\ q < z + p
  BY <1>2, <1>4, DivIs
<1>6. p * base \in Nat \ {0}
  OBVIOUS
<1>7. (p * base) * r = base * z
  BY <1>4
<1>8. base * z <= m /\ m < base * z + p * base
  BY <1>3, <1>5
<1>9. m \div (p * base) = r
  <2>1. PICK pb \in Nat \ {0} : pb = p * base
    BY <1>6
  <2> QED BY <1>7, <1>8, <2>1, DivUnique
<1> QED BY <1>1, <1>2, <1>9

\* The first k pieces of a text, one after the other.
Joined(g, k) == FlattenSeq([j \in 1 .. k |-> g[j]])

Joins(f, g, k) == \A i \in 1 .. k : f[i] = IF i = 1 THEN g[i] ELSE f[i - 1] \o g[i]

\* Joined is a recursion over the pieces.
LEMMA FlattenRecursion ==
    ASSUME NEW k \in Nat \ {0}, NEW g
    PROVE  \E f : Joined(g, k) = f[k] /\ Joins(f, g, k)
<1> DEFINE s == [j \in 1 .. k |-> g[j]]
           step(f, m) == [i \in 1 .. m |-> IF i = 1 THEN s[i] ELSE f[i - 1] \o s[i]]
           flatten == CHOOSE f : f = step(f, Len(s))
           Bad == {m \in Nat : ~\E f : f = step(f, m)}
<1>1. Len(s) = k /\ \A j \in 1 .. k : s[j] = g[j]
  <2>1. s = [j \in 1 .. k |-> s[j]] /\ DOMAIN s = 1 .. k
    OBVIOUS
  <2>2. \A j \in 1 .. k : s[j] = g[j]
    OBVIOUS
  <2> HIDE DEF s
  <2> QED BY <2>1, <2>2, TextFunction
<1>2. FlattenSeq(s) = flatten[k]
  <2>1. FlattenSeq(s) = flatten[Len(s)]
    <3>1. ~(Len(s) = 0)
      <4> HIDE DEF s
      <4> QED BY <1>1
    <3> HIDE DEF s
    <3> QED BY <3>1 DEF FlattenSeq
  <2> HIDE DEF s, flatten
  <2> QED BY <1>1, <2>1
<1> HIDE DEF s
<1>3. ASSUME NEW m \in Nat, NEW f, m = 0 \/ f = step(f, m - 1)
      PROVE  \E h : h = step(h, m)
  <2> DEFINE h == [i \in 1 .. m |-> IF i = m THEN (IF m = 1 THEN s[1] ELSE f[m - 1] \o s[m])
                                    ELSE f[i]]
  <2>1. ASSUME NEW i \in 1 .. m
        PROVE  h[i] = IF i = 1 THEN s[i] ELSE h[i - 1] \o s[i]
    <3>1. i # 1 => i - 1 \in 1 .. m /\ i - 1 # m /\ h[i - 1] = f[i - 1]
      OBVIOUS
    <3>2. CASE i = m
      <4>1. h[i] = IF m = 1 THEN s[1] ELSE f[m - 1] \o s[m]
        BY <3>2
      <4> HIDE DEF h
      <4> QED BY <3>1, <3>2, <4>1
    <3>3. CASE i # m
      <4>1. i \in 1 .. m - 1 /\ m # 0
        BY <3>3
      <4>2. f[i] = IF i = 1 THEN s[i] ELSE f[i - 1] \o s[i]
        BY <1>3, <4>1
      <4>3. h[i] = f[i]
        BY <3>3
      <4> HIDE DEF h
      <4> QED BY <3>1, <4>2, <4>3
    <3> QED BY <3>2, <3>3
  <2>2. h = step(h, m)
    <3>1. h = [i \in 1 .. m |-> h[i]]
      OBVIOUS
    <3> HIDE DEF h
    <3> QED BY <2>1, <3>1
  <2> HIDE DEF h, step
  <2> QED BY <2>2
<1>4. Bad = {}
  <2> SUFFICES ASSUME Bad # {} PROVE FALSE
    OBVIOUS
  <2>1. PICK m \in Bad : \A y \in Bad : m <= y
    <3>1. Bad \subseteq Nat
      OBVIOUS
    <3> HIDE DEF Bad
    <3> QED BY <3>1, LeastNat
  <2>2. m \in Nat /\ ~\E f : f = step(f, m)
    BY <2>1
  <2>3. m # 0 => m - 1 \in Nat /\ m - 1 \notin Bad
    <3> HIDE DEF Bad
    <3> QED BY <2>1, <2>2
  <2>4. \E f : m = 0 \/ f = step(f, m - 1)
    <3> HIDE DEF step
    <3> QED BY <2>3
  <2> HIDE DEF step
  <2> QED BY <1>3, <2>2, <2>4
<1>5. flatten = step(flatten, k)
  <2>1. \E f : f = step(f, k)
    <3> HIDE DEF step
    <3> QED BY <1>4
  <2> HIDE DEF step
  <2> QED BY <1>1, <2>1
<1> HIDE DEF flatten
<1>6. \A i \in 1 .. k : flatten[i] = IF i = 1 THEN g[i] ELSE flatten[i - 1] \o g[i]
  BY <1>1, <1>5
<1>7. Joined(g, k) = flatten[k]
  BY <1>2 DEF s, Joined
<1>8. Joins(flatten, g, k)
  BY <1>6 DEF Joins
<1> QED BY <1>7, <1>8

\* Each piece is added to those before.
LEMMA Flattening ==
    ASSUME NEW m \in Nat, NEW g, \A j \in 1 .. m : IsText(g[j])
    PROVE  /\ Joined(g, 0) = <<>>
           /\ \A k \in 1 .. m : Joined(g, k) = Joined(g, k - 1) \o g[k]
           /\ \A k \in 0 .. m : IsText(Joined(g, k))
<1>1. Joined(g, 0) = <<>>
  <2> DEFINE s == [j \in 1 .. 0 |-> g[j]]
  <2>1. s = <<>>
    <3>1. s = [j \in 1 .. 0 |-> s[j]] /\ DOMAIN s = 1 .. 0
      OBVIOUS
    <3>2. 1 .. 0 = {}
      OBVIOUS
    <3> HIDE DEF s
    <3>3. IsText(s) /\ Len(s) = 0
      BY <3>1, TextFunction
    <3> QED BY <3>3 DEF IsText
  <2>2. Len(<<>>) = 0
    OBVIOUS
  <2> HIDE DEF s
  <2> QED BY <2>1, <2>2 DEF FlattenSeq, Joined, s
<1>2. IsText(<<>>)
  <2>1. <<>> \in Seq({})
    OBVIOUS
  <2> QED BY <2>1, TextIs
<1>3. ASSUME NEW k \in 1 .. m, k > 1 => IsText(Joined(g, k - 1))
      PROVE  Joined(g, k) = Joined(g, k - 1) \o g[k] /\ IsText(Joined(g, k))
  <2>1. IsText(g[k])
    OBVIOUS
  <2>2. PICK f : Joined(g, k) = f[k] /\ Joins(f, g, k)
    <3>1. k \in Nat \ {0}
      OBVIOUS
    <3> QED BY <3>1, FlattenRecursion
  <2>3. CASE k = 1
    <3>1. Joined(g, 1) = g[1]
      BY <2>2, <2>3 DEF Joins
    <3>2. <<>> \o g[1] = g[1]
      BY <2>1, <2>3 DEF IsText
    <3>3. k - 1 = 0
      BY <2>3
    <3> QED BY <1>1, <2>1, <2>3, <3>1, <3>2, <3>3
  <2>4. CASE k > 1
    <3>1. PICK h : Joined(g, k - 1) = h[k - 1] /\ Joins(h, g, k - 1)
      <4>1. k - 1 \in Nat \ {0}
        BY <2>4
      <4> QED BY <4>1, FlattenRecursion
    <3> DEFINE Differ == {i \in 1 .. k - 1 : f[i] # h[i]}
    <3>2. Differ = {}
      <4> SUFFICES ASSUME Differ # {} PROVE FALSE
        OBVIOUS
      <4>1. PICK i \in Differ : \A y \in Differ : i <= y
        <5>1. Differ \subseteq Nat
          OBVIOUS
        <5> HIDE DEF Differ
        <5> QED BY <5>1, LeastNat
      <4>2. i \in 1 .. k - 1 /\ f[i] # h[i] /\ i \in 1 .. k
        BY <4>1
      <4>3. i # 1 => i - 1 \in 1 .. k - 1 /\ i - 1 \notin Differ
        <5> HIDE DEF Differ
        <5> QED BY <4>1, <4>2
      <4>4. i # 1 => f[i - 1] = h[i - 1]
        BY <4>3
      <4> QED BY <2>2, <3>1, <4>2, <4>4 DEF Joins
    <3>3. k - 1 \in 1 .. k - 1 /\ k \in 1 .. k /\ k # 1
      BY <2>4
    <3>4. f[k - 1] = h[k - 1]
      BY <3>2, <3>3
    <3>5. Joined(g, k) = Joined(g, k - 1) \o g[k]
      BY <2>2, <3>1, <3>3, <3>4 DEF Joins
    <3>6. IsText(Joined(g, k - 1))
      BY <1>3, <2>4
    <3>7. IsText(Joined(g, k))
      BY <2>1, <3>5, <3>6, TextConcat
    <3> QED BY <3>5, <3>7
  <2>5. k = 1 \/ k > 1
    OBVIOUS
  <2> QED BY <2>3, <2>4, <2>5, Zenon
<1> DEFINE Wrong == {k \in 0 .. m : ~IsText(Joined(g, k))}
<1>4. Wrong = {}
  <2> SUFFICES ASSUME Wrong # {} PROVE FALSE
    OBVIOUS
  <2>1. PICK k \in Wrong : \A y \in Wrong : k <= y
    <3>1. Wrong \subseteq Nat
      OBVIOUS
    <3> HIDE DEF Wrong
    <3> QED BY <3>1, LeastNat
  <2>2. k \in 0 .. m /\ ~IsText(Joined(g, k)) /\ k # 0
    BY <1>1, <1>2, <2>1
  <2>3. k \in 1 .. m /\ k - 1 \in 0 .. m /\ k - 1 \notin Wrong
    <3>1. k \in 1 .. m /\ k - 1 \in 0 .. m
      BY <2>2
    <3>2. k - 1 \notin Wrong
      <4> HIDE DEF Wrong
      <4> QED BY <2>1, <2>2
    <3> QED BY <3>1, <3>2
  <2>4. IsText(Joined(g, k - 1))
    BY <2>3
  <2> QED BY <1>3, <2>2, <2>3, <2>4
<1>5. \A k \in 0 .. m : IsText(Joined(g, k))
  <2> QED BY <1>4
<1>6. \A k \in 1 .. m : Joined(g, k) = Joined(g, k - 1) \o g[k]
  <2> SUFFICES ASSUME NEW k \in 1 .. m PROVE Joined(g, k) = Joined(g, k - 1) \o g[k]
    OBVIOUS
  <2>1. k - 1 \in 0 .. m
    OBVIOUS
  <2>2. IsText(Joined(g, k - 1))
    <3> QED BY <1>5, <2>1
  <2> QED BY <1>3, <2>2
<1> QED BY <1>1, <1>5, <1>6

\* The k-th piece is in the m joined.
PieceIn(g, k, m) ==
    /\ Len(Joined(g, k)) <= Len(Joined(g, m))
    /\ \A i \in 1 .. Len(g[k]) : Joined(g, m)[Len(Joined(g, k - 1)) + i] = g[k][i]

\* Adding pieces moves none of those before.
LEMMA PieceIsAt ==
    ASSUME NEW m \in Nat, NEW g, \A j \in 1 .. m : IsText(g[j]), NEW k \in 1 .. m
    PROVE  /\ Len(Joined(g, k)) = Len(Joined(g, k - 1)) + Len(g[k])
           /\ PieceIn(g, k, m)
<1>1. \A x \in 1 .. m : Joined(g, x) = Joined(g, x - 1) \o g[x]
  BY Flattening
<1>2. \A x \in 0 .. m : IsText(Joined(g, x))
  BY Flattening
<1>3. \A x \in 0 .. m : Len(Joined(g, x)) \in Nat
  BY <1>2, TextLen
<1>4. \A x \in 1 .. m : Len(g[x]) \in Nat
  BY TextLen
<1>5. ASSUME NEW x \in 1 .. m
      PROVE  /\ Len(Joined(g, x)) = Len(Joined(g, x - 1)) + Len(g[x])
             /\ Len(Joined(g, x)) \in Nat /\ Len(Joined(g, x - 1)) \in Nat /\ Len(g[x]) \in Nat
             /\ \A i \in 1 .. Len(Joined(g, x - 1)) : Joined(g, x)[i] = Joined(g, x - 1)[i]
             /\ \A i \in 1 .. Len(g[x]) : Joined(g, x)[Len(Joined(g, x - 1)) + i] = g[x][i]
  <2>1. Joined(g, x) = Joined(g, x - 1) \o g[x]
    BY <1>1
  <2>2. x \in 0 .. m /\ x - 1 \in 0 .. m
    OBVIOUS
  <2>3. IsText(Joined(g, x - 1)) /\ IsText(g[x]) /\ IsText(Joined(g, x))
    BY <1>2, <2>2
  <2>4. Len(Joined(g, x)) \in Nat /\ Len(Joined(g, x - 1)) \in Nat /\ Len(g[x]) \in Nat
    BY <2>3, TextLen
  <2>5. PICK a, c, ac : a = Joined(g, x - 1) /\ c = g[x] /\ ac = Joined(g, x)
    OBVIOUS
  <2>6. IsText(a) /\ IsText(c) /\ ac = a \o c
    BY <2>1, <2>3, <2>5, Zenon
  <2>7. /\ Len(ac) = Len(a) + Len(c)
        /\ \A i \in 1 .. Len(a) : ac[i] = a[i]
        /\ \A i \in 1 .. Len(c) : ac[Len(a) + i] = c[i]
    BY <2>6, TextConcat
  <2> QED BY <2>4, <2>5, <2>7, Zenon
<1> DEFINE start == Len(Joined(g, k - 1))
           Kept(x) == /\ Len(Joined(g, k)) <= Len(Joined(g, x))
                      /\ \A i \in 1 .. Len(g[k]) : Joined(g, x)[start + i] = g[k][i]
           Wrong == {x \in k .. m : ~Kept(x)}
<1>6. /\ Len(Joined(g, k)) = start + Len(g[k])
      /\ start \in Nat /\ Len(g[k]) \in Nat /\ Len(Joined(g, k)) \in Nat
  BY <1>5
<1>7. Kept(k)
  <2>1. \A i \in 1 .. Len(g[k]) : Joined(g, k)[start + i] = g[k][i]
    BY <1>5
  <2>2. Len(Joined(g, k)) <= Len(Joined(g, k))
    BY <1>6
  <2> QED BY <2>1, <2>2, Zenon
<1>8. ASSUME NEW x \in k .. m, x # k, Kept(x - 1)
      PROVE  Kept(x)
  <2>1. x \in 1 .. m
    OBVIOUS
  <2>2. PICK l1 \in Nat, l2 \in Nat, l3 \in Nat :
            l1 = Len(Joined(g, x)) /\ l2 = Len(Joined(g, x - 1)) /\ l3 = Len(g[x])
    BY <1>5, <2>1
  <2>3. l1 = l2 + l3 /\ \A i \in 1 .. l2 : Joined(g, x)[i] = Joined(g, x - 1)[i]
    BY <1>5, <2>1, <2>2
  <2>4. Len(Joined(g, k)) <= l2
    BY <1>8, <2>2
  <2>5. \A i \in 1 .. Len(g[k]) : start + i \in 1 .. l2
    <3> HIDE DEF start
    <3> QED BY <1>6, <2>4
  <2>6. \A i \in 1 .. Len(g[k]) : Joined(g, x)[start + i] = g[k][i]
    <3>1. \A i \in 1 .. Len(g[k]) : Joined(g, x - 1)[start + i] = g[k][i]
      BY <1>8
    <3> HIDE DEF start
    <3> QED BY <2>3, <2>5, <3>1, Zenon
  <2>7. Len(Joined(g, k)) <= l1
    <3>1. PICK lk \in Nat : lk = Len(Joined(g, k))
      BY <1>6
    <3>2. l1 = l2 + l3 /\ lk <= l2
      BY <2>3, <2>4, <3>1
    <3> QED BY <3>1, <3>2
  <2> HIDE DEF start
  <2> QED BY <2>2, <2>6, <2>7
<1> HIDE DEF Kept
<1>9. Wrong = {}
  <2> SUFFICES ASSUME Wrong # {} PROVE FALSE
    OBVIOUS
  <2>1. PICK x \in Wrong : \A y \in Wrong : x <= y
    <3>1. Wrong \subseteq Nat
      OBVIOUS
    <3> HIDE DEF Wrong
    <3> QED BY <3>1, LeastNat
  <2>2. x \in k .. m /\ ~Kept(x) /\ x # k
    BY <1>7, <2>1
  <2>3. x - 1 \in k .. m
    BY <2>2
  <2>4. x - 1 \notin Wrong
    <3> HIDE DEF Wrong
    <3> QED BY <2>1, <2>2
  <2>5. Kept(x - 1)
    BY <2>3, <2>4
  <2> QED BY <1>8, <2>2, <2>5
<1>10. Kept(m)
  <2>1. m \in k .. m
    OBVIOUS
  <2> QED BY <1>9, <2>1
<1> QED BY <1>6, <1>10 DEF Kept, PieceIn

\* The powers of a base.
Powers(base, m) ==
    LET power[k \in 0 .. m] == IF k = 0 THEN 1 ELSE power[k - 1] * base IN power

IsPowers(p, base, m) == p[0] = 1 /\ \A k \in 1 .. m : p[k] = p[k - 1] * base

\* The powers of a base are a recursive function.
LEMMA PowersExist ==
    ASSUME NEW base \in Nat, NEW top \in Nat
    PROVE  IsPowers(Powers(base, top), base, top)
<1> DEFINE step(f, m) == [k \in 0 .. m |-> IF k = 0 THEN 1 ELSE f[k - 1] * base]
           v == CHOOSE f : f = step(f, top)
           Bad == {m \in Nat : ~\E f : f = step(f, m)}
<1>1. Powers(base, top) = v
  BY DEF Powers
<1>2. ASSUME NEW m \in Nat, NEW f, m = 0 \/ f = step(f, m - 1)
      PROVE  \E g : g = step(g, m)
  <2> DEFINE g == [k \in 0 .. m |-> IF k = 0 THEN 1
                                    ELSE IF k = m THEN f[m - 1] * base ELSE f[k]]
  <2>1. ASSUME NEW k \in 0 .. m
        PROVE  g[k] = IF k = 0 THEN 1 ELSE g[k - 1] * base
    <3>1. CASE k = 0
      BY <3>1
    <3>2. CASE k # 0
      <4>1. k - 1 \in 0 .. m - 1 /\ k - 1 \in 0 .. m /\ k - 1 # m /\ m # 0
        BY <3>2
      <4>2. k - 1 = 0 => f[k - 1] = 1
        BY <1>2, <4>1
      <4>3. g[k - 1] = f[k - 1]
        BY <4>1, <4>2
      <4>4. g[k] = f[k - 1] * base
        <5>1. CASE k = m
          BY <3>2, <5>1
        <5>2. CASE k # m
          <6>1. k \in 0 .. m - 1
            BY <5>2
          <6>2. f[k] = f[k - 1] * base
            BY <1>2, <3>2, <4>1, <6>1
          <6> QED BY <3>2, <5>2, <6>2
        <5> QED BY <5>1, <5>2
      <4> HIDE DEF g
      <4> QED BY <3>2, <4>3, <4>4
    <3> QED BY <3>1, <3>2
  <2>2. g = step(g, m)
    <3>1. g = [k \in 0 .. m |-> g[k]]
      OBVIOUS
    <3> HIDE DEF g
    <3> QED BY <2>1, <3>1
  <2> HIDE DEF g, step
  <2> QED BY <2>2
<1>3. Bad = {}
  <2> SUFFICES ASSUME Bad # {} PROVE FALSE
    OBVIOUS
  <2>1. PICK m \in Bad : \A y \in Bad : m <= y
    <3>1. Bad \subseteq Nat
      OBVIOUS
    <3> HIDE DEF Bad
    <3> QED BY <3>1, LeastNat
  <2>2. m \in Nat /\ ~\E f : f = step(f, m)
    BY <2>1
  <2>3. m # 0 => m - 1 \in Nat /\ m - 1 \notin Bad
    <3> HIDE DEF Bad
    <3> QED BY <2>1, <2>2
  <2>4. \E f : m = 0 \/ f = step(f, m - 1)
    <3> HIDE DEF step
    <3> QED BY <2>3
  <2> HIDE DEF step
  <2> QED BY <1>2, <2>2, <2>4
<1>4. v = step(v, top)
  <2>1. \E f : f = step(f, top)
    <3> HIDE DEF step
    <3> QED BY <1>3
  <2> HIDE DEF step
  <2> QED BY <2>1
<1> HIDE DEF v
<1>5. \A k \in 0 .. top : v[k] = IF k = 0 THEN 1 ELSE v[k - 1] * base
  BY <1>4
<1>6. IsPowers(v, base, top)
  BY <1>5 DEF IsPowers
<1> QED BY <1>1, <1>6

\* They grow, past every number.
LEMMA PowersGrow ==
    ASSUME NEW base \in {8, 10, 16}, NEW m \in Nat, NEW p, IsPowers(p, base, m)
    PROVE  /\ \A k \in 0 .. m : p[k] \in Nat /\ p[k] > k
           /\ \A j, k \in 0 .. m : j <= k => p[j] <= p[k]
<1> DEFINE Grown(k) == p[k] \in Nat /\ p[k] > k
           Wrong == {k \in 0 .. m : ~Grown(k)}
<1>1. Wrong = {}
  <2> SUFFICES ASSUME Wrong # {} PROVE FALSE
    OBVIOUS
  <2>1. PICK k \in Wrong : \A y \in Wrong : k <= y
    <3>1. Wrong \subseteq Nat
      OBVIOUS
    <3> HIDE DEF Wrong
    <3> QED BY <3>1, LeastNat
  <2>2. k \in 0 .. m /\ ~Grown(k) /\ k # 0
    BY <2>1 DEF IsPowers
  <2>3. k - 1 \in 0 .. m /\ k \in 1 .. m
    BY <2>2
  <2>4. Grown(k - 1)
    <3>1. k - 1 \notin Wrong
      <4> HIDE DEF Wrong
      <4> QED BY <2>1, <2>2
    <3> QED BY <2>3, <3>1
  <2>5. p[k] = p[k - 1] * base
    BY <2>3 DEF IsPowers
  <2>6. PICK x \in Nat : x = p[k - 1] /\ x > k - 1
    BY <2>4
  <2>7. x * base \in Nat /\ x * base > k
    <3>1. CASE base = 8
      BY <2>3, <2>6, <3>1
    <3>2. CASE base = 10
      BY <2>3, <2>6, <3>2
    <3>3. CASE base = 16
      BY <2>3, <2>6, <3>3
    <3> QED BY <3>1, <3>2, <3>3
  <2> QED BY <2>2, <2>5, <2>6, <2>7
<1>2. \A k \in 0 .. m : Grown(k)
  <2> HIDE DEF Grown
  <2> QED BY <1>1
<1>3. ASSUME NEW j \in 0 .. m
      PROVE  \A k \in 0 .. m : j <= k => p[j] <= p[k]
  <2> DEFINE Less == {k \in j .. m : ~(p[j] <= p[k])}
  <2>1. Less = {}
    <3> SUFFICES ASSUME Less # {} PROVE FALSE
      OBVIOUS
    <3>1. PICK k \in Less : \A y \in Less : k <= y
      <4>1. Less \subseteq Nat
        OBVIOUS
      <4> HIDE DEF Less
      <4> QED BY <4>1, LeastNat
    <3>2. k \in j .. m /\ ~(p[j] <= p[k]) /\ k # j
      BY <1>2, <3>1
    <3>3. k - 1 \in 0 .. m /\ k \in 1 .. m /\ k - 1 \in j .. m
      BY <3>2
    <3>4. p[j] <= p[k - 1]
      <4>1. k - 1 \notin Less
        <5> HIDE DEF Less
        <5> QED BY <3>1, <3>2
      <4> QED BY <3>3, <4>1
    <3>5. PICK x \in Nat, y \in Nat : x = p[j] /\ y = p[k - 1] /\ x <= y
      BY <1>2, <3>3, <3>4
    <3>6. p[k] = y * base
      BY <3>3, <3>5 DEF IsPowers
    <3>7. x <= y * base
      <4>1. CASE base = 8
        BY <3>5, <4>1
      <4>2. CASE base = 10
        BY <3>5, <4>2
      <4>3. CASE base = 16
        BY <3>5, <4>3
      <4> QED BY <4>1, <4>2, <4>3
    <3> QED BY <3>2, <3>5, <3>6, <3>7
  <2> QED BY <2>1
<1> QED BY <1>2, <1>3

\* What the recursion of printnum leaves: the digits by their weight.
ByWeight(s, num, p, base) ==
    /\ Len(s) \in 1 .. num + 1
    /\ num < p[Len(s)] /\ (Len(s) = 1 \/ num >= p[Len(s) - 1])
    /\ \A i \in 1 .. Len(s) : s[i] = Digit[((num \div p[Len(s) - i]) % base) + 1]

\* Each level of the recursion leaves the digits of a quotient.
LEMMA DigitsByWeight ==
    ASSUME NEW num \in Nat, NEW base \in {8, 10, 16}, NEW p, IsPowers(p, base, num + 1)
    PROVE  ByWeight(Digits(num, base), num, p, base)
<1>1. PICK f : /\ Digits(num, base) = f[num]
               /\ \A k \in 0 .. num :
                    /\ IsText(f[k])
                    /\ f[k] = Append(IF k >= base THEN f[k \div base] ELSE <<>>,
                                     Digit[(k % base) + 1])
  BY DigitsRecursion
<1>2. num + 1 \in Nat
  OBVIOUS
<1>3. \A k \in 0 .. num + 1 : p[k] \in Nat /\ p[k] > k
  BY <1>2, PowersGrow
<1>4. p[0] = 1 /\ \A k \in 1 .. num + 1 : p[k] = p[k - 1] * base
  BY DEF IsPowers
<1>5. \A s, c : IsText(s) => /\ Len(Append(s, c)) = Len(s) + 1
                             /\ \A i \in 1 .. Len(s) : Append(s, c)[i] = s[i]
                             /\ Append(s, c)[Len(s) + 1] = c
  <2> SUFFICES ASSUME NEW s, NEW c, IsText(s)
               PROVE  /\ Len(Append(s, c)) = Len(s) + 1
                      /\ \A i \in 1 .. Len(s) : Append(s, c)[i] = s[i]
                      /\ Append(s, c)[Len(s) + 1] = c
    OBVIOUS
  <2> DEFINE S == Range(s) \cup {c}
  <2>1. Range(s) \subseteq S /\ c \in S /\ s \in Seq(Range(s))
    BY DEF IsText
  <2> HIDE DEF S
  <2>2. s \in Seq(S)
    <3>1. \A A, B, u : A \subseteq B /\ u \in Seq(A) => u \in Seq(B)
      BY SeqMonotonic
    <3> QED BY <2>1, <3>1
  <2> QED BY <2>1, <2>2, AppendProperties, LenProperties
<1> DEFINE Wrong == {k \in 0 .. num : ~ByWeight(f[k], k, p, base)}
<1>6. ASSUME NEW k \in 0 .. num, k < base
      PROVE  ByWeight(f[k], k, p, base)
  <2>1. f[k] = Append(<<>>, Digit[(k % base) + 1])
    <3>1. f[k] = Append(IF k >= base THEN f[k \div base] ELSE <<>>, Digit[(k % base) + 1])
      BY <1>1
    <3>2. ~(k >= base)
      BY <1>6
    <3> QED BY <3>1, <3>2, Zenon
  <2>2. f[k] = <<Digit[(k % base) + 1]>>
    BY <2>1
  <2>3. Len(f[k]) = 1 /\ f[k][1] = Digit[(k % base) + 1]
    BY <2>2
  <2>4. p[1] = base
    <3>1. 1 \in 1 .. num + 1 /\ p[0] * base = base
      BY <1>4
    <3> QED BY <1>4, <3>1
  <2>5. k \div p[0] = k
    BY <1>4
  <2>6. \A i \in 1 .. 1 : f[k][i] = Digit[((k \div p[1 - i]) % base) + 1]
    BY <2>3, <2>5
  <2>7. 1 \in 1 .. k + 1
    OBVIOUS
  <2> QED BY <1>6, <2>3, <2>4, <2>6, <2>7 DEF ByWeight
<1>7. ASSUME NEW k \in 0 .. num, k >= base, ByWeight(f[k \div base], k \div base, p, base)
      PROVE  ByWeight(f[k], k, p, base)
  <2>1. PICK q \in Nat : q = k \div base
    BY DivIs
  <2>2. base * q <= k /\ k < base * q + base /\ q < k /\ q \in 0 .. num
    <3>1. base * q <= k /\ k < base * q + base
      BY <2>1, DivIs
    <3>2. q < k
      BY <1>7, <2>1, FewerDigits
    <3> QED BY <3>1, <3>2
  <2>3. PICK s : s = f[q]
    OBVIOUS
  <2>4. PICK L \in Nat : L = Len(s)
    BY <1>1, <2>2, <2>3, TextLen
  <2>5. /\ L \in 1 .. q + 1 /\ q < p[L] /\ (L = 1 \/ q >= p[L - 1])
        /\ \A i \in 1 .. L : s[i] = Digit[((q \div p[L - i]) % base) + 1]
    BY <1>7, <2>1, <2>3, <2>4 DEF ByWeight
  <2>6. PICK t : t = f[k]
    OBVIOUS
  <2>7. /\ Len(t) = L + 1
        /\ \A i \in 1 .. L : t[i] = s[i]
        /\ t[L + 1] = Digit[(k % base) + 1]
    <3>1. t = Append(s, Digit[(k % base) + 1]) /\ IsText(s)
      BY <1>1, <1>7, <2>1, <2>2, <2>3, <2>6
    <3> QED BY <1>5, <2>4, <3>1
  <2>8. L + 1 \in 1 .. k + 1 /\ L + 1 \in 1 .. num + 1
    BY <2>2, <2>5
  <2>9. k < p[L + 1]
    <3>1. PICK x \in Nat : x = p[L] /\ q + 1 <= x
      BY <1>3, <2>5, <2>8
    <3>2. p[L + 1] = x * base
      BY <1>4, <2>8, <3>1
    <3>3. k < x * base
      <4>1. CASE base = 8
        BY <2>2, <3>1, <4>1
      <4>2. CASE base = 10
        BY <2>2, <3>1, <4>2
      <4>3. CASE base = 16
        BY <2>2, <3>1, <4>3
      <4> QED BY <4>1, <4>2, <4>3
    <3> QED BY <3>2, <3>3
  <2>10. k >= p[L]
    <3>1. PICK x \in Nat : x = p[L - 1] /\ (L = 1 => x = 1)
      <4>1. L - 1 \in 0 .. num + 1
        BY <2>5, <2>8
      <4> QED BY <1>3, <1>4, <4>1
    <3>2. p[L] = x * base
      <4>1. L \in 1 .. num + 1
        BY <2>5, <2>8
      <4> QED BY <1>4, <3>1, <4>1
    <3>3. k >= x * base
      <4>1. L = 1 => x * base = base
        BY <3>1
      <4>2. L # 1 => x <= q
        BY <2>5, <3>1
      <4>3. L # 1 => base * x <= base * q
        BY <4>2
      <4> QED BY <1>7, <2>2, <4>1, <4>3
    <3> QED BY <3>2, <3>3
  <2>11. ASSUME NEW i \in 1 .. L + 1
         PROVE  t[i] = Digit[((k \div p[(L + 1) - i]) % base) + 1]
    <3>1. CASE i = L + 1
      <4>1. (L + 1) - i = 0 /\ k \div 1 = k
        BY <3>1
      <4> QED BY <1>4, <2>7, <3>1, <4>1
    <3>2. CASE i # L + 1
      <4>1. i \in 1 .. L /\ L - i \in 0 .. num + 1 /\ (L + 1) - i \in 1 .. num + 1
            /\ ((L + 1) - i) - 1 = L - i
        BY <2>8, <3>2
      <4>2. PICK x \in Nat \ {0} : x = p[L - i]
        BY <1>3, <4>1
      <4>3. p[(L + 1) - i] = x * base
        <5>1. PICK j : j = (L + 1) - i
          OBVIOUS
        <5>2. j \in 1 .. num + 1 /\ j - 1 = L - i
          BY <4>1, <5>1
        <5>3. p[j] = p[j - 1] * base
          BY <1>4, <5>2
        <5>4. p[j] = p[L - i] * base
          BY <5>2, <5>3, Zenon
        <5> QED BY <4>2, <5>1, <5>4, Zenon
      <4>4. q \div x = k \div (x * base)
        <5>1. k \in Nat
          OBVIOUS
        <5>2. (k \div base) \div x = k \div (x * base)
          BY <4>2, <5>1, DivDiv
        <5> QED BY <2>1, <5>2
      <4> QED BY <2>5, <2>7, <4>1, <4>2, <4>3, <4>4
    <3> QED BY <3>1, <3>2
  <2>12. (L + 1) - 1 = L
    OBVIOUS
  <2>13. /\ Len(t) \in 1 .. k + 1
         /\ k < p[Len(t)] /\ (Len(t) = 1 \/ k >= p[Len(t) - 1])
         /\ \A i \in 1 .. Len(t) : t[i] = Digit[((k \div p[Len(t) - i]) % base) + 1]
    BY <2>7, <2>8, <2>9, <2>10, <2>11, <2>12
  <2> QED BY <2>6, <2>13 DEF ByWeight
<1>8. Wrong = {}
  <2> SUFFICES ASSUME Wrong # {} PROVE FALSE
    OBVIOUS
  <2>1. PICK k \in Wrong : \A y \in Wrong : k <= y
    <3>1. Wrong \subseteq Nat
      OBVIOUS
    <3> HIDE DEF Wrong
    <3> QED BY <3>1, LeastNat
  <2>2. k \in 0 .. num /\ ~ByWeight(f[k], k, p, base)
    BY <2>1
  <2>3. k >= base
    BY <1>6, <2>2
  <2>4. k \div base \in Nat /\ k \div base < k
    BY <2>2, <2>3, FewerDigits
  <2>5. k \div base \in 0 .. num /\ k \div base \notin Wrong
    <3> HIDE DEF Wrong
    <3> QED BY <2>1, <2>2, <2>4
  <2>6. ByWeight(f[k \div base], k \div base, p, base)
    BY <2>5
  <2> QED BY <1>7, <2>2, <2>3, <2>6
<1>9. num \in 0 .. num
  OBVIOUS
<1> QED BY <1>1, <1>8, <1>9

\* The larger of two numbers.
LEMMA MaxOfPair ==
    ASSUME NEW x \in Int, NEW y \in Int
    PROVE  Max({x, y}) = IF x >= y THEN x ELSE y
<1>1. x >= y => Max({x, y}) = x
  BY MaxIs
<1>2. ~(x >= y) => Max({x, y}) = y
  BY MaxIs
<1> QED BY <1>1, <1>2

\* The widths that printnum and the reference may have; without one printnum
\* gets -1.
SameWidth(width, w, c) ==
    (width = w \/ (width <= 0 /\ w <= 0)) /\ (c = spec.padc \/ w <= 0)
IsBase(base) == base \in {8, 10, 16}

\* printnum pads to its width and prints the digits by their weight.
LEMMA PaddedDigits ==
    ASSUME NEW num \in Nat, NEW base, IsBase(base), NEW w \in Int, NEW width \in Int,
           NEW c, SameWidth(width, w, c)
    PROVE  printnum(num, base, width) = Numeral(num, base, w, c)
<1> DEFINE p   == Powers(base, num + 1)
           len == CHOOSE k \in 1 .. num + 1 : num < p[k] /\ (k = 1 \/ num >= p[k - 1])
           all == Max({len, w})
           numeral == [j \in 1 .. all |->
                          IF j > all - len THEN Digit[((num \div p[all - j]) % base) + 1]
                          ELSE c]
<1>1. Numeral(num, base, w, c) = numeral
  BY DEF Numeral, Powers
<1>2. IsPowers(p, base, num + 1)
  <2>1. num + 1 \in Nat /\ base \in Nat
    BY DEF IsBase
  <2> QED BY <2>1, PowersExist
<1> HIDE DEF p
<1>3. PICK d : d = Digits(num, base)
  OBVIOUS
<1>4. IsText(d) /\ ByWeight(d, num, p, base)
  <2>1. num \in 0 .. num
    OBVIOUS
  <2>2. ByWeight(Digits(num, base), num, p, base)
    BY <1>2, DigitsByWeight DEF IsBase
  <2>3. IsText(Digits(num, base))
    BY <2>1, DigitsRecursion, ZenonT(40) DEF IsBase
  <2> QED BY <1>3, <2>2, <2>3, Zenon
<1>5. PICK L \in Nat : L = Len(d) /\ L \in 1 .. num + 1
  BY <1>4 DEF ByWeight
<1>6. /\ num < p[L] /\ (L = 1 \/ num >= p[L - 1])
      /\ \A i \in 1 .. L : d[i] = Digit[((num \div p[L - i]) % base) + 1]
  BY <1>4, <1>5 DEF ByWeight
<1>7. /\ \A k \in 0 .. num + 1 : p[k] \in Nat
      /\ \A j, k \in 0 .. num + 1 : j <= k => p[j] <= p[k]
  <2>1. num + 1 \in Nat
    OBVIOUS
  <2> QED BY <1>2, <2>1, PowersGrow DEF IsBase
<1>8. len = L
  <2>1. ASSUME NEW k \in 1 .. num + 1, num < p[k], k = 1 \/ num >= p[k - 1]
        PROVE  k = L
    <3>1. CASE k < L
      <4>1. k \in 0 .. num + 1 /\ L - 1 \in 0 .. num + 1 /\ k <= L - 1 /\ L # 1
        BY <1>5, <3>1
      <4>2. p[k] <= p[L - 1] /\ p[k] \in Nat /\ p[L - 1] \in Nat /\ num >= p[L - 1]
        BY <1>6, <1>7, <4>1
      <4> QED BY <2>1, <4>2
    <3>2. CASE L < k
      <4>1. L \in 0 .. num + 1 /\ k - 1 \in 0 .. num + 1 /\ L <= k - 1 /\ k # 1
        BY <1>5, <3>2
      <4>2. p[L] <= p[k - 1] /\ p[L] \in Nat /\ p[k - 1] \in Nat /\ num >= p[k - 1]
        BY <1>7, <2>1, <4>1
      <4> QED BY <1>6, <4>2
    <3> QED BY <1>5, <3>1, <3>2
  <2>2. \E k \in 1 .. num + 1 : num < p[k] /\ (k = 1 \/ num >= p[k - 1])
    BY <1>5, <1>6
  <2>3. len \in 1 .. num + 1 /\ num < p[len] /\ (len = 1 \/ num >= p[len - 1])
    <3> HIDE DEF len
    <3>1. len = CHOOSE k \in 1 .. num + 1 : num < p[k] /\ (k = 1 \/ num >= p[k - 1])
      BY DEF len
    <3> QED BY <2>2, <3>1
  <2> HIDE DEF len
  <2> QED BY <2>1, <2>3
<1> HIDE DEF len
<1>9. all = IF L >= w THEN L ELSE w
  BY <1>8, MaxOfPair
<1> HIDE DEF all
<1>10. PICK top \in Nat : top = all /\ top >= L
  BY <1>9
<1>11. PICK pad : pad = Repeat(spec.padc, width - L)
  OBVIOUS
<1>12. /\ IsText(pad) /\ Len(pad) = top - L
       /\ \A i \in 1 .. top - L : pad[i] = c
  <2>1. Max({width - L, 0}) = top - L
    <3>1. Max({width - L, 0}) = IF width - L >= 0 THEN width - L ELSE 0
      BY MaxOfTwo
    <3> QED BY <1>5, <1>9, <1>10, <3>1 DEF SameWidth
  <2>2. pad = [i \in 1 .. top - L |-> spec.padc]
    BY <1>11, <2>1 DEF Repeat
  <2>3. top - L \in Nat
    BY <1>10
  <2>4. DOMAIN pad = 1 .. top - L /\ \A i \in 1 .. top - L : pad[i] = spec.padc
    BY <2>2
  <2>5. PICK m \in Nat : m = top - L
    BY <2>3
  <2>6. IsText(pad) /\ Len(pad) = m
    <3>1. IsText(pad)
      BY <1>5, <1>11, TextRepeat
    <3>2. PICK l \in Nat : l = Len(pad) /\ 1 .. l = 1 .. m
      BY <2>4, <2>5, <3>1, TextLen
    <3>3. l = m
      <4>1. l > 0 => l \in 1 .. m
        BY <3>2
      <4>2. m > 0 => m \in 1 .. l
        BY <3>2
      <4> QED BY <4>1, <4>2
    <3> QED BY <3>1, <3>2, <3>3
  <2>7. \A i \in 1 .. top - L : c = spec.padc
    <3>1. w <= 0 => top = L
      BY <1>5, <1>9, <1>10
    <3> QED BY <1>10, <3>1 DEF SameWidth
  <2> QED BY <2>4, <2>5, <2>6, <2>7
<1>13. PICK s : s = pad \o d
  OBVIOUS
<1>14. /\ IsText(s) /\ Len(s) = top
       /\ \A i \in 1 .. top - L : s[i] = c
       /\ \A i \in 1 .. L : s[(top - L) + i] = d[i]
  <2>1. /\ IsText(s) /\ Len(s) = (top - L) + L
        /\ \A i \in 1 .. top - L : s[i] = pad[i]
        /\ \A i \in 1 .. L : s[(top - L) + i] = d[i]
    <3> HIDE DEF numeral
    <3>1. IsText(pad) /\ IsText(d)
      BY <1>4, <1>12
    <3>2. IsText(pad \o d)
      BY <3>1, TextConcat, Zenon
    <3>3. Len(pad \o d) = Len(pad) + Len(d)
      BY <3>1, TextConcat, Zenon
    <3>4. \A i \in 1 .. Len(pad) : (pad \o d)[i] = pad[i]
      BY <3>1, TextConcat, Zenon
    <3>5. \A i \in 1 .. Len(d) : (pad \o d)[Len(pad) + i] = d[i]
      BY <3>1, ConcatBehind, Zenon
    <3>6. Len(pad) = top - L /\ Len(d) = L
      BY <1>5, <1>12
    <3> QED BY <1>13, <3>2, <3>3, <3>4, <3>5, <3>6, Zenon
  <2>2. (top - L) + L = top
    OBVIOUS
  <2> QED BY <1>12, <2>1, <2>2
<1>15. ASSUME NEW j \in 1 .. top
       PROVE  s[j] = IF j > top - L THEN Digit[((num \div p[top - j]) % base) + 1]
                     ELSE c
  <2>1. CASE j > top - L
    <3>1. PICK i \in 1 .. L : i = j - (top - L) /\ (top - L) + i = j /\ L - i = top - j
      BY <1>10, <2>1
    <3>2. s[j] = d[i]
      BY <1>14, <3>1
    <3>3. d[i] = Digit[((num \div p[top - j]) % base) + 1]
      BY <1>6, <3>1
    <3> QED BY <2>1, <3>2, <3>3
  <2>2. CASE ~(j > top - L)
    <3>1. j \in 1 .. top - L
      BY <1>10, <2>2
    <3> QED BY <1>14, <2>2, <3>1
  <2> QED BY <2>1, <2>2
<1>16. numeral = [j \in 1 .. top |-> IF j > top - L THEN Digit[((num \div p[top - j]) % base) + 1]
                                     ELSE c]
  BY <1>8, <1>10
<1> HIDE DEF numeral
<1>17. s = [j \in 1 .. top |-> s[j]]
  <2>1. DOMAIN s = 1 .. top /\ s \in Seq(Range(s))
    BY <1>14, TextLen DEF IsText
  <2> QED BY <2>1
<1>18. s = numeral
  <2>1. [j \in 1 .. top |-> s[j]] =
          [j \in 1 .. top |-> IF j > top - L THEN Digit[((num \div p[top - j]) % base) + 1]
                              ELSE c]
    BY <1>15
  <2> QED BY <1>16, <1>17, <2>1
<1>19. printnum(num, base, width) = s
  BY <1>3, <1>5, <1>11, <1>13, PrintnumIs
<1> QED BY <1>1, <1>18, <1>19

\* The same, with what it asks for spelled out.
LEMMA PrintnumNumeral ==
    ASSUME NEW num \in Nat, NEW base \in {8, 10, 16}, NEW w \in Int, NEW width \in Int,
           width = w \/ (width <= 0 /\ w <= 0), NEW c, c = spec.padc \/ w <= 0
    PROVE  printnum(num, base, width) = Numeral(num, base, w, c)
BY PaddedDigits DEF IsBase, SameWidth

-----------------------------------------------------------------------------
(***************************************************************************)
(* What vprintfmt knows of a directive after reading m of its parts, the   *)
(* arguments a among them, and i characters of its length.                 *)
(***************************************************************************)
ReadWidth(d, a) == IF d.width = <<>> THEN -1 ELSE Width(d, a)
Reads(d, a, m, i) ==
    [padc      |-> IF m < 2 THEN " " ELSE Padding(d),
     width     |-> IF m < 4 THEN -1
                   ELSE IF m > 4 /\ d.prec # <<>> /\ ReadWidth(d, a) < 0 THEN 0
                   ELSE ReadWidth(d, a),
     precision |-> IF m < 6 THEN -1 ELSE Precision(d, a),
     lflag     |-> i,
     altflag   |-> m > 2 /\ d.alt # <<>>]

\* The numbers among the flags' arguments.
StarsOf(d) == (IF Starred(d.width) THEN 1 ELSE 0) + (IF Starred(d.prec) THEN 1 ELSE 0)

Given(d, a) ==
    /\ Starred(d.width) => a[1] \in Int
    /\ Starred(d.prec) => a[IF Starred(d.width) THEN 2 ELSE 1] \in Int

\* A width or a precision of digits is a number, none is 0.
LEMMA AmountIs ==
    ASSUME NEW s, IsAmount(s)
    PROVE  /\ ~Starred(s) => Number(s) \in Nat
           /\ s = <<>> => Number(s) = 0
           /\ IsText(s)
<1>1. CASE s = <<>>
  <2>1. Len(s) = 0 /\ s \in Seq({}) /\ s # <<"*">>
    BY <1>1
  <2>2. \A k \in 1 .. 0 : s[k] \in Decimal
    OBVIOUS
  <2>3. 0 \in Nat
    OBVIOUS
  <2>4. Number(s) \in Nat /\ (0 = 0 => Number(s) = 0)
    BY <2>1, <2>2, <2>3, NumberIs
  <2> QED BY <2>1, <2>4, TextIs
<1>2. CASE s = <<"*">>
  <2>1. s # <<>>
    BY <1>2
  <2> QED BY <1>2, <2>1, Single DEF Starred
<1>3. CASE s \in Seq(Decimal) /\ Len(s) > 0
  <2>1. PICK len \in Nat : len = Len(s) /\ \A k \in 1 .. len : s[k] \in Decimal
    BY <1>3
  <2>2. Number(s) \in Nat
    BY <2>1, NumberIs
  <2>3. s # <<>>
    BY <1>3
  <2> QED BY <1>3, <2>2, <2>3, TextIs
<1> QED BY <1>1, <1>2, <1>3 DEF IsAmount

\* With all of its flags read, vprintfmt knows the width, the precision and the
\* padding the reference has for the directive.
LEMMA AmountsAgree ==
    ASSUME NEW d, IsDirective(d), NEW a, Given(d, a), NEW i
    PROVE  LET s == Reads(d, a, 6, i) IN
           /\ s.width \in Int /\ Width(d, a) \in Int
           /\ s.width = Width(d, a) \/ (s.width <= 0 /\ Width(d, a) <= 0)
           /\ s.precision = Precision(d, a) /\ s.precision \in Int
           /\ s.padc = Padding(d) /\ s.lflag = i
           /\ s.altflag = (d.alt # <<>>)
<1> DEFINE s == Reads(d, a, 6, i)
<1>1. /\ s.padc = Padding(d) /\ s.lflag = i /\ s.precision = Precision(d, a)
      /\ s.altflag = (d.alt # <<>>)
      /\ s.width = IF d.prec # <<>> /\ ReadWidth(d, a) < 0 THEN 0 ELSE ReadWidth(d, a)
  BY DEF Reads
<1> HIDE DEF s
<1>2. IsAmount(d.width) /\ IsAmount(d.prec)
  BY DEF IsDirective
<1>3. Width(d, a) \in Int /\ (d.width = <<>> => Width(d, a) = 0)
  <2>1. d.width = <<>> => ~Starred(d.width)
    BY DEF Starred
  <2> QED BY <1>2, <2>1, AmountIs DEF Width, Given
<1>4. Precision(d, a) \in Int
  BY <1>2, AmountIs DEF Precision, Given
<1>5. CASE d.width = <<>>
  <2>1. ReadWidth(d, a) = -1
    BY <1>5 DEF ReadWidth
  <2> QED BY <1>1, <1>3, <1>4, <1>5, <2>1 DEF s
<1>6. CASE d.width # <<>>
  <2>1. ReadWidth(d, a) = Width(d, a)
    BY <1>6 DEF ReadWidth
  <2> QED BY <1>1, <1>3, <1>4, <2>1 DEF s
<1> QED BY <1>5, <1>6

\* Nothing before or behind a text.
LEMMA EmptyConcat ==
    ASSUME NEW s, IsText(s)
    PROVE  <<>> \o s = s /\ s \o <<>> = s
<1>1. s \in Seq(Range(s))
  BY DEF IsText
<1> QED BY <1>1

\* No padding.
LEMMA RepeatNone ==
    ASSUME NEW c, NEW k \in Int, k <= 0
    PROVE  Repeat(c, k) = <<>>
<1>1. Max({k, 0}) = 0
  BY MaxOfTwo
<1>2. Repeat(c, k) = [j \in 1 .. 0 |-> c]
  BY <1>1 DEF Repeat
<1>3. [j \in 1 .. 0 |-> c] \in [1 .. 0 -> {c}]
  OBVIOUS
<1>4. [j \in 1 .. 0 |-> c] \in Seq({c})
  <2>1. 0 \in Nat
    OBVIOUS
  <2> QED BY <1>3, <2>1, SeqDef
<1>5. Len([j \in 1 .. 0 |-> c]) = 0
  <2>1. PICK e : e = [j \in 1 .. 0 |-> c]
    OBVIOUS
  <2>2. e \in Seq({c}) /\ DOMAIN e = 1 .. 0
    BY <1>4, <2>1
  <2>3. Len(e) \in Nat /\ 1 .. Len(e) = 1 .. 0
    BY <2>2, LenProperties
  <2>4. Len(e) > 0 => Len(e) \in 1 .. Len(e)
    BY <2>3
  <2>5. 1 .. 0 = {}
    OBVIOUS
  <2> QED BY <2>1, <2>3, <2>4, <2>5
<1> QED BY <1>2, <1>4, <1>5

\* All of a text.
LEMMA SubSeqWhole ==
    ASSUME NEW s, IsText(s)
    PROVE  SubSeq(s, 1, Len(s)) = s
<1>1. s \in Seq(Range(s))
  BY DEF IsText
<1> QED BY <1>1

\* A text with characters replaced is as long.
LEMMA MapLen ==
    ASSUME NEW s, IsText(s), NEW u, u = [k \in DOMAIN s |-> u[k]]
    PROVE  IsText(u) /\ Len(u) = Len(s)
BY TextLen, TextFunction

\* %s pads and cuts as the reference does.
LEMMA StringIs ==
    ASSUME NEW d, IsDirective(d), NEW a, Given(d, a), NEW i, spec = Reads(d, a, 6, i),
           NEW s \in Strings \cup {NULL}
    PROVE  StringText(s) =
             StringField(d, a, IF s = NULL THEN <<"(", "n", "u", "l", "l", ")">> ELSE s)
<1> DEFINE p      == IF s = NULL THEN <<"(", "n", "u", "l", "l", ")">> ELSE s
           shown  == IF spec.precision < 0 THEN p
                     ELSE SubSeq(p, 1, Min({spec.precision, Len(p)}))
           left   == IF spec.width > 0 /\ spec.padc # "-" THEN spec.width - Len(shown) ELSE 0
           rest   == IF spec.width > 0 /\ spec.padc # "-" THEN Min({left, 0}) ELSE spec.width
           marked == [k \in DOMAIN shown |->
                        IF spec.altflag /\ shown[k] = "\t" THEN "?" ELSE shown[k]]
           cut    == IF Precision(d, a) \in 0 .. Len(p) THEN SubSeq(p, 1, Precision(d, a)) ELSE p
           field  == IF d.alt = <<>> THEN cut
                     ELSE [k \in DOMAIN cut |-> IF cut[k] = "\t" THEN "?" ELSE cut[k]]
           fill   == Repeat(IF d.pad = <<"-">> THEN " " ELSE Padding(d), Width(d, a) - Len(field))
<1>1. /\ spec.width \in Int /\ Width(d, a) \in Int
      /\ spec.width = Width(d, a) \/ (spec.width <= 0 /\ Width(d, a) <= 0)
      /\ spec.precision = Precision(d, a) /\ spec.precision \in Int
      /\ spec.padc = Padding(d)
      /\ spec.altflag = (d.alt # <<>>)
  BY AmountsAgree
<1>2. (spec.padc = "-") <=> (d.pad = <<"-">>)
  <2>1. d.pad \in {<<>>, <<"-">>, <<"0">>}
    BY DEF IsDirective
  <2>2. CASE d.pad = <<>>
    <3>1. <<>> # <<"-">>
      OBVIOUS
    <3>2. spec.padc = Padding(d)
      BY <1>1
    <3>3. Padding(d) = " "
      BY <2>2, Zenon DEF Padding
    <3> QED BY <2>2, <3>1, <3>2, <3>3
  <2>3. CASE d.pad = <<"-">>
    BY <1>1, <2>3 DEF Padding
  <2>4. CASE d.pad = <<"0">>
    BY <1>1, <2>4 DEF Padding
  <2> QED BY <2>1, <2>2, <2>3, <2>4
<1>3. IsText(p)
  <2>1. <<"(", "n", "u", "l", "l", ")">> \in Seq({"(", "n", "u", "l", ")"})
    OBVIOUS
  <2>2. IsText(<<"(", "n", "u", "l", "l", ")">>)
    BY <2>1, TextIs
  <2> QED BY <2>2, TextsFit
<1>4. StringText(s) = Repeat(spec.padc, left) \o marked \o Repeat(" ", rest - Len(shown))
  BY DEF StringText
<1>5. StringField(d, a, p) = IF d.pad = <<"-">> THEN field \o fill ELSE fill \o field
  BY DEF StringField
<1> HIDE DEF p
<1>6. cut = shown /\ IsText(shown)
  <2>1. PICK len \in Nat : len = Len(p)
    BY <1>3, TextLen
  <2>2. PICK prec \in Int : prec = spec.precision /\ prec = Precision(d, a)
    BY <1>1
  <2>3. CASE prec < 0
    BY <1>3, <2>1, <2>2, <2>3
  <2>4. CASE prec \in 0 .. len
    <3>1. Min({prec, len}) = prec
      BY <2>4, MinIs
    <3> QED BY <1>3, <2>1, <2>2, <2>4, <3>1, TextSubSeq
  <2>5. CASE prec > len
    <3>1. Min({prec, len}) = len
      BY <2>5, MinIs
    <3>2. ~(prec < 0) /\ ~(prec \in 0 .. len)
      BY <2>1, <2>5
    <3> QED BY <1>3, <2>1, <2>2, <3>1, <3>2, SubSeqWhole
  <2> QED BY <2>1, <2>2, <2>3, <2>4, <2>5
<1> HIDE DEF shown, cut
<1>7. field = marked /\ IsText(marked) /\ Len(marked) = Len(shown)
  <2>1. marked = [k \in DOMAIN shown |-> marked[k]]
    OBVIOUS
  <2>2. IsText(marked) /\ Len(marked) = Len(shown)
    <3> HIDE DEF marked
    <3> QED BY <1>6, <2>1, MapLen
  <2>3. CASE d.alt = <<>>
    <3>1. marked = [k \in DOMAIN shown |-> shown[k]]
      BY <1>1, <2>3
    <3>2. shown = [k \in DOMAIN shown |-> shown[k]]
      <4>1. shown \in Seq(Range(shown))
        BY <1>6 DEF IsText
      <4> QED BY <4>1
    <3> QED BY <1>6, <2>2, <2>3, <3>1, <3>2
  <2>4. CASE d.alt # <<>>
    <3>1. marked = [k \in DOMAIN shown |-> IF shown[k] = "\t" THEN "?" ELSE shown[k]]
      BY <1>1, <2>4
    <3>2. field = [k \in DOMAIN shown |-> IF shown[k] = "\t" THEN "?" ELSE shown[k]]
      BY <1>6, <2>4
    <3> HIDE DEF marked, field
    <3> QED BY <2>2, <3>1, <3>2
  <2> QED BY <2>3, <2>4
<1> HIDE DEF marked, field
<1>8. PICK len \in Nat : len = Len(shown)
  BY <1>6, TextLen
<1>9. PICK w \in Int, width \in Int :
          /\ w = Width(d, a) /\ width = spec.width
          /\ width = w \/ (width <= 0 /\ w <= 0)
  BY <1>1
<1>10. CASE d.pad = <<"-">>
  <2>1. left = 0 /\ rest = width
    BY <1>2, <1>9, <1>10
  <2>2. Repeat(spec.padc, 0) = <<>>
    BY RepeatNone
  <2>3. Repeat(" ", width - len) = Repeat(" ", w - len)
    <3>1. width = w \/ (width - len \in Int /\ w - len \in Int /\ width - len <= 0 /\ w - len <= 0)
      BY <1>9
    <3> QED BY <3>1, RepeatNone
  <2>4. fill = Repeat(" ", w - len)
    BY <1>7, <1>8, <1>9, <1>10
  <2> HIDE DEF left, rest, fill
  <2>5. StringText(s) = <<>> \o marked \o fill
    BY <1>4, <1>8, <2>1, <2>2, <2>3, <2>4
  <2>6. <<>> \o marked = marked
    BY <1>7, EmptyConcat
  <2> QED BY <1>5, <1>7, <1>10, <2>5, <2>6 DEF p
<1>11. CASE d.pad # <<"-">>
  <2>1. fill = Repeat(spec.padc, w - len)
    BY <1>1, <1>7, <1>8, <1>9, <1>11
  <2>2. Repeat(spec.padc, left) = fill
    <3>1. left = IF width > 0 THEN width - len ELSE 0
      BY <1>2, <1>8, <1>9, <1>11
    <3> HIDE DEF fill, left
    <3>2. left = w - len \/ (left \in Int /\ w - len \in Int /\ left <= 0 /\ w - len <= 0)
      BY <1>9, <3>1
    <3> QED BY <2>1, <3>2, RepeatNone
  <2>3. Repeat(" ", rest - len) = <<>>
    <3>1. left = IF width > 0 THEN width - len ELSE 0
      BY <1>2, <1>8, <1>9, <1>11
    <3>2. rest = IF width > 0 THEN Min({left, 0}) ELSE width
      BY <1>2, <1>9, <1>11
    <3> HIDE DEF left, rest
    <3>3. left \in Int /\ Min({left, 0}) = IF left <= 0 THEN left ELSE 0
      BY <3>1, MinIs
    <3>4. rest - len \in Int /\ rest - len <= 0
      BY <3>1, <3>2, <3>3
    <3> QED BY <3>4, RepeatNone
  <2>4. IsText(fill)
    <3>1. w - len \in Int
      OBVIOUS
    <3> HIDE DEF fill
    <3> QED BY <2>1, <3>1, TextRepeat
  <2> HIDE DEF left, rest, fill
  <2>5. StringText(s) = (fill \o marked) \o <<>>
    BY <1>4, <1>8, <2>2, <2>3
  <2>6. IsText(fill \o marked)
    BY <1>7, <2>4, TextConcat
  <2>7. (fill \o marked) \o <<>> = fill \o marked
    BY <2>6, EmptyConcat
  <2> QED BY <1>5, <1>7, <1>11, <2>5, <2>7 DEF p
<1> QED BY <1>10, <1>11

\* Width and precision do not depend on the value behind their arguments.
LEMMA SameAmounts ==
    ASSUME NEW d, NEW a, NEW b_, Len(a) = StarsOf(d), \A i \in 1 .. Len(a) : b_[i] = a[i]
    PROVE  Width(d, b_) = Width(d, a) /\ Precision(d, b_) = Precision(d, a)
<1>1. Starred(d.width) => 1 \in 1 .. Len(a)
  BY DEF StarsOf
<1>2. Starred(d.prec) => (IF Starred(d.width) THEN 2 ELSE 1) \in 1 .. Len(a)
  BY DEF StarsOf
<1>3. Width(d, b_) = Width(d, a)
  BY <1>1 DEF Width
<1>4. Precision(d, b_) = Precision(d, a)
  BY <1>2 DEF Precision
<1> QED BY <1>3, <1>4

\* The cases of Expected.
LEMMA ExpectedCases ==
    ASSUME NEW d, NEW a, NEW v, v = a[Len(a)]
    PROVE  /\ ~Known(d) => Expected(d, a) = Directive(d)
           /\ d.conv = "%" => Expected(d, a) = <<"%">>
           /\ d.conv = "c" => Expected(d, a) = <<v>>
           /\ d.conv = "e" => Expected(d, a) =
                IF Abs(v) \in DOMAIN error_string THEN error_string[Abs(v)]
                ELSE <<"e", "r", "r", "o", "r", " ">> \o Numeral(Abs(v), 10, 0, " ")
           /\ d.conv = "d" => Expected(d, a) = (IF v < 0 THEN <<"-">> ELSE <<>>)
                                \o Numeral(Abs(v), 10, Width(d, a), Padding(d))
           /\ d.conv = "p" => Expected(d, a) = <<"0", "x">>
                                \o Numeral(v % IntMod, 16, Width(d, a), Padding(d))
           /\ d.conv \in {"u", "o", "x"} => Expected(d, a) =
                Numeral(v % (IF d.long = <<"l", "l">> THEN LongLongMod ELSE IntMod),
                        Base[d.conv], Width(d, a), Padding(d))
           /\ d.conv = "s" => Expected(d, a) =
                StringField(d, a, IF v = NULL THEN <<"(", "n", "u", "l", "l", ")">> ELSE v)
<1>1. ~Known(d) => Expected(d, a) = Directive(d)
  BY DEF Expected, Known, Base
<1>2. d.conv = "%" => Expected(d, a) = <<"%">>
  BY DEF Expected, Known, Base
<1>3. d.conv = "c" => Expected(d, a) = <<v>>
  BY DEF Expected, Known, Base
<1>4. d.conv = "e" => Expected(d, a) =
                IF Abs(v) \in DOMAIN error_string THEN error_string[Abs(v)]
                ELSE <<"e", "r", "r", "o", "r", " ">> \o Numeral(Abs(v), 10, 0, " ")
  BY DEF Expected, Known, Base
<1>5. d.conv = "d" => Expected(d, a) = (IF v < 0 THEN <<"-">> ELSE <<>>)
                                \o Numeral(Abs(v), 10, Width(d, a), Padding(d))
  BY DEF Expected, Known, Base
<1>6. d.conv = "p" => Expected(d, a) = <<"0", "x">>
                                \o Numeral(v % IntMod, 16, Width(d, a), Padding(d))
  BY DEF Expected, Known, Base
<1>7. d.conv \in {"u", "o", "x"} => Expected(d, a) =
                Numeral(v % (IF d.long = <<"l", "l">> THEN LongLongMod ELSE IntMod),
                        Base[d.conv], Width(d, a), Padding(d))
  <2>1. DOMAIN Base = {"u", "o", "x"}
    BY DEF Base
  <2> QED BY <2>1 DEF Expected, Known
<1>8. d.conv = "s" => Expected(d, a) =
                StringField(d, a, IF v = NULL THEN <<"(", "n", "u", "l", "l", ")">> ELSE v)
  BY DEF Expected, Known, Base
<1> QED BY <1>1, <1>2, <1>3, <1>4, <1>5, <1>6, <1>7, <1>8

\* Each value prints what the reference has for it.
LEMMA ValueIs ==
    ASSUME NEW d, IsDirective(d), NEW a, Given(d, a), IsText(a), Len(a) = StarsOf(d),
           spec = Reads(d, a, 6, Len(d.long)), d.conv = ch, NEW v,
           NEW text, Convert(text, <<v>>),
           \/ ch = "c" /\ text = <<v>>
           \/ ch = "e" /\ v \in Codes /\ text = ErrorText(v)
           \/ ch = "s" /\ v \in Strings \cup {NULL} /\ text = StringText(v)
           \/ ch = "d" /\ v \in VaInts /\ text = SignedText(v)
           \/ ch \in DOMAIN Base /\ v \in VaInts /\ text = number(Unsigned(v), Base[ch])
           \/ ch = "p" /\ v \in Ints /\ text = <<"0", "x">> \o number(v % IntMod, 16)
    PROVE  text = Expected(d, a \o <<v>>)
<1>1. PICK all : all = a \o <<v>>
  OBVIOUS
<1>2. IsText(all) /\ Len(all) = Len(a) + 1 /\ all[Len(all)] = v
      /\ \A i \in 1 .. Len(a) : all[i] = a[i]
  <2>1. PICK one : one = <<v>>
    OBVIOUS
  <2>2. IsText(one) /\ Len(one) = 1 /\ one[1] = v
    BY <2>1, Single
  <2>3. /\ IsText(all) /\ Len(all) = Len(a) + 1
        /\ \A i \in 1 .. Len(a) : all[i] = a[i]
        /\ all[Len(a) + 1] = v
    <3>1. /\ IsText(all) /\ Len(all) = Len(a) + Len(one)
          /\ \A i \in 1 .. Len(a) : all[i] = a[i]
          /\ \A i \in 1 .. Len(one) : all[Len(a) + i] = one[i]
      BY <1>1, <2>1, <2>2, TextConcat
    <3>2. 1 \in 1 .. Len(one)
      BY <2>2
    <3> QED BY <2>2, <3>1, <3>2
  <2> QED BY <2>3
<1>3. Width(d, all) = Width(d, a) /\ Precision(d, all) = Precision(d, a)
  BY <1>2, SameAmounts
<1>4. /\ spec.width \in Int /\ Width(d, a) \in Int
      /\ spec.width = Width(d, a) \/ (spec.width <= 0 /\ Width(d, a) <= 0)
      /\ spec.padc = Padding(d) /\ spec.lflag = Len(d.long)
  BY AmountsAgree
<1>5. ASSUME NEW num \in Nat, NEW base \in {8, 10, 16}
      PROVE  number(num, base) = Numeral(num, base, Width(d, all), Padding(d))
  <2>1. printnum(num, base, spec.width) = Numeral(num, base, Width(d, a), spec.padc)
    BY <1>4, PrintnumNumeral
  <2> QED BY <1>3, <1>4, <2>1 DEF number
<1>6. (IF spec.lflag >= 2 THEN LongLongMod ELSE IntMod) =
      (IF d.long = <<"l", "l">> THEN LongLongMod ELSE IntMod)
  <2>1. d.long \in {<<>>, <<"l">>, <<"l", "l">>}
    BY DEF IsDirective
  <2>2. CASE d.long = <<>>
    <3>1. Len(d.long) = 0 /\ d.long # <<"l", "l">>
      BY <2>2
    <3> QED BY <1>4, <3>1
  <2>3. CASE d.long = <<"l">>
    <3>1. Len(d.long) = 1 /\ d.long # <<"l", "l">>
      BY <2>3
    <3> QED BY <1>4, <3>1
  <2>4. CASE d.long = <<"l", "l">>
    <3>1. Len(d.long) = 2
      BY <2>4
    <3> QED BY <1>4, <2>4, <3>1
  <2> QED BY <2>1, <2>2, <2>3, <2>4
<1>7. CASE ch = "c" /\ text = <<v>>
  BY <1>1, <1>2, <1>7, ExpectedCases
<1>8. CASE ch = "e" /\ v \in Codes /\ text = ErrorText(v)
  <2>1. Abs(v) \in Nat
    BY <1>8, ArgumentsInt DEF Abs
  <2>2. printnum(Abs(v), 10, -1) = Numeral(Abs(v), 10, 0, " ")
    <3>1. PICK m1 \in Int, none \in Int : m1 = -1 /\ none = 0
      OBVIOUS
    <3>2. m1 <= 0 /\ none <= 0
      BY <3>1
    <3>3. PICK x \in Nat, ten \in {8, 10, 16} : x = Abs(v) /\ ten = 10
      BY <2>1
    <3>4. PICK c : c = " "
      OBVIOUS
    <3>5. printnum(x, ten, m1) = Numeral(x, ten, none, c)
      BY <3>2, PrintnumNumeral
    <3> QED BY <3>1, <3>3, <3>4, <3>5
  <2>3. d.conv = "e" => Expected(d, all) =
                IF Abs(v) \in DOMAIN error_string THEN error_string[Abs(v)]
                ELSE <<"e", "r", "r", "o", "r", " ">> \o Numeral(Abs(v), 10, 0, " ")
    BY <1>2, ExpectedCases, ZenonT(40)
  <2>4. ErrorText(v) =
                IF Abs(v) \in DOMAIN error_string THEN error_string[Abs(v)]
                ELSE <<"e", "r", "r", "o", "r", " ">> \o Numeral(Abs(v), 10, 0, " ")
    BY <2>2, Zenon DEF ErrorText
  <2> QED BY <1>1, <1>8, <2>3, <2>4, Zenon
<1>9. CASE ch = "s" /\ v \in Strings \cup {NULL} /\ text = StringText(v)
  <2>1. text = StringField(d, a, IF v = NULL THEN <<"(", "n", "u", "l", "l", ")">> ELSE v)
    BY <1>9, StringIs
  <2>2. text = StringField(d, all, IF v = NULL THEN <<"(", "n", "u", "l", "l", ")">> ELSE v)
    BY <1>3, <2>1 DEF StringField
  <2> QED BY <1>1, <1>2, <1>9, <2>2, ExpectedCases, ZenonT(40)
<1>10. CASE ch = "d" /\ v \in VaInts /\ text = SignedText(v)
  <2>1. v \in Int
    BY <1>10, ArgumentsInt
  <2>2. Abs(v) \in Nat /\ Abs(v) = IF v < 0 THEN (-v) % LongLongMod ELSE v
    <3>1. v < 0 => (-v) \in Nat /\ (-v) < LongLongMod /\ LongLongMod \in Nat \ {0}
      <4>1. PICK hi \in Nat, big \in Nat \ {0}, lo \in Nat :
                hi = IntMod /\ big = LongLongMod /\ lo = big \div 2
        BY WordSizes
      <4>2. hi <= big /\ hi \div 2 <= lo /\ lo < big
        BY <4>1, WordSizes
      <4>3. v >= -(hi \div 2) \/ v >= -lo
        BY <1>10, <4>1, IntsFit, LongLongsFit DEF VaInts
      <4> QED BY <2>1, <4>1, <4>2, <4>3
    <3>2. v < 0 => (-v) % LongLongMod = -v
      BY <2>1, <3>1
    <3> QED BY <2>1, <3>2 DEF Abs
  <2>3. text = (IF v < 0 THEN <<"-">> ELSE <<>>) \o number(Abs(v), 10)
    BY <1>10, <2>2 DEF SignedText
  <2>4. number(Abs(v), 10) = Numeral(Abs(v), 10, Width(d, all), Padding(d))
    BY <1>5, <2>2
  <2>5. d.conv = "d" => Expected(d, all) = (IF v < 0 THEN <<"-">> ELSE <<>>)
                                \o Numeral(Abs(v), 10, Width(d, all), Padding(d))
    BY <1>2, ExpectedCases
  <2> QED BY <1>1, <1>10, <2>3, <2>4, <2>5
<1>11. CASE ch \in DOMAIN Base /\ v \in VaInts /\ text = number(Unsigned(v), Base[ch])
  <2>1. ch \in {"u", "o", "x"} /\ Base[ch] \in {8, 10, 16}
    BY <1>11 DEF Base
  <2>2. Unsigned(v) \in Nat
    <3>1. v \in Int /\ (IF spec.lflag >= 2 THEN LongLongMod ELSE IntMod) \in Nat \ {0}
      BY <1>11, ArgumentsInt
    <3> QED BY <3>1, Reduced DEF Unsigned
  <2>3. text = Numeral(Unsigned(v), Base[ch], Width(d, all), Padding(d))
    BY <1>5, <1>11, <2>1, <2>2
  <2>4. Unsigned(v) = v % (IF d.long = <<"l", "l">> THEN LongLongMod ELSE IntMod)
    BY <1>6 DEF Unsigned
  <2>5. d.conv \in {"u", "o", "x"} => Expected(d, all) =
                Numeral(v % (IF d.long = <<"l", "l">> THEN LongLongMod ELSE IntMod),
                        Base[d.conv], Width(d, all), Padding(d))
    BY <1>2, ExpectedCases
  <2> QED BY <1>1, <2>1, <2>3, <2>4, <2>5
<1>12. CASE ch = "p" /\ v \in Ints /\ text = <<"0", "x">> \o number(v % IntMod, 16)
  <2>1. v % IntMod \in Nat
    BY <1>12, ArgumentsInt, Reduced
  <2>2. number(v % IntMod, 16) = Numeral(v % IntMod, 16, Width(d, all), Padding(d))
    BY <1>5, <2>1
  <2>3. d.conv = "p" => Expected(d, all) = <<"0", "x">>
                                \o Numeral(v % IntMod, 16, Width(d, all), Padding(d))
    BY <1>2, ExpectedCases
  <2> QED BY <1>1, <1>12, <2>2, <2>3
<1> QED BY <1>7, <1>8, <1>9, <1>10, <1>11, <1>12

-----------------------------------------------------------------------------
(***************************************************************************)
(* Where the parts of a directive are in it, and the directives in fmt.    *)
(***************************************************************************)
Upto(d, m) == Len(Joined(Parts(d), m))

\* Nothing is a text.
LEMMA EmptyText == IsText(<<>>) /\ Len(<<>>) = 0
<1>1. <<>> \in Seq({})
  OBVIOUS
<1> QED BY <1>1, TextIs

\* The parts of a directive, by their names.
LEMMA PartsAre ==
    ASSUME NEW d, IsDirective(d)
    PROVE  /\ \A m \in 1 .. 8 : IsText(Parts(d)[m])
           /\ Parts(d)[1] = <<"%">> /\ Parts(d)[2] = d.pad /\ Parts(d)[3] = d.alt
           /\ Parts(d)[4] = d.width
           /\ Parts(d)[5] = IF d.prec = <<>> THEN <<>> ELSE <<".">>
           /\ Parts(d)[6] = d.prec /\ Parts(d)[7] = d.long
           /\ Parts(d)[8] = IF d.conv = NUL THEN <<>> ELSE <<d.conv>>
           /\ Directive(d) = Joined(Parts(d), 8)
<1> DEFINE p == Parts(d)
<1>1. /\ p[1] = <<"%">> /\ p[2] = d.pad /\ p[3] = d.alt
      /\ p[4] = d.width
      /\ p[5] = IF d.prec = <<>> THEN <<>> ELSE <<".">>
      /\ p[6] = d.prec /\ p[7] = d.long
      /\ p[8] = IF d.conv = NUL THEN <<>> ELSE <<d.conv>>
  BY DEF Parts
<1>2. \A j \in 1 .. 8 : j \in {1, 2, 3, 4, 5, 6, 7, 8}
  OBVIOUS
<1>3. p = [j \in 1 .. 8 |-> p[j]]
  BY DEF Parts
<1> HIDE DEF p
<1>4. IsText(d.pad) /\ IsText(d.alt) /\ IsText(d.long) /\ IsText(d.width) /\ IsText(d.prec)
  <2>1. IsText(<<"l", "l">>)
    <3>1. <<"l", "l">> \in Seq({"l"})
      OBVIOUS
    <3> QED BY <3>1, TextIs
  <2> QED BY <2>1, EmptyText, Single, AmountIs DEF IsDirective
<1>5. \A m \in 1 .. 8 : IsText(p[m])
  BY <1>1, <1>2, <1>4, EmptyText, Single
<1>6. Directive(d) = Joined(p, 8)
  BY <1>3 DEF Directive, Joined, p
<1> QED BY <1>1, <1>5, <1>6 DEF p

\* Each part is found in the directive, behind those before.
LEMMA PartIsAt ==
    ASSUME NEW d, IsDirective(d)
    PROVE  /\ IsText(Directive(d)) /\ Len(Directive(d)) = Upto(d, 8)
           /\ Upto(d, 0) = 0 /\ Upto(d, 1) = 1 /\ Directive(d)[1] = "%"
           /\ \A m \in 1 .. 8 :
                /\ Upto(d, m - 1) \in Nat /\ Upto(d, m) \in Nat /\ Len(Parts(d)[m]) \in Nat
                /\ Upto(d, m) = Upto(d, m - 1) + Len(Parts(d)[m])
                /\ Upto(d, m) <= Len(Directive(d))
                /\ \A i \in 1 .. Len(Parts(d)[m]) :
                     Directive(d)[Upto(d, m - 1) + i] = Parts(d)[m][i]
<1>1. \A m \in 1 .. 8 : IsText(Parts(d)[m])
  BY PartsAre
<1>2. Directive(d) = Joined(Parts(d), 8)
  BY PartsAre
<1>3. PICK p : p = Parts(d)
  OBVIOUS
<1>4. PICK eight \in Nat : eight = 8
  OBVIOUS
<1>5. \A m \in 1 .. eight : IsText(p[m])
  BY <1>1, <1>3, <1>4
<1>6. /\ Joined(p, 0) = <<>>
      /\ \A m \in 0 .. eight : IsText(Joined(p, m))
  BY <1>5, Flattening
<1>7. ASSUME NEW m \in 1 .. eight
      PROVE  /\ Len(Joined(p, m)) = Len(Joined(p, m - 1)) + Len(p[m])
             /\ Len(Joined(p, m)) <= Len(Joined(p, eight))
             /\ \A i \in 1 .. Len(p[m]) : Joined(p, eight)[Len(Joined(p, m - 1)) + i] = p[m][i]
  <2>1. Len(Joined(p, m)) = Len(Joined(p, m - 1)) + Len(p[m]) /\ PieceIn(p, m, eight)
    BY <1>4, <1>5, <1>7, PieceIsAt
  <2> QED BY <2>1 DEF PieceIn
<1>8. \A m \in 0 .. eight : Len(Joined(p, m)) \in Nat
  BY <1>6, TextLen
<1>9. \A m \in 1 .. eight : Len(p[m]) \in Nat
  BY <1>5, TextLen
<1>10. Upto(d, 0) = 0
  BY <1>3, <1>6, EmptyText DEF Upto
<1>11. ASSUME NEW m \in 1 .. 8
       PROVE  /\ Upto(d, m - 1) \in Nat /\ Upto(d, m) \in Nat /\ Len(Parts(d)[m]) \in Nat
              /\ Upto(d, m) = Upto(d, m - 1) + Len(Parts(d)[m])
              /\ Upto(d, m) <= Len(Directive(d))
              /\ \A i \in 1 .. Len(Parts(d)[m]) :
                   Directive(d)[Upto(d, m - 1) + i] = Parts(d)[m][i]
  <2>1. m \in 1 .. eight /\ m \in 0 .. eight /\ m - 1 \in 0 .. eight
    BY <1>4
  <2>2. Directive(d) = Joined(p, eight)
    BY <1>2, <1>3, <1>4
  <2> QED BY <1>3, <1>7, <1>8, <1>9, <2>1, <2>2 DEF Upto
<1>12. Upto(d, 1) = 1 /\ Directive(d)[1] = "%"
  <2>1. PICK one : one = <<"%">>
    OBVIOUS
  <2>2. Len(one) = 1 /\ one[1] = "%" /\ Parts(d)[1] = one
    BY <2>1, PartsAre
  <2>3. /\ Upto(d, 1) = Upto(d, 1 - 1) + Len(Parts(d)[1])
        /\ \A i \in 1 .. Len(Parts(d)[1]) : Directive(d)[Upto(d, 1 - 1) + i] = Parts(d)[1][i]
    <3>1. 1 \in 1 .. 8
      OBVIOUS
    <3> QED BY <1>11, <3>1
  <2>4. 1 - 1 = 0 /\ 0 + 1 = 1 /\ 1 \in 1 .. 1
    OBVIOUS
  <2> QED BY <1>10, <2>2, <2>3, <2>4
<1>13. IsText(Directive(d)) /\ Len(Directive(d)) = Upto(d, 8)
  <2>1. 8 \in 0 .. eight
    BY <1>4
  <2> QED BY <1>2, <1>3, <1>6, <2>1 DEF Upto
<1> QED BY <1>10, <1>11, <1>12, <1>13

\* No flag ends the format or begins a directive.
FlagChars == {"-", "*", ".", "#", "l"} \cup Decimal

\* What FlagChars are not.
LEMMA DecimalIs ==
    /\ Decimal = {"0", "1", "2", "3", "4", "5", "6", "7", "8", "9"}
    /\ "%" \notin FlagChars /\ NUL \notin FlagChars /\ NUL # "%"
<1>1. /\ Digit[1] = "0" /\ Digit[2] = "1" /\ Digit[3] = "2" /\ Digit[4] = "3" /\ Digit[5] = "4"
      /\ Digit[6] = "5" /\ Digit[7] = "6" /\ Digit[8] = "7" /\ Digit[9] = "8" /\ Digit[10] = "9"
  BY DEF Digit
<1>2. 1 .. 10 = {1, 2, 3, 4, 5, 6, 7, 8, 9, 10}
  OBVIOUS
<1>3. Decimal = {"0", "1", "2", "3", "4", "5", "6", "7", "8", "9"}
  <2>1. ASSUME NEW c \in Decimal
        PROVE  c \in {"0", "1", "2", "3", "4", "5", "6", "7", "8", "9"}
    <3>1. PICK k \in {1, 2, 3, 4, 5, 6, 7, 8, 9, 10} : c = Digit[k]
      BY <1>2, <2>1, Zenon DEF Decimal
    <3> QED BY <1>1, <3>1
  <2>2. \A k \in {1, 2, 3, 4, 5, 6, 7, 8, 9, 10} : Digit[k] \in Decimal
    BY <1>2, Zenon DEF Decimal
  <2>3. {"0", "1", "2", "3", "4", "5", "6", "7", "8", "9"} \subseteq Decimal
    BY <1>1, <2>2
  <2> QED BY <2>1, <2>3
<1> QED BY <1>3 DEF FlagChars, NUL

\* Between the % and the conversion are flags.
LEMMA FlagPart ==
    ASSUME NEW d, IsDirective(d), NEW m \in 2 .. 7, NEW i \in 1 .. Len(Parts(d)[m])
    PROVE  Parts(d)[m][i] \in FlagChars
<1> DEFINE FlagText(s) == \A j \in 1 .. Len(s) : s[j] \in FlagChars
<1>1. FlagText(<<>>)
  <2>1. 1 .. Len(<<>>) = {}
    OBVIOUS
  <2> QED BY <2>1
<1>2. ASSUME NEW c \in FlagChars PROVE FlagText(<<c>>)
  <2>1. PICK s : s = <<c>>
    OBVIOUS
  <2>2. Len(s) = 1 /\ s[1] = c
    BY <2>1
  <2> QED BY <2>1, <2>2
<1>3. FlagText(<<"l", "l">>)
  <2>1. PICK s : s = <<"l", "l">>
    OBVIOUS
  <2>2. Len(s) = 2 /\ s[1] = "l" /\ s[2] = "l"
    BY <2>1
  <2> QED BY <2>1, <2>2 DEF FlagChars
<1>4. ASSUME NEW s, IsAmount(s) PROVE FlagText(s)
  <2>1. CASE s = <<>>
    BY <1>1, <2>1
  <2>2. CASE s = <<"*">>
    BY <1>2, <2>2 DEF FlagChars
  <2>3. CASE s \in Seq(Decimal)
    BY <2>3 DEF FlagChars
  <2> QED BY <1>4, <2>1, <2>2, <2>3 DEF IsAmount
<1>5. "-" \in FlagChars /\ "0" \in FlagChars /\ "#" \in FlagChars /\ "." \in FlagChars
      /\ "l" \in FlagChars
  BY DecimalIs DEF FlagChars
<1> HIDE DEF FlagText
<1>6. FlagText(d.pad) /\ FlagText(d.alt) /\ FlagText(d.long) /\ FlagText(d.width)
      /\ FlagText(d.prec)
  BY <1>1, <1>2, <1>3, <1>4, <1>5 DEF IsDirective
<1>7. FlagText(IF d.prec = <<>> THEN <<>> ELSE <<".">>)
  BY <1>1, <1>2, <1>5
<1>8. FlagText(Parts(d)[m])
  <2>1. m \in {2, 3, 4, 5, 6, 7}
    OBVIOUS
  <2> QED BY <1>6, <1>7, <2>1, PartsAre
<1> QED BY <1>8 DEF FlagText

\* After its % a directive has flags, up to the conversion.
LEMMA DirectiveChars ==
    ASSUME NEW d, IsDirective(d), NEW i \in 2 .. Len(Directive(d))
    PROVE  \/ i <= Upto(d, 7) /\ Directive(d)[i] \in FlagChars
           \/ d.conv # NUL /\ i = Upto(d, 7) + 1 /\ i = Len(Directive(d)) /\ Directive(d)[i] = d.conv
<1>1. /\ Len(Directive(d)) = Upto(d, 8) /\ Upto(d, 1) = 1
      /\ \A m \in 1 .. 8 :
           /\ Upto(d, m - 1) \in Nat /\ Upto(d, m) \in Nat /\ Len(Parts(d)[m]) \in Nat
           /\ Upto(d, m) = Upto(d, m - 1) + Len(Parts(d)[m])
           /\ \A j \in 1 .. Len(Parts(d)[m]) :
                Directive(d)[Upto(d, m - 1) + j] = Parts(d)[m][j]
  BY PartIsAt
<1>2. ASSUME NEW m \in 2 .. 7, i > Upto(d, m - 1), i <= Upto(d, m)
      PROVE  Directive(d)[i] \in FlagChars /\ i <= Upto(d, m)
  <2>1. m \in 1 .. 8
    OBVIOUS
  <2>2. PICK u \in Nat, l \in Nat : u = Upto(d, m - 1) /\ l = Len(Parts(d)[m])
    BY <1>1, <2>1
  <2>3. Upto(d, m) = u + l
    BY <1>1, <2>1, <2>2
  <2>4. PICK j \in 1 .. l : i = u + j
    <3>1. i - u \in 1 .. l /\ i = u + (i - u)
      BY <1>2, <2>2, <2>3
    <3> QED BY <3>1
  <2>5. Directive(d)[i] = Parts(d)[m][j]
    BY <1>1, <2>1, <2>2, <2>4
  <2> QED BY <1>2, <2>2, <2>4, <2>5, FlagPart
<1>3. \A m \in {2, 3, 4, 5, 6, 7, 8} :
        Upto(d, m - 1) \in Nat /\ Upto(d, m) \in Nat /\ Upto(d, m - 1) <= Upto(d, m)
  <2> TAKE m \in {2, 3, 4, 5, 6, 7, 8}
  <2>1. m \in 1 .. 8
    OBVIOUS
  <2>2. PICK u \in Nat, v \in Nat, l \in Nat :
          u = Upto(d, m - 1) /\ v = Upto(d, m) /\ l = Len(Parts(d)[m])
    BY <1>1, <2>1
  <2>3. v = u + l
    BY <1>1, <2>1, <2>2
  <2>4. u <= v
    BY <2>3
  <2> QED BY <2>2, <2>4
<1>4. PICK u1 \in Nat, u2 \in Nat, u3 \in Nat, u4 \in Nat, u5 \in Nat, u6 \in Nat, u7 \in Nat,
           u8 \in Nat :
        /\ u1 = Upto(d, 1) /\ u2 = Upto(d, 2) /\ u3 = Upto(d, 3) /\ u4 = Upto(d, 4)
        /\ u5 = Upto(d, 5) /\ u6 = Upto(d, 6) /\ u7 = Upto(d, 7) /\ u8 = Upto(d, 8)
  <2>1. /\ Upto(d, 1) \in Nat /\ Upto(d, 2) \in Nat /\ Upto(d, 3) \in Nat /\ Upto(d, 4) \in Nat
        /\ Upto(d, 5) \in Nat /\ Upto(d, 6) \in Nat /\ Upto(d, 7) \in Nat /\ Upto(d, 8) \in Nat
    BY <1>1
  <2> QED BY <2>1
<1>5. /\ u1 = 1 /\ u1 <= u2 /\ u2 <= u3 /\ u3 <= u4 /\ u4 <= u5 /\ u5 <= u6 /\ u6 <= u7
      /\ u7 <= u8
  <2>1. /\ 2 - 1 = 1 /\ 3 - 1 = 2 /\ 4 - 1 = 3 /\ 5 - 1 = 4 /\ 6 - 1 = 5 /\ 7 - 1 = 6 /\ 8 - 1 = 7
    OBVIOUS
  <2> QED BY <1>1, <1>3, <1>4, <2>1
<1>6. i \in 2 .. u8
  BY <1>1, <1>4
<1>7. CASE i <= u7
  <2>1. \/ i > u1 /\ i <= u2
        \/ i > u2 /\ i <= u3
        \/ i > u3 /\ i <= u4
        \/ i > u4 /\ i <= u5
        \/ i > u5 /\ i <= u6
        \/ i > u6 /\ i <= u7
    BY <1>5, <1>6, <1>7
  <2>2. /\ 2 - 1 = 1 /\ 3 - 1 = 2 /\ 4 - 1 = 3 /\ 5 - 1 = 4 /\ 6 - 1 = 5 /\ 7 - 1 = 6
        /\ {2, 3, 4, 5, 6, 7} \subseteq 2 .. 7
    OBVIOUS
  <2>3. Directive(d)[i] \in FlagChars
    BY <1>2, <1>4, <2>1, <2>2
  <2> QED BY <1>4, <1>7, <2>3
<1>8. CASE i > u7
  <2>1. PICK l \in Nat : l = Len(Parts(d)[8]) /\ u8 = u7 + l
                         /\ \A j \in 1 .. l : Directive(d)[u7 + j] = Parts(d)[8][j]
    <3>1. 8 \in 1 .. 8 /\ 8 - 1 = 7
      OBVIOUS
    <3>2. /\ Len(Parts(d)[8]) \in Nat /\ Upto(d, 8) = Upto(d, 8 - 1) + Len(Parts(d)[8])
          /\ \A j \in 1 .. Len(Parts(d)[8]) :
               Directive(d)[Upto(d, 8 - 1) + j] = Parts(d)[8][j]
      BY <1>1, <3>1, Zenon
    <3>3. u8 = u7 + Len(Parts(d)[8])
      BY <1>4, <3>1, <3>2, Zenon
    <3>4. \A j \in 1 .. Len(Parts(d)[8]) : Directive(d)[u7 + j] = Parts(d)[8][j]
      BY <1>4, <3>1, <3>2, Zenon
    <3> QED BY <3>2, <3>3, <3>4, Zenon
  <2>2. d.conv # NUL
    <3>1. d.conv = NUL => Parts(d)[8] = <<>>
      BY PartsAre
    <3> QED BY <1>6, <1>8, <2>1, <3>1, EmptyText
  <2>3. PICK one : one = <<d.conv>>
    OBVIOUS
  <2>4. Parts(d)[8] = one /\ Len(one) = 1 /\ one[1] = d.conv
    BY <2>2, <2>3, PartsAre
  <2>5. l = 1 /\ i = u7 + 1 /\ i = u8 /\ 1 \in 1 .. l
    BY <1>6, <1>8, <2>1, <2>4
  <2>6. Directive(d)[u7 + 1] = d.conv
    BY <2>1, <2>4, <2>5
  <2> QED BY <1>1, <1>4, <2>2, <2>5, <2>6
<1> QED BY <1>4, <1>6, <1>7, <1>8

-----------------------------------------------------------------------------
(***************************************************************************)
(* Where the directives of a format are in what is written.                *)
(***************************************************************************)
Count(f)    == Len(f.directives)
Wholes(f)   == [k \in 1 .. Count(f) |-> Whole(f.directives[k])]
Start(f, k) == Len(Joined(Wholes(f), k - 1))

\* The plain text before the k-th directive, or behind the last.
Between(f, k) == IF k <= Count(f) THEN f.directives[k].before ELSE f.rest

\* What the assumption on the formats says, by position.
LEMMA DirectivesAre ==
    ASSUME NEW f \in Formats
    PROVE  /\ Count(f) \in Nat /\ DOMAIN f.directives = 1 .. Count(f)
           /\ \A k \in 1 .. Count(f) : IsDirective(f.directives[k])
           /\ \A k \in 1 .. Count(f) :
                f.directives[k].conv = NUL => k = Count(f) /\ f.rest = <<>>
           /\ IsPlain(f.rest)
           /\ \A k \in 1 .. Count(f) + 1 : IsPlain(Between(f, k))
<1>1. IsText(f.directives)
  BY FormatsWritten DEF IsText
<1>2. Count(f) \in Nat /\ DOMAIN f.directives = 1 .. Count(f)
  BY <1>1, TextLen DEF Count
<1>3. \A k \in 1 .. Count(f) : IsDirective(f.directives[k])
  BY <1>2, FormatsWritten
<1>4. \A k \in 1 .. Count(f) : f.directives[k].conv = NUL => k = Count(f) /\ f.rest = <<>>
  BY <1>2, FormatsWritten DEF Count
<1>5. IsPlain(f.rest)
  BY FormatsWritten
<1>6. \A k \in 1 .. Count(f) + 1 : IsPlain(Between(f, k))
  <2> TAKE k \in 1 .. Count(f) + 1
  <2>1. k <= Count(f) => k \in 1 .. Count(f)
    BY <1>2
  <2>2. k <= Count(f) => IsPlain(f.directives[k].before)
    BY <1>3, <2>1 DEF IsDirective
  <2> QED BY <1>5, <2>2 DEF Between
<1> QED BY <1>2, <1>3, <1>4, <1>5, <1>6

\* Plain text has neither a % nor the end of the format.
LEMMA PlainChars ==
    ASSUME NEW s, IsPlain(s)
    PROVE  /\ IsText(s) /\ Len(s) \in Nat
           /\ \A i \in 1 .. Len(s) : s[i] \notin {"%", NUL}
<1>1. IsText(s) /\ Len(s) \in Nat /\ DOMAIN s = 1 .. Len(s)
  BY TextLen DEF IsPlain
<1>2. \A i \in 1 .. Len(s) : s[i] \in Range(s)
  BY <1>1 DEF Range
<1> QED BY <1>1, <1>2 DEF IsPlain

\* A directive is found behind the text before it.
LEMMA WholeIs ==
    ASSUME NEW d, IsDirective(d)
    PROVE  /\ IsText(d.before) /\ Len(d.before) \in Nat
           /\ IsText(Directive(d)) /\ Len(Directive(d)) \in Nat
           /\ IsText(Whole(d)) /\ Len(Whole(d)) = Len(d.before) + Len(Directive(d))
           /\ \A i \in 1 .. Len(d.before) : Whole(d)[i] = d.before[i]
           /\ \A i \in 1 .. Len(Directive(d)) : Whole(d)[Len(d.before) + i] = Directive(d)[i]
<1>1. IsText(d.before) /\ IsText(Directive(d))
  BY PlainChars, PartIsAt DEF IsDirective
<1> QED BY <1>1, TextConcat, TextLen DEF Whole

\* What is written of the k-th directive is found after its start.
WrittenAt(f, k) ==
    LET d == f.directives[k] IN
    /\ \A i \in 1 .. Len(d.before) : Written(f)[Start(f, k) + i] = d.before[i]
    /\ \A i \in 1 .. Len(Directive(d)) :
         Written(f)[Start(f, k) + Len(d.before) + i] = Directive(d)[i]

\* Each directive is found in what is written, behind those before, and the plain
\* text behind the last.
LEMMA WrittenIs ==
    ASSUME NEW f \in Formats
    PROVE  /\ IsText(Written(f)) /\ Len(Written(f)) \in Nat
           /\ \A k \in 1 .. Count(f) + 1 : Start(f, k) \in Nat
           /\ Start(f, 1) = 0
           /\ \A k \in 1 .. Count(f) : Start(f, k + 1) = Start(f, k) + Len(Whole(f.directives[k]))
           /\ \A k \in 1 .. Count(f) : Start(f, k + 1) <= Start(f, Count(f) + 1)
           /\ Len(Written(f)) = Start(f, Count(f) + 1) + Len(f.rest)
           /\ \A k \in 1 .. Count(f) : WrittenAt(f, k)
           /\ \A i \in 1 .. Len(f.rest) : Written(f)[Start(f, Count(f) + 1) + i] = f.rest[i]
<1>1. PICK c \in Nat : c = Count(f)
  BY DirectivesAre
<1>2. c \in Nat
  OBVIOUS
<1>3. PICK g : g = Wholes(f)
  OBVIOUS
<1>4. /\ \A k \in 1 .. c : g[k] = Whole(f.directives[k])
      /\ \A k \in 1 .. c : IsDirective(f.directives[k])
  BY <1>1, <1>3, DirectivesAre DEF Wholes
<1>5. \A k \in 1 .. c : IsText(g[k])
  BY <1>4, WholeIs
<1>6. /\ Joined(g, 0) = <<>>
      /\ \A k \in 0 .. c : IsText(Joined(g, k))
  BY <1>2, <1>5, Flattening
<1>7. \A k \in 0 .. c : Len(Joined(g, k)) \in Nat
  BY <1>6, TextLen
<1>8. \A k \in 1 .. c : Len(Joined(g, k)) = Len(Joined(g, k - 1)) + Len(g[k]) /\ PieceIn(g, k, c)
  BY <1>2, <1>5, PieceIsAt
<1>9. PICK all : all = Joined(g, c)
  OBVIOUS
<1>10. Written(f) = all \o f.rest
  <2>1. DOMAIN f.directives = 1 .. c
    BY <1>1, DirectivesAre
  <2>2. [k \in DOMAIN f.directives |-> Whole(f.directives[k])] = [k \in 1 .. c |-> g[k]]
    BY <1>4, <2>1
  <2> QED BY <1>9, <2>2 DEF Written, Joined
<1>11. IsText(all) /\ Len(all) \in Nat /\ IsText(f.rest) /\ Len(f.rest) \in Nat
  BY <1>2, <1>6, <1>7, <1>9, DirectivesAre, PlainChars
<1>12. /\ IsText(Written(f)) /\ Len(Written(f)) = Len(all) + Len(f.rest)
       /\ \A i \in 1 .. Len(all) : Written(f)[i] = all[i]
       /\ \A i \in 1 .. Len(f.rest) : Written(f)[Len(all) + i] = f.rest[i]
  BY <1>10, <1>11, TextConcat
<1>13. /\ \A k \in 1 .. c + 1 : Start(f, k) = Len(Joined(g, k - 1)) /\ Start(f, k) \in Nat
       /\ Start(f, c + 1) = Len(all)
  <2>1. \A k \in 1 .. c + 1 : k - 1 \in 0 .. c
    BY <1>2
  <2>2. c + 1 \in 1 .. c + 1 /\ (c + 1) - 1 = c
    BY <1>2
  <2>3. \A k \in 1 .. c + 1 : Start(f, k) = Len(Joined(g, k - 1)) /\ Start(f, k) \in Nat
    BY <1>3, <1>7, <2>1 DEF Start
  <2> QED BY <1>9, <2>2, <2>3
<1>14. Start(f, 1) = 0
  <2>1. 1 - 1 = 0 /\ 1 \in 1 .. c + 1
    BY <1>2
  <2> QED BY <1>6, <1>13, <2>1, EmptyText
<1>15. ASSUME NEW k \in 1 .. c
       PROVE  /\ Start(f, k + 1) = Start(f, k) + Len(Whole(f.directives[k]))
              /\ Start(f, k + 1) <= Len(all)
              /\ WrittenAt(f, k)
  <2>1. k \in 1 .. c + 1 /\ k + 1 \in 1 .. c + 1 /\ (k + 1) - 1 = k /\ k \in 0 .. c
    BY <1>2
  <2>2. Start(f, k) = Len(Joined(g, k - 1)) /\ Start(f, k + 1) = Len(Joined(g, k))
    BY <1>13, <2>1
  <2>3. g[k] = Whole(f.directives[k])
    BY <1>4
  <2>4. Start(f, k + 1) = Start(f, k) + Len(Whole(f.directives[k]))
    BY <1>8, <2>2, <2>3
  <2>5. /\ Start(f, k + 1) <= Len(all)
        /\ \A i \in 1 .. Len(g[k]) : all[Start(f, k) + i] = g[k][i]
    <3>1. PieceIn(g, k, c)
      BY <1>8
    <3> QED BY <1>9, <2>2, <3>1 DEF PieceIn
  <2>6. PICK d : d = f.directives[k]
    OBVIOUS
  <2>7. PICK lb \in Nat, ld \in Nat, st \in Nat, la \in Nat, lw \in Nat :
          /\ lb = Len(d.before) /\ ld = Len(Directive(d)) /\ st = Start(f, k) /\ la = Len(all)
          /\ lw = Len(g[k]) /\ lw = lb + ld
          /\ \A i \in 1 .. lb : g[k][i] = d.before[i]
          /\ \A i \in 1 .. ld : g[k][lb + i] = Directive(d)[i]
    <3>1. /\ Len(d.before) \in Nat /\ Len(Directive(d)) \in Nat
          /\ Len(g[k]) = Len(d.before) + Len(Directive(d))
          /\ \A i \in 1 .. Len(d.before) : g[k][i] = d.before[i]
          /\ \A i \in 1 .. Len(Directive(d)) : g[k][Len(d.before) + i] = Directive(d)[i]
      <4>1. IsDirective(d) /\ g[k] = Whole(d)
        BY <1>4, <2>3, <2>6
      <4> QED BY <4>1, WholeIs, ZenonT(40)
    <3>2. Start(f, k) \in Nat
      BY <1>13, <2>1
    <3>3. Len(g[k]) \in Nat
      BY <3>1
    <3> QED BY <1>11, <3>1, <3>2, <3>3, Zenon
  <2>8. st + lw <= la
    BY <2>3, <2>4, <2>5, <2>7
  <2>9. ASSUME NEW i \in 1 .. lw
        PROVE  Written(f)[st + i] = g[k][i]
    <3>1. st + i \in 1 .. la
      BY <2>8
    <3>2. Written(f)[st + i] = all[st + i]
      BY <1>12, <2>7, <3>1
    <3> QED BY <2>5, <2>7, <3>2
  <2>10. \A i \in 1 .. lb : Written(f)[st + i] = d.before[i]
    <3>1. \A i \in 1 .. lb : i \in 1 .. lw
      BY <2>7
    <3> QED BY <2>7, <2>9, <3>1
  <2>11. \A i \in 1 .. ld : Written(f)[st + lb + i] = Directive(d)[i]
    <3> TAKE i \in 1 .. ld
    <3>1. lb + i \in 1 .. lw /\ st + (lb + i) = st + lb + i
      <4>1. lw = lb + ld /\ lb \in Nat /\ ld \in Nat /\ st \in Nat
        BY <2>7, Zenon
      <4> QED BY <4>1
    <3>2. Written(f)[st + (lb + i)] = g[k][lb + i]
      BY <2>9, <3>1
    <3> QED BY <2>7, <3>1, <3>2
  <2> QED BY <2>4, <2>5, <2>6, <2>7, <2>10, <2>11 DEF WrittenAt
<1>16. Len(Written(f)) \in Nat
  BY <1>11, <1>12
<1> QED BY <1>1, <1>12, <1>13, <1>14, <1>15, <1>16

\* The invariant holds at first.
LEMMA InitInv == Init => IInv
<1> SUFFICES ASSUME Init PROVE IInv
  OBVIOUS
<1>1. ReaderInv
  <2>1. n \in 0 .. MemSize /\ IsText(fmt) /\ spec = NoFlags
    <3>1. n \in 0 .. MemSize /\ spec = NoFlags
      BY SizesFit DEF Init
    <3>2. format \in Formats /\ fmt = Written(format)
      BY DEF Init
    <3> QED BY <3>1, <3>2, WrittenIs
  <2>2. IsText(out)
    <3>1. <<>> \in Seq({})
      OBVIOUS
    <3> QED BY <3>1, TextIs DEF Init
  <2>3. Flagged
    BY <2>1, StartFlags DEF Flagged
  <2>4. call \in {"cprintf", "snprintf"} /\ done = FALSE /\ next = 1 /\ escape = FALSE
    BY DEF Init
  <2>5. next \in Nat \ {0}
    BY <2>4
  <2>6. done \in BOOLEAN /\ ~escape
    BY <2>4, Zenon
  <2> QED BY <2>1, <2>2, <2>3, <2>4, <2>5, <2>6, Zenon DEF ReaderInv
<1>2. BufferInv
  <2>1. /\ b = [mem |-> b.mem, buf |-> 0, ebuf |-> n - 1, cnt |-> 0]
        /\ b.mem = [k \in 0 .. MemSize - 1 |-> "untouched"]
        /\ out = <<>> /\ ~done
    BY DEF Init
  <2>2. n \in Nat /\ (~Buffered => n = 0)
    BY SizesFit DEF Init, Buffered
  <2>3. Buffered => Stored = 0 /\ Len(out) = 0
    <3>1. Len(out) = 0
      BY <2>1
    <3>2. n > 0 => Min({n - 1, 0}) = 0
      BY <2>2, MinIs
    <3> QED BY <3>1, <3>2 DEF Buffered, Stored
  <2>4. /\ DOMAIN b.mem = 0 .. MemSize - 1
        /\ \A k \in 0 .. MemSize - 1 : b.mem[k] = "untouched"
    BY <2>1
  <2>5. \A k \in n .. MemSize - 1 : b.mem[k] = "untouched"
    BY <2>2, <2>4, SizesFit
  <2>6. 0 .. 0 - 1 = {}
    OBVIOUS
  <2>7. Buffered => /\ b = [mem |-> b.mem, buf |-> Stored, ebuf |-> n - 1, cnt |-> Len(out)]
                    /\ \A k \in 0 .. Stored - 1 : b.mem[k] = out[k + 1]
    BY <2>1, <2>3, <2>6
  <2> QED BY <2>1, <2>2, <2>4, <2>5, <2>7 DEF BufferInv
<1> QED BY <1>1, <1>2 DEF IInv

\* Every step keeps it.
LEMMA NextInv == IInv /\ [Next]_vars => IInv'
<1> SUFFICES ASSUME IInv, [Next]_vars PROVE IInv'
  OBVIOUS
<1>0. ReaderInv /\ BufferInv /\ next \in Nat \ {0} /\ IsText(fmt)
  BY DEF IInv, ReaderInv
<1>1. CASE BadSize
  <2>1. /\ call = "snprintf" /\ n < 1 /\ n \in Nat
        /\ UNCHANGED <<input, next, escape, spec, out, b>> /\ done' = TRUE
    BY <1>0, <1>1, SizesFit DEF BadSize, Running, ReaderInv
  <2>2. ReaderInv'
    BY <1>0, <2>1 DEF ReaderInv, Flagged, input
  <2>3. ~Buffered /\ ~Buffered'
    BY <2>1 DEF Buffered, input
  <2>4. BufferInv'
    BY <1>0, <2>1, <2>3 DEF BufferInv, input
  <2> QED BY <2>2, <2>4 DEF IInv
<1>2. CASE Plain
  <2>1. next' \in Nat \ {0} /\ escape' = FALSE
    BY <1>0, <1>2 DEF Plain, IInv, ReaderInv
  <2> QED BY <1>2, <2>1, Single, PrintStep DEF Plain
<1>3. CASE Percent
  <2>1. /\ UNCHANGED <<input, out, b, done, ret>> /\ next' = next + 1 /\ spec' = NoFlags
    BY <1>3 DEF Percent
  <2>2. Flagged'
    BY <2>1, StartFlags DEF Flagged
  <2>3. fmt[next] = "%"
    BY <1>3 DEF Percent, ch, NUL
  <2>4. next' \in Nat \ {0} /\ next \in 1 .. next' - 1
    BY <1>0, <2>1
  <2>5. \E j \in 1 .. next' - 1 : fmt'[j] = "%"
    BY <2>1, <2>3, <2>4 DEF input
  <2> QED BY <1>0, <2>1, <2>2, <2>4, <2>5, BufferSame DEF IInv, ReaderInv, input
<1>4. CASE Return
  BY <1>4, ReturnStep
<1>5. CASE Flags
  BY <1>5, FlagsStep
<1>6. CASE Conversions
  <2>1. Flagged /\ Running
    BY <1>0, <1>6 DEF ReaderInv, Conversions
  <2>2. PICK text, used : IsText(text) /\ Convert(text, used)
    BY <1>6, <2>1, ConversionText
  <2>3. next' \in Nat \ {0}
    BY <1>0, <2>2 DEF Convert
  <2> QED BY <2>1, <2>2, <2>3, PrintStep DEF Convert
<1>7. CASE Unrecognized
  <2> DEFINE S == {j \in 1 .. next - 1 : fmt[j] = "%"}
  <2>1. S \subseteq 1 .. next - 1 /\ S # {}
    BY <1>0, <1>7 DEF Unrecognized, ReaderInv
  <2>2. next' = 1 + Max(S)
    BY <1>7 DEF Unrecognized
  <2> HIDE DEF S
  <2>3. PICK hi \in Int : hi = next - 1
    BY <1>0
  <2>4. Max(S) \in S
    <3>1. PICK lo \in Int : lo = 1
      OBVIOUS
    <3>2. S \subseteq lo .. hi
      BY <2>1, <2>3, <3>1
    <3> QED BY <2>1, <3>2, LastOf
  <2>5. Max(S) \in 1 .. next - 1
    BY <2>1, <2>4
  <2>6. next' \in Nat \ {0}
    BY <1>0, <2>2, <2>5
  <2> QED BY <1>7, <2>6, Single, PrintStep DEF Unrecognized
<1>8. CASE UNCHANGED vars
  <2>1. UNCHANGED <<input, next, escape, spec, out, b, done, ret>>
    BY <1>8 DEF vars
  <2>2. ReaderInv'
    BY <1>0, <2>1 DEF ReaderInv, Flagged, input
  <2> QED BY <1>0, <2>1, <2>2, BufferSame DEF IInv
<1> QED BY <1>1, <1>2, <1>3, <1>4, <1>5, <1>6, <1>7, <1>8 DEF Next

(***************************************************************************)
(* snprintf's pointer never passes the last byte of the buffer, what is    *)
(* before it is the beginning of what was printed, the count is of all of  *)
(* it, and the memory behind the buffer is untouched.                      *)
(***************************************************************************)
THEOREM PrinterInvariance == Spec => []IInv
<1>1. Init => IInv
  BY InitInv
<1>2. IInv /\ [Next]_vars => IInv'
  BY NextInv
<1> QED BY <1>1, <1>2, PTL DEF Spec

(***************************************************************************)
(* No format, argument or size makes snprintf write past its n bytes; it   *)
(* ends what it stored with a 0, stored the beginning of the text, and     *)
(* returns the length of all of it.                                        *)
(***************************************************************************)
THEOREM BufferKept == Spec => []BufferBounded
<1>1. IInv => BufferBounded
  <2> SUFFICES ASSUME IInv PROVE BufferBounded
    OBVIOUS
  <2>1. ReaderInv /\ BufferInv
    BY DEF IInv
  <2>2. CASE Buffered
    <3>1. n > 0 /\ Stored \in 0 .. n - 1
      BY <2>1, <2>2, StoredIs DEF Buffered
    <3>2. PICK st \in Nat : st = Stored
      BY <3>1
    <3>3. \A k \in 1 .. st : b.mem[k - 1] = out[k]
      <4>1. \A k \in 1 .. st : k - 1 \in 0 .. st - 1 /\ (k - 1) + 1 = k
        OBVIOUS
      <4>2. \A k \in 0 .. st - 1 : b.mem[k] = out[k + 1]
        BY <2>1, <2>2, <3>2 DEF BufferInv
      <4> QED BY <4>1, <4>2
    <3>4. /\ \A k \in n .. MemSize - 1 : b.mem[k] = "untouched"
          /\ done => ret = Len(out) /\ b.mem[Stored] = NUL
      BY <2>1, <2>2 DEF BufferInv
    <3>5. Stored = Min({n - 1, Len(out)})
      BY DEF Stored
    <3> QED BY <3>2, <3>3, <3>4, <3>5 DEF BufferBounded
  <2>3. CASE ~Buffered
    <3>1. n = 0 /\ ~(call = "snprintf" /\ n > 0)
      BY <2>1, <2>3 DEF BufferInv, Buffered
    <3> QED BY <2>1, <2>3, <3>1 DEF BufferInv, BufferBounded
  <2> QED BY <2>2, <2>3
<1> QED BY <1>1, PrinterInvariance, PTL

-----------------------------------------------------------------------------
(***************************************************************************)
(* The arguments taken and the text printed so far do not change when more *)
(* arguments are taken.                                                    *)
(***************************************************************************)
\* Three texts over one set of characters.
LEMMA Together ==
    ASSUME NEW s, NEW t, NEW u, IsText(s), IsText(t), IsText(u)
    PROVE  \E S : s \in Seq(S) /\ t \in Seq(S) /\ u \in Seq(S)
<1> DEFINE S == Range(s) \cup Range(t) \cup Range(u)
<1>1. Range(s) \subseteq S /\ Range(t) \subseteq S /\ Range(u) \subseteq S
  OBVIOUS
<1>2. s \in Seq(Range(s)) /\ t \in Seq(Range(t)) /\ u \in Seq(Range(u))
  BY DEF IsText
<1> HIDE DEF S
<1>3. s \in Seq(S) /\ t \in Seq(S) /\ u \in Seq(S)
  BY <1>1, <1>2, SeqMonotonic
<1> QED BY <1>3

\* Concatenation is associative.
LEMMA Regroup ==
    ASSUME NEW s, NEW t, NEW u, IsText(s), IsText(t), IsText(u),
           NEW st, NEW tu, st = s \o t, tu = t \o u
    PROVE  st \o u = s \o tu
<1>1. PICK S : s \in Seq(S) /\ t \in Seq(S) /\ u \in Seq(S)
  BY Together
<1> QED BY <1>1, ConcatAssociative

\* A part of a text, by its positions.
LEMMA TextSlice ==
    ASSUME NEW s, IsText(s), NEW m \in 1 .. Len(s) + 1, NEW k \in m - 1 .. Len(s)
    PROVE  /\ IsText(SubSeq(s, m, k)) /\ Len(SubSeq(s, m, k)) = k - m + 1
           /\ \A i \in 1 .. k - m + 1 : SubSeq(s, m, k)[i] = s[m + i - 1]
<1>1. PICK len \in Nat : len = Len(s)
  BY TextLen
<1>2. m \in 1 .. len + 1 /\ k \in m - 1 .. len
  BY <1>1
<1>3. m \in Int /\ k \in Int
  BY <1>2
<1>4. \A i \in m .. k : s[i] \in Range(s)
  <2>1. \A i \in m .. k : i \in 1 .. len
    BY <1>2
  <2> QED BY <1>1, <2>1, TextLen DEF Range
<1>5. /\ SubSeq(s, m, k) \in Seq(Range(s))
      /\ Len(SubSeq(s, m, k)) = IF m <= k THEN k - m + 1 ELSE 0
      /\ \A i \in 1 .. k - m + 1 : SubSeq(s, m, k)[i] = s[m + i - 1]
  BY <1>3, <1>4, SubSeqProperties
<1>6. (IF m <= k THEN k - m + 1 ELSE 0) = k - m + 1
  BY <1>2
<1> QED BY <1>5, <1>6, TextIs

\* Texts with the same characters are the same.
LEMMA SameText ==
    ASSUME NEW s, NEW t, IsText(s), IsText(t), Len(s) = Len(t), \A i \in 1 .. Len(s) : s[i] = t[i]
    PROVE  s = t
<1>1. PICK S : s \in Seq(S) /\ t \in Seq(S)
  BY Together
<1> QED BY <1>1, SeqEqual

\* A part of a text is a part of a longer one.
LEMMA SliceKept ==
    ASSUME NEW s, NEW t, IsText(s), IsText(t), NEW m \in 1 .. Len(s) + 1, NEW k \in m - 1 .. Len(s)
    PROVE  SubSeq(s \o t, m, k) = SubSeq(s, m, k)
<1>1. PICK len \in Nat, lt \in Nat, all \in Nat :
        len = Len(s) /\ lt = Len(t) /\ all = Len(s \o t) /\ all = len + lt
  <2>1. Len(s) \in Nat /\ Len(t) \in Nat /\ Len(s \o t) = Len(s) + Len(t)
    BY TextLen, TextConcat
  <2>2. Len(s \o t) \in Nat
    BY <2>1
  <2> QED BY <2>1, <2>2
<1>2. m \in 1 .. len + 1 /\ k \in m - 1 .. len /\ m \in 1 .. all + 1 /\ k \in m - 1 .. all
  BY <1>1
<1>3. IsText(s \o t) /\ \A i \in 1 .. len : (s \o t)[i] = s[i]
  BY <1>1, TextConcat
<1>4. /\ IsText(SubSeq(s, m, k)) /\ Len(SubSeq(s, m, k)) = k - m + 1
      /\ \A i \in 1 .. k - m + 1 : SubSeq(s, m, k)[i] = s[m + i - 1]
  BY TextSlice
<1>5. /\ IsText(SubSeq(s \o t, m, k)) /\ Len(SubSeq(s \o t, m, k)) = k - m + 1
      /\ \A i \in 1 .. k - m + 1 : SubSeq(s \o t, m, k)[i] = (s \o t)[m + i - 1]
  <2>1. PICK u : u = s \o t
    OBVIOUS
  <2>2. IsText(u) /\ m \in 1 .. Len(u) + 1 /\ k \in m - 1 .. Len(u)
    BY <1>1, <1>2, <1>3, <2>1
  <2>3. /\ IsText(SubSeq(u, m, k)) /\ Len(SubSeq(u, m, k)) = k - m + 1
        /\ \A i \in 1 .. k - m + 1 : SubSeq(u, m, k)[i] = u[m + i - 1]
    BY <2>2, TextSlice
  <2> QED BY <2>1, <2>3, Zenon
<1>6. \A i \in 1 .. k - m + 1 : m + i - 1 \in 1 .. len
  BY <1>2
<1>7. \A i \in 1 .. k - m + 1 : SubSeq(s \o t, m, k)[i] = SubSeq(s, m, k)[i]
  BY <1>3, <1>4, <1>5, <1>6, Zenon
<1> QED BY <1>4, <1>5, <1>7, SameText, Zenon

UsesOf(f)        == [k \in 1 .. Count(f) |-> Uses(f.directives[k])]
TakenOf(f, k)    == Len(Joined(UsesOf(f), k))
ArgsOf(f, as, k) == SubSeq(as, TakenOf(f, k - 1) + 1, TakenOf(f, k))
Printed(f, as)   == [k \in 1 .. Count(f) |->
    f.directives[k].before \o Expected(f.directives[k], ArgsOf(f, as, k))]
TextOf(f, as, k) == Joined(Printed(f, as), k)

\* What the first k directives print are texts.
Settled(f, as, k) == \A j \in 1 .. k : IsText(Expected(f.directives[j], ArgsOf(f, as, j)))

\* How many arguments a directive takes.
LEMMA UsesIs ==
    ASSUME NEW d
    PROVE  /\ IsText(Uses(d)) /\ Len(Uses(d)) \in Nat /\ StarsOf(d) \in Nat
           /\ Len(Uses(d)) = StarsOf(d) + (IF Known(d) /\ d.conv # "%" THEN 1 ELSE 0)
<1> DEFINE w == IF Starred(d.width) THEN <<"width">> ELSE <<>>
           p == IF Starred(d.prec) THEN <<"precision">> ELSE <<>>
           v == IF Known(d) /\ d.conv # "%" THEN <<"value">> ELSE <<>>
<1>1. /\ IsText(w) /\ Len(w) = (IF Starred(d.width) THEN 1 ELSE 0)
      /\ IsText(p) /\ Len(p) = (IF Starred(d.prec) THEN 1 ELSE 0)
      /\ IsText(v) /\ Len(v) = (IF Known(d) /\ d.conv # "%" THEN 1 ELSE 0)
  BY EmptyText, Single
<1>2. Uses(d) = (w \o p) \o v
  BY DEF Uses
<1> HIDE DEF w, p, v
<1>3. IsText(w \o p) /\ Len(w \o p) = Len(w) + Len(p)
  BY <1>1, TextConcat
<1>4. IsText(Uses(d)) /\ Len(Uses(d)) = Len(w \o p) + Len(v)
  BY <1>1, <1>2, <1>3, TextConcat
<1>5. Len(w) + Len(p) = StarsOf(d) /\ StarsOf(d) \in Nat /\ Len(v) \in Nat
  BY <1>1 DEF StarsOf
<1> QED BY <1>1, <1>3, <1>4, <1>5

\* How many the first k take.
LEMMA TakenIs ==
    ASSUME NEW f \in Formats
    PROVE  /\ \A k \in 0 .. Count(f) : TakenOf(f, k) \in Nat
           /\ TakenOf(f, 0) = 0
           /\ \A k \in 1 .. Count(f) :
                TakenOf(f, k) = TakenOf(f, k - 1) + Len(Uses(f.directives[k]))
           /\ \A k \in 0 .. Count(f) : \A j \in 1 .. k : TakenOf(f, j) <= TakenOf(f, k)
<1>1. PICK c \in Nat : c = Count(f)
  BY DirectivesAre
<1>2. PICK g : g = UsesOf(f)
  OBVIOUS
<1>3. \A k \in 1 .. c : IsText(g[k]) /\ g[k] = Uses(f.directives[k])
  BY <1>1, <1>2, UsesIs DEF UsesOf
<1>4. c \in Nat
  OBVIOUS
<1>5. Joined(g, 0) = <<>> /\ \A k \in 0 .. c : IsText(Joined(g, k))
  BY <1>3, <1>4, Flattening
<1>6. \A k \in 1 .. c : Len(Joined(g, k)) = Len(Joined(g, k - 1)) + Len(g[k])
  BY <1>3, <1>4, PieceIsAt
<1>7. ASSUME NEW k \in 0 .. c, NEW j \in 1 .. k
      PROVE  Len(Joined(g, j)) <= Len(Joined(g, k))
  <2>1. k \in Nat /\ \A i \in 1 .. k : i \in 1 .. c
    BY <1>4
  <2>2. \A i \in 1 .. k : IsText(g[i])
    BY <1>3, <2>1
  <2>3. PieceIn(g, j, k)
    BY <2>1, <2>2, PieceIsAt
  <2> QED BY <2>3 DEF PieceIn
<1>8. \A k \in 0 .. c : Len(Joined(g, k)) \in Nat
  BY <1>5, TextLen
<1> QED BY <1>1, <1>2, <1>3, <1>5, <1>6, <1>7, <1>8, EmptyText DEF TakenOf

\* The arguments of an earlier directive stay when more are taken.
LEMMA ArgsKept ==
    ASSUME NEW f \in Formats, NEW as, NEW more, IsText(as), IsText(more),
           NEW k \in 0 .. Count(f), TakenOf(f, k) <= Len(as), NEW j \in 1 .. k
    PROVE  ArgsOf(f, as \o more, j) = ArgsOf(f, as, j)
<1>1. PICK c \in Nat, la \in Nat : c = Count(f) /\ la = Len(as)
  BY DirectivesAre, TextLen
<1>2. k \in 0 .. c /\ j \in 1 .. c /\ j - 1 \in 0 .. c /\ j \in 0 .. c
  BY <1>1
<1>3. PICK t1 \in Nat, t2 \in Nat, t3 \in Nat, l \in Nat :
        /\ t1 = TakenOf(f, j - 1) /\ t2 = TakenOf(f, j) /\ t3 = TakenOf(f, k)
        /\ l = Len(Uses(f.directives[j]))
  BY <1>1, <1>2, TakenIs, UsesIs
<1>4. t2 = t1 + l
  BY <1>1, <1>2, <1>3, TakenIs
<1>5. t2 <= t3
  BY <1>3, TakenIs
<1>6. t3 <= la
  BY <1>1, <1>3
<1>7. t1 + 1 \in 1 .. la + 1 /\ t2 \in (t1 + 1) - 1 .. la
  BY <1>4, <1>5, <1>6
<1>8. t1 + 1 \in 1 .. Len(as) + 1 /\ t2 \in (t1 + 1) - 1 .. Len(as)
  BY <1>1, <1>7
<1>9. SubSeq(as \o more, t1 + 1, t2) = SubSeq(as, t1 + 1, t2)
  BY <1>8, SliceKept
<1> QED BY <1>3, <1>9 DEF ArgsOf

\* So does the text expected of it.
LEMMA TextKept ==
    ASSUME NEW f \in Formats, NEW as, NEW more, IsText(as), IsText(more),
           NEW k \in 0 .. Count(f), TakenOf(f, k) <= Len(as)
    PROVE  /\ TextOf(f, as \o more, k) = TextOf(f, as, k)
           /\ Settled(f, as, k) => Settled(f, as \o more, k)
<1>1. \A j \in 1 .. k : ArgsOf(f, as \o more, j) = ArgsOf(f, as, j)
  BY ArgsKept
<1>2. \A j \in 1 .. k : j \in 1 .. Count(f)
  BY DirectivesAre
<1>3. \A j \in 1 .. k : Printed(f, as \o more)[j] = Printed(f, as)[j]
  BY <1>1, <1>2 DEF Printed
<1>4. [j \in 1 .. k |-> Printed(f, as \o more)[j]] = [j \in 1 .. k |-> Printed(f, as)[j]]
  BY <1>3
<1> QED BY <1>1, <1>4 DEF TextOf, Joined, Settled

\* The text expected of one directive more.
LEMMA TextStep ==
    ASSUME NEW f \in Formats, NEW as, NEW k \in 0 .. Count(f), Settled(f, as, k)
    PROVE  /\ IsText(TextOf(f, as, k))
           /\ k = 0 => TextOf(f, as, k) = <<>>
           /\ k > 0 => LET d == f.directives[k] IN
                       TextOf(f, as, k) =
                         (TextOf(f, as, k - 1) \o d.before) \o Expected(d, ArgsOf(f, as, k))
<1>1. PICK c \in Nat : c = Count(f)
  BY DirectivesAre
<1>2. PICK g : g = Printed(f, as)
  OBVIOUS
<1>3. ASSUME NEW j \in 1 .. k
      PROVE  LET d == f.directives[j] IN
             /\ g[j] = d.before \o Expected(d, ArgsOf(f, as, j))
             /\ IsText(d.before) /\ IsText(Expected(d, ArgsOf(f, as, j))) /\ IsText(g[j])
  <2>1. j \in 1 .. c
    BY <1>1
  <2>2. IsText(f.directives[j].before)
    BY <1>1, <2>1, DirectivesAre, WholeIs
  <2>3. g[j] = f.directives[j].before \o Expected(f.directives[j], ArgsOf(f, as, j))
    BY <1>1, <1>2, <2>1 DEF Printed
  <2>4. IsText(Expected(f.directives[j], ArgsOf(f, as, j)))
    BY <1>3 DEF Settled
  <2>5. IsText(g[j])
    <3>1. PICK x, y : x = f.directives[j].before /\ y = Expected(f.directives[j], ArgsOf(f, as, j))
      OBVIOUS
    <3>2. IsText(x) /\ IsText(y) /\ g[j] = x \o y
      BY <2>2, <2>3, <2>4, <3>1, Zenon
    <3> QED BY <3>2, TextConcat
  <2> QED BY <2>2, <2>3, <2>4, <2>5, Zenon
<1>4. k \in Nat /\ \A j \in 1 .. k : IsText(g[j])
  <2>1. k \in Nat
    BY <1>1
  <2> QED BY <1>3, <2>1, Zenon
<1>5. /\ Joined(g, 0) = <<>>
      /\ \A j \in 1 .. k : Joined(g, j) = Joined(g, j - 1) \o g[j]
      /\ \A j \in 0 .. k : IsText(Joined(g, j))
  BY <1>4, Flattening
<1>6. IsText(Joined(g, k))
  <2>1. k \in 0 .. k
    BY <1>4
  <2> QED BY <1>5, <2>1
<1>7. k = 0 => Joined(g, k) = <<>>
  BY <1>5
<1>8. ASSUME k > 0
      PROVE  LET d == f.directives[k] IN
             Joined(g, k) = (Joined(g, k - 1) \o d.before) \o Expected(d, ArgsOf(f, as, k))
  <2>1. k \in 1 .. k /\ k - 1 \in 0 .. k
    BY <1>4, <1>8
  <2>2. Joined(g, k) = Joined(g, k - 1) \o g[k]
    BY <1>5, <2>1
  <2>3. IsText(Joined(g, k - 1))
    BY <1>5, <2>1
  <2>4. PICK x, y : x = f.directives[k].before /\ y = Expected(f.directives[k], ArgsOf(f, as, k))
    OBVIOUS
  <2>5. IsText(x) /\ IsText(y) /\ g[k] = x \o y
    BY <1>3, <2>1, <2>4, Zenon
  <2>6. PICK u, ux, xy : u = Joined(g, k - 1) /\ ux = u \o x /\ xy = x \o y
    OBVIOUS
  <2>7. ux \o y = u \o xy
    BY <2>3, <2>5, <2>6, Regroup, SMTT(30)
  <2>8. Joined(g, k) = (Joined(g, k - 1) \o x) \o y
    BY <2>2, <2>5, <2>6, <2>7, Zenon
  <2> QED BY <2>4, <2>8, Zenon
<1> QED BY <1>2, <1>6, <1>7, <1>8 DEF TextOf

-----------------------------------------------------------------------------
(***************************************************************************)
(* The characters vprintfmt meets.                                         *)
(***************************************************************************)
\* The position before the k-th directive's %.
Mark(f, k) == Start(f, k) + Len(f.directives[k].before)
CharAt(p)  == IF p > Len(fmt) THEN NUL ELSE fmt[p]

FormatRead == format \in Formats /\ fmt = Written(format) /\ IsText(args)

\* The k-th directive, in fmt.
LEMMA Here ==
    ASSUME FormatRead, NEW k \in 1 .. Count(format)
    PROVE  LET d == format.directives[k] IN
           /\ IsDirective(d)
           /\ Start(format, k) \in Nat /\ Len(d.before) \in Nat /\ Mark(format, k) \in Nat
           /\ Mark(format, k) = Start(format, k) + Len(d.before)
           /\ Start(format, k + 1) \in Nat /\ Len(Directive(d)) \in Nat /\ Len(fmt) \in Nat
           /\ Start(format, k + 1) = Mark(format, k) + Len(Directive(d))
           /\ Start(format, k + 1) <= Len(fmt)
           /\ k = Count(format) /\ format.rest = <<>> => Start(format, k + 1) = Len(fmt)
           /\ \A i \in 1 .. Len(d.before) : fmt[Start(format, k) + i] = d.before[i]
           /\ \A i \in 1 .. Len(Directive(d)) : fmt[Mark(format, k) + i] = Directive(d)[i]
<1>1. PICK f \in Formats : f = format
  BY DEF FormatRead
<1>2. PICK c \in Nat : c = Count(f)
  BY DirectivesAre
<1>3. k \in 1 .. c + 1 /\ k + 1 \in 1 .. c + 1 /\ c + 1 \in 1 .. c + 1
  BY <1>1, <1>2
<1>4. PICK d : d = f.directives[k]
  OBVIOUS
<1>5. k \in 1 .. Count(f)
  BY <1>1
<1>6. IsDirective(d)
  BY <1>4, <1>5, DirectivesAre
<1>7. PICK s1 \in Nat, s2 \in Nat, s3 \in Nat, lb \in Nat, ld \in Nat, lr \in Nat, all \in Nat :
        /\ s1 = Start(f, k) /\ s2 = Start(f, k + 1) /\ s3 = Start(f, c + 1)
        /\ lb = Len(d.before) /\ ld = Len(Directive(d)) /\ lr = Len(f.rest)
        /\ all = Len(fmt)
  <2>1. Start(f, k) \in Nat /\ Start(f, k + 1) \in Nat /\ Start(f, c + 1) \in Nat
    BY <1>2, <1>3, WrittenIs
  <2>2. Len(d.before) \in Nat /\ Len(Directive(d)) \in Nat
    BY <1>6, WholeIs
  <2>3. Len(f.rest) \in Nat
    BY DirectivesAre, PlainChars
  <2>4. Len(fmt) \in Nat
    BY <1>1, WrittenIs DEF FormatRead
  <2> QED BY <2>1, <2>2, <2>3, <2>4, Zenon
<1>8. s2 = s1 + Len(Whole(d)) /\ s2 <= s3 /\ all = s3 + lr
  BY <1>1, <1>2, <1>4, <1>5, <1>7, WrittenIs DEF FormatRead
<1>9. Len(Whole(d)) = lb + ld
  BY <1>6, <1>7, WholeIs
<1>10. s2 = (s1 + lb) + ld /\ s2 <= all
  BY <1>8, <1>9
<1>11. Mark(f, k) = s1 + lb /\ Mark(f, k) \in Nat
  <2>1. Mark(f, k) = s1 + lb
    BY <1>4, <1>7, Zenon DEF Mark
  <2> QED BY <2>1
<1>12. k = c /\ f.rest = <<>> => s2 = all
  BY <1>7, <1>8, EmptyText
<1>13. WrittenAt(f, k)
  BY <1>5, WrittenIs
<1>14. /\ \A i \in 1 .. lb : fmt[s1 + i] = d.before[i]
       /\ \A i \in 1 .. ld : fmt[s1 + lb + i] = Directive(d)[i]
  BY <1>1, <1>4, <1>7, <1>13 DEF WrittenAt, FormatRead
<1> QED BY <1>1, <1>2, <1>4, <1>6, <1>7, <1>10, <1>11, <1>12, <1>14

\* The parts of the directive from its % on: m1 is the one after m.
PartIn(d, m, m1) ==
    \A j \in 1 .. Len(Parts(d)[m1]) : Directive(d)[Upto(d, m) + j] = Parts(d)[m1][j]
Behind(k, m) == Mark(format, k) + Upto(format.directives[k], m)
Follows(k, m, part) ==
    \A j \in 1 .. Len(part) :
      Behind(k, m) + j \in 1 .. Len(fmt) /\ fmt[Behind(k, m) + j] = part[j]

\* A part, measured from the directive.
LEMMA PartSizes ==
    ASSUME NEW d, IsDirective(d), NEW x \in 1 .. 8
    PROVE  /\ Upto(d, x - 1) \in Nat /\ Upto(d, x) \in Nat /\ Len(Parts(d)[x]) \in Nat
           /\ Upto(d, x) = Upto(d, x - 1) + Len(Parts(d)[x])
           /\ Upto(d, x) <= Len(Directive(d))
           /\ PartIn(d, x - 1, x)
BY PartIsAt DEF PartIn

\* The part behind m of them, in fmt.
LEMMA PartAhead ==
    ASSUME FormatRead, NEW k \in 1 .. Count(format), NEW m \in 1 .. 7, NEW m1, m1 = m + 1
    PROVE  LET d == format.directives[k] IN
           /\ Upto(d, m) \in Nat /\ Upto(d, m1) \in Nat /\ Len(Parts(d)[m1]) \in Nat
           /\ Upto(d, m1) = Upto(d, m) + Len(Parts(d)[m1])
           /\ Behind(k, m) \in Nat /\ Behind(k, m) = Mark(format, k) + Upto(d, m)
           /\ Len(fmt) \in Nat
           /\ Follows(k, m, Parts(d)[m1])
<1>1. PICK d : d = format.directives[k]
  OBVIOUS
<1>2. IsDirective(d)
  BY <1>1, Here
<1>3. m1 \in 1 .. 8 /\ m1 - 1 = m /\ m + 1 = m1
  OBVIOUS
<1>4. /\ Upto(d, m) \in Nat /\ Upto(d, m1) \in Nat /\ Len(Parts(d)[m1]) \in Nat
      /\ Upto(d, m1) = Upto(d, m) + Len(Parts(d)[m1])
      /\ PartIn(d, m, m1)
  <2>1. /\ Upto(d, m1 - 1) \in Nat /\ Upto(d, m1) \in Nat /\ Len(Parts(d)[m1]) \in Nat
        /\ Upto(d, m1) = Upto(d, m1 - 1) + Len(Parts(d)[m1])
        /\ PartIn(d, m1 - 1, m1)
    BY <1>2, <1>3, PartSizes
  <2> QED BY <1>3, <2>1, Zenon
<1>5. PICK u \in Nat, v \in Nat, l \in Nat, q \in Nat, ld \in Nat, all \in Nat :
        /\ u = Upto(d, m) /\ v = Upto(d, m1) /\ l = Len(Parts(d)[m1]) /\ q = Mark(format, k)
        /\ ld = Len(Directive(d)) /\ all = Len(fmt)
  <2>1. Mark(format, k) \in Nat /\ Len(Directive(d)) \in Nat /\ Len(fmt) \in Nat
    BY <1>1, Here
  <2> QED BY <1>4, <2>1, Zenon
<1>6. v = u + l
  BY <1>4, <1>5
<1>7. v <= ld
  BY <1>2, <1>3, <1>5, PartSizes
<1>8. q + ld <= all /\ \A i \in 1 .. ld : fmt[q + i] = Directive(d)[i]
  BY <1>1, <1>5, Here
<1>9. ASSUME NEW j \in 1 .. l
      PROVE  (q + u) + j \in 1 .. all /\ fmt[(q + u) + j] = Parts(d)[m1][j]
  <2>1. u + j \in 1 .. ld /\ (q + u) + j = q + (u + j) /\ (q + u) + j \in 1 .. all
    <3>1. q + ld <= all
      BY <1>8
    <3> QED BY <1>6, <1>7, <3>1
  <2>2. fmt[q + (u + j)] = Directive(d)[u + j]
    BY <1>8, <2>1
  <2>3. Directive(d)[u + j] = Parts(d)[m1][j]
    BY <1>4, <1>5 DEF PartIn
  <2> QED BY <2>1, <2>2, <2>3
<1>10. q + u \in Nat /\ Behind(k, m) = q + u
  BY <1>1, <1>5 DEF Behind
<1>11. Follows(k, m, Parts(d)[m1])
  BY <1>5, <1>9, <1>10 DEF Follows
<1> QED BY <1>1, <1>4, <1>5, <1>10, <1>11, Zenon

Shows(k, m, part) == \A i \in 1 .. Len(part) : CharAt(Behind(k, m) + i) = part[i]

\* Its characters, as vprintfmt meets them.
LEMMA PartHead ==
    ASSUME FormatRead, NEW k \in 1 .. Count(format), NEW m \in 1 .. 7, NEW m1, m1 = m + 1
    PROVE  Shows(k, m, Parts(format.directives[k])[m1])
<1>1. PICK part : part = Parts(format.directives[k])[m1]
  OBVIOUS
<1>2. ASSUME NEW i \in 1 .. Len(part)
      PROVE  CharAt(Behind(k, m) + i) = part[i]
  <2>1. PICK p \in Nat, all \in Nat : p = Behind(k, m) /\ all = Len(fmt)
    BY PartAhead
  <2>2. p + i \in 1 .. all /\ fmt[p + i] = part[i]
    <3>1. Follows(k, m, part)
      BY <1>1, PartAhead
    <3> QED BY <2>1, <3>1 DEF Follows
  <2>3. ~(p + i > all)
    BY <2>2
  <2> QED BY <2>1, <2>2, <2>3, Zenon DEF CharAt
<1> QED BY <1>1, <1>2, Zenon DEF Shows

\* A part of one character.
LEMMA PartOne ==
    ASSUME FormatRead, NEW k \in 1 .. Count(format), NEW m \in 1 .. 7, NEW m1, m1 = m + 1,
           NEW c, Parts(format.directives[k])[m1] = <<c>>
    PROVE  CharAt(Behind(k, m) + 1) = c /\ Behind(k, m1) = Behind(k, m) + 1
<1>1. PICK d, one : d = format.directives[k] /\ one = <<c>>
  OBVIOUS
<1>2. Parts(d)[m1] = one /\ Len(one) = 1 /\ one[1] = c /\ 1 \in 1 .. Len(one)
  BY <1>1
<1>3. CharAt(Behind(k, m) + 1) = c
  <2>1. Shows(k, m, one)
    BY <1>1, <1>2, PartHead
  <2> QED BY <1>2, <2>1 DEF Shows
<1>4. PICK u \in Nat, v \in Nat, q \in Nat :
        u = Upto(d, m) /\ v = Upto(d, m1) /\ q = Mark(format, k) /\ v = u + 1
  <2>1. Upto(d, m) \in Nat /\ Upto(d, m1) \in Nat /\ Upto(d, m1) = Upto(d, m) + 1
    BY <1>1, <1>2, PartAhead
  <2>2. Mark(format, k) \in Nat
    BY Here
  <2> QED BY <2>1, <2>2, Zenon
<1>5. q + v = (q + u) + 1
  BY <1>4
<1>6. Behind(k, m) = q + u /\ Behind(k, m1) = q + v
  BY <1>1, <1>4 DEF Behind
<1> QED BY <1>3, <1>5, <1>6

\* A part left out.
LEMMA PartNone ==
    ASSUME FormatRead, NEW k \in 1 .. Count(format), NEW m \in 1 .. 7, NEW m1, m1 = m + 1,
           Parts(format.directives[k])[m1] = <<>>
    PROVE  Behind(k, m1) = Behind(k, m) /\ Upto(format.directives[k], m1) = Upto(format.directives[k], m)
<1>1. PICK d : d = format.directives[k]
  OBVIOUS
<1>2. Upto(d, m) \in Nat /\ Upto(d, m1) = Upto(d, m) + 0
  <2>1. Upto(d, m) \in Nat /\ Upto(d, m1) = Upto(d, m) + Len(<<>>)
    BY <1>1, PartAhead
  <2> QED BY <2>1, EmptyText, Zenon
<1>3. Upto(d, m1) = Upto(d, m)
  BY <1>2
<1> QED BY <1>1, <1>3 DEF Behind

\* Behind the length comes the conversion, or the end of the format.
LEMMA ConversionAhead ==
    ASSUME FormatRead, NEW k \in 1 .. Count(format)
    PROVE  LET d == format.directives[k] IN
           /\ CharAt(Behind(k, 7) + 1) = d.conv
           /\ d.conv = NUL => Behind(k, 7) = Start(format, k + 1)
           /\ d.conv # NUL => Behind(k, 7) + 1 = Start(format, k + 1)
<1>1. PICK d : d = format.directives[k]
  OBVIOUS
<1>2. IsDirective(d)
  BY <1>1, Here
<1>3. Parts(d)[8] = IF d.conv = NUL THEN <<>> ELSE <<d.conv>>
  BY <1>2, PartsAre
<1>4. 7 \in 1 .. 7 /\ 8 = 7 + 1
  OBVIOUS
<1>5. Behind(k, 8) = Start(format, k + 1)
  <2>1. /\ Start(format, k + 1) = Mark(format, k) + Len(Directive(d))
    BY <1>1, Here
  <2>2. Len(Directive(d)) = Upto(d, 8)
    BY <1>2, PartIsAt
  <2> QED BY <1>1, <2>1, <2>2 DEF Behind
<1>6. CASE d.conv = NUL
  <2>1. k = Count(format) /\ format.rest = <<>>
    BY <1>1, <1>6, DirectivesAre DEF FormatRead
  <2>2. Start(format, k + 1) = Len(fmt)
    BY <2>1, Here
  <2>3. Parts(d)[8] = <<>>
    BY <1>3, <1>6
  <2>4. Behind(k, 8) = Behind(k, 7)
    BY <1>1, <1>4, <2>3, PartNone, Zenon
  <2>5. Len(fmt) \in Nat
    BY Here
  <2>6. CharAt(Behind(k, 7) + 1) = NUL
    <3>1. PICK all \in Nat : all = Len(fmt) /\ Behind(k, 7) = all
      BY <1>5, <2>2, <2>4, <2>5
    <3>2. all + 1 > all
      OBVIOUS
    <3> QED BY <3>1, <3>2 DEF CharAt
  <2> QED BY <1>1, <1>5, <1>6, <2>4, <2>6, Zenon
<1>7. CASE d.conv # NUL
  <2>1. Parts(d)[8] = <<d.conv>>
    BY <1>3, <1>7
  <2>2. CharAt(Behind(k, 7) + 1) = d.conv /\ Behind(k, 8) = Behind(k, 7) + 1
    BY <1>1, <1>4, <2>1, PartOne, Zenon
  <2> QED BY <1>1, <1>5, <1>7, <2>2, Zenon
<1> QED BY <1>6, <1>7

\* A number ends where its digits do.
LEMMA NotDigit ==
    ASSUME FormatRead, NEW k \in 1 .. Count(format), NEW m \in {4, 6}
    PROVE  CharAt(Behind(k, m) + 1) \notin Decimal
<1>1. PICK d : d = format.directives[k]
  OBVIOUS
<1>2. IsDirective(d)
  BY <1>1, Here
<1>3. "." \notin Decimal /\ "l" \notin Decimal /\ d.conv \notin Decimal
  BY <1>2, DecimalIs DEF IsDirective
<1>4. CharAt(Behind(k, 6) + 1) \notin Decimal
  <2>1. 6 \in 1 .. 7 /\ 7 = 6 + 1
    OBVIOUS
  <2>2. CASE d.long = <<>>
    <3>1. Parts(d)[7] = <<>>
      BY <1>2, <2>2, PartsAre
    <3>2. Behind(k, 7) = Behind(k, 6)
      BY <1>1, <2>1, <3>1, PartNone, Zenon
    <3>3. CharAt(Behind(k, 7) + 1) = d.conv
      BY <1>1, ConversionAhead
    <3> QED BY <1>3, <3>2, <3>3, Zenon
  <2>3. CASE d.long \in {<<"l">>, <<"l", "l">>}
    <3>1. PICK part : part = d.long
      OBVIOUS
    <3>2. 1 \in 1 .. Len(part) /\ part[1] = "l"
      <4>1. CASE part = <<"l">>
        BY <4>1
      <4>2. CASE part = <<"l", "l">>
        BY <4>2
      <4> QED BY <2>3, <3>1, <4>1, <4>2
    <3>3. part = Parts(d)[7]
      BY <1>2, <3>1, PartsAre
    <3>4. CharAt(Behind(k, 6) + 1) = part[1]
      <4>1. Shows(k, 6, part)
        BY <1>1, <2>1, <3>3, PartHead, Zenon
      <4> QED BY <3>2, <4>1 DEF Shows
    <3> QED BY <1>3, <3>2, <3>4, Zenon
  <2> QED BY <1>2, <2>2, <2>3 DEF IsDirective
<1>5. CharAt(Behind(k, 4) + 1) \notin Decimal
  <2>1. 4 \in 1 .. 7 /\ 5 = 4 + 1 /\ 5 \in 1 .. 7 /\ 6 = 5 + 1
    OBVIOUS
  <2>2. CASE d.prec = <<>>
    <3>1. Parts(d)[5] = <<>> /\ Parts(d)[6] = <<>>
      BY <1>2, <2>2, PartsAre
    <3>2. Behind(k, 5) = Behind(k, 4) /\ Behind(k, 6) = Behind(k, 5)
      BY <1>1, <2>1, <3>1, PartNone, Zenon
    <3> QED BY <1>4, <3>2, Zenon
  <2>3. CASE d.prec # <<>>
    <3>1. Parts(d)[5] = <<".">>
      BY <1>2, <2>3, PartsAre
    <3>2. CharAt(Behind(k, 4) + 1) = "."
      BY <1>1, <2>1, <3>1, PartOne, ZenonT(40)
    <3> QED BY <1>3, <3>2, Zenon
  <2> QED BY <2>2, <2>3
<1> QED BY <1>1, <1>4, <1>5

-----------------------------------------------------------------------------
(***************************************************************************)
(* Where vprintfmt is in the format.  Outside an escape it copies plain    *)
(* text, i characters of which are out, or a directive it did not know;    *)
(* inside one it has read m parts of the k-th directive.  All that is      *)
(* before is printed as directed, with the arguments that are its own.     *)
(***************************************************************************)
\* The arguments taken since the k-th directive began.
Own(k) == SubSeq(args, TakenOf(format, k - 1) + 1, Len(args))

StarsRead(d, m) ==
    (IF m >= 4 /\ Starred(d.width) THEN 1 ELSE 0) + (IF m >= 6 /\ Starred(d.prec) THEN 1 ELSE 0)

Copying(k, i) ==
    /\ ~escape /\ k \in 1 .. Count(format) + 1 /\ i \in 0 .. Len(Between(format, k))
    /\ next = (Start(format, k) + i) + 1
    /\ Len(args) = TakenOf(format, k - 1)
    /\ Settled(format, args, k - 1)
    /\ out = TextOf(format, args, k - 1) \o SubSeq(Between(format, k), 1, i)

Literal(k, i) ==
    /\ ~escape /\ k \in 1 .. Count(format) /\ ~Known(format.directives[k])
    /\ i \in 1 .. Len(Directive(format.directives[k]))
    /\ next = (Mark(format, k) + i) + 1
    /\ Len(args) = TakenOf(format, k)
    /\ Settled(format, args, k - 1)
    /\ out = (TextOf(format, args, k - 1) \o format.directives[k].before)
             \o SubSeq(Directive(format.directives[k]), 1, i)

Reading(k, m, i) ==
    /\ escape /\ k \in 1 .. Count(format) /\ m \in 1 .. 6
    /\ i \in 0 .. (IF m = 6 THEN Len(format.directives[k].long) ELSE 0)
    /\ next = (Behind(k, m) + i) + 1
    /\ Len(args) = TakenOf(format, k - 1) + StarsRead(format.directives[k], m)
    /\ \A j \in 1 .. StarsRead(format.directives[k], m) : Own(k)[j] \in Int
    /\ spec = Reads(format.directives[k], Own(k), m, i)
    /\ Settled(format, args, k - 1)
    /\ out = TextOf(format, args, k - 1) \o format.directives[k].before

\* The beginnings of a text.
LEMMA Prefix ==
    ASSUME NEW s, IsText(s)
    PROVE  /\ SubSeq(s, 1, 0) = <<>>
           /\ SubSeq(s, 1, Len(s)) = s
           /\ \A i \in 0 .. Len(s) - 1 : SubSeq(s, 1, i + 1) = SubSeq(s, 1, i) \o <<s[i + 1]>>
           /\ \A i \in 0 .. Len(s) : IsText(SubSeq(s, 1, i))
<1>1. PICK S : S = Range(s) /\ s \in Seq(S)
  BY DEF IsText
<1>2. SubSeq(s, 1, 0) = <<>>
  BY SubSeqEmpty
<1>3. SubSeq(s, 1, Len(s)) = s
  BY SubSeqWhole
<1>4. ASSUME NEW i \in 0 .. Len(s) - 1
      PROVE  SubSeq(s, 1, i + 1) = SubSeq(s, 1, i) \o <<s[i + 1]>>
  <2>1. PICK j, len \in Nat : j = i + 1 /\ len = Len(s)
    BY TextLen
  <2>2. j \in 1 .. len /\ 1 \in 1 .. len /\ j - 1 = i
    BY <2>1
  <2>3. SubSeq(s, 1, j) = SubSeq(s, 1, j - 1) \o <<s[j]>>
    BY <1>1, <2>1, <2>2, SubSeqRecursiveSecond
  <2> QED BY <2>1, <2>2, <2>3, Zenon
<1>5. \A i \in 0 .. Len(s) : IsText(SubSeq(s, 1, i))
  BY TextSubSeq
<1> QED BY <1>2, <1>3, <1>4, <1>5

\* One character more of s is out.
LEMMA OneMore ==
    ASSUME NEW x, NEW s, IsText(x), IsText(s), NEW i \in 0 .. Len(s) - 1
    PROVE  (x \o SubSeq(s, 1, i)) \o <<s[i + 1]>> = x \o SubSeq(s, 1, i + 1)
<1>1. PICK u, one : u = SubSeq(s, 1, i) /\ one = <<s[i + 1]>>
  OBVIOUS
<1>2. SubSeq(s, 1, i + 1) = u \o one
  BY <1>1, Prefix
<1>3. i \in 0 .. Len(s)
  BY TextLen
<1>4. IsText(u) /\ IsText(one)
  BY <1>1, <1>3, Prefix, Single
<1>5. PICK xu, more : xu = x \o u /\ more = u \o one
  OBVIOUS
<1>6. xu \o one = x \o more
  BY <1>4, <1>5, Regroup, SMTT(30)
<1> QED BY <1>1, <1>2, <1>5, <1>6, Zenon

\* What happens outside an escape depends on the character.
LEMMA OutsideStep ==
    ASSUME Running, ~escape, Next
    PROVE  /\ ch \notin {"%", NUL} => Plain
           /\ ch = "%" => Percent
           /\ ch = NUL => Return
<1>1. Plain \/ Percent \/ Return
  BY DEF Next, BadSize, Flags, Conversions, Unrecognized
<1>2. NUL # "%"
  BY DecimalIs
<1> QED BY <1>1, <1>2 DEF Plain, Percent, Return

\* The character at next.
LEMMA CharIs == ASSUME NEW p, next = p PROVE ch = CharAt(p)
BY DEF ch, CharAt

\* The text before is settled, and so is where it ends.
LEMMA Before ==
    ASSUME FormatRead, NEW k \in 1 .. Count(format) + 1, Settled(format, args, k - 1)
    PROVE  /\ k - 1 \in 0 .. Count(format)
           /\ IsText(TextOf(format, args, k - 1))
           /\ TakenOf(format, k - 1) \in Nat
           /\ Start(format, k) \in Nat
           /\ IsPlain(Between(format, k)) /\ IsText(Between(format, k))
           /\ Len(Between(format, k)) \in Nat
           /\ \A i \in 1 .. Len(Between(format, k)) :
                CharAt(Start(format, k) + i) = Between(format, k)[i]
<1>1. PICK f \in Formats : f = format
  BY DEF FormatRead
<1>2. PICK c \in Nat : c = Count(f)
  BY DirectivesAre
<1>3. k - 1 \in 0 .. c /\ k \in 1 .. c + 1
  BY <1>1, <1>2
<1>4. IsText(TextOf(f, args, k - 1))
  BY <1>1, <1>2, <1>3, TextStep
<1>5. TakenOf(f, k - 1) \in Nat /\ Start(f, k) \in Nat
  BY <1>2, <1>3, TakenIs, WrittenIs
<1>6. IsPlain(Between(f, k))
  BY <1>2, <1>3, DirectivesAre
<1>7. IsText(Between(f, k)) /\ Len(Between(f, k)) \in Nat
  BY <1>6, PlainChars
<1>8. ASSUME NEW i \in 1 .. Len(Between(f, k))
      PROVE  CharAt(Start(f, k) + i) = Between(f, k)[i]
  <2>1. PICK s \in Nat, all \in Nat, l \in Nat :
          s = Start(f, k) /\ all = Len(fmt) /\ l = Len(Between(f, k))
    <3>1. Len(fmt) \in Nat
      BY <1>1, WrittenIs DEF FormatRead
    <3> QED BY <1>5, <1>7, <3>1
  <2>2. fmt[s + i] = Between(f, k)[i] /\ s + l <= all
    <3>1. CASE k <= c
      <4>1. k \in 1 .. c
        BY <1>3, <3>1
      <4>2. PICK d : d = f.directives[k]
        OBVIOUS
      <4>3. Between(f, k) = d.before
        BY <1>2, <3>1, <4>2 DEF Between
      <4>4. /\ Mark(format, k) = s + l
            /\ Start(format, k + 1) = Mark(format, k) + Len(Directive(d))
            /\ Start(format, k + 1) <= Len(fmt) /\ Len(Directive(d)) \in Nat
            /\ \A j \in 1 .. Len(d.before) : fmt[Start(format, k) + j] = d.before[j]
        BY <1>1, <1>2, <2>1, <4>1, <4>2, <4>3, Here
      <4>5. fmt[s + i] = Between(f, k)[i]
        BY <1>1, <2>1, <4>3, <4>4
      <4>6. s + l <= all
        <5>1. PICK ld \in Nat : ld = Len(Directive(d))
          BY <4>4
        <5>2. (s + l) + ld <= all
          BY <2>1, <4>4, <5>1
        <5> QED BY <5>2
      <4> QED BY <4>5, <4>6
    <3>2. CASE k > c
      <4>1. k = c + 1
        BY <1>3, <3>2
      <4>2. Between(f, k) = f.rest
        <5>1. ~(k <= c)
          BY <1>3, <3>2
        <5> QED BY <1>2, <5>1 DEF Between
      <4>3. Len(fmt) = Start(f, k) + Len(f.rest)
        BY <1>1, <1>2, <4>1, WrittenIs DEF FormatRead
      <4>4. \A j \in 1 .. Len(f.rest) : fmt[Start(f, k) + j] = f.rest[j]
        BY <1>1, <1>2, <4>1, WrittenIs DEF FormatRead
      <4>5. s + l <= all
        BY <2>1, <4>2, <4>3
      <4> QED BY <2>1, <4>2, <4>4, <4>5
    <3> QED BY <1>3, <3>1, <3>2
  <2>3. ~(s + i > all)
    BY <2>1, <2>2
  <2> QED BY <2>1, <2>2, <2>3 DEF CharAt
<1> QED BY <1>1, <1>2, <1>3, <1>4, <1>5, <1>6, <1>7, <1>8

\* One more character of plain text is copied.
LEMMA CopyStep ==
    ASSUME FormatRead, Running, Next, NEW k, NEW i, Copying(k, i), i < Len(Between(format, k))
    PROVE  FormatRead' /\ Copying(k, i + 1)' /\ ~Return
<1>0. PICK s, x : s = Between(format, k) /\ x = TextOf(format, args, k - 1)
  OBVIOUS
<1>1. PICK st \in Nat, l \in Nat :
        /\ st = Start(format, k) /\ l = Len(s)
        /\ IsText(x) /\ IsText(s) /\ IsPlain(s)
        /\ \A j \in 1 .. l : CharAt(st + j) = s[j]
  BY <1>0, Before DEF Copying
<1>2. /\ ~escape /\ i \in 0 .. l - 1 /\ i + 1 \in 0 .. l /\ i + 1 \in 1 .. l
      /\ next = (st + i) + 1 /\ out = x \o SubSeq(s, 1, i)
  BY <1>0, <1>1 DEF Copying
<1>3. ch = s[i + 1] /\ ch \notin {"%", NUL}
  <2>1. next = st + (i + 1)
    BY <1>2
  <2>2. ch = CharAt(st + (i + 1))
    BY <2>1, CharIs
  <2>3. s[i + 1] \notin {"%", NUL}
    BY <1>1, <1>2, PlainChars
  <2> QED BY <1>1, <1>2, <2>2, <2>3
<1>4. Plain
  BY <1>2, <1>3, OutsideStep
<1>5. /\ UNCHANGED <<format, fmt, args, escape>> /\ next' = (st + (i + 1)) + 1
      /\ out' = out \o <<s[i + 1]>>
  BY <1>2, <1>3, <1>4 DEF Plain, putch, input
<1>6. out' = x \o SubSeq(s, 1, i + 1)
  BY <1>1, <1>2, <1>5, OneMore
<1>7. FormatRead'
  BY <1>5 DEF FormatRead
<1>8. Copying(k, i + 1)'
  BY <1>0, <1>1, <1>2, <1>5, <1>6 DEF Copying
<1>9. ~Return
  BY <1>3 DEF Return
<1> QED BY <1>7, <1>8, <1>9

\* All that was to be printed is printed, and no more arguments are taken.
Directed ==
    /\ out = TextOf(format, args, Count(format)) \o format.rest
    /\ Len(args) = TakenOf(format, Count(format))

\* The end of the format: all is printed.
LEMMA EndStep ==
    ASSUME FormatRead, Running, Next, NEW k, NEW i, Copying(k, i), i = Len(Between(format, k)),
           k = Count(format) + 1
    PROVE  FormatRead' /\ Directed' /\ done'
<1>1. PICK f \in Formats : f = format
  BY DEF FormatRead
<1>2. PICK c \in Nat : c = Count(f)
  BY DirectivesAre
<1>3. k = c + 1 /\ k - 1 = c /\ ~(k <= c)
  BY <1>1, <1>2
<1>4. Between(f, k) = f.rest
  BY <1>2, <1>3 DEF Between
<1>5. PICK all \in Nat : all = Len(fmt) /\ (Start(f, k) + i) + 1 = all + 1
  <2>1. /\ Len(fmt) = Start(f, c + 1) + Len(f.rest) /\ Len(fmt) \in Nat
    BY <1>1, <1>2, WrittenIs DEF FormatRead
  <2> QED BY <1>1, <1>3, <1>4, <2>1
<1>6. next = all + 1
  BY <1>1, <1>5 DEF Copying
<1>7. all + 1 > all
  OBVIOUS
<1>8. ch = NUL
  BY <1>5, <1>6, <1>7 DEF ch
<1>9. ~escape /\ out = TextOf(f, args, k - 1) \o SubSeq(f.rest, 1, Len(f.rest))
      /\ Len(args) = TakenOf(f, k - 1)
  BY <1>1, <1>4 DEF Copying
<1>10. Return
  BY <1>8, <1>9, OutsideStep
<1>11. UNCHANGED <<format, fmt, args, out>> /\ done' = TRUE
  BY <1>10 DEF Return, input
<1>12. SubSeq(f.rest, 1, Len(f.rest)) = f.rest
  BY DirectivesAre, PlainChars, Prefix
<1>13. out = TextOf(f, args, c) \o f.rest /\ Len(args) = TakenOf(f, c)
  BY <1>3, <1>9, <1>12
<1>14. Directed'
  BY <1>1, <1>2, <1>11, <1>13 DEF Directed
<1> QED BY <1>11, <1>14 DEF FormatRead

\* A directive begins.
LEMMA PercentStep ==
    ASSUME FormatRead, Running, Next, NEW k, NEW i, Copying(k, i), i = Len(Between(format, k)),
           k \in 1 .. Count(format)
    PROVE  FormatRead' /\ Reading(k, 1, 0)' /\ ~Return
<1>1. PICK d : d = format.directives[k] /\ IsDirective(d)
  BY Here
<1>2. Between(format, k) = d.before
  BY <1>1 DEF Between
<1>3. PICK q \in Nat, ld \in Nat, all \in Nat :
        /\ q = Mark(format, k) /\ ld = Len(Directive(d)) /\ all = Len(fmt)
        /\ Mark(format, k) = Start(format, k) + Len(d.before)
        /\ q + ld <= all
        /\ \A j \in 1 .. ld : fmt[q + j] = Directive(d)[j]
  <2>1. /\ Mark(format, k) \in Nat /\ Len(Directive(d)) \in Nat /\ Len(fmt) \in Nat
        /\ Mark(format, k) = Start(format, k) + Len(d.before)
        /\ Start(format, k + 1) = Mark(format, k) + Len(Directive(d))
        /\ Start(format, k + 1) <= Len(fmt)
        /\ \A j \in 1 .. Len(Directive(d)) : fmt[Mark(format, k) + j] = Directive(d)[j]
    BY <1>1, Here
  <2> QED BY <2>1
<1>4. 1 \in 1 .. ld /\ Directive(d)[1] = "%" /\ Upto(d, 1) = 1
  <2>1. 1 \in 1 .. 8
    OBVIOUS
  <2>2. Upto(d, 1) <= Len(Directive(d)) /\ Upto(d, 1) = 1 /\ Directive(d)[1] = "%"
    BY <1>1, <2>1, PartIsAt
  <2> QED BY <1>3, <2>2
<1>5. q + 1 \in 1 .. all /\ fmt[q + 1] = "%"
  BY <1>3, <1>4
<1>6. next = q + 1
  <2>1. Start(format, k) \in Nat /\ Len(d.before) \in Nat
    BY <1>1, Here
  <2> QED BY <1>2, <1>3, <2>1 DEF Copying
<1>7. ch = "%"
  <2>1. ~(q + 1 > all)
    BY <1>5
  <2> QED BY <1>3, <1>5, <1>6, <2>1 DEF ch
<1>8. /\ ~escape /\ Settled(format, args, k - 1) /\ Len(args) = TakenOf(format, k - 1)
      /\ out = TextOf(format, args, k - 1) \o SubSeq(d.before, 1, Len(d.before))
  BY <1>2 DEF Copying
<1>9. Percent
  BY <1>7, <1>8, OutsideStep
<1>10. /\ UNCHANGED <<format, fmt, args, out>> /\ escape' = TRUE /\ spec' = NoFlags
       /\ next' = (q + 1) + 1
  BY <1>6, <1>9 DEF Percent, input
<1>11. Behind(k, 1) = q + 1 /\ Behind(k, 1)' = q + 1
  <2>1. Behind(k, 1) = q + 1
    BY <1>1, <1>3, <1>4 DEF Behind
  <2> QED BY <1>10, <2>1 DEF Behind
<1>12. out = TextOf(format, args, k - 1) \o d.before
  <2>1. SubSeq(d.before, 1, Len(d.before)) = d.before
    BY <1>1, WholeIs, Prefix
  <2> QED BY <1>8, <2>1
<1>13. StarsRead(d, 1) = 0
  BY DEF StarsRead
<1>14. \A a : NoFlags = Reads(d, a, 1, 0)
  <2> TAKE a
  <2>1. 1 < 2 /\ 1 < 4 /\ 1 < 6 /\ ~(1 > 2)
    OBVIOUS
  <2>2. (1 > 2 /\ d.alt # <<>>) = FALSE
    BY <2>1
  <2> QED BY <2>1, <2>2, Zenon DEF NoFlags, Reads
<1>15. Reading(k, 1, 0)'
  <2>1. TakenOf(format, k - 1) \in Nat
    <3>1. k \in 1 .. Count(format) + 1
      BY DEF Copying
    <3> QED BY <1>8, <3>1, Before
  <2>2. Len(args) = TakenOf(format, k - 1) + 0
    BY <1>8, <2>1
  <2>3. (q + 1) + 1 = ((q + 1) + 0) + 1
    BY <1>3
  <2>4. 1 \in 1 .. 6 /\ 0 \in 0 .. 0 /\ 1 # 6 /\ 1 .. 0 = {}
    OBVIOUS
  <2>5. spec' = Reads(d, Own(k)', 1, 0)
    BY <1>10, <1>14
  <2>6. next' = (Behind(k, 1)' + 0) + 1
    BY <1>10, <1>11, <2>3
  <2> QED BY <1>1, <1>8, <1>10, <1>12, <1>13, <2>2, <2>4, <2>5, <2>6, Zenon DEF Reading
<1>16. ~Return
  BY <1>7, DecimalIs DEF Return
<1> QED BY <1>10, <1>15, <1>16 DEF FormatRead

\* One more character of an unknown directive is copied.
LEMMA LiteralStep ==
    ASSUME FormatRead, Running, Next, NEW k, NEW i, Literal(k, i),
           i < Len(Directive(format.directives[k]))
    PROVE  FormatRead' /\ Literal(k, i + 1)' /\ ~Return
<1>1. k \in 1 .. Count(format)
  BY DEF Literal
<1>2. PICK d : d = format.directives[k] /\ IsDirective(d)
  BY <1>1, Here
<1>3. PICK s : s = Directive(d) /\ IsText(s)
  BY <1>2, WholeIs
<1>4. PICK x : x = TextOf(format, args, k - 1) \o d.before /\ IsText(x)
  <2>1. k \in 1 .. Count(format) + 1 /\ Settled(format, args, k - 1)
    <3>1. Count(format) \in Nat
      BY DirectivesAre DEF FormatRead
    <3> QED BY <1>1, <3>1 DEF Literal
  <2>2. IsText(TextOf(format, args, k - 1)) /\ IsText(d.before)
    BY <1>2, <2>1, Before, WholeIs
  <2> QED BY <2>2, TextConcat
<1>5. PICK q \in Nat, l \in Nat, all \in Nat :
        /\ q = Mark(format, k) /\ l = Len(s) /\ all = Len(fmt)
        /\ q + l <= all
        /\ \A j \in 1 .. l : fmt[q + j] = s[j]
  <2>1. /\ Mark(format, k) \in Nat /\ Len(s) \in Nat /\ Len(fmt) \in Nat
        /\ Start(format, k + 1) = Mark(format, k) + Len(s)
        /\ Start(format, k + 1) <= Len(fmt)
        /\ \A j \in 1 .. Len(s) : fmt[Mark(format, k) + j] = s[j]
    BY <1>1, <1>2, <1>3, Here
  <2> QED BY <2>1
<1>6. /\ ~escape /\ ~Known(d) /\ i \in 0 .. l - 1 /\ i + 1 \in 1 .. l /\ i + 1 \in 2 .. l
      /\ next = q + (i + 1) /\ out = x \o SubSeq(s, 1, i)
      /\ Len(args) = TakenOf(format, k) /\ Settled(format, args, k - 1)
  BY <1>2, <1>3, <1>4, <1>5 DEF Literal
<1>7. ch = s[i + 1]
  <2>1. ~(q + (i + 1) > all)
    BY <1>5, <1>6
  <2> QED BY <1>5, <1>6, <2>1 DEF ch
<1>8. s[i + 1] \notin {"%", NUL}
  <2>1. s[i + 1] \in FlagChars \/ (d.conv # NUL /\ s[i + 1] = d.conv)
    BY <1>2, <1>3, <1>5, <1>6, DirectiveChars
  <2>2. d.conv # "%"
    BY <1>6 DEF Known
  <2> QED BY <2>1, <2>2, DecimalIs
<1>9. Plain
  BY <1>6, <1>7, <1>8, OutsideStep
<1>10. /\ UNCHANGED <<format, fmt, args, escape>> /\ next' = (q + (i + 1)) + 1
       /\ out' = out \o <<s[i + 1]>>
  BY <1>6, <1>7, <1>9 DEF Plain, putch, input
<1>11. out' = x \o SubSeq(s, 1, i + 1)
  BY <1>3, <1>4, <1>5, <1>6, <1>10, OneMore
<1>12. Literal(k, i + 1)'
  BY <1>1, <1>2, <1>3, <1>4, <1>5, <1>6, <1>10, <1>11 DEF Literal
<1>13. ~Return
  BY <1>7, <1>8 DEF Return
<1> QED BY <1>10, <1>12, <1>13 DEF FormatRead

\* A directive that is not known is printed as it was written.
LEMMA LiteralEnd ==
    ASSUME FormatRead, NEW k, NEW i, Literal(k, i), i = Len(Directive(format.directives[k]))
    PROVE  Copying(k + 1, 0)
<1>1. k \in 1 .. Count(format) /\ ~Known(format.directives[k])
  BY DEF Literal
<1>2. PICK d : d = format.directives[k] /\ IsDirective(d)
  BY <1>1, Here
<1>3. PICK c \in Nat : c = Count(format)
  BY DirectivesAre DEF FormatRead
<1>4. k \in 1 .. c /\ k \in 0 .. c /\ k > 0 /\ k + 1 \in 1 .. c + 1 /\ (k + 1) - 1 = k
  BY <1>1, <1>3
<1>5. IsText(Directive(d)) /\ SubSeq(Directive(d), 1, Len(Directive(d))) = Directive(d)
  BY <1>2, WholeIs, Prefix
<1>6. Expected(d, ArgsOf(format, args, k)) = Directive(d)
  <2>1. PICK a : a = ArgsOf(format, args, k)
    OBVIOUS
  <2>2. PICK v : v = a[Len(a)]
    OBVIOUS
  <2> QED BY <1>1, <1>2, <2>1, <2>2, ExpectedCases
<1>7. Settled(format, args, k)
  <2>1. Settled(format, args, k - 1)
    BY DEF Literal
  <2>2. \A j \in 1 .. k : j \in 1 .. k - 1 \/ j = k
    BY <1>4
  <2> QED BY <1>2, <1>5, <1>6, <2>1, <2>2 DEF Settled
<1>8. out = TextOf(format, args, k)
  <2>1. out = (TextOf(format, args, k - 1) \o d.before) \o Directive(d)
    BY <1>2, <1>5 DEF Literal
  <2>2. TextOf(format, args, k)
          = (TextOf(format, args, k - 1) \o d.before) \o Expected(d, ArgsOf(format, args, k))
    BY <1>2, <1>3, <1>4, <1>7, TextStep DEF FormatRead
  <2> QED BY <1>6, <2>1, <2>2, Zenon
<1>9. IsText(TextOf(format, args, k))
  BY <1>3, <1>4, <1>7, TextStep DEF FormatRead
<1>10. next = (Start(format, k + 1) + 0) + 1
  <2>1. PICK q \in Nat, l \in Nat : q = Mark(format, k) /\ l = Len(Directive(d))
                                      /\ Start(format, k + 1) = q + l
    BY <1>1, <1>2, Here
  <2>2. next = (q + l) + 1
    BY <1>2, <2>1 DEF Literal
  <2> QED BY <2>1, <2>2
<1>11. IsText(Between(format, k + 1)) /\ Len(Between(format, k + 1)) \in Nat
  BY <1>3, <1>4, DirectivesAre, PlainChars DEF FormatRead
<1>12. TextOf(format, args, k) \o SubSeq(Between(format, k + 1), 1, 0) = TextOf(format, args, k)
  BY <1>9, <1>11, Prefix, EmptyConcat
<1>13. 0 \in 0 .. Len(Between(format, k + 1))
  BY <1>11
<1>14. ~escape /\ Len(args) = TakenOf(format, k)
  BY DEF Literal
<1> QED BY <1>3, <1>4, <1>7, <1>8, <1>10, <1>12, <1>13, <1>14 DEF Copying

Convertible == {"c", "e", "s", "d", "p", "%", "u", "o", "x"}

\* What happens inside an escape depends on the character.
LEMMA InsideStep ==
    ASSUME Running, escape, Next
    PROVE  /\ ch \in {"-", "0"} => Flag([spec EXCEPT !.padc = ch], 1) /\ UNCHANGED args
           /\ ch \in Decimal \ {"0"} => WidthDigits
           /\ ch = "*" => Star
           /\ ch = "." => Flag([spec EXCEPT !.width = IF @ < 0 THEN 0 ELSE @], 1) /\ UNCHANGED args
           /\ ch = "#" => Flag([spec EXCEPT !.altflag = TRUE], 1) /\ UNCHANGED args
           /\ ch = "l" => Flag([spec EXCEPT !.lflag = @ + 1], 1) /\ UNCHANGED args
           /\ ch \in Convertible => Conversions
           /\ ch \notin FlagChars \cup Convertible => Unrecognized
<1>1. Flags \/ Conversions \/ Unrecognized
  BY DEF Next, BadSize, Plain, Percent, Return
<1>2. Decimal = {"0", "1", "2", "3", "4", "5", "6", "7", "8", "9"}
  BY DecimalIs
<1>3. DOMAIN Base = {"u", "o", "x"}
  BY DEF Base
<1>4. Flags => ch \in FlagChars
  BY <1>2 DEF Flags, WidthDigits, Star, FlagChars
<1>5. Conversions => ch \in Convertible
  BY <1>3 DEF Conversions, Convertible
<1>6. Unrecognized => ch \notin FlagChars \cup Convertible
  BY <1>2, <1>3 DEF Unrecognized, FlagChars, Convertible
<1>7. FlagChars \cap Convertible = {}
  BY <1>2 DEF FlagChars, Convertible
<1>8. ASSUME Flags
      PROVE  /\ ch \in {"-", "0"} => Flag([spec EXCEPT !.padc = ch], 1) /\ UNCHANGED args
             /\ ch \in Decimal \ {"0"} => WidthDigits
             /\ ch = "*" => Star
             /\ ch = "." => Flag([spec EXCEPT !.width = IF @ < 0 THEN 0 ELSE @], 1) /\ UNCHANGED args
             /\ ch = "#" => Flag([spec EXCEPT !.altflag = TRUE], 1) /\ UNCHANGED args
             /\ ch = "l" => Flag([spec EXCEPT !.lflag = @ + 1], 1) /\ UNCHANGED args
  <2>1. \/ ch \in {"-", "0"} /\ Flag([spec EXCEPT !.padc = ch], 1) /\ UNCHANGED args
        \/ WidthDigits \/ Star
        \/ ch = "." /\ Flag([spec EXCEPT !.width = IF @ < 0 THEN 0 ELSE @], 1) /\ UNCHANGED args
        \/ ch = "#" /\ Flag([spec EXCEPT !.altflag = TRUE], 1) /\ UNCHANGED args
        \/ ch = "l" /\ Flag([spec EXCEPT !.lflag = @ + 1], 1) /\ UNCHANGED args
    BY <1>8 DEF Flags
  <2>2. (WidthDigits => ch \in Decimal \ {"0"}) /\ (Star => ch = "*")
    BY DEF WidthDigits, Star
  <2>3. /\ "-" \notin Decimal /\ "*" \notin Decimal /\ "." \notin Decimal /\ "#" \notin Decimal
        /\ "l" \notin Decimal
    BY <1>2
  <2> QED BY <2>1, <2>2, <2>3
<1>9. ch \in {"-", "0", "*", ".", "#", "l"} \cup Decimal => Flags
  <2>1. ch \in {"-", "0", "*", ".", "#", "l"} \cup Decimal => ch \in FlagChars
    BY <1>2 DEF FlagChars
  <2>2. ch \in FlagChars => Flags
    BY <1>1, <1>5, <1>6, <1>7
  <2> QED BY <2>1, <2>2
<1>10. ch \in Convertible => Conversions
  BY <1>1, <1>4, <1>6, <1>7
<1>11. ch \notin FlagChars \cup Convertible => Unrecognized
  BY <1>1, <1>4, <1>5
<1> QED BY <1>8, <1>9, <1>10, <1>11

\* What is taken behind the m-th argument grows by what is added.
LEMMA OwnGrows ==
    ASSUME NEW s, NEW t, IsText(s), IsText(t), NEW m \in 0 .. Len(s)
    PROVE  /\ SubSeq(s \o t, m + 1, Len(s \o t)) = SubSeq(s, m + 1, Len(s)) \o t
           /\ IsText(SubSeq(s, m + 1, Len(s))) /\ Len(SubSeq(s, m + 1, Len(s))) = Len(s) - m
<1>1. PICK ls \in Nat, lt \in Nat, all \in Nat :
        ls = Len(s) /\ lt = Len(t) /\ all = Len(s \o t) /\ all = ls + lt
  <2>1. Len(s) \in Nat /\ Len(t) \in Nat /\ Len(s \o t) = Len(s) + Len(t)
    BY TextLen, TextConcat
  <2>2. Len(s \o t) \in Nat
    BY <2>1
  <2> QED BY <2>1, <2>2
<1>2. PICK u, v : u = s \o t /\ v = SubSeq(s, m + 1, Len(s))
  OBVIOUS
<1>3. /\ IsText(u) /\ \A i \in 1 .. ls : u[i] = s[i]
      /\ \A i \in 1 .. lt : u[ls + i] = t[i]
  BY <1>1, <1>2, TextConcat
<1>4. /\ IsText(v) /\ Len(v) = ls - m
      /\ \A i \in 1 .. ls - m : v[i] = s[m + i]
  <2>1. PICK m1 : m1 = m + 1
    OBVIOUS
  <2>2. m1 \in 1 .. ls + 1 /\ ls \in m1 - 1 .. ls /\ ls - m1 + 1 = ls - m
    BY <1>1, <2>1
  <2>3. m1 \in 1 .. Len(s) + 1 /\ ls \in m1 - 1 .. Len(s)
    BY <1>1, <2>2
  <2>4. /\ IsText(SubSeq(s, m1, ls)) /\ Len(SubSeq(s, m1, ls)) = ls - m1 + 1
        /\ \A i \in 1 .. ls - m1 + 1 : SubSeq(s, m1, ls)[i] = s[m1 + i - 1]
    BY <2>3, TextSlice
  <2>5. \A i \in 1 .. ls - m : m1 + i - 1 = m + i
    BY <1>1, <2>1
  <2>6. v = SubSeq(s, m1, ls)
    BY <1>1, <1>2, <2>1
  <2> QED BY <2>2, <2>4, <2>5, <2>6
<1>5. PICK w : w = SubSeq(u, m + 1, all)
  OBVIOUS
<1>6. /\ IsText(w) /\ Len(w) = all - m
      /\ \A i \in 1 .. all - m : w[i] = u[m + i]
  <2>1. PICK m1 : m1 = m + 1
    OBVIOUS
  <2>2. m1 \in 1 .. all + 1 /\ all \in m1 - 1 .. all /\ all - m1 + 1 = all - m
    BY <1>1, <2>1
  <2>3. m1 \in 1 .. Len(u) + 1 /\ all \in m1 - 1 .. Len(u)
    BY <1>1, <1>2, <2>2
  <2>4. /\ IsText(SubSeq(u, m1, all)) /\ Len(SubSeq(u, m1, all)) = all - m1 + 1
        /\ \A i \in 1 .. all - m1 + 1 : SubSeq(u, m1, all)[i] = u[m1 + i - 1]
    BY <1>3, <2>3, TextSlice
  <2>5. \A i \in 1 .. all - m : m1 + i - 1 = m + i
    BY <1>1, <2>1
  <2>6. w = SubSeq(u, m1, all)
    BY <1>5, <2>1, SMTT(30)
  <2> QED BY <2>2, <2>4, <2>5, <2>6
<1>7. PICK lv \in Nat : lv = ls - m /\ lv = Len(v) /\ all - m = lv + lt
  BY <1>1, <1>4, SMTT(30)
<1>8. PICK y : y = v \o t
  OBVIOUS
<1>9. /\ IsText(y) /\ Len(y) = lv + lt
      /\ \A i \in 1 .. lv : y[i] = v[i]
      /\ \A i \in 1 .. lt : y[lv + i] = t[i]
  <2>1. /\ IsText(v \o t) /\ Len(v \o t) = Len(v) + Len(t)
        /\ \A i \in 1 .. Len(v) : (v \o t)[i] = v[i]
        /\ \A i \in 1 .. Len(t) : (v \o t)[Len(v) + i] = t[i]
    BY <1>4, TextConcat
  <2> QED BY <1>1, <1>7, <1>8, <2>1, Zenon
<1>10. ASSUME NEW i \in 1 .. lv + lt
       PROVE  w[i] = y[i]
  <2>1. w[i] = u[m + i]
    BY <1>6, <1>7
  <2>2. CASE i <= lv
    <3>1. i \in 1 .. lv /\ i \in 1 .. ls - m /\ m + i \in 1 .. ls
      BY <1>1, <1>7, <2>2
    <3> QED BY <1>3, <1>4, <1>9, <2>1, <3>1
  <2>3. CASE i > lv
    <3>1. PICK j \in 1 .. lt : i = lv + j
      <4>1. i - lv \in 1 .. lt /\ i = lv + (i - lv)
        BY <2>3
      <4> QED BY <4>1
    <3>2. m + i = ls + j
      BY <1>1, <1>7, <3>1, SMTT(30)
    <3> QED BY <1>3, <1>9, <2>1, <3>1, <3>2
  <2> QED BY <2>2, <2>3
<1>11. w = y
  BY <1>6, <1>7, <1>9, <1>10, SameText
<1> QED BY <1>1, <1>2, <1>4, <1>5, <1>8, <1>11

\* An element appended is a sequence of one behind.
LEMMA AppendIs ==
    ASSUME NEW s, IsText(s), NEW v
    PROVE  Append(s, v) = s \o <<v>>
<1>1. PICK one : one = <<v>>
  OBVIOUS
<1>2. IsText(one)
  BY <1>1, Single
<1>3. PICK S : s \in Seq(S) /\ one \in Seq(S)
  BY <1>2, Together
<1>4. v \in S
  <2>1. one \in Seq(S) /\ Len(one) = 1 /\ one[1] = v
    BY <1>1, <1>3
  <2> QED BY <2>1
<1> QED BY <1>1, <1>3, <1>4

\* The directive's own arguments are those taken since.
LEMMA OwnIs ==
    ASSUME FormatRead, NEW k \in 1 .. Count(format), NEW w \in Nat,
           Len(args) = TakenOf(format, k - 1) + w
    PROVE  /\ IsText(Own(k)) /\ Len(Own(k)) = w
           /\ TakenOf(format, k - 1) \in 0 .. Len(args) /\ k - 1 \in 0 .. Count(format)
<1>1. PICK f \in Formats : f = format
  BY DEF FormatRead
<1>2. Count(f) \in Nat
  BY DirectivesAre
<1>3. k - 1 \in 0 .. Count(format)
  BY <1>1, <1>2
<1>4. PICK t \in Nat : t = TakenOf(format, k - 1)
  BY <1>1, <1>3, TakenIs
<1>5. PICK la \in Nat : la = Len(args) /\ la = t + w
  BY <1>4
<1>6. t \in 0 .. la /\ la - t = w
  BY <1>5
<1>7. IsText(args)
  BY DEF FormatRead
<1>8. t \in 0 .. Len(args)
  BY <1>5, <1>6
<1>9. IsText(SubSeq(args, t + 1, Len(args))) /\ Len(SubSeq(args, t + 1, Len(args))) = Len(args) - t
  BY <1>7, <1>8, OwnGrows
<1> QED BY <1>3, <1>4, <1>5, <1>6, <1>8, <1>9 DEF Own

\* Reading on, past flags whose arguments are `more`.
LEMMA FlagRead ==
    ASSUME FormatRead, NEW k, NEW m, NEW i, Reading(k, m, i),
           NEW m1 \in 1 .. 6, NEW i1 \in 0 .. (IF m1 = 6 THEN Len(format.directives[k].long) ELSE 0),
           NEW more, IsText(more), \A j \in 1 .. Len(more) : more[j] \in Int,
           NEW newspec, NEW skip, Flag(newspec, skip), args' = args \o more,
           next + skip = (Behind(k, m1) + i1) + 1,
           StarsRead(format.directives[k], m1) = StarsRead(format.directives[k], m) + Len(more),
           newspec = Reads(format.directives[k], Own(k) \o more, m1, i1)
    PROVE  FormatRead' /\ Reading(k, m1, i1)'
<1>1. PICK d : d = format.directives[k]
  OBVIOUS
<1>2. k \in 1 .. Count(format) /\ escape /\ Settled(format, args, k - 1)
      /\ out = TextOf(format, args, k - 1) \o d.before
  BY <1>1 DEF Reading
<1>3. PICK w \in Nat, w1 \in Nat, lm \in Nat :
        w = StarsRead(d, m) /\ w1 = StarsRead(d, m1) /\ lm = Len(more) /\ w1 = w + lm
  <2>1. StarsRead(d, m) \in Nat /\ StarsRead(d, m1) \in Nat
    BY DEF StarsRead
  <2>2. Len(more) \in Nat
    BY TextLen
  <2> QED BY <1>1, <2>1, <2>2
<1>4. Len(args) = TakenOf(format, k - 1) + w /\ \A j \in 1 .. w : Own(k)[j] \in Int
  BY <1>1, <1>3 DEF Reading
<1>5. /\ IsText(Own(k)) /\ Len(Own(k)) = w
      /\ TakenOf(format, k - 1) \in 0 .. Len(args) /\ k - 1 \in 0 .. Count(format)
  BY <1>2, <1>4, OwnIs
<1>6. IsText(args) /\ format \in Formats
  BY DEF FormatRead
<1>7. UNCHANGED <<format, fmt, escape, out>> /\ spec' = newspec /\ next' = next + skip
  BY DEF Flag, input
<1>8. IsText(args') /\ Len(args') = Len(args) + lm
  BY <1>3, <1>6, TextConcat
<1>9. PICK t \in Nat : t = TakenOf(format, k - 1)
  BY <1>5, <1>6, TakenIs
<1>10. t \in 0 .. Len(args)
  BY <1>5, <1>9
<1>11. Own(k)' = Own(k) \o more
  <2>1. SubSeq(args \o more, t + 1, Len(args \o more)) = SubSeq(args, t + 1, Len(args)) \o more
    BY <1>6, <1>10, OwnGrows
  <2> QED BY <1>7, <1>9, <2>1 DEF Own
<1>12. \A j \in 1 .. w1 : Own(k)'[j] \in Int
  <2> TAKE j \in 1 .. w1
  <2>1. /\ \A x \in 1 .. w : (Own(k) \o more)[x] = Own(k)[x]
        /\ \A x \in 1 .. lm : (Own(k) \o more)[w + x] = more[x]
    <3>1. PICK o : o = Own(k)
      OBVIOUS
    <3>2. /\ \A x \in 1 .. Len(o) : (o \o more)[x] = o[x]
          /\ \A x \in 1 .. Len(more) : (o \o more)[Len(o) + x] = more[x]
      BY <1>5, <3>1, TextConcat
    <3>3. Len(o) = w /\ Len(more) = lm
      BY <1>3, <1>5, <3>1
    <3> QED BY <3>1, <3>2, <3>3, Zenon
  <2>2. CASE j <= w
    <3>1. j \in 1 .. w
      BY <2>2
    <3> QED BY <1>4, <1>11, <2>1, <3>1
  <2>3. CASE j > w
    <3>1. PICK x \in 1 .. lm : j = w + x
      <4>1. j - w \in 1 .. lm /\ j = w + (j - w)
        BY <1>3, <2>3
      <4> QED BY <4>1
    <3> QED BY <1>3, <1>11, <2>1, <3>1, ZenonT(40)
  <2> QED BY <2>2, <2>3
<1>13. Len(args') = TakenOf(format, k - 1) + w1
  <2>1. PICK la \in Nat : la = Len(args) /\ la = t + w
    BY <1>4, <1>9
  <2>2. la + lm = t + w1
    BY <1>3, <2>1, SMTT(40)
  <2> QED BY <1>8, <1>9, <2>1, <2>2
<1>14. /\ TextOf(format, args', k - 1) = TextOf(format, args, k - 1)
       /\ Settled(format, args', k - 1)
  <2>1. TakenOf(format, k - 1) <= Len(args)
    <3>1. PICK la \in Nat : la = Len(args)
      BY <1>6, TextLen
    <3> QED BY <1>5, <3>1
  <2> QED BY <1>2, <1>5, <1>6, <2>1, TextKept
<1>15. Behind(k, m1)' = Behind(k, m1)
  BY <1>7 DEF Behind
<1>16. Reading(k, m1, i1)'
  <2>1. /\ escape' /\ k \in 1 .. Count(format') /\ m1 \in 1 .. 6
        /\ i1 \in 0 .. (IF m1 = 6 THEN Len(format'.directives[k].long) ELSE 0)
    BY <1>2, <1>7
  <2>2. next' = (Behind(k, m1)' + i1) + 1
    BY <1>7, <1>15
  <2>3. Len(args') = TakenOf(format', k - 1) + StarsRead(format'.directives[k], m1)
    BY <1>1, <1>3, <1>7, <1>13
  <2>4. \A j \in 1 .. StarsRead(format'.directives[k], m1) : Own(k)'[j] \in Int
    BY <1>1, <1>3, <1>7, <1>12
  <2>5. spec' = Reads(format'.directives[k], Own(k)', m1, i1)
    BY <1>7, <1>11
  <2>6. Settled(format', args', k - 1)
        /\ out' = TextOf(format', args', k - 1) \o format'.directives[k].before
    BY <1>1, <1>2, <1>7, <1>14
  <2> QED BY <2>1, <2>2, <2>3, <2>4, <2>5, <2>6, Zenon DEF Reading
<1> QED BY <1>6, <1>7, <1>8, <1>16 DEF FormatRead

\* Flags that take no argument.
LEMMA FlagOnly ==
    ASSUME FormatRead, NEW k, NEW m, NEW i, Reading(k, m, i),
           NEW m1 \in 1 .. 6, NEW i1 \in 0 .. (IF m1 = 6 THEN Len(format.directives[k].long) ELSE 0),
           NEW newspec, NEW skip, Flag(newspec, skip), UNCHANGED args,
           next + skip = (Behind(k, m1) + i1) + 1,
           StarsRead(format.directives[k], m1) = StarsRead(format.directives[k], m),
           newspec = Reads(format.directives[k], Own(k), m1, i1)
    PROVE  FormatRead' /\ Reading(k, m1, i1)'
<1>1. PICK none : none = <<>>
  OBVIOUS
<1>2. IsText(none) /\ Len(none) = 0 /\ \A j \in 1 .. Len(none) : none[j] \in Int
  BY <1>1, EmptyText
<1>3. args' = args \o none
  BY <1>1, EmptyConcat DEF FormatRead
<1>4. StarsRead(format.directives[k], m) \in Nat
  BY DEF StarsRead
<1>5. StarsRead(format.directives[k], m1) = StarsRead(format.directives[k], m) + Len(none)
  BY <1>2, <1>4
<1>6. Own(k) \o none = Own(k)
  <2>1. k \in 1 .. Count(format)
        /\ Len(args) = TakenOf(format, k - 1) + StarsRead(format.directives[k], m)
    BY DEF Reading
  <2>2. IsText(Own(k))
    BY <1>4, <2>1, OwnIs
  <2> QED BY <1>1, <2>2, EmptyConcat
<1>7. newspec = Reads(format.directives[k], Own(k) \o none, m1, i1)
  BY <1>6
<1> QED BY <1>2, <1>3, <1>5, <1>7, FlagRead

State(padc, width, precision, lflag, alt) ==
    [padc |-> padc, width |-> width, precision |-> precision, lflag |-> lflag,
     altflag |-> alt # <<>>]
WidthThen(d, a) == IF d.prec # <<>> /\ ReadWidth(d, a) < 0 THEN 0 ELSE ReadWidth(d, a)

\* What is known after each part.
LEMMA ReadsIs ==
    ASSUME NEW d, NEW a, NEW i
    PROVE  /\ Reads(d, a, 1, i) = State(" ", -1, -1, i, <<>>)
           /\ Reads(d, a, 2, i) = State(Padding(d), -1, -1, i, <<>>)
           /\ Reads(d, a, 3, i) = State(Padding(d), -1, -1, i, d.alt)
           /\ Reads(d, a, 4, i) = State(Padding(d), ReadWidth(d, a), -1, i, d.alt)
           /\ Reads(d, a, 5, i) = State(Padding(d), WidthThen(d, a), -1, i, d.alt)
           /\ Reads(d, a, 6, i) = State(Padding(d), WidthThen(d, a), Precision(d, a), i, d.alt)
<1>1. /\ 1 < 2 /\ ~(2 < 2) /\ ~(3 < 2) /\ ~(4 < 2) /\ ~(5 < 2) /\ ~(6 < 2)
      /\ 1 < 4 /\ 2 < 4 /\ 3 < 4 /\ ~(4 < 4) /\ ~(5 < 4) /\ ~(6 < 4)
      /\ ~(4 > 4) /\ 5 > 4 /\ 6 > 4
      /\ 1 < 6 /\ 2 < 6 /\ 3 < 6 /\ 4 < 6 /\ 5 < 6 /\ ~(6 < 6)
      /\ ~(1 > 2) /\ ~(2 > 2) /\ 3 > 2 /\ 4 > 2 /\ 5 > 2 /\ 6 > 2
  OBVIOUS
<1>2. /\ (1 > 2 /\ d.alt # <<>>) = (<<>> # <<>>) /\ (2 > 2 /\ d.alt # <<>>) = (<<>> # <<>>)
      /\ (3 > 2 /\ d.alt # <<>>) = (d.alt # <<>>) /\ (4 > 2 /\ d.alt # <<>>) = (d.alt # <<>>)
      /\ (5 > 2 /\ d.alt # <<>>) = (d.alt # <<>>) /\ (6 > 2 /\ d.alt # <<>>) = (d.alt # <<>>)
  BY <1>1
<1>3. Reads(d, a, 1, i) = State(" ", -1, -1, i, <<>>)
  BY <1>1, <1>2, Zenon DEF Reads, State
<1>4. Reads(d, a, 2, i) = State(Padding(d), -1, -1, i, <<>>)
  BY <1>1, <1>2, Zenon DEF Reads, State
<1>5. Reads(d, a, 3, i) = State(Padding(d), -1, -1, i, d.alt)
  BY <1>1, <1>2, Zenon DEF Reads, State
<1>6. Reads(d, a, 4, i) = State(Padding(d), ReadWidth(d, a), -1, i, d.alt)
  BY <1>1, <1>2, Zenon DEF Reads, State
<1>7. /\ Reads(d, a, 5, i) = State(Padding(d), WidthThen(d, a), -1, i, d.alt)
      /\ Reads(d, a, 6, i) = State(Padding(d), WidthThen(d, a), Precision(d, a), i, d.alt)
  <2>1. /\ (IF 5 > 4 /\ d.prec # <<>> /\ ReadWidth(d, a) < 0 THEN 0 ELSE ReadWidth(d, a)) = WidthThen(d, a)
        /\ (IF 6 > 4 /\ d.prec # <<>> /\ ReadWidth(d, a) < 0 THEN 0 ELSE ReadWidth(d, a)) = WidthThen(d, a)
    BY <1>1, Zenon DEF WidthThen
  <2> QED BY <1>1, <1>2, <2>1, Zenon DEF Reads, State
<1> QED BY <1>3, <1>4, <1>5, <1>6, <1>7

WithPad(s, x)       == [s EXCEPT !.padc = x]
WithAlt(s)          == [s EXCEPT !.altflag = TRUE]
WithWidth(s, x)     == [s EXCEPT !.width = x]
OnlyWidth(s, x)     == [s EXCEPT !.width = x, !.precision = -1]
WithPrecision(s, x) == [s EXCEPT !.precision = x]
WithLong(s, x)      == [s EXCEPT !.lflag = x]
WidthOf(s)          == s.width

\* Its fields, one of them changed.
LEMMA StateIs ==
    ASSUME NEW p, NEW w, NEW q, NEW l, NEW t, NEW x
    PROVE  /\ WidthOf(State(p, w, q, l, t)) = w
           /\ WithPad(State(p, w, q, l, t), x) = State(x, w, q, l, t)
           /\ WithWidth(State(p, w, q, l, t), x) = State(p, x, q, l, t)
           /\ OnlyWidth(State(p, w, q, l, t), x) = State(p, x, -1, l, t)
           /\ WithPrecision(State(p, w, q, l, t), x) = State(p, w, x, l, t)
           /\ WithLong(State(p, w, q, l, t), x) = State(p, w, q, x, t)
<1>0. PICK s : s = State(p, w, q, l, t)
  OBVIOUS
<1>1. s.width = w
  BY <1>0 DEF State
<1>2. [s EXCEPT !.padc = x] = State(x, w, q, l, t)
  BY <1>0 DEF State
<1>4. [s EXCEPT !.width = x] = State(p, x, q, l, t)
  BY <1>0 DEF State
<1>5. [s EXCEPT !.width = x, !.precision = -1] = State(p, x, -1, l, t)
  <2>1. PICK minus : minus = -1
    OBVIOUS
  <2>2. PICK r : r = [s EXCEPT !.width = x]
    OBVIOUS
  <2>3. [r EXCEPT !.precision = minus] = State(p, x, minus, l, t)
    <3>1. r = State(p, x, q, l, t)
      BY <1>4, <2>2
    <3> QED BY <3>1 DEF State
  <2>4. [s EXCEPT !.width = x, !.precision = minus] = [r EXCEPT !.precision = minus]
    BY <2>2
  <2> QED BY <2>1, <2>3, <2>4, Zenon
<1>6. [s EXCEPT !.precision = x] = State(p, w, x, l, t)
  BY <1>0 DEF State
<1>7. [s EXCEPT !.lflag = x] = State(p, w, q, x, t)
  BY <1>0 DEF State
<1> QED BY <1>0, <1>1, <1>2, <1>4, <1>5, <1>6, <1>7, Zenon
     DEF WithPad, WithWidth, OnlyWidth, WithPrecision, WithLong, WidthOf

\* The # flag.
LEMMA AltIs ==
    ASSUME NEW p, NEW w, NEW q, NEW l, NEW t, NEW x, x # <<>>
    PROVE  WithAlt(State(p, w, q, l, t)) = State(p, w, q, l, x)
<1>0. PICK s : s = State(p, w, q, l, t)
  OBVIOUS
<1>1. (x # <<>>) = TRUE
  OBVIOUS
<1>2. State(p, w, q, l, x) =
        [padc |-> p, width |-> w, precision |-> q, lflag |-> l, altflag |-> TRUE]
  BY <1>1, Zenon DEF State
<1>3. PICK y : y = (t # <<>>)
  OBVIOUS
<1>4. s = [padc |-> p, width |-> w, precision |-> q, lflag |-> l, altflag |-> y]
  BY <1>0, <1>3, Zenon DEF State
<1>5. PICK yes : yes = TRUE
  OBVIOUS
<1>6. [s EXCEPT !.altflag = yes]
        = [padc |-> p, width |-> w, precision |-> q, lflag |-> l, altflag |-> yes]
  BY <1>4
<1> QED BY <1>0, <1>2, <1>5, <1>6, Zenon DEF WithAlt

\* A part left out changes nothing.
LEMMA ReadsNone ==
    ASSUME NEW d, NEW a
    PROVE  /\ d.pad = <<>> => Reads(d, a, 2, 0) = Reads(d, a, 1, 0)
           /\ d.alt = <<>> => Reads(d, a, 3, 0) = Reads(d, a, 2, 0)
           /\ d.width = <<>> => Reads(d, a, 4, 0) = Reads(d, a, 3, 0)
           /\ d.prec = <<>> => Reads(d, a, 5, 0) = Reads(d, a, 4, 0)
           /\ d.prec = <<>> => Reads(d, a, 6, 0) = Reads(d, a, 5, 0)
<1>1. d.pad = <<>> => Padding(d) = " "
  BY DEF Padding
<1>2. d.width = <<>> => ReadWidth(d, a) = -1
  BY DEF ReadWidth
<1>3. d.prec = <<>> => WidthThen(d, a) = ReadWidth(d, a)
  BY DEF WidthThen
<1>4. d.prec = <<>> => Precision(d, a) = -1
  <2>1. d.prec = <<>> => ~Starred(d.prec)
    <3>1. <<>> # <<"*">>
      OBVIOUS
    <3> QED BY <3>1 DEF Starred
  <2> QED BY <2>1 DEF Precision
<1>5. PICK p, w, v, q, minus :
        p = Padding(d) /\ w = ReadWidth(d, a) /\ v = WidthThen(d, a) /\ q = Precision(d, a)
        /\ minus = -1
  OBVIOUS
<1>6. /\ Reads(d, a, 1, 0) = State(" ", minus, minus, 0, <<>>)
      /\ Reads(d, a, 2, 0) = State(p, minus, minus, 0, <<>>)
      /\ Reads(d, a, 3, 0) = State(p, minus, minus, 0, d.alt)
      /\ Reads(d, a, 4, 0) = State(p, w, minus, 0, d.alt)
      /\ Reads(d, a, 5, 0) = State(p, v, minus, 0, d.alt)
      /\ Reads(d, a, 6, 0) = State(p, v, q, 0, d.alt)
  BY <1>5, ReadsIs, ZenonT(40)
<1>7. d.pad = <<>> => Reads(d, a, 2, 0) = Reads(d, a, 1, 0)
  BY <1>1, <1>5, <1>6, Zenon
<1>8. d.alt = <<>> => Reads(d, a, 3, 0) = Reads(d, a, 2, 0)
  BY <1>6, Zenon
<1>9. d.width = <<>> => Reads(d, a, 4, 0) = Reads(d, a, 3, 0)
  BY <1>2, <1>5, <1>6, Zenon
<1>10. d.prec = <<>> => Reads(d, a, 5, 0) = Reads(d, a, 4, 0)
  BY <1>3, <1>5, <1>6, Zenon
<1>11. d.prec = <<>> => Reads(d, a, 6, 0) = Reads(d, a, 5, 0)
  BY <1>4, <1>5, <1>6, Zenon
<1> QED BY <1>7, <1>8, <1>9, <1>10, <1>11, Zenon

\* What each flag makes of it.
LEMMA ReadsFlag ==
    ASSUME NEW d, NEW a, NEW s
    PROVE  /\ d.pad # <<>> /\ s = Reads(d, a, 1, 0)
                => [s EXCEPT !.padc = d.pad[1]] = Reads(d, a, 2, 0)
           /\ d.alt # <<>> /\ s = Reads(d, a, 2, 0)
                => [s EXCEPT !.altflag = TRUE] = Reads(d, a, 3, 0)
           /\ d.prec # <<>> /\ s = Reads(d, a, 4, 0)
                => [s EXCEPT !.width = IF @ < 0 THEN 0 ELSE @] = Reads(d, a, 5, 0)
<1>0. PICK p, w, v, q, minus, x, t :
        p = Padding(d) /\ w = ReadWidth(d, a) /\ v = WidthThen(d, a) /\ q = Precision(d, a)
        /\ minus = -1 /\ x = d.pad[1] /\ t = d.alt
  OBVIOUS
<1>1. ASSUME d.pad # <<>>, s = Reads(d, a, 1, 0)
      PROVE  [s EXCEPT !.padc = d.pad[1]] = Reads(d, a, 2, 0)
  <2>1. p = x
    BY <1>0, <1>1 DEF Padding
  <2>5. PICK none, blank : none = <<>> /\ blank = " "
    OBVIOUS
  <2>2. s = State(blank, minus, minus, 0, none)
    BY <1>0, <1>1, <2>5, ReadsIs, Zenon
  <2>3. WithPad(s, x) = State(x, minus, minus, 0, none)
    BY <2>2, StateIs
  <2>4. Reads(d, a, 2, 0) = State(x, minus, minus, 0, none)
    BY <1>0, <2>1, <2>5, ReadsIs, Zenon
  <2> QED BY <1>0, <2>3, <2>4, Zenon DEF WithPad
<1>2. ASSUME d.alt # <<>>, s = Reads(d, a, 2, 0)
      PROVE  [s EXCEPT !.altflag = TRUE] = Reads(d, a, 3, 0)
  <2>5. PICK none : none = <<>>
    OBVIOUS
  <2>1. s = State(p, minus, minus, 0, none) /\ Reads(d, a, 3, 0) = State(p, minus, minus, 0, t)
    BY <1>0, <1>2, <2>5, ReadsIs, Zenon
  <2>2. t # <<>>
    BY <1>0, <1>2
  <2>3. WithAlt(s) = State(p, minus, minus, 0, t)
    BY <2>1, <2>2, AltIs
  <2> QED BY <2>1, <2>3, Zenon DEF WithAlt
<1>3. ASSUME d.prec # <<>>, s = Reads(d, a, 4, 0)
      PROVE  [s EXCEPT !.width = IF @ < 0 THEN 0 ELSE @] = Reads(d, a, 5, 0)
  <2>1. v = IF w < 0 THEN 0 ELSE w
    BY <1>0, <1>3 DEF WidthThen
  <2>2. s = State(p, w, minus, 0, t) /\ Reads(d, a, 5, 0) = State(p, v, minus, 0, t)
    BY <1>0, <1>3, ReadsIs, Zenon
  <2>3. s.width = w
    BY <2>2 DEF State
  <2>4. WithWidth(s, v) = State(p, v, minus, 0, t)
    BY <2>2, StateIs
  <2>5. [s EXCEPT !.width = IF @ < 0 THEN 0 ELSE @] = WithWidth(s, v)
    BY <2>1, <2>3, Zenon DEF WithWidth
  <2> QED BY <2>2, <2>4, <2>5, Zenon
<1> QED BY <1>1, <1>2, <1>3

MoreLong(s) == [s EXCEPT !.lflag = @ + 1]

\* One l more.
LEMMA ReadsMore ==
    ASSUME NEW d, NEW a, NEW i, NEW s, s = Reads(d, a, 6, i)
    PROVE  MoreLong(s) = Reads(d, a, 6, i + 1)
<1>0. PICK p, v, q, t :
        p = Padding(d) /\ v = WidthThen(d, a) /\ q = Precision(d, a) /\ t = d.alt
  OBVIOUS
<1>1. PICK i1 : i1 = i + 1
  OBVIOUS
<1>2. s = State(p, v, q, i, t) /\ Reads(d, a, 6, i1) = State(p, v, q, i1, t)
  BY <1>0, ReadsIs, Zenon
<1>3. s.lflag = i
  BY <1>2 DEF State
<1>4. WithLong(s, i1) = State(p, v, q, i1, t)
  BY <1>2, StateIs
<1>5. MoreLong(s) = WithLong(s, i1)
  BY <1>1, <1>3, Zenon DEF WithLong, MoreLong
<1> QED BY <1>1, <1>2, <1>4, <1>5, Zenon

\* A width, and then a precision: a number, or the next argument.
LEMMA ReadsAmount ==
    ASSUME NEW d, NEW a, NEW b_, NEW v \in Int
    PROVE  /\ d.width # <<>> /\ Width(d, b_) = v /\ spec = Reads(d, a, 3, 0)
                => process_precision(v) = Reads(d, b_, 4, 0)
           /\ d.prec # <<>> /\ Precision(d, b_) = v /\ spec = Reads(d, a, 5, 0)
              /\ ReadWidth(d, b_) = ReadWidth(d, a) /\ ReadWidth(d, a) \in Int
                => process_precision(v) = Reads(d, b_, 6, 0)
<1>1. PICK p, minus, t : p = Padding(d) /\ minus = -1 /\ t = d.alt
  OBVIOUS
<1>3. ASSUME d.width # <<>>, Width(d, b_) = v, spec = Reads(d, a, 3, 0)
      PROVE  process_precision(v) = Reads(d, b_, 4, 0)
  <2>1. spec = State(p, minus, minus, 0, t)
    BY <1>1, <1>3, ReadsIs, Zenon
  <2>2. spec.width = minus
    BY <2>1 DEF State
  <2>3. spec.width < 0
    BY <1>1, <2>2
  <2>4. OnlyWidth(spec, v) = State(p, v, -1, 0, t)
    BY <2>1, StateIs
  <2>5. process_precision(v) = State(p, v, -1, 0, t)
    BY <2>3, <2>4, Zenon DEF process_precision, OnlyWidth
  <2>6. ReadWidth(d, b_) = v
    BY <1>3 DEF ReadWidth
  <2>7. Reads(d, b_, 4, 0) = State(p, v, -1, 0, t)
    BY <1>1, <2>6, ReadsIs, Zenon
  <2> QED BY <2>5, <2>7, Zenon
<1>5. d.width # <<>> /\ Width(d, b_) = v /\ spec = Reads(d, a, 3, 0)
        => process_precision(v) = Reads(d, b_, 4, 0)
  BY <1>3
<1>6. d.prec # <<>> /\ Precision(d, b_) = v /\ spec = Reads(d, a, 5, 0)
      /\ ReadWidth(d, b_) = ReadWidth(d, a) /\ ReadWidth(d, a) \in Int
        => process_precision(v) = Reads(d, b_, 6, 0)
  <2>0. HAVE d.prec # <<>> /\ Precision(d, b_) = v /\ spec = Reads(d, a, 5, 0)
             /\ ReadWidth(d, b_) = ReadWidth(d, a) /\ ReadWidth(d, a) \in Int
  <2>1. PICK w : w = WidthThen(d, a)
    OBVIOUS
  <2>2. PICK r \in Int : r = ReadWidth(d, a)
    BY <2>0
  <2>3. w = (IF r < 0 THEN 0 ELSE r) /\ WidthThen(d, b_) = (IF r < 0 THEN 0 ELSE r)
    BY <2>0, <2>1, <2>2, Zenon DEF WidthThen
  <2>4. ~(w < 0) /\ WidthThen(d, b_) = w
    BY <2>3
  <2>5. spec = State(p, w, minus, 0, t)
    BY <1>1, <2>0, <2>1, ReadsIs, Zenon
  <2>6. spec.width = w
    BY <2>5 DEF State
  <2>7. WithPrecision(spec, v) = State(p, w, v, 0, t)
    BY <2>5, StateIs
  <2>8. process_precision(v) = State(p, w, v, 0, t)
    BY <2>4, <2>6, <2>7, Zenon DEF process_precision, WithPrecision
  <2>9. Reads(d, b_, 6, 0) = State(p, w, v, 0, t)
    BY <1>1, <2>0, <2>4, ReadsIs, Zenon
  <2> QED BY <2>8, <2>9, Zenon
<1> QED BY <1>5, <1>6, Zenon

DigitsEnd == Max({j \in next .. Len(fmt) : \A k \in next .. j : fmt[k] \in Decimal})

AllDigits(s) == \A j \in 1 .. Len(s) : s[j] \in Decimal
LiesAt(p, s) == \A j \in 1 .. Len(s) : p + j \in 1 .. Len(fmt) /\ fmt[p + j] = s[j]

\* All the digits of a number are read, and nothing else.
LEMMA DigitsRead ==
    ASSUME NEW s, IsText(s), Len(s) > 0, AllDigits(s),
           IsText(fmt), NEW p \in Nat, next = p + 1, LiesAt(p, s),
           CharAt((p + Len(s)) + 1) \notin Decimal
    PROVE  SubSeq(fmt, next, DigitsEnd) = s /\ DigitsEnd + (1 - next) = Len(s)
<1>0. /\ \A j \in 1 .. Len(s) : s[j] \in Decimal
      /\ \A j \in 1 .. Len(s) : p + j \in 1 .. Len(fmt) /\ fmt[p + j] = s[j]
  BY DEF AllDigits, LiesAt
<1> DEFINE S == {j \in next .. Len(fmt) : \A k \in next .. j : fmt[k] \in Decimal}
<1>1. PICK l \in Nat, all \in Nat, x \in Nat : l = Len(s) /\ all = Len(fmt) /\ x = p + l /\ l > 0
  <2>1. Len(s) \in Nat /\ Len(fmt) \in Nat
    BY TextLen
  <2>2. p + Len(s) \in Nat
    BY <2>1
  <2> QED BY <2>1, <2>2
<1>2. x \in 1 .. all /\ next = p + 1
  BY <1>0, <1>1
<1>3. x \in S
  <2>1. x \in next .. Len(fmt)
    BY <1>1, <1>2
  <2>2. ASSUME NEW k \in next .. x PROVE fmt[k] \in Decimal
    <3>1. PICK j \in 1 .. l : k = p + j
      <4>1. k - p \in 1 .. l /\ k = p + (k - p)
        BY <1>1, <1>2
      <4> QED BY <4>1
    <3> QED BY <1>0, <1>1, <3>1
  <2> QED BY <2>1, <2>2
<1>4. ASSUME NEW y \in S PROVE x >= y
  <2>1. y \in p + 1 .. all /\ \A k \in p + 1 .. y : fmt[k] \in Decimal
    BY <1>1
  <2>2. CASE y > x
    <3>1. x + 1 \in p + 1 .. y /\ ~(x + 1 > all)
      BY <1>1, <2>1, <2>2
    <3>2. fmt[x + 1] \in Decimal
      BY <2>1, <3>1
    <3>3. CharAt(x + 1) = fmt[x + 1]
      BY <1>1, <3>1 DEF CharAt
    <3>4. CharAt(x + 1) \notin Decimal
      BY <1>1
    <3> QED BY <3>2, <3>3, <3>4
  <2> QED BY <1>1, <2>1, <2>2
<1>5. S \subseteq Int
  BY <1>1
<1>6. Max(S) = x
  <2> HIDE DEF S
  <2> QED BY <1>3, <1>4, <1>5, MaxIs
<1>7. SubSeq(fmt, next, x) = s
  <2>1. PICK m : m = next
    OBVIOUS
  <2>2. m \in 1 .. Len(fmt) + 1 /\ x \in m - 1 .. Len(fmt) /\ x - m + 1 = l
    BY <1>1, <1>2, <2>1
  <2>3. /\ IsText(SubSeq(fmt, m, x)) /\ Len(SubSeq(fmt, m, x)) = x - m + 1
        /\ \A i \in 1 .. x - m + 1 : SubSeq(fmt, m, x)[i] = fmt[m + i - 1]
    BY <2>2, TextSlice
  <2>4. \A i \in 1 .. l : m + i - 1 = p + i
    BY <1>1, <2>1
  <2>5. PICK u : u = SubSeq(fmt, m, x)
    OBVIOUS
  <2>6. IsText(u) /\ Len(u) = l /\ \A i \in 1 .. l : u[i] = s[i]
    BY <1>0, <1>1, <2>2, <2>3, <2>4, <2>5
  <2>7. u = s
    BY <1>1, <2>6, SameText
  <2> QED BY <2>1, <2>5, <2>7
<1>8. x + (1 - next) = l
  BY <1>1
<1>9. DigitsEnd = x
  BY <1>6, Zenon DEF DigitsEnd
<1> QED BY <1>1, <1>7, <1>8, <1>9

\* The digits of a number are one flag.
LEMMA DigitsFlag ==
    ASSUME WidthDigits
    PROVE  /\ Flag(process_precision(Number(SubSeq(fmt, next, DigitsEnd))), DigitsEnd + (1 - next))
           /\ UNCHANGED args
<1> DEFINE S == {j \in next .. Len(fmt) : \A k \in next .. j : fmt[k] \in Decimal}
<1>1. LET last == Max(S)
      IN  Flag(process_precision(Number(SubSeq(fmt, next, last))), last + 1 - next)
  BY Zenon DEF WidthDigits
<1>2. UNCHANGED args
  BY DEF WidthDigits
<1>3. DigitsEnd = Max(S)
  BY Zenon DEF DigitsEnd
<1> HIDE DEF S
<1>4. Flag(process_precision(Number(SubSeq(fmt, next, Max(S)))), Max(S) + (1 - next))
  BY <1>1, Zenon
<1> QED BY <1>2, <1>3, <1>4, Zenon

\* Width, precision and length are texts.
LEMMA DirectiveTexts ==
    ASSUME NEW d, IsDirective(d)
    PROVE  IsText(d.width) /\ IsText(d.prec) /\ IsText(d.long)
<1>1. 4 \in 1 .. 8 /\ 6 \in 1 .. 8 /\ 7 \in 1 .. 8
  OBVIOUS
<1>2. Parts(d)[4] = d.width /\ Parts(d)[6] = d.prec /\ Parts(d)[7] = d.long
  BY PartsAre, Zenon
<1>3. \A m \in 1 .. 8 : IsText(Parts(d)[m])
  BY PartsAre, Zenon
<1> QED BY <1>1, <1>2, <1>3

\* While a directive is read.
LEMMA ReadingIs ==
    ASSUME FormatRead, NEW k, NEW m, NEW i, Reading(k, m, i)
    PROVE  /\ k \in 1 .. Count(format) /\ m \in 1 .. 6 /\ m \in 1 .. 7 /\ i \in Nat /\ escape
           /\ IsDirective(format.directives[k])
           /\ Behind(k, m) \in Nat /\ next = (Behind(k, m) + i) + 1
           /\ ch = CharAt((Behind(k, m) + i) + 1)
           /\ StarsRead(format.directives[k], m) \in Nat
           /\ IsText(Own(k)) /\ Len(Own(k)) = StarsRead(format.directives[k], m)
<1>1. k \in 1 .. Count(format) /\ m \in 1 .. 6 /\ escape /\ next = (Behind(k, m) + i) + 1
      /\ Len(args) = TakenOf(format, k - 1) + StarsRead(format.directives[k], m)
      /\ i \in 0 .. (IF m = 6 THEN Len(format.directives[k].long) ELSE 0)
  BY DEF Reading
<1>2. m \in 1 .. 7 /\ i \in Nat
  BY <1>1
<1>3. IsDirective(format.directives[k])
  BY <1>1, Here
<1>4. Behind(k, m) \in Nat
  BY <1>1, <1>2, PartAhead
<1>5. StarsRead(format.directives[k], m) \in Nat
  BY DEF StarsRead
<1>6. IsText(Own(k)) /\ Len(Own(k)) = StarsRead(format.directives[k], m)
  BY <1>1, <1>5, OwnIs
<1>7. ch = CharAt((Behind(k, m) + i) + 1)
  BY <1>1, CharIs
<1> QED BY <1>1, <1>2, <1>3, <1>4, <1>5, <1>6, <1>7

\* A part of one character lies ahead.
LEMMA OneAhead ==
    ASSUME FormatRead, NEW k, NEW m \in 1 .. 5, NEW m1, m1 = m + 1, Reading(k, m, 0),
           NEW c, Parts(format.directives[k])[m1] = <<c>>
    PROVE  ch = c /\ next + 1 = (Behind(k, m1) + 0) + 1
<1>1. PICK p \in Nat : p = Behind(k, m) /\ next = (p + 0) + 1 /\ ch = CharAt((p + 0) + 1)
  BY ReadingIs
<1>2. k \in 1 .. Count(format) /\ m \in 1 .. 7
  BY ReadingIs
<1>3. CharAt(p + 1) = c /\ Behind(k, m1) = p + 1
  BY <1>1, <1>2, PartOne
<1>4. (p + 0) + 1 = p + 1 /\ ((p + 0) + 1) + 1 = ((p + 1) + 0) + 1
  OBVIOUS
<1> QED BY <1>1, <1>3, <1>4

\* The arguments taken by the flags up to each part.
LEMMA StarsAre ==
    ASSUME NEW d
    PROVE  /\ StarsRead(d, 1) = 0 /\ StarsRead(d, 2) = 0 /\ StarsRead(d, 3) = 0
           /\ StarsRead(d, 4) = (IF Starred(d.width) THEN 1 ELSE 0)
           /\ StarsRead(d, 5) = (IF Starred(d.width) THEN 1 ELSE 0)
           /\ StarsRead(d, 6) = StarsOf(d)
BY DEF StarsRead, StarsOf

\* A part left out is behind before it is met.
LEMMA PartSkipped ==
    ASSUME FormatRead, NEW k, NEW m \in 1 .. 5, NEW m1, m1 = m + 1, Reading(k, m, 0),
           Parts(format.directives[k])[m1] = <<>>
    PROVE  Reading(k, m1, 0)
<1>1. PICK d : d = format.directives[k]
  OBVIOUS
<1>2. IsDirective(d) /\ k \in 1 .. Count(format)
  BY <1>1, ReadingIs
<1>3. <<>> # <<"*">> /\ <<>> # <<".">>
  OBVIOUS
<1>9. /\ Parts(d)[2] = d.pad /\ Parts(d)[3] = d.alt /\ Parts(d)[4] = d.width
      /\ Parts(d)[5] = (IF d.prec = <<>> THEN <<>> ELSE <<".">>) /\ Parts(d)[6] = d.prec
  BY <1>2, PartsAre, Zenon
<1>10. Parts(d)[m1] = <<>>
  BY <1>1
<1>4. m \in {1, 2, 3, 4, 5}
  OBVIOUS
<1>5. PICK a : a = Own(k)
  OBVIOUS
<1>6. StarsRead(d, m1) = StarsRead(d, m) /\ Reads(d, a, m1, 0) = Reads(d, a, m, 0)
  <2>1. CASE m = 1
    <3>1. m1 = 2 /\ d.pad = <<>>
      BY <1>9, <1>10, <2>1
    <3> QED BY <2>1, <3>1, ReadsNone, StarsAre
  <2>2. CASE m = 2
    <3>1. m1 = 3 /\ d.alt = <<>>
      BY <1>9, <1>10, <2>2
    <3> QED BY <2>2, <3>1, ReadsNone, StarsAre
  <2>3. CASE m = 3
    <3>1. m1 = 4 /\ d.width = <<>>
      BY <1>9, <1>10, <2>3
    <3>2. ~Starred(d.width)
      BY <1>3, <3>1 DEF Starred
    <3> QED BY <2>3, <3>1, <3>2, ReadsNone, StarsAre
  <2>4. CASE m = 4
    <3>1. m1 = 5 /\ d.prec = <<>>
      <4>1. m1 = 5
        BY <2>4
      <4>2. Parts(d)[5] = <<>>
        BY <1>10, <4>1, Zenon
      <4>3. Parts(d)[5] = (IF d.prec = <<>> THEN <<>> ELSE <<".">>)
        BY <1>9
      <4>4. CASE d.prec # <<>>
        <5>1. Parts(d)[5] = <<".">>
          BY <4>3, <4>4, Zenon
        <5> QED BY <1>3, <4>2, <5>1, Zenon
      <4> QED BY <4>1, <4>4, Zenon
    <3> QED BY <2>4, <3>1, ReadsNone, StarsAre
  <2>5. CASE m = 5
    <3>1. m1 = 6 /\ d.prec = <<>>
      BY <1>9, <1>10, <2>5
    <3>2. ~Starred(d.prec)
      BY <1>3, <3>1 DEF Starred
    <3>3. StarsOf(d) = (IF Starred(d.width) THEN 1 ELSE 0)
      BY <3>2 DEF StarsOf
    <3> QED BY <2>5, <3>1, <3>3, ReadsNone, StarsAre
  <2> QED BY <1>4, <2>1, <2>2, <2>3, <2>4, <2>5
<1>7. Behind(k, m1) = Behind(k, m)
  <2>1. m \in 1 .. 7
    OBVIOUS
  <2> QED BY <1>2, <2>1, PartNone
<1>8. m1 \in 1 .. 6 /\ 0 \in 0 .. (IF m1 = 6 THEN Len(format.directives[k].long) ELSE 0)
  <2>1. Len(d.long) \in Nat
    <3> QED BY <1>2, DirectiveTexts, TextLen
  <2> QED BY <1>1, <2>1
<1> QED BY <1>1, <1>5, <1>6, <1>7, <1>8 DEF Reading

\* The padding flag is read.
LEMMA PadStep ==
    ASSUME FormatRead, Running, Next, NEW k, Reading(k, 1, 0), format.directives[k].pad # <<>>
    PROVE  FormatRead' /\ Reading(k, 2, 0)'
<1>1. PICK d : d = format.directives[k]
  OBVIOUS
<1>2. IsDirective(d) /\ escape
  BY <1>1, ReadingIs
<1>3. PICK c \in {"-", "0"} : d.pad = <<c>>
  BY <1>1, <1>2 DEF IsDirective
<1>4. Parts(d)[2] = <<c>> /\ c = d.pad[1]
  <2>1. Parts(d)[2] = d.pad
    BY <1>2, PartsAre, Zenon
  <2> QED BY <1>3, <2>1
<1>5. 1 \in 1 .. 5 /\ 2 = 1 + 1 /\ 2 \in 1 .. 6 /\ 0 \in 0 .. 0 /\ 2 # 6
  OBVIOUS
<1>6. ch = c /\ next + 1 = (Behind(k, 2) + 0) + 1
  BY <1>1, <1>4, <1>5, OneAhead, Zenon
<1>7. Flag([spec EXCEPT !.padc = ch], 1) /\ UNCHANGED args
  BY <1>2, <1>6, InsideStep
<1>8. spec = Reads(d, Own(k), 1, 0)
  BY <1>1 DEF Reading
<1>9. PICK s : s = [spec EXCEPT !.padc = ch]
  OBVIOUS
<1>10. s = Reads(d, Own(k), 2, 0)
  BY <1>1, <1>4, <1>6, <1>8, <1>9, ReadsFlag
<1>11. StarsRead(d, 2) = StarsRead(d, 1)
  BY StarsAre
<1>12. Flag(s, 1)
  BY <1>7, <1>9
<1> QED BY <1>1, <1>5, <1>6, <1>7, <1>10, <1>11, <1>12, FlagOnly

\* # is read.
LEMMA AltStep ==
    ASSUME FormatRead, Running, Next, NEW k, Reading(k, 2, 0), format.directives[k].alt # <<>>
    PROVE  FormatRead' /\ Reading(k, 3, 0)'
<1>1. PICK d : d = format.directives[k]
  OBVIOUS
<1>2. IsDirective(d) /\ escape
  BY <1>1, ReadingIs
<1>3. d.alt = <<"#">>
  BY <1>1, <1>2 DEF IsDirective
<1>4. Parts(d)[3] = <<"#">>
  BY <1>2, <1>3, PartsAre
<1>5. 2 \in 1 .. 5 /\ 3 = 2 + 1 /\ 3 \in 1 .. 6 /\ 0 \in 0 .. 0 /\ 3 # 6
  OBVIOUS
<1>6. ch = "#" /\ next + 1 = (Behind(k, 3) + 0) + 1
  BY <1>1, <1>4, <1>5, OneAhead, Zenon
<1>7. Flag([spec EXCEPT !.altflag = TRUE], 1) /\ UNCHANGED args
  BY <1>2, <1>6, InsideStep
<1>8. spec = Reads(d, Own(k), 2, 0)
  BY <1>1 DEF Reading
<1>9. PICK s : s = [spec EXCEPT !.altflag = TRUE]
  OBVIOUS
<1>10. s = Reads(d, Own(k), 3, 0)
  BY <1>1, <1>8, <1>9, ReadsFlag
<1>11. StarsRead(d, 3) = StarsRead(d, 2)
  BY StarsAre
<1>12. Flag(s, 1)
  BY <1>7, <1>9
<1> QED BY <1>1, <1>5, <1>6, <1>7, <1>10, <1>11, <1>12, FlagOnly

\* The . of a precision is read; no width becomes a width of 0.
LEMMA DotStep ==
    ASSUME FormatRead, Running, Next, NEW k, Reading(k, 4, 0), format.directives[k].prec # <<>>
    PROVE  FormatRead' /\ Reading(k, 5, 0)'
<1>1. PICK d : d = format.directives[k]
  OBVIOUS
<1>2. IsDirective(d) /\ escape
  BY <1>1, ReadingIs
<1>4. Parts(d)[5] = <<".">>
  BY <1>1, <1>2, PartsAre
<1>5. 4 \in 1 .. 5 /\ 5 = 4 + 1 /\ 5 \in 1 .. 6 /\ 0 \in 0 .. 0 /\ 5 # 6
  OBVIOUS
<1>6. ch = "." /\ next + 1 = (Behind(k, 5) + 0) + 1
  BY <1>1, <1>4, <1>5, OneAhead, Zenon
<1>7. Flag([spec EXCEPT !.width = IF @ < 0 THEN 0 ELSE @], 1) /\ UNCHANGED args
  BY <1>2, <1>6, InsideStep
<1>8. spec = Reads(d, Own(k), 4, 0)
  BY <1>1 DEF Reading
<1>9. PICK s : s = [spec EXCEPT !.width = IF @ < 0 THEN 0 ELSE @]
  OBVIOUS
<1>10. s = Reads(d, Own(k), 5, 0)
  BY <1>1, <1>8, <1>9, ReadsFlag
<1>11. StarsRead(d, 5) = StarsRead(d, 4)
  BY StarsAre
<1>12. Flag(s, 1)
  BY <1>7, <1>9
<1> QED BY <1>1, <1>5, <1>6, <1>7, <1>10, <1>11, <1>12, FlagOnly

\* An l is read.
LEMMA LongStep ==
    ASSUME FormatRead, Running, Next, NEW k, NEW i, Reading(k, 6, i),
           i < Len(format.directives[k].long)
    PROVE  FormatRead' /\ Reading(k, 6, i + 1)'
<1>1. PICK d, part : d = format.directives[k] /\ part = d.long
  OBVIOUS
<1>2. IsDirective(d) /\ escape /\ k \in 1 .. Count(format)
  BY <1>1, ReadingIs
<1>3. PICK p \in Nat, j \in Nat, l \in Nat :
        /\ p = Behind(k, 6) /\ j = i /\ l = Len(part)
        /\ next = (p + j) + 1 /\ ch = CharAt((p + j) + 1)
  <2>1. IsText(part)
    BY <1>1, <1>2, DirectiveTexts
  <2>2. Len(part) \in Nat
    BY <2>1, TextLen
  <2> QED BY <2>2, ReadingIs
<1>4. j + 1 \in 1 .. l /\ j + 1 \in 0 .. l /\ (p + j) + 1 = p + (j + 1)
      /\ ((p + j) + 1) + 1 = (p + (j + 1)) + 1
  BY <1>1, <1>3
<1>5. ch = "l"
  <2>1. 6 \in 1 .. 7 /\ 7 = 6 + 1
    OBVIOUS
  <2>2. part = Parts(d)[7]
    BY <1>1, <1>2, PartsAre
  <2>3. Shows(k, 6, part)
    BY <1>1, <1>2, <2>1, <2>2, PartHead, Zenon
  <2>4. CharAt(p + (j + 1)) = part[j + 1]
    BY <1>3, <1>4, <2>3 DEF Shows
  <2>5. part[j + 1] = "l"
    <3>1. part \in {<<>>, <<"l">>, <<"l", "l">>}
      BY <1>1, <1>2 DEF IsDirective
    <3> QED BY <1>3, <1>4, <3>1, SMTT(30)
  <2> QED BY <1>3, <1>4, <2>4, <2>5, Zenon
<1>6. Flag([spec EXCEPT !.lflag = @ + 1], 1) /\ UNCHANGED args
  BY <1>2, <1>5, InsideStep
<1>7. spec = Reads(d, Own(k), 6, j)
  BY <1>1, <1>3 DEF Reading
<1>8. PICK s : s = [spec EXCEPT !.lflag = @ + 1]
  OBVIOUS
<1>9. s = Reads(d, Own(k), 6, j + 1)
  <2>1. MoreLong(spec) = Reads(d, Own(k), 6, j + 1)
    BY <1>7, ReadsMore
  <2> QED BY <1>8, <2>1, Zenon DEF MoreLong
<1>10. PICK j1 : j1 = j + 1
  OBVIOUS
<1>11. next + 1 = (Behind(k, 6) + j1) + 1
  BY <1>3, <1>4, <1>10
<1>12. 6 \in 1 .. 6 /\ j1 \in 0 .. (IF 6 = 6 THEN Len(format.directives[k].long) ELSE 0)
  BY <1>1, <1>3, <1>4, <1>10
<1>13. s = Reads(format.directives[k], Own(k), 6, j1) /\ Flag(s, 1)
  BY <1>1, <1>6, <1>8, <1>9, <1>10
<1>14. Reading(k, 6, j)
  BY <1>3
<1>15. FormatRead' /\ Reading(k, 6, j1)'
  BY <1>6, <1>11, <1>12, <1>13, <1>14, FlagOnly
<1> QED BY <1>3, <1>10, <1>15

\* A width or precision of digits starts with one that is not the 0 flag.
LEMMA AmountHead ==
    ASSUME NEW s, IsAmount(s), s # <<>>, ~Starred(s)
    PROVE  /\ IsText(s) /\ Len(s) > 0 /\ Len(s) \in Nat /\ Number(s) \in Nat
           /\ AllDigits(s)
           /\ s[1] \in Decimal \ {"0"}
<1>1. s \in Seq(Decimal) /\ Len(s) > 0 /\ s[1] # "0"
  BY DEF IsAmount, Starred
<1>2. AllDigits(s)
  BY <1>1 DEF AllDigits
<1>3. Len(s) \in Nat /\ 1 \in 1 .. Len(s)
  BY <1>1
<1>4. IsText(s) /\ Number(s) \in Nat
  BY AmountIs
<1> QED BY <1>1, <1>2, <1>3, <1>4

\* The digits of the amount in part m1 lie ahead.
LEMMA DigitsAhead ==
    ASSUME FormatRead, Running, Next, NEW k, NEW m \in {3, 5}, NEW m1, m1 = m + 1, Reading(k, m, 0),
           NEW s, s = Parts(format.directives[k])[m1], IsAmount(s), s # <<>>, ~Starred(s)
    PROVE  \E skip : /\ Flag(process_precision(Number(s)), skip) /\ UNCHANGED args
                     /\ next + skip = (Behind(k, m1) + 0) + 1
<1>1. PICK d : d = format.directives[k]
  OBVIOUS
<1>2. PICK p \in Nat, l \in Nat :
        p = Behind(k, m) /\ l = Len(s) /\ l > 0 /\ next = (p + 0) + 1 /\ ch = CharAt((p + 0) + 1)
  BY ReadingIs, AmountHead
<1>3. next = p + 1 /\ ch = CharAt(p + 1) /\ 1 \in 1 .. l
  BY <1>2
<1>4. k \in 1 .. Count(format) /\ escape /\ IsDirective(d)
  BY <1>1, ReadingIs
<1>5. m \in 1 .. 7 /\ m1 \in {4, 6}
  OBVIOUS
<1>6. IsText(s) /\ Len(s) > 0 /\ AllDigits(s) /\ s[1] \in Decimal \ {"0"}
  BY AmountHead
<1>7. Behind(k, m1) = p + l
  <2>1. PICK u \in Nat, v \in Nat, q \in Nat :
          u = Upto(d, m) /\ v = Upto(d, m1) /\ q = Mark(format, k) /\ v = u + l
    <3>1. Upto(d, m) \in Nat /\ Upto(d, m1) \in Nat /\ Upto(d, m1) = Upto(d, m) + l
      BY <1>1, <1>2, <1>4, <1>5, PartAhead
    <3>2. Mark(format, k) \in Nat
      BY <1>4, Here
    <3> QED BY <3>1, <3>2, Zenon
  <2>2. p = q + u /\ Behind(k, m1) = q + v
    BY <1>1, <1>2, <2>1 DEF Behind
  <2> QED BY <2>1, <2>2
<1>8. CharAt((p + Len(s)) + 1) \notin Decimal
  <2>1. CharAt(Behind(k, m1) + 1) \notin Decimal
    BY <1>4, <1>5, NotDigit
  <2> QED BY <1>2, <1>7, <2>1, Zenon
<1>9. LiesAt(p, s)
  <2>1. Follows(k, m, s)
    BY <1>4, <1>5, PartAhead
  <2> QED BY <1>2, <2>1, Zenon DEF Follows, LiesAt
<1>10. ch = s[1]
  <2>1. Shows(k, m, s)
    BY <1>4, <1>5, PartHead
  <2> QED BY <1>2, <1>3, <2>1 DEF Shows
<1>11. WidthDigits
  BY <1>4, <1>6, <1>10, InsideStep
<1>12. IsText(fmt)
  BY WrittenIs DEF FormatRead
<1>14. SubSeq(fmt, next, DigitsEnd) = s /\ DigitsEnd + (1 - next) = Len(s)
  BY <1>2, <1>3, <1>6, <1>8, <1>9, <1>12, DigitsRead
<1>15. Flag(process_precision(Number(SubSeq(fmt, next, DigitsEnd))), DigitsEnd + (1 - next))
       /\ UNCHANGED args
  BY <1>11, DigitsFlag, Zenon
<1>16. PICK skip : skip = DigitsEnd + (1 - next)
  OBVIOUS
<1>17. next + skip = (Behind(k, m1) + 0) + 1
  BY <1>2, <1>3, <1>7, <1>14, <1>16, SMTT(30)
<1>18. Flag(process_precision(Number(s)), skip)
  <2>1. PICK t : t = SubSeq(fmt, next, DigitsEnd)
    OBVIOUS
  <2>2. Flag(process_precision(Number(t)), skip)
    BY <1>15, <1>16, <2>1, Zenon
  <2>3. t = s
    BY <1>14, <2>1
  <2> QED BY <2>2, <2>3, Zenon
<1> QED BY <1>15, <1>17, <1>18, Zenon

\* The next argument is the amount.
LEMMA StarAhead ==
    ASSUME FormatRead, Running, Next, NEW k, NEW m \in {3, 5}, NEW m1, m1 = m + 1, Reading(k, m, 0),
           Starred(Parts(format.directives[k])[m1])
    PROVE  \E v \in Int :
             /\ Flag(process_precision(v), 1) /\ args' = args \o <<v>>
             /\ next + 1 = (Behind(k, m1) + 0) + 1
<1>1. Parts(format.directives[k])[m1] = <<"*">>
  BY DEF Starred
<1>2. m \in 1 .. 5
  OBVIOUS
<1>3. ch = "*" /\ next + 1 = (Behind(k, m1) + 0) + 1
  BY <1>1, <1>2, OneAhead, Zenon
<1>4. escape
  BY ReadingIs
<1>5. PICK v \in Ints : Flag(process_precision(v), 1) /\ args' = Append(args, v)
  BY <1>3, <1>4, InsideStep DEF Star
<1>6. v \in Int
  BY ArgumentsInt
<1>7. args' = args \o <<v>>
  BY <1>5, AppendIs DEF FormatRead
<1> QED BY <1>3, <1>5, <1>6, <1>7

\* A value behind the arguments a, and one of those.
LEMMA ArgumentAdded ==
    ASSUME NEW a, IsText(a), NEW v, NEW l \in Nat, Len(a) = l
    PROVE  (a \o <<v>>)[l + 1] = v /\ IsText(a \o <<v>>) /\ (l = 1 => (a \o <<v>>)[1] = a[1])
<1>1. PICK one : one = <<v>>
  OBVIOUS
<1>2. IsText(one) /\ Len(one) = 1 /\ one[1] = v /\ 1 \in 1 .. 1
  BY <1>1, Single
<1>3. /\ IsText(a \o one)
      /\ \A i \in 1 .. Len(a) : (a \o one)[i] = a[i]
      /\ \A i \in 1 .. Len(one) : (a \o one)[Len(a) + i] = one[i]
  BY <1>2, TextConcat
<1>4. (a \o one)[l + 1] = v
  BY <1>2, <1>3
<1>5. l = 1 => (a \o one)[1] = a[1]
  BY <1>2, <1>3
<1> QED BY <1>1, <1>3, <1>4, <1>5

\* The width is read: a number or an argument.
LEMMA WidthStep ==
    ASSUME FormatRead, Running, Next, NEW k, Reading(k, 3, 0), format.directives[k].width # <<>>
    PROVE  FormatRead' /\ Reading(k, 4, 0)'
<1>1. PICK d, a : d = format.directives[k] /\ a = Own(k)
  OBVIOUS
<1>2. IsDirective(d) /\ escape /\ IsText(a) /\ Len(a) = StarsRead(d, 3)
  BY <1>1, ReadingIs
<1>3. Parts(d)[4] = d.width /\ IsAmount(d.width)
  BY <1>2, PartsAre, Zenon DEF IsDirective
<1>4. 3 \in {3, 5} /\ 4 = 3 + 1 /\ 4 \in 1 .. 6 /\ 0 \in 0 .. 0 /\ 4 # 6
  OBVIOUS
<1>5. StarsRead(d, 3) = 0 /\ StarsRead(d, 4) = (IF Starred(d.width) THEN 1 ELSE 0)
  BY StarsAre
<1>6. spec = Reads(d, a, 3, 0)
  BY <1>1 DEF Reading
<1>7. 0 \in 0 .. (IF 4 = 6 THEN Len(format.directives[k].long) ELSE 0)
  BY <1>4, Zenon
<1>8. CASE Starred(d.width)
  <2>1. PICK v \in Int : /\ Flag(process_precision(v), 1) /\ args' = args \o <<v>>
                         /\ next + 1 = (Behind(k, 4) + 0) + 1
    BY <1>1, <1>3, <1>4, <1>8, StarAhead, Zenon
  <2>2. PICK one, b_, s : one = <<v>> /\ b_ = a \o <<v>> /\ s = process_precision(v)
    OBVIOUS
  <2>3. IsText(one) /\ Len(one) = 1 /\ \A j \in 1 .. Len(one) : one[j] \in Int
    BY <2>2, Single
  <2>4. b_[1] = v
    <3>1. PICK l \in Nat : l = Len(a) /\ l + 1 = 1
      BY <1>2, <1>5
    <3>2. b_[l + 1] = v
      BY <1>2, <2>2, <3>1, ArgumentAdded
    <3> QED BY <3>1, <3>2
  <2>5. Width(d, b_) = v
    BY <1>8, <2>4 DEF Width
  <2>6. s = Reads(d, b_, 4, 0)
    BY <1>1, <1>6, <2>2, <2>5, ReadsAmount
  <2>7. StarsRead(d, 4) = StarsRead(d, 3) + Len(one)
    BY <1>5, <1>8, <2>3
  <2>8. s = Reads(d, Own(k) \o one, 4, 0)
    BY <1>1, <2>2, <2>6, Zenon
  <2> QED BY <1>1, <1>4, <1>7, <2>1, <2>2, <2>3, <2>7, <2>8, FlagRead
<1>9. CASE ~Starred(d.width)
  <2>1. PICK skip : /\ Flag(process_precision(Number(d.width)), skip) /\ UNCHANGED args
                    /\ next + skip = (Behind(k, 4) + 0) + 1
    BY <1>1, <1>3, <1>4, <1>9, DigitsAhead, Zenon
  <2>2. PICK v \in Int : v = Number(d.width)
    BY <1>1, <1>3, <1>9, AmountHead
  <2>3. PICK s : s = process_precision(v)
    OBVIOUS
  <2>4. Width(d, a) = v
    BY <1>9, <2>2 DEF Width
  <2>5. s = Reads(d, a, 4, 0)
    BY <1>1, <1>6, <2>3, <2>4, ReadsAmount
  <2>6. StarsRead(d, 4) = StarsRead(d, 3)
    BY <1>5, <1>9
  <2>7. Flag(s, skip)
    BY <2>1, <2>2, <2>3
  <2> QED BY <1>1, <1>4, <1>7, <2>1, <2>5, <2>6, <2>7, FlagOnly
<1> QED BY <1>8, <1>9

\* The precision is read, and does not end up as the width.
LEMMA PrecisionStep ==
    ASSUME FormatRead, Running, Next, NEW k, Reading(k, 5, 0), format.directives[k].prec # <<>>
    PROVE  FormatRead' /\ Reading(k, 6, 0)'
<1>1. PICK d, a : d = format.directives[k] /\ a = Own(k)
  OBVIOUS
<1>2. IsDirective(d) /\ escape /\ IsText(a) /\ Len(a) = StarsRead(d, 5)
  BY <1>1, ReadingIs
<1>3. Parts(d)[6] = d.prec /\ IsAmount(d.prec) /\ IsAmount(d.width)
  BY <1>2, PartsAre, Zenon DEF IsDirective
<1>4. 5 \in {3, 5} /\ 6 = 5 + 1 /\ 6 \in 1 .. 6
  OBVIOUS
<1>5. StarsRead(d, 5) = (IF Starred(d.width) THEN 1 ELSE 0) /\ StarsRead(d, 6) = StarsOf(d)
  BY StarsAre
<1>6. spec = Reads(d, a, 5, 0) /\ \A j \in 1 .. StarsRead(d, 5) : a[j] \in Int
  BY <1>1 DEF Reading
<1>7. 0 \in 0 .. (IF 6 = 6 THEN Len(format.directives[k].long) ELSE 0)
  <2>1. Len(d.long) \in Nat
    BY <1>2, DirectiveTexts, TextLen
  <2> QED BY <1>1, <2>1
<1>10. ReadWidth(d, a) \in Int
  <2>1. Starred(d.width) => a[1] \in Int
    <3>1. ASSUME Starred(d.width) PROVE a[1] \in Int
      <4>1. 1 \in 1 .. StarsRead(d, 5)
        BY <1>5, <3>1
      <4> QED BY <1>6, <4>1
    <3> QED BY <3>1
  <2>2. Width(d, a) \in Int
    <3>1. ~Starred(d.width) => Number(d.width) \in Int
      BY <1>3, AmountIs
    <3> QED BY <2>1, <3>1 DEF Width
  <2> QED BY <2>2 DEF ReadWidth
<1>8. CASE Starred(d.prec)
  <2>1. PICK v \in Int : /\ Flag(process_precision(v), 1) /\ args' = args \o <<v>>
                         /\ next + 1 = (Behind(k, 6) + 0) + 1
    BY <1>1, <1>3, <1>4, <1>8, StarAhead, Zenon
  <2>2. PICK one, b_, s : one = <<v>> /\ b_ = a \o <<v>> /\ s = process_precision(v)
    OBVIOUS
  <2>3. IsText(one) /\ Len(one) = 1 /\ \A j \in 1 .. Len(one) : one[j] \in Int
    BY <2>2, Single
  <2>4. PICK l \in Nat : l = Len(a) /\ l = (IF Starred(d.width) THEN 1 ELSE 0)
    BY <1>2, <1>5
  <2>5. b_[l + 1] = v /\ (l = 1 => b_[1] = a[1])
    BY <1>2, <2>2, <2>4, ArgumentAdded
  <2>6. Precision(d, b_) = v
    <3>1. (IF Starred(d.width) THEN 2 ELSE 1) = l + 1
      BY <2>4
    <3>2. Precision(d, b_) = b_[IF Starred(d.width) THEN 2 ELSE 1]
      BY <1>8, Zenon DEF Precision
    <3> QED BY <2>5, <3>1, <3>2
  <2>7. ReadWidth(d, b_) = ReadWidth(d, a)
    <3>1. Width(d, b_) = Width(d, a)
      BY <2>4, <2>5 DEF Width
    <3> QED BY <3>1 DEF ReadWidth
  <2>8. s = Reads(d, b_, 6, 0)
    BY <1>1, <1>6, <1>10, <2>2, <2>6, <2>7, ReadsAmount
  <2>9. StarsRead(d, 6) = StarsRead(d, 5) + Len(one)
    BY <1>5, <1>8, <2>3 DEF StarsOf
  <2>10. s = Reads(d, Own(k) \o one, 6, 0)
    BY <1>1, <2>2, <2>8, Zenon
  <2> QED BY <1>1, <1>4, <1>7, <2>1, <2>2, <2>3, <2>9, <2>10, FlagRead
<1>9. CASE ~Starred(d.prec)
  <2>1. PICK skip : /\ Flag(process_precision(Number(d.prec)), skip) /\ UNCHANGED args
                    /\ next + skip = (Behind(k, 6) + 0) + 1
    BY <1>1, <1>3, <1>4, <1>9, DigitsAhead, Zenon
  <2>2. PICK v \in Int : v = Number(d.prec)
    BY <1>1, <1>3, <1>9, AmountHead
  <2>3. PICK s : s = process_precision(v)
    OBVIOUS
  <2>4. Precision(d, a) = v
    BY <1>1, <1>9, <2>2 DEF Precision
  <2>5. s = Reads(d, a, 6, 0)
    BY <1>1, <1>6, <1>10, <2>3, <2>4, ReadsAmount
  <2>6. StarsRead(d, 6) = StarsRead(d, 5)
    BY <1>5, <1>9 DEF StarsOf
  <2>7. Flag(s, skip)
    BY <2>1, <2>2, <2>3
  <2> QED BY <1>1, <1>4, <1>7, <2>1, <2>5, <2>6, <2>7, FlagOnly
<1> QED BY <1>8, <1>9

\* At the conversion, with all of the directive's flags read.
LEMMA ConversionMet ==
    ASSUME FormatRead, NEW k, NEW i, Reading(k, 6, i), i = Len(format.directives[k].long)
    PROVE  LET d == format.directives[k] IN
           /\ ch = d.conv /\ Behind(k, 7) \in Nat /\ next = Behind(k, 7) + 1
           /\ spec = Reads(d, Own(k), 6, Len(d.long))
           /\ Given(d, Own(k)) /\ Flagged
           /\ IsText(Own(k)) /\ Len(Own(k)) = StarsOf(d) /\ StarsOf(d) \in Nat
           /\ Len(args) = TakenOf(format, k - 1) + StarsOf(d)
<1>1. PICK d, a : d = format.directives[k] /\ a = Own(k)
  OBVIOUS
<1>2. IsDirective(d) /\ k \in 1 .. Count(format) /\ IsText(a) /\ Len(a) = StarsRead(d, 6)
  BY <1>1, ReadingIs
<1>3. StarsRead(d, 6) = StarsOf(d) /\ StarsOf(d) \in Nat
  BY StarsAre, UsesIs
<1>4. PICK p \in Nat, l \in Nat :
        p = Behind(k, 6) /\ l = Len(d.long) /\ i = l /\ next = (p + l) + 1
  BY <1>1, ReadingIs
<1>5. Behind(k, 7) = p + l
  <2>1. 6 \in 1 .. 7 /\ 7 = 6 + 1
    OBVIOUS
  <2>2. Parts(d)[7] = d.long
    BY <1>2, PartsAre, Zenon
  <2>3. PICK u \in Nat, v \in Nat, q \in Nat :
          u = Upto(d, 6) /\ v = Upto(d, 7) /\ q = Mark(format, k) /\ v = u + l
    <3>1. Upto(d, 6) \in Nat /\ Upto(d, 7) \in Nat /\ Upto(d, 7) = Upto(d, 6) + Len(Parts(d)[7])
      BY <1>1, <1>2, <2>1, PartAhead
    <3>2. Mark(format, k) \in Nat
      BY <1>2, Here
    <3> QED BY <1>4, <2>2, <3>1, <3>2, Zenon
  <2>4. p = q + u /\ Behind(k, 7) = q + v
    BY <1>1, <1>4, <2>3 DEF Behind
  <2>5. q + (u + l) = (q + u) + l
    BY <1>4, <2>3
  <2>6. v = u + l
    BY <2>3
  <2> QED BY <2>4, <2>5, <2>6, Zenon
<1>6. Behind(k, 7) \in Nat /\ next = Behind(k, 7) + 1
  BY <1>4, <1>5
<1>7. ch = d.conv
  <2>1. CharAt(Behind(k, 7) + 1) = d.conv
    BY <1>1, <1>2, ConversionAhead
  <2>2. ch = CharAt(Behind(k, 7) + 1)
    BY <1>6, CharIs
  <2> QED BY <2>1, <2>2
<1>8. /\ spec = Reads(d, a, 6, l)
      /\ Len(args) = TakenOf(format, k - 1) + StarsRead(d, 6)
      /\ \A j \in 1 .. StarsRead(d, 6) : a[j] \in Int
  BY <1>1, <1>4 DEF Reading
<1>9. Given(d, a)
  <2>1. ASSUME Starred(d.width) PROVE a[1] \in Int
    <3>1. 1 \in 1 .. StarsRead(d, 6)
      BY <1>3, <2>1 DEF StarsOf
    <3> QED BY <1>8, <3>1
  <2>2. ASSUME Starred(d.prec) PROVE a[IF Starred(d.width) THEN 2 ELSE 1] \in Int
    <3>1. (IF Starred(d.width) THEN 2 ELSE 1) \in 1 .. StarsRead(d, 6)
      BY <1>3, <2>2 DEF StarsOf
    <3> QED BY <1>8, <3>1
  <2> QED BY <2>1, <2>2 DEF Given
<1>10. Flagged
  <2>1. Reads(d, a, 6, l).width \in Int /\ Reads(d, a, 6, l).precision \in Int
    BY <1>2, <1>9, AmountsAgree
  <2>2. {"width", "precision"} \subseteq DOMAIN Reads(d, a, 6, l)
    BY DEF Reads
  <2> QED BY <1>8, <2>1, <2>2, Zenon DEF Flagged, FlagsOf
<1> QED BY <1>1, <1>2, <1>3, <1>4, <1>6, <1>7, <1>8, <1>9, <1>10, Zenon

\* Every conversion but % prints a text for its argument.
LEMMA ValueText ==
    ASSUME Flagged, Conversions, ch # "%"
    PROVE  \E text, v :
             /\ Convert(text, <<v>>) /\ IsText(text)
             /\ \/ ch = "c" /\ text = <<v>>
                \/ ch = "e" /\ v \in Codes /\ text = ErrorText(v)
                \/ ch = "s" /\ v \in Strings \cup {NULL} /\ text = StringText(v)
                \/ ch = "d" /\ v \in VaInts /\ text = SignedText(v)
                \/ ch \in DOMAIN Base /\ v \in VaInts /\ text = number(Unsigned(v), Base[ch])
                \/ ch = "p" /\ v \in Ints /\ text = <<"0", "x">> \o number(v % IntMod, 16)
<1>1. CASE ch = "c" /\ \E c \in Chars : Convert(<<c>>, <<c>>)
  <2>1. PICK c : Convert(<<c>>, <<c>>)
    BY <1>1
  <2>2. PICK text : text = <<c>>
    OBVIOUS
  <2>3. IsText(text)
    BY <2>2, Single
  <2> QED BY <1>1, <2>1, <2>2, <2>3
<1>2. CASE ch = "e" /\ \E v \in Codes : Convert(ErrorText(v), <<v>>)
  BY <1>2, ErrorIsText
<1>3. CASE ch = "s" /\ \E s \in Strings \cup {NULL} : Convert(StringText(s), <<s>>)
  BY <1>3, StringIsText
<1>4. CASE ch = "d" /\ \E v \in VaInts : Convert(SignedText(v), <<v>>)
  BY <1>4, SignedIsText
<1>5. CASE /\ ch \in DOMAIN Base
           /\ \E v \in VaInts : Convert(number(Unsigned(v), Base[ch]), <<v>>)
  <2>1. Base[ch] \in {8, 10, 16}
    BY <1>5 DEF Base
  <2>2. PICK v \in VaInts : Convert(number(Unsigned(v), Base[ch]), <<v>>)
    BY <1>5
  <2>3. Unsigned(v) \in Nat
    <3>1. v \in Int /\ (IF spec.lflag >= 2 THEN LongLongMod ELSE IntMod) \in Nat \ {0}
      BY ArgumentsInt
    <3> QED BY <3>1, Reduced DEF Unsigned
  <2>4. IsText(number(Unsigned(v), Base[ch]))
    BY <2>1, <2>3, NumberText
  <2>5. PICK text : text = number(Unsigned(v), Base[ch])
    OBVIOUS
  <2> QED BY <1>5, <2>2, <2>4, <2>5, Zenon
<1>6. CASE ch = "p" /\ \E v \in Ints : Convert(<<"0", "x">> \o number(v % IntMod, 16), <<v>>)
  <2>1. PICK v \in Ints : Convert(<<"0", "x">> \o number(v % IntMod, 16), <<v>>)
    BY <1>6
  <2>2. v % IntMod \in Nat
    BY ArgumentsInt, Reduced
  <2>3. IsText(number(v % IntMod, 16))
    BY <2>2, NumberText
  <2>4. IsText(<<"0", "x">>)
    <3>1. <<"0", "x">> \in Seq({"0", "x"})
      OBVIOUS
    <3> QED BY <3>1, TextIs
  <2>5. PICK text : text = <<"0", "x">> \o number(v % IntMod, 16)
    OBVIOUS
  <2>6. IsText(text)
    BY <2>3, <2>4, <2>5, TextConcat
  <2> QED BY <1>6, <2>1, <2>5, <2>6, Zenon
<1>7. \/ ch = "c" /\ \E c \in Chars : Convert(<<c>>, <<c>>)
      \/ ch = "e" /\ \E v \in Codes : Convert(ErrorText(v), <<v>>)
      \/ ch = "s" /\ \E s \in Strings \cup {NULL} : Convert(StringText(s), <<s>>)
      \/ ch = "d" /\ \E v \in VaInts : Convert(SignedText(v), <<v>>)
      \/ ch \in DOMAIN Base /\ \E v \in VaInts : Convert(number(Unsigned(v), Base[ch]), <<v>>)
      \/ ch = "p" /\ \E v \in Ints : Convert(<<"0", "x">> \o number(v % IntMod, 16), <<v>>)
  BY DEF Conversions
<1> QED BY <1>1, <1>2, <1>3, <1>4, <1>5, <1>6, <1>7

\* A known conversion prints what is expected of its directive.
LEMMA ConversionKnown ==
    ASSUME FormatRead, Running, Next, NEW k, NEW i, Reading(k, 6, i),
           i = Len(format.directives[k].long), Known(format.directives[k])
    PROVE  \E text, used :
             /\ IsText(text) /\ IsText(used) /\ Convert(text, used)
             /\ Len(used) = (IF format.directives[k].conv # "%" THEN 1 ELSE 0)
             /\ text = Expected(format.directives[k], Own(k) \o used)
<1>1. PICK d, a : d = format.directives[k] /\ a = Own(k)
  OBVIOUS
<1>2. /\ IsDirective(d) /\ k \in 1 .. Count(format) /\ escape
      /\ ch = d.conv /\ spec = Reads(d, a, 6, Len(d.long)) /\ Given(d, a) /\ Flagged
      /\ IsText(a) /\ Len(a) = StarsOf(d)
  BY <1>1, ReadingIs, ConversionMet
<1>3. Conversions
  <2>1. ch \in Convertible
    BY <1>1, <1>2 DEF Known, Convertible
  <2> QED BY <1>2, <2>1, InsideStep
<1>4. CASE ch = "%"
  <2>1. PICK text, used : text = <<"%">> /\ used = <<>>
    OBVIOUS
  <2>2. IsText(text) /\ IsText(used) /\ Len(used) = 0
    BY <2>1, Single, EmptyText
  <2>3. Convert(text, used)
    <3>1. "%" \notin DOMAIN Base
      BY DEF Base
    <3> QED BY <1>3, <1>4, <2>1, <3>1 DEF Conversions
  <2>4. text = Expected(d, a \o used)
    <3>1. PICK all, v : all = a \o used /\ v = all[Len(all)]
      OBVIOUS
    <3>2. Expected(d, all) = <<"%">>
      BY <1>2, <1>4, <3>1, ExpectedCases
    <3> QED BY <2>1, <3>1, <3>2, Zenon
  <2> QED BY <1>1, <1>2, <1>4, <2>2, <2>3, <2>4
<1>5. CASE ch # "%"
  <2>1. PICK text, v :
          /\ Convert(text, <<v>>) /\ IsText(text)
          /\ \/ ch = "c" /\ text = <<v>>
             \/ ch = "e" /\ v \in Codes /\ text = ErrorText(v)
             \/ ch = "s" /\ v \in Strings \cup {NULL} /\ text = StringText(v)
             \/ ch = "d" /\ v \in VaInts /\ text = SignedText(v)
             \/ ch \in DOMAIN Base /\ v \in VaInts /\ text = number(Unsigned(v), Base[ch])
             \/ ch = "p" /\ v \in Ints /\ text = <<"0", "x">> \o number(v % IntMod, 16)
    BY <1>2, <1>3, <1>5, ValueText
  <2>2. PICK used : used = <<v>>
    OBVIOUS
  <2>3. IsText(used) /\ Len(used) = 1
    BY <2>2, Single
  <2>4. text = Expected(d, a \o <<v>>)
    BY <1>2, <2>1, ValueIs
  <2> QED BY <1>1, <1>2, <1>5, <2>1, <2>2, <2>3, <2>4
<1> QED BY <1>4, <1>5

\* A conversion that prints what its directive is to print ends it.
LEMMA ConversionDone ==
    ASSUME FormatRead, NEW k \in 1 .. Count(format), NEW d, d = format.directives[k],
           NEW text, NEW used, IsText(text), IsText(used), Convert(text, used),
           Settled(format, args, k - 1), out = TextOf(format, args, k - 1) \o d.before,
           Len(args) = TakenOf(format, k - 1) + StarsOf(d), StarsOf(d) \in Nat,
           Len(Uses(d)) = StarsOf(d) + Len(used),
           next + 1 = (Start(format, k + 1) + 0) + 1,
           text = Expected(d, Own(k) \o used)
    PROVE  FormatRead' /\ Copying(k + 1, 0)'
<1>1. PICK f \in Formats : f = format
  BY DEF FormatRead
<1>2. PICK c \in Nat : c = Count(f)
  BY DirectivesAre
<1>3. /\ k \in 1 .. c /\ k \in 0 .. c /\ k > 0 /\ k - 1 \in 0 .. c
      /\ k + 1 \in 1 .. c + 1 /\ (k + 1) - 1 = k
  BY <1>1, <1>2
<1>4. PICK as : as = args \o used
  OBVIOUS
<1>5. IsText(args) /\ IsText(as) /\ Len(as) = Len(args) + Len(used)
  BY <1>4, TextConcat DEF FormatRead
<1>6. PICK t \in Nat, t1 \in Nat, la \in Nat, lu \in Nat, w \in Nat :
        /\ t = TakenOf(f, k - 1) /\ t1 = TakenOf(f, k) /\ la = Len(args) /\ lu = Len(used)
        /\ w = StarsOf(d)
  <2>1. TakenOf(f, k - 1) \in Nat /\ TakenOf(f, k) \in Nat
    BY <1>1, <1>2, <1>3, TakenIs
  <2>2. Len(args) \in Nat /\ Len(used) \in Nat
    BY <1>5, TextLen
  <2> QED BY <2>1, <2>2, Zenon
<1>21. la = t + w /\ t1 = t + (w + lu)
  <2>1. Len(Uses(d)) = w + lu
    BY <1>6, Zenon
  <2>2. TakenOf(f, k) = TakenOf(f, k - 1) + Len(Uses(f.directives[k]))
    BY <1>1, <1>2, <1>3, TakenIs
  <2> QED BY <1>1, <1>6, <2>1, <2>2, Zenon
<1>7. Len(as) = t1 /\ t \in 0 .. la /\ t <= la
  <2>1. Len(as) = la + lu
    BY <1>5, <1>6, Zenon
  <2> QED BY <1>21, <2>1
<1>8. ArgsOf(f, as, k) = Own(k) \o used
  <2>1. t \in 0 .. Len(args)
    BY <1>6, <1>7
  <2>2. SubSeq(args \o used, t + 1, Len(args \o used)) = SubSeq(args, t + 1, Len(args)) \o used
    BY <1>5, <2>1, OwnGrows
  <2> QED BY <1>1, <1>4, <1>6, <1>7, <2>2 DEF ArgsOf, Own
<1>9. TextOf(f, as, k - 1) = TextOf(f, args, k - 1) /\ Settled(f, as, k - 1)
  <2>1. TakenOf(f, k - 1) <= Len(args)
    BY <1>6, <1>7
  <2> QED BY <1>1, <1>2, <1>3, <1>4, <1>5, <2>1, TextKept
<1>10. Expected(d, ArgsOf(f, as, k)) = text
  BY <1>8
<1>11. Settled(f, as, k)
  <2>1. \A j \in 1 .. k : j \in 1 .. k - 1 \/ j = k
    BY <1>3
  <2> QED BY <1>1, <1>9, <1>10, <2>1 DEF Settled
<1>12. /\ IsText(TextOf(f, as, k))
       /\ TextOf(f, as, k) = (TextOf(f, as, k - 1) \o d.before) \o text
  <2>1. TextOf(f, as, k) = (TextOf(f, as, k - 1) \o d.before) \o Expected(d, ArgsOf(f, as, k))
    BY <1>1, <1>2, <1>3, <1>11, TextStep
  <2>2. IsText(TextOf(f, as, k))
    BY <1>2, <1>3, <1>11, TextStep
  <2> QED BY <1>10, <2>1, <2>2, Zenon
<1>13. /\ UNCHANGED <<format, fmt>> /\ escape' = FALSE /\ next' = next + 1
       /\ args' = as /\ out' = out \o text
  BY <1>4 DEF Convert, putch, input
<1>14. out' = TextOf(f, as, k)
  <2>1. out = TextOf(f, as, k - 1) \o d.before
    BY <1>1, <1>9
  <2> QED BY <1>12, <1>13, <2>1, Zenon
<1>15. IsText(Between(f, k + 1)) /\ Len(Between(f, k + 1)) \in Nat
  BY <1>2, <1>3, DirectivesAre, PlainChars
<1>16. TextOf(f, as, k) \o SubSeq(Between(f, k + 1), 1, 0) = TextOf(f, as, k)
  BY <1>12, <1>15, Prefix, EmptyConcat
<1>17. 0 \in 0 .. Len(Between(f, k + 1))
  BY <1>15
<1>18. FormatRead'
  BY <1>5, <1>13 DEF FormatRead
<1>19. PICK k1 : k1 = k + 1 /\ k1 - 1 = k
  BY <1>3
<1>20. Copying(k1, 0)'
  <2>1. ~escape' /\ k1 \in 1 .. Count(format') + 1 /\ 0 \in 0 .. Len(Between(format', k1))
    BY <1>1, <1>2, <1>3, <1>13, <1>17, <1>19
  <2>2. next' = (Start(format', k1) + 0) + 1
    BY <1>13, <1>19
  <2>3. Len(args') = TakenOf(format', k1 - 1)
    BY <1>1, <1>6, <1>7, <1>13, <1>19
  <2>4. Settled(format', args', k1 - 1)
    BY <1>1, <1>11, <1>13, <1>19
  <2>5. out' = TextOf(format', args', k1 - 1) \o SubSeq(Between(format', k1), 1, 0)
    BY <1>1, <1>13, <1>14, <1>16, <1>19
  <2> QED BY <2>1, <2>2, <2>3, <2>4, <2>5, Zenon DEF Copying
<1> QED BY <1>18, <1>19, <1>20

\* Its step ends the directive: what follows is copied.
LEMMA KnownStep ==
    ASSUME FormatRead, Running, Next, NEW k, NEW i, Reading(k, 6, i),
           i = Len(format.directives[k].long), Known(format.directives[k])
    PROVE  FormatRead' /\ Copying(k + 1, 0)'
<1>1. PICK d : d = format.directives[k]
  OBVIOUS
<1>2. PICK text, used :
        /\ IsText(text) /\ IsText(used) /\ Convert(text, used)
        /\ Len(used) = (IF d.conv # "%" THEN 1 ELSE 0)
        /\ text = Expected(d, Own(k) \o used)
  BY <1>1, ConversionKnown
<1>3. k \in 1 .. Count(format) /\ IsDirective(d)
  BY <1>1, ReadingIs
<1>4. PICK p \in Nat : p = Behind(k, 7) /\ next = p + 1
  BY ConversionMet
<1>5. Len(args) = TakenOf(format, k - 1) + StarsOf(d) /\ StarsOf(d) \in Nat
  BY <1>1, ConversionMet
<1>6. Settled(format, args, k - 1) /\ out = TextOf(format, args, k - 1) \o d.before
  BY <1>1 DEF Reading
<1>7. Len(Uses(d)) = StarsOf(d) + Len(used)
  <2>1. Len(Uses(d)) = StarsOf(d) + (IF Known(d) /\ d.conv # "%" THEN 1 ELSE 0)
    BY UsesIs
  <2> QED BY <1>1, <1>2, <2>1
<1>8. next + 1 = (Start(format, k + 1) + 0) + 1
  <2>1. d.conv # NUL
    BY <1>1 DEF Known, NUL
  <2>2. p + 1 = Start(format, k + 1)
    BY <1>1, <1>3, <1>4, <2>1, ConversionAhead
  <2>3. next + 1 = ((p + 1) + 0) + 1
    BY <1>4
  <2> QED BY <2>2, <2>3, Zenon
<1> QED BY <1>1, <1>2, <1>3, <1>5, <1>6, <1>7, <1>8, ConversionDone

\* The % is the last before the flags and the conversion.
LEMMA PercentBefore ==
    ASSUME FormatRead, NEW k \in 1 .. Count(format), next = Behind(k, 7) + 1
    PROVE  Max({j \in 1 .. next - 1 : fmt[j] = "%"}) = Mark(format, k) + 1
<1> DEFINE S == {j \in 1 .. next - 1 : fmt[j] = "%"}
<1>1. PICK d : d = format.directives[k] /\ IsDirective(d)
  BY Here
<1>2. PICK q \in Nat, u \in Nat, ld \in Nat :
        q = Mark(format, k) /\ u = Upto(d, 7) /\ ld = Len(Directive(d))
  <2>1. Mark(format, k) \in Nat /\ Len(Directive(d)) \in Nat
    BY <1>1, Here
  <2>2. 7 \in 1 .. 8
    OBVIOUS
  <2>3. Upto(d, 7) \in Nat
    BY <1>1, <2>2, PartSizes
  <2> QED BY <2>1, <2>3, Zenon
<1>3. next - 1 = q + u
  BY <1>1, <1>2 DEF Behind
<1>4. 1 <= u /\ u <= ld /\ 1 \in 1 .. ld
  <2>1. PICK u1 \in Nat, u2 \in Nat, u3 \in Nat, u4 \in Nat, u5 \in Nat, u6 \in Nat :
          /\ u1 = Upto(d, 1) /\ u2 = Upto(d, 2) /\ u3 = Upto(d, 3) /\ u4 = Upto(d, 4)
          /\ u5 = Upto(d, 5) /\ u6 = Upto(d, 6)
    <3>1. \A x \in 1 .. 8 : Upto(d, x) \in Nat
      BY <1>1, PartSizes
    <3>2. /\ 1 \in 1 .. 8 /\ 2 \in 1 .. 8 /\ 3 \in 1 .. 8 /\ 4 \in 1 .. 8 /\ 5 \in 1 .. 8
          /\ 6 \in 1 .. 8
      OBVIOUS
    <3> QED BY <3>1, <3>2, Zenon
  <2>2. u1 = 1
    BY <1>1, <2>1, PartIsAt
  <2>3. ASSUME NEW x \in 2 .. 7 PROVE Upto(d, x - 1) <= Upto(d, x)
    <3>1. x \in 1 .. 8
      OBVIOUS
    <3>2. PICK v \in Nat, w \in Nat, l \in Nat :
            v = Upto(d, x - 1) /\ w = Upto(d, x) /\ l = Len(Parts(d)[x]) /\ w = v + l
      BY <1>1, <3>1, PartSizes
    <3>3. v <= w
      BY <3>2
    <3> QED BY <3>2, <3>3
  <2>4. u1 <= u2 /\ u2 <= u3 /\ u3 <= u4 /\ u4 <= u5 /\ u5 <= u6 /\ u6 <= u
    <3>1. /\ 2 \in 2 .. 7 /\ 3 \in 2 .. 7 /\ 4 \in 2 .. 7 /\ 5 \in 2 .. 7 /\ 6 \in 2 .. 7 /\ 7 \in 2 .. 7
          /\ 2 - 1 = 1 /\ 3 - 1 = 2 /\ 4 - 1 = 3 /\ 5 - 1 = 4 /\ 6 - 1 = 5 /\ 7 - 1 = 6
      OBVIOUS
    <3>2. /\ Upto(d, 1) <= Upto(d, 2) /\ Upto(d, 2) <= Upto(d, 3) /\ Upto(d, 3) <= Upto(d, 4)
          /\ Upto(d, 4) <= Upto(d, 5) /\ Upto(d, 5) <= Upto(d, 6) /\ Upto(d, 6) <= Upto(d, 7)
      BY <2>3, <3>1
    <3> QED BY <1>2, <2>1, <3>2
  <2>5. u <= ld
    <3>1. 7 \in 1 .. 8
      OBVIOUS
    <3> QED BY <1>1, <1>2, <3>1, PartSizes
  <2> QED BY <2>2, <2>4, <2>5
<1>5. /\ \A i \in 1 .. ld : fmt[q + i] = Directive(d)[i]
      /\ Directive(d)[1] = "%"
  BY <1>1, <1>2, Here, PartIsAt
<1>6. q + 1 \in S
  <2>1. q + 1 \in 1 .. next - 1
    BY <1>2, <1>3, <1>4
  <2>2. fmt[q + 1] = "%"
    BY <1>4, <1>5
  <2> QED BY <2>1, <2>2
<1>7. ASSUME NEW y \in S PROVE q + 1 >= y
  <2>1. y \in 1 .. q + u /\ fmt[y] = "%"
    BY <1>3
  <2>2. CASE y > q + 1
    <3>1. PICK i \in 2 .. ld : y = q + i /\ i <= u
      <4>1. y - q \in 2 .. ld /\ y = q + (y - q) /\ y - q <= u
        BY <1>2, <1>4, <2>1, <2>2, SMTT(30)
      <4> QED BY <4>1
    <3>2. i \in 1 .. ld /\ i # u + 1
      BY <1>2, <3>1
    <3>3. Directive(d)[i] = "%"
      BY <1>5, <2>1, <3>1, <3>2
    <3>4. Directive(d)[i] \in FlagChars
      <4>1. i \in 2 .. Len(Directive(d))
        BY <1>2
      <4> QED BY <1>1, <1>2, <3>2, <4>1, DirectiveChars
    <3> QED BY <3>3, <3>4, DecimalIs
  <2> QED BY <1>2, <2>1, <2>2
<1>8. S \subseteq Int
  BY <1>3
<1>9. Max(S) = q + 1
  <2> HIDE DEF S
  <2> QED BY <1>6, <1>7, <1>8, MaxIs
<1> QED BY <1>2, <1>9

\* Any other one: vprintfmt goes back to the % and copies the directive.
LEMMA UnknownStep ==
    ASSUME FormatRead, Running, Next, NEW k, NEW i, Reading(k, 6, i),
           i = Len(format.directives[k].long), ~Known(format.directives[k])
    PROVE  FormatRead' /\ Literal(k, 1)'
<1>1. PICK d : d = format.directives[k]
  OBVIOUS
<1>2. /\ k \in 1 .. Count(format) /\ IsDirective(d) /\ escape
      /\ ch = d.conv /\ next = Behind(k, 7) + 1
      /\ Len(args) = TakenOf(format, k - 1) + StarsOf(d) /\ StarsOf(d) \in Nat
  BY <1>1, ReadingIs, ConversionMet
<1>3. Unrecognized
  <2>1. d.conv \notin FlagChars
    BY <1>2 DEF IsDirective, FlagChars
  <2>2. d.conv \notin Convertible
    BY <1>1 DEF Known, Convertible
  <2> QED BY <1>2, <2>1, <2>2, InsideStep
<1>4. /\ UNCHANGED <<format, fmt, args>> /\ escape' = FALSE /\ out' = out \o <<"%">>
      /\ next' = 1 + Max({j \in 1 .. next - 1 : fmt[j] = "%"})
  BY <1>3 DEF Unrecognized, putch, input
<1>5. PICK q \in Nat : q = Mark(format, k)
  BY <1>2, Here
<1>6. next' = (q + 1) + 1
  <2>1. Max({j \in 1 .. next - 1 : fmt[j] = "%"}) = q + 1
    BY <1>2, <1>5, PercentBefore
  <2>2. next' = 1 + (q + 1)
    BY <1>4, <2>1
  <2> QED BY <1>5, <2>2
<1>7. Settled(format, args, k - 1) /\ out = TextOf(format, args, k - 1) \o d.before
  BY <1>1 DEF Reading
<1>8. Len(args) = TakenOf(format, k)
  <2>1. PICK f \in Formats : f = format
    BY DEF FormatRead
  <2>2. TakenOf(f, k) = TakenOf(f, k - 1) + Len(Uses(f.directives[k])) /\ TakenOf(f, k - 1) \in Nat
    <3>1. Count(f) \in Nat
      BY DirectivesAre
    <3>2. k \in 1 .. Count(f) /\ k - 1 \in 0 .. Count(f)
      BY <1>2, <2>1, <3>1
    <3> QED BY <3>2, TakenIs
  <2>3. Len(Uses(d)) = StarsOf(d)
    <3>1. Len(Uses(d)) = StarsOf(d) + (IF Known(d) /\ d.conv # "%" THEN 1 ELSE 0)
      BY UsesIs
    <3> QED BY <1>1, <1>2, <3>1
  <2> QED BY <1>1, <1>2, <2>1, <2>2, <2>3, Zenon
<1>9. 1 \in 1 .. Len(Directive(d)) /\ SubSeq(Directive(d), 1, 1) = <<"%">>
  <2>1. IsText(Directive(d)) /\ Directive(d)[1] = "%" /\ Upto(d, 1) = 1
    BY <1>2, PartIsAt
  <2>2. Len(Directive(d)) \in Nat /\ Upto(d, 1) <= Len(Directive(d))
    <3>1. 1 \in 1 .. 8
      OBVIOUS
    <3> QED BY <1>2, <2>1, <3>1, PartSizes, TextLen
  <2>3. PICK l \in Nat, s \in {Directive(d)} : l = Len(Directive(d)) /\ l >= 1
    BY <2>1, <2>2
  <2>4. 0 \in 0 .. l - 1 /\ 0 + 1 = 1 /\ 1 \in 1 .. l
    BY <2>3
  <2>5. SubSeq(s, 1, 0 + 1) = SubSeq(s, 1, 0) \o <<s[0 + 1]>> /\ SubSeq(s, 1, 0) = <<>>
    BY <2>1, <2>3, <2>4, Prefix
  <2>6. PICK one : one = <<"%">> /\ IsText(one)
    BY Single
  <2>7. <<>> \o one = one
    BY <2>6, EmptyConcat
  <2>8. SubSeq(s, 1, 1) = <<>> \o one
    BY <2>1, <2>3, <2>4, <2>5, <2>6, Zenon
  <2> QED BY <2>3, <2>4, <2>6, <2>7, <2>8, Zenon
<1>10. Literal(k, 1)'
  <2>1. ~escape' /\ k \in 1 .. Count(format') /\ ~Known(format'.directives[k])
        /\ 1 \in 1 .. Len(Directive(format'.directives[k]))
    BY <1>1, <1>2, <1>4, <1>9
  <2>2. next' = (Mark(format', k) + 1) + 1
    BY <1>4, <1>5, <1>6
  <2>3. Len(args') = TakenOf(format', k) /\ Settled(format', args', k - 1)
    BY <1>4, <1>7, <1>8
  <2>4. out' = (TextOf(format', args', k - 1) \o format'.directives[k].before)
               \o SubSeq(Directive(format'.directives[k]), 1, 1)
    BY <1>1, <1>4, <1>7, <1>9
  <2> QED BY <2>1, <2>2, <2>3, <2>4, Zenon DEF Literal
<1>11. FormatRead'
  BY <1>4 DEF FormatRead
<1> QED BY <1>10, <1>11

-----------------------------------------------------------------------------
(***************************************************************************)
(* The invariant: vprintfmt is at one of those places until it is done,    *)
(* and then all is printed.                                                *)
(***************************************************************************)
Placed ==
    \/ \E k, i : Copying(k, i)
    \/ \E k, i : Literal(k, i)
    \/ \E k, m, i : Reading(k, m, i)

PlaceInv ==
    /\ FormatRead
    /\ ~done => Placed
    /\ done /\ ret # -E_INVAL => Directed

\* Copying goes on, or a directive or the end of the format comes.
LEMMA CopyingStep ==
    ASSUME FormatRead, Running, Next, NEW k, NEW i, Copying(k, i)
    PROVE  FormatRead' /\ ((Placed' /\ ~Return) \/ (Directed' /\ done'))
<1>1. PICK c \in Nat, l \in Nat : c = Count(format) /\ l = Len(Between(format, k))
  <2>1. Count(format) \in Nat
    BY DirectivesAre DEF FormatRead
  <2>2. k \in 1 .. Count(format) + 1 /\ Settled(format, args, k - 1)
    BY DEF Copying
  <2> QED BY <2>1, <2>2, Before
<1>2. k \in 1 .. c + 1 /\ i \in 0 .. l
  BY <1>1 DEF Copying
<1>3. CASE i < l
  <2>1. FormatRead' /\ Copying(k, i + 1)' /\ ~Return
    BY <1>1, <1>3, CopyStep
  <2> QED BY <2>1 DEF Placed
<1>4. CASE i = l /\ k \in 1 .. c
  <2>1. FormatRead' /\ Reading(k, 1, 0)' /\ ~Return
    BY <1>1, <1>4, PercentStep
  <2> QED BY <2>1 DEF Placed
<1>5. CASE i = l /\ k = c + 1
  BY <1>1, <1>5, EndStep
<1> QED BY <1>2, <1>3, <1>4, <1>5

\* The copying of an unknown directive goes on, or ends.
LEMMA LiteralOn ==
    ASSUME FormatRead, Running, Next, NEW k, NEW i, Literal(k, i)
    PROVE  FormatRead' /\ ((Placed' /\ ~Return) \/ (Directed' /\ done'))
<1>1. k \in 1 .. Count(format) /\ i \in 1 .. Len(Directive(format.directives[k]))
  BY DEF Literal
<1>2. PICK l \in Nat : l = Len(Directive(format.directives[k]))
  BY <1>1, Here
<1>3. CASE i < l
  <2>1. FormatRead' /\ Literal(k, i + 1)' /\ ~Return
    BY <1>2, <1>3, LiteralStep
  <2> QED BY <2>1 DEF Placed
<1>4. CASE i = l
  <2>1. Copying(k + 1, 0)
    BY <1>2, <1>4, LiteralEnd
  <2> QED BY <2>1, CopyingStep
<1> QED BY <1>1, <1>2, <1>3, <1>4

\* Behind the precision come the l's and the conversion.
LEMMA ReadingLast ==
    ASSUME FormatRead, Running, Next, NEW k, NEW i, Reading(k, 6, i)
    PROVE  FormatRead' /\ Placed'
<1>1. PICK d : d = format.directives[k]
  OBVIOUS
<1>2. PICK l \in Nat : l = Len(d.long)
  BY <1>1, ReadingIs, DirectiveTexts, TextLen
<1>3. i \in 0 .. l
  BY <1>1, <1>2 DEF Reading
<1>4. CASE i < l
  <2>1. FormatRead' /\ Reading(k, 6, i + 1)'
    BY <1>1, <1>2, <1>4, LongStep
  <2> QED BY <2>1 DEF Placed
<1>5. CASE i = l /\ Known(d)
  <2>1. FormatRead' /\ Copying(k + 1, 0)'
    BY <1>1, <1>2, <1>5, KnownStep
  <2> QED BY <2>1 DEF Placed
<1>6. CASE i = l /\ ~Known(d)
  <2>1. FormatRead' /\ Literal(k, 1)'
    BY <1>1, <1>2, <1>6, UnknownStep
  <2> QED BY <2>1 DEF Placed
<1> QED BY <1>3, <1>4, <1>5, <1>6

\* Parts left out are passed over.
LEMMA ReadingOn ==
    ASSUME FormatRead, Running, Next, NEW k, NEW m, NEW i, Reading(k, m, i)
    PROVE  FormatRead' /\ Placed'
<1>1. PICK d : d = format.directives[k]
  OBVIOUS
<1>2. IsDirective(d) /\ m \in 1 .. 6
  BY <1>1, ReadingIs
<1>3. /\ Parts(d)[2] = d.pad /\ Parts(d)[3] = d.alt /\ Parts(d)[4] = d.width
      /\ d.prec = <<>> => Parts(d)[5] = <<>>
      /\ Parts(d)[6] = d.prec
  BY <1>2, PartsAre, Zenon
<1>4. /\ 1 \in 1 .. 5 /\ 2 \in 1 .. 5 /\ 3 \in 1 .. 5 /\ 4 \in 1 .. 5 /\ 5 \in 1 .. 5
      /\ 2 = 1 + 1 /\ 3 = 2 + 1 /\ 4 = 3 + 1 /\ 5 = 4 + 1 /\ 6 = 5 + 1
  OBVIOUS
<1>5. ASSUME NEW j, Reading(k, 6, j) PROVE FormatRead' /\ Placed'
  BY <1>5, ReadingLast
<1>6. ASSUME Reading(k, 5, 0) PROVE FormatRead' /\ Placed'
  <2>1. CASE d.prec = <<>>
    <3>1. Reading(k, 6, 0)
      BY <1>1, <1>3, <1>4, <1>6, <2>1, PartSkipped, Zenon
    <3> QED BY <1>5, <3>1
  <2>2. CASE d.prec # <<>>
    <3>1. FormatRead' /\ Reading(k, 6, 0)'
      BY <1>1, <1>6, <2>2, PrecisionStep
    <3> QED BY <3>1 DEF Placed
  <2> QED BY <2>1, <2>2
<1>7. ASSUME Reading(k, 4, 0) PROVE FormatRead' /\ Placed'
  <2>1. CASE d.prec = <<>>
    <3>1. Reading(k, 5, 0)
      BY <1>1, <1>3, <1>4, <1>7, <2>1, PartSkipped, Zenon
    <3> QED BY <1>6, <3>1
  <2>2. CASE d.prec # <<>>
    <3>1. FormatRead' /\ Reading(k, 5, 0)'
      BY <1>1, <1>7, <2>2, DotStep
    <3> QED BY <3>1 DEF Placed
  <2> QED BY <2>1, <2>2
<1>8. ASSUME Reading(k, 3, 0) PROVE FormatRead' /\ Placed'
  <2>1. CASE d.width = <<>>
    <3>1. Reading(k, 4, 0)
      BY <1>1, <1>3, <1>4, <1>8, <2>1, PartSkipped, Zenon
    <3> QED BY <1>7, <3>1
  <2>2. CASE d.width # <<>>
    <3>1. FormatRead' /\ Reading(k, 4, 0)'
      BY <1>1, <1>8, <2>2, WidthStep
    <3> QED BY <3>1 DEF Placed
  <2> QED BY <2>1, <2>2
<1>9. ASSUME Reading(k, 2, 0) PROVE FormatRead' /\ Placed'
  <2>1. CASE d.alt = <<>>
    <3>1. Reading(k, 3, 0)
      BY <1>1, <1>3, <1>4, <1>9, <2>1, PartSkipped, Zenon
    <3> QED BY <1>8, <3>1
  <2>2. CASE d.alt # <<>>
    <3>1. FormatRead' /\ Reading(k, 3, 0)'
      BY <1>1, <1>9, <2>2, AltStep
    <3> QED BY <3>1 DEF Placed
  <2> QED BY <2>1, <2>2
<1>10. ASSUME Reading(k, 1, 0) PROVE FormatRead' /\ Placed'
  <2>1. CASE d.pad = <<>>
    <3>1. Reading(k, 2, 0)
      BY <1>1, <1>3, <1>4, <1>10, <2>1, PartSkipped, Zenon
    <3> QED BY <1>9, <3>1
  <2>2. CASE d.pad # <<>>
    <3>1. FormatRead' /\ Reading(k, 2, 0)'
      BY <1>1, <1>10, <2>2, PadStep
    <3> QED BY <3>1 DEF Placed
  <2> QED BY <2>1, <2>2
<1>11. CASE m = 6
  BY <1>5, <1>11
<1>12. CASE m # 6
  <2>1. i = 0
    BY <1>12 DEF Reading
  <2>2. m \in {1, 2, 3, 4, 5}
    BY <1>2, <1>12
  <2>3. m = 1 \/ m = 2 \/ m = 3 \/ m = 4 \/ m = 5
    BY <2>2
  <2>4. Reading(k, m, 0)
    BY <2>1
  <2> QED BY <1>6, <1>7, <1>8, <1>9, <1>10, <2>3, <2>4, Zenon
<1> QED BY <1>11, <1>12

\* done is set at the end of the format only, or where there is no room.
LEMMA FlagsKeep == Flags => done' = done
<1>1. \A s, skip : Flag(s, skip) => done' = done
  BY DEF Flag
<1> QED BY <1>1 DEF Flags, WidthDigits, Star

\* Nor does a conversion set done.
LEMMA ConversionsKeep == Conversions => Running /\ done' = done
<1>1. \A text, used : Convert(text, used) => done' = done
  BY DEF Convert
<1>2. Conversions => Running
  BY Zenon DEF Conversions
<1>3. Conversions => \E text, used : Convert(text, used)
  BY Zenon DEF Conversions
<1> QED BY <1>1, <1>2, <1>3

\* So done is set where the format ends, and where snprintf has no room.
LEMMA DoneStep ==
    ASSUME Next, ~done
    PROVE  /\ ~Running => done' /\ ret' = -E_INVAL /\ UNCHANGED <<format, fmt, args>>
           /\ Running /\ ~Return => ~done'
<1>1. CASE BadSize
  BY <1>1 DEF BadSize, input
<1>2. CASE Plain
  BY <1>2 DEF Plain
<1>3. CASE Percent
  BY <1>3 DEF Percent
<1>4. CASE Return
  BY <1>4 DEF Return
<1>5. CASE Flags
  BY <1>5, FlagsKeep DEF Flags
<1>6. CASE Conversions
  BY <1>6, ConversionsKeep
<1>7. CASE Unrecognized
  BY <1>7 DEF Unrecognized
<1> QED BY <1>1, <1>2, <1>3, <1>4, <1>5, <1>6, <1>7 DEF Next

\* Every step leads from one such place to another, or to the end.
LEMMA PlaceNext == PlaceInv /\ [Next]_vars => PlaceInv'
<1> SUFFICES ASSUME PlaceInv, [Next]_vars PROVE PlaceInv'
  OBVIOUS
<1>1. FormatRead /\ (~done => Placed) /\ (done /\ ret # -E_INVAL => Directed)
  BY DEF PlaceInv
<1>2. CASE UNCHANGED vars
  <2>1. UNCHANGED <<format, fmt, args, escape, next, spec, out, done, ret>>
    BY <1>2 DEF vars, input
  <2>2. FormatRead'
    BY <1>1, <2>1 DEF FormatRead
  <2>3. ASSUME ~done PROVE Placed'
    <3>1. CASE \E k, i : Copying(k, i)
      <4>1. PICK k, i : Copying(k, i)
        BY <3>1
      <4>2. Copying(k, i)'
        BY <2>1, <4>1 DEF Copying
      <4> QED BY <4>2 DEF Placed
    <3>2. CASE \E k, i : Literal(k, i)
      <4>1. PICK k, i : Literal(k, i)
        BY <3>2
      <4>2. Literal(k, i)'
        BY <2>1, <4>1 DEF Literal
      <4> QED BY <4>2 DEF Placed
    <3>3. CASE \E k, m, i : Reading(k, m, i)
      <4>1. PICK k, m, i : Reading(k, m, i)
        BY <3>3
      <4>2. Own(k)' = Own(k) /\ Behind(k, m)' = Behind(k, m)
        BY <2>1 DEF Own, Behind
      <4>3. Reading(k, m, i)'
        BY <2>1, <4>1, <4>2, Zenon DEF Reading
      <4> QED BY <4>3 DEF Placed
    <3> QED BY <1>1, <2>3, <3>1, <3>2, <3>3 DEF Placed
  <2>4. Directed => Directed'
    BY <2>1 DEF Directed
  <2> QED BY <1>1, <2>1, <2>2, <2>3, <2>4 DEF PlaceInv
<1>3. CASE Next
  <2>1. ~done
    BY <1>3 DEF Next, BadSize, Running, Plain, Percent, Return, Flags, Conversions, Unrecognized
  <2>2. CASE ~Running
    <3>1. done' /\ ret' = -E_INVAL /\ UNCHANGED <<format, fmt, args>>
      BY <1>3, <2>1, <2>2, DoneStep
    <3> QED BY <1>1, <3>1 DEF PlaceInv, FormatRead
  <2>3. CASE Running
    <3>1. FormatRead' /\ ((Placed' /\ ~Return) \/ (Directed' /\ done'))
      <4>1. CASE \E k, i : Copying(k, i)
        BY <1>1, <1>3, <2>3, <4>1, CopyingStep
      <4>2. CASE \E k, i : Literal(k, i)
        BY <1>1, <1>3, <2>3, <4>2, LiteralOn
      <4>3. CASE \E k, m, i : Reading(k, m, i)
        <5>1. PICK k, m, i : Reading(k, m, i)
          BY <4>3
        <5>2. FormatRead' /\ Placed'
          BY <1>1, <1>3, <2>3, <5>1, ReadingOn
        <5>3. ~Return
          BY <5>1 DEF Reading, Return
        <5> QED BY <5>2, <5>3
      <4> QED BY <1>1, <2>1, <4>1, <4>2, <4>3 DEF Placed
    <3>2. ~Return => ~done'
      BY <1>3, <2>1, <2>3, DoneStep
    <3> QED BY <3>1, <3>2 DEF PlaceInv
  <2> QED BY <2>2, <2>3
<1> QED BY <1>2, <1>3

\* vprintfmt starts by copying what is before the first directive.
LEMMA PlaceInit == Init => PlaceInv
<1> SUFFICES ASSUME Init PROVE PlaceInv
  OBVIOUS
<1>1. /\ format \in Formats /\ fmt = Written(format) /\ args = <<>> /\ out = <<>>
      /\ ~escape /\ next = 1 /\ ~done
  BY DEF Init
<1>2. FormatRead
  BY <1>1, EmptyText DEF FormatRead
<1>3. PICK f \in Formats : f = format
  BY <1>1
<1>4. PICK c \in Nat : c = Count(f)
  BY DirectivesAre
<1>5. 1 \in 1 .. c + 1 /\ 1 - 1 = 0 /\ 0 \in 0 .. c /\ 1 .. 0 = {}
  BY <1>4
<1>6. Settled(f, args, 0)
  BY <1>5 DEF Settled
<1>7. TextOf(f, args, 0) = <<>>
  BY <1>4, <1>5, <1>6, TextStep
<1>8. TakenOf(f, 0) = 0 /\ Start(f, 1) = 0
  BY TakenIs, WrittenIs
<1>9. IsText(Between(f, 1)) /\ Len(Between(f, 1)) \in Nat
  BY <1>4, <1>5, DirectivesAre, PlainChars
<1>10. SubSeq(Between(f, 1), 1, 0) = <<>>
  BY <1>9, Prefix
<1>11. Copying(1, 0)
  <2>1. 0 \in 0 .. Len(Between(f, 1)) /\ 1 = (0 + 0) + 1
    BY <1>9
  <2>2. Len(args) = 0
    BY <1>1, EmptyText
  <2>3. out = <<>> \o <<>>
    BY <1>1, EmptyText, EmptyConcat
  <2> QED BY <1>1, <1>3, <1>4, <1>5, <1>6, <1>7, <1>8, <1>10, <2>1, <2>2, <2>3, Zenon DEF Copying
<1> QED BY <1>1, <1>2, <1>11 DEF PlaceInv, Placed

\* All printed as directed, in the words of the properties.
LEMMA DirectedIs ==
    ASSUME FormatRead, Directed
    PROVE  AllAsExpected
<1>1. PICK f \in Formats : f = format
  BY DEF FormatRead
<1>2. PICK c \in Nat : c = Count(f)
  BY DirectivesAre
<1>3. ASSUME NEW k \in 0 .. c PROVE Taken(k) = TakenOf(f, k)
  <2>1. \A j \in 1 .. k : j \in 1 .. Count(f)
    BY <1>2
  <2>2. \A j \in 1 .. k : UsesOf(f)[j] = Uses(format.directives[j])
    BY <1>1, <2>1 DEF UsesOf
  <2>3. [j \in 1 .. k |-> Uses(format.directives[j])] = [j \in 1 .. k |-> UsesOf(f)[j]]
    BY <2>2
  <2> QED BY <2>3, Zenon DEF Taken, TakenOf, Joined
<1>4. ASSUME NEW k \in 1 .. c PROVE Arguments(k) = ArgsOf(f, args, k)
  <2>1. k \in 0 .. c /\ k - 1 \in 0 .. c
    OBVIOUS
  <2> QED BY <1>3, <2>1, Zenon DEF Arguments, ArgsOf
<1>5. ExpectedText(c) = TextOf(f, args, c)
  <2>1. \A j \in 1 .. c : Printed(f, args)[j] =
          format.directives[j].before \o Expected(format.directives[j], Arguments(j))
    BY <1>1, <1>2, <1>4 DEF Printed
  <2>2. [j \in 1 .. c |-> format.directives[j].before
                            \o Expected(format.directives[j], Arguments(j))]
          = [j \in 1 .. c |-> Printed(f, args)[j]]
    BY <2>1
  <2> QED BY <2>2, Zenon DEF ExpectedText, TextOf, Joined
<1>6. Taken(c) = TakenOf(f, c)
  BY <1>3
<1>7. Len(format.directives) = c
  BY <1>1, <1>2 DEF Count
<1>8. out = TextOf(f, args, c) \o format.rest /\ Len(args) = TakenOf(f, c)
  BY <1>1, <1>2 DEF Directed
<1> QED BY <1>5, <1>6, <1>7, <1>8, Zenon DEF AllAsExpected

(***************************************************************************)
(* Whatever directives a format has, with any padding, width, precision    *)
(* and length, and whatever arguments come, vprintfmt prints each as the   *)
(* reference says, with its own arguments, an unknown one as it is         *)
(* written, and all of the plain text between.  The formats with a '-'     *)
(* before a number or a width before a %s are left out.                    *)
(***************************************************************************)
THEOREM DirectivesPrinted == Spec => []PrintsAsDirected
<1>1. PlaceInv => PrintsAsDirected
  BY DirectedIs DEF PlaceInv, PrintsAsDirected, Completed
<1> QED BY <1>1, PlaceInit, PlaceNext, PTL DEF Spec

(***************************************************************************)
(* In those vprintfmt pads the number on the left with the '-' itself, and *)
(* fills the string to its width on the side the flag says, and prints     *)
(* everything else as in the others.                                       *)
(***************************************************************************)
THEOREM OtherDirectivesPrinted == Spec => []OwnReadings
<1>1. PlaceInv => OwnReadings
  BY DirectedIs DEF PlaceInv, OwnReadings, Completed
<1> QED BY <1>1, PlaceInit, PlaceNext, PTL DEF Spec
===============================================================================
