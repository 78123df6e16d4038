------------------------------- MODULE Printfmt -------------------------------
(***************************************************************************)
(* Formatted output: vprintfmt of lib/printfmt.c reading one format, with  *)
(* snprintf's buffer or the console of kern/printf.c behind it.            *)
(*                                                                         *)
(* A format is written down twice: as the directives the caller means      *)
(* (`format`) and as the characters vprintfmt reads (`fmt`).  va_arg takes *)
(* any argument of the type it is asked for.                               *)
(***************************************************************************)
EXTENDS Integers, SequencesExt

CONSTANTS
    Formats,             \* the formats in use, as records
    Sizes,               \* the sizes n of snprintf's buffer
    MemSize,             \* the bytes of memory from that buffer on
    IntMod, LongLongMod, \* 2^32 and 2^64, scaled down
    Ints, LongLongs, Chars, Strings, \* arguments in use
    Codes,               \* arguments of %e
    error_string,        \* its known codes' texts
    NULL                 \* the null char *

ASSUME WordSizes    == IntMod \in Nat /\ LongLongMod \in Nat /\ 0 < IntMod /\ IntMod <= LongLongMod
ASSUME IntsFit      == Ints \subseteq -(IntMod \div 2) .. IntMod \div 2 - 1
ASSUME LongLongsFit == LongLongs \subseteq -(LongLongMod \div 2) .. LongLongMod \div 2 - 1
ASSUME CodesFit     == Codes \subseteq -(IntMod \div 2) + 1 .. IntMod \div 2 - 1
ASSUME SizesFit     == MemSize \in Nat /\ Sizes \subseteq 0 .. MemSize

NUL == "NUL"
E_INVAL == 3
Digit == <<"0", "1", "2", "3", "4", "5", "6", "7", "8", "9", "a", "b", "c", "d", "e", "f">>
Decimal  == {Digit[k] : k \in 1 .. 10}
Value(c) == CHOOSE k \in 0 .. 15 : Digit[k + 1] = c
Number(s) ==
    LET v[k \in 0 .. Len(s)] == IF k = 0 THEN 0 ELSE v[k - 1] * 10 + Value(s[k])
    IN  v[Len(s)]
Repeat(c, k) == [j \in 1 .. Max({k, 0}) |-> c]
Abs(n) == IF n < 0 THEN -n ELSE n

\* A string is a sequence of characters.
IsText(s) == s \in Seq(Range(s))

ASSUME TextsFit ==
    /\ \A s \in Strings : IsText(s)
    /\ \A e \in DOMAIN error_string : IsText(error_string[e])

(***************************************************************************)
(* A format: directives, each with some plain text before it, and the      *)
(* plain text after the last.  NUL for a conversion: the format ends.      *)
(***************************************************************************)
Parts(d) ==
    << <<"%">>, d.pad, d.alt, d.width, IF d.prec = <<>> THEN <<>> ELSE <<".">>, d.prec,
       d.long, IF d.conv = NUL THEN <<>> ELSE <<d.conv>> >>
Directive(d) == FlattenSeq(Parts(d))
Whole(d)     == d.before \o Directive(d)
Written(f)   == FlattenSeq([k \in DOMAIN f.directives |-> Whole(f.directives[k])]) \o f.rest

IsPlain(s) == IsText(s) /\ Range(s) \cap {"%", NUL} = {}

\* A width or a precision is left out, an argument, or a number.
IsAmount(s) == s \in {<<>>, <<"*">>} \/ (s \in Seq(Decimal) /\ Len(s) > 0 /\ s[1] # "0")

IsDirective(d) ==
    /\ IsPlain(d.before)
    /\ d.pad \in {<<>>, <<"-">>, <<"0">>} /\ d.alt \in {<<>>, <<"#">>}
    /\ IsAmount(d.width) /\ IsAmount(d.prec)
    /\ d.long \in {<<>>, <<"l">>, <<"l", "l">>}
    /\ d.conv \notin {"-", "*", ".", "#", "l"} \cup Decimal

ASSUME FormatsWritten ==
    \A f \in Formats :
        /\ f.directives \in Seq(Range(f.directives)) /\ IsPlain(f.rest)
        /\ \A k \in DOMAIN f.directives :
             /\ IsDirective(f.directives[k])
             /\ f.directives[k].conv = NUL => k = Len(f.directives) /\ f.rest = <<>>

VARIABLES
    call,   \* cprintf or snprintf
    n,      \* snprintf's n; 0 stands for a null buf too
    format, fmt,
    next,   \* the position in fmt
    escape, \* inside a % escape
    spec,   \* padc, width, precision, lflag, altflag
    args,   \* history: what va_arg returned
    out,    \* history: what putch was given
    b,      \* snprintf's struct sprintbuf, and the memory its buffer is in
    done, ret

input == <<call, n, format, fmt>>
vars == <<input, next, escape, spec, args, out, b, done, ret>>

NoFlags == [padc |-> " ", width |-> -1, precision |-> -1, lflag |-> 0, altflag |-> FALSE]

Init ==
    /\ call \in {"cprintf", "snprintf"}
    /\ n \in IF call = "snprintf" THEN Sizes ELSE {0}
    /\ format \in Formats
    /\ fmt = Written(format)
    /\ next = 1 /\ escape = FALSE /\ spec = NoFlags
    /\ args = <<>> /\ out = <<>>
    /\ b = [mem |-> [k \in 0 .. MemSize - 1 |-> "untouched"],
            buf |-> 0, ebuf |-> n - 1, cnt |-> 0]
    /\ done = FALSE /\ ret = 0

Running == ~done /\ ~(call = "snprintf" /\ n < 1)

\* vsnprintf without a buffer, or without room for the final 0.
BadSize ==
    /\ ~done /\ ~Running
    /\ done' = TRUE /\ ret' = -E_INVAL
    /\ UNCHANGED <<input, next, escape, spec, args, out, b>>

ch == IF next > Len(fmt) THEN NUL ELSE fmt[next]

Stores(mem, at, count, text) ==
    [k \in DOMAIN mem |-> IF k \in at .. at + count - 1 THEN text[k - at + 1] ELSE mem[k]]

\* Mutant: one byte too many.
sprintputch_Fills(s, text) ==
    LET stored == Min({Len(text), s.ebuf + 1 - s.buf}) IN
    [s EXCEPT !.cnt = @ + Len(text),
              !.mem = Stores(@, s.buf, stored, text),
              !.buf = @ + stored]

\* One call for each character of text: every one is counted, and stored
\* while there is room before the last byte.
sprintputch(s, text) ==
    LET stored == Min({Len(text), s.ebuf - s.buf}) IN
    [s EXCEPT !.cnt = @ + Len(text),
              !.mem = Stores(@, s.buf, stored, text),
              !.buf = @ + stored]

\* That of cprintf moves the pointer to its counter instead of counting,
\* so the count stays 0.
putch(text) ==
    /\ out' = out \o text
    /\ b' = IF call = "snprintf" THEN sprintputch(b, text) ELSE b

-----------------------------------------------------------------------------
Plain ==
    /\ Running /\ ~escape /\ ch \notin {"%", NUL}
    /\ putch(<<ch>>)
    /\ next' = next + 1
    /\ UNCHANGED <<input, escape, spec, args, done, ret>>

Percent ==
    /\ Running /\ ~escape /\ ch = "%"
    /\ escape' = TRUE /\ spec' = NoFlags
    /\ next' = next + 1
    /\ UNCHANGED <<input, args, out, b, done, ret>>

\* The end of fmt; snprintf puts its 0 behind what it stored.
Return ==
    /\ Running /\ ~escape /\ ch = NUL
    /\ done' = TRUE /\ ret' = b.cnt
    /\ b' = IF call = "snprintf" THEN [b EXCEPT !.mem[b.buf] = NUL] ELSE b
    /\ UNCHANGED <<input, next, escape, spec, args, out>>

\* goto reswitch
Flag(newspec, skip) ==
    /\ spec' = newspec
    /\ next' = next + skip
    /\ UNCHANGED <<input, escape, out, b, done, ret>>

process_precision(v) ==
    IF spec.width < 0 THEN [spec EXCEPT !.width = v, !.precision = -1]
                      ELSE [spec EXCEPT !.precision = v]

\* Mutant: the loop over the digits leaves fmt at the first.
WidthDigits_Stays ==
    /\ ch \in Decimal \ {"0"}
    /\ Flag(process_precision(Value(ch)), 0)
    /\ UNCHANGED args

\* All the digits of a number are read at once.
WidthDigits ==
    /\ ch \in Decimal \ {"0"}
    /\ LET last == Max({j \in next .. Len(fmt) : \A k \in next .. j : fmt[k] \in Decimal})
       IN Flag(process_precision(Number(SubSeq(fmt, next, last))), last + 1 - next)
    /\ UNCHANGED args

Star ==
    /\ ch = "*"
    /\ \E v \in Ints : Flag(process_precision(v), 1) /\ args' = Append(args, v)

Flags ==
    /\ Running /\ escape
    /\ \/ ch \in {"-", "0"} /\ Flag([spec EXCEPT !.padc = ch], 1) /\ UNCHANGED args
       \/ WidthDigits \/ Star
       \/ ch = "." /\ Flag([spec EXCEPT !.width = IF @ < 0 THEN 0 ELSE @], 1) /\ UNCHANGED args
       \/ ch = "#" /\ Flag([spec EXCEPT !.altflag = TRUE], 1) /\ UNCHANGED args
       \/ ch = "l" /\ Flag([spec EXCEPT !.lflag = @ + 1], 1) /\ UNCHANGED args

-----------------------------------------------------------------------------
\* Recursively the digits before the last.  Each level takes one from width,
\* and the one with the first digit pads to what is left.
printnum(num, base, width) ==
    LET digits[k \in 0 .. num] ==
            Append(IF k >= base THEN digits[k \div base] ELSE <<>>, Digit[(k % base) + 1])
    IN  Repeat(spec.padc, width - Len(digits[num])) \o digits[num]

\* getint's arguments, and what getuint makes of one.
VaInts == IF spec.lflag >= 2 THEN LongLongs ELSE Ints
Unsigned(v) == v % (IF spec.lflag >= 2 THEN LongLongMod ELSE IntMod)

Base == [u |-> 10, o |-> 8, x |-> 16]
number(num, base) == printnum(num, base, spec.width)

SignedText(v) ==
    (IF v < 0 THEN <<"-">> ELSE <<>>) \o number(IF v < 0 THEN (-v) % LongLongMod ELSE v, 10)

\* What %e prints through printfmt, whose flags are its own.
ErrorText(v) ==
    IF Abs(v) \in DOMAIN error_string THEN error_string[Abs(v)]
    ELSE <<"e", "r", "r", "o", "r", " ">> \o printnum(Abs(v), 10, -1)

\* Mutant: the padding to the left counts the whole string.
StringText_PadsWhole(s) ==
    LET p     == IF s = NULL THEN <<"(", "n", "u", "l", "l", ")">> ELSE s
        shown == IF spec.precision < 0 THEN p
                 ELSE SubSeq(p, 1, Min({spec.precision, Len(p)}))
        left  == IF spec.width > 0 /\ spec.padc # "-" THEN spec.width - Len(p) ELSE 0
        rest  == IF spec.width > 0 /\ spec.padc # "-" THEN Min({left, 0}) ELSE spec.width
    IN Repeat(spec.padc, left)
       \o [k \in DOMAIN shown |-> IF spec.altflag /\ shown[k] = "\t" THEN "?" ELSE shown[k]]
       \o Repeat(" ", rest - Len(shown))

\* %s: the padding to the left counts the characters that will be shown,
\* and what is left of width after them goes to the right.
StringText(s) ==
    LET p     == IF s = NULL THEN <<"(", "n", "u", "l", "l", ")">> ELSE s
        shown == IF spec.precision < 0 THEN p
                 ELSE SubSeq(p, 1, Min({spec.precision, Len(p)}))
        left  == IF spec.width > 0 /\ spec.padc # "-" THEN spec.width - Len(shown) ELSE 0
        rest  == IF spec.width > 0 /\ spec.padc # "-" THEN Min({left, 0}) ELSE spec.width
    IN Repeat(spec.padc, left)
       \o [k \in DOMAIN shown |-> IF spec.altflag /\ shown[k] = "\t" THEN "?" ELSE shown[k]]
       \o Repeat(" ", rest - Len(shown))

\* break: the conversion of the arguments `used` is done.
Convert(text, used) ==
    /\ putch(text)
    /\ args' = args \o used
    /\ escape' = FALSE
    /\ next' = next + 1
    /\ UNCHANGED <<input, spec, done, ret>>

Conversions ==
    /\ Running /\ escape
    /\ \/ ch = "c" /\ \E c \in Chars : Convert(<<c>>, <<c>>)
       \/ ch = "e" /\ \E v \in Codes : Convert(ErrorText(v), <<v>>)
       \/ ch = "s" /\ \E s \in Strings \cup {NULL} : Convert(StringText(s), <<s>>)
       \/ ch = "d" /\ \E v \in VaInts : Convert(SignedText(v), <<v>>)
       \/ ch \in DOMAIN Base /\ \E v \in VaInts :
            Convert(number(Unsigned(v), Base[ch]), <<v>>)
       \/ ch = "p" /\ \E v \in Ints :
            Convert(<<"0", "x">> \o number(v % IntMod, 16), <<v>>)
       \/ ch = "%" /\ Convert(<<"%">>, <<>>)

\* Mutant: fmt is not moved back over the flags.
Unrecognized_KeepsPlace ==
    /\ Running /\ escape
    /\ ch \notin {"-", "0", "*", ".", "#", "l", "c", "e", "s", "d", "p", "%"}
                 \cup Decimal \cup DOMAIN Base
    /\ putch(<<"%">>)
    /\ next' = next
    /\ escape' = FALSE
    /\ UNCHANGED <<input, spec, args, done, ret>>

\* Anything else, the end of fmt too: fmt goes back to the % and the text
\* behind it is printed as it stands.
Unrecognized ==
    /\ Running /\ escape
    /\ ch \notin {"-", "0", "*", ".", "#", "l", "c", "e", "s", "d", "p", "%"}
                 \cup Decimal \cup DOMAIN Base
    /\ putch(<<"%">>)
    /\ next' = 1 + Max({j \in 1 .. next - 1 : fmt[j] = "%"})
    /\ escape' = FALSE
    /\ UNCHANGED <<input, spec, args, done, ret>>

Next == BadSize \/ Plain \/ Percent \/ Return \/ Flags \/ Conversions \/ Unrecognized

\* Nothing else runs in the meantime.
Spec == Init /\ [][Next]_vars /\ WF_vars(Next)

-----------------------------------------------------------------------------
(***************************************************************************)
(* The reference: what a directive stands for, without a word on how it is *)
(* read.  `a` are the arguments it takes.                                  *)
(***************************************************************************)
Known(d)   == d.conv \in {"c", "e", "s", "d", "u", "o", "x", "p", "%"}
Starred(s) == s = <<"*">>

\* The arguments a directive takes, by what they are for.
Uses(d) ==
    (IF Starred(d.width) THEN <<"width">> ELSE <<>>)
    \o (IF Starred(d.prec) THEN <<"precision">> ELSE <<>>)
    \o (IF Known(d) /\ d.conv # "%" THEN <<"value">> ELSE <<>>)

\* How many the first k directives take; those of the k-th.
Taken(k)     == Len(FlattenSeq([j \in 1 .. k |-> Uses(format.directives[j])]))
Arguments(k) == SubSeq(args, Taken(k - 1) + 1, Taken(k))

\* The digits of num by their weight, at least one, padded to width w on the
\* left with c, '-' included.
Numeral(num, base, w, c) ==
    LET power[k \in 0 .. num + 1] == IF k = 0 THEN 1 ELSE power[k - 1] * base
        len == CHOOSE k \in 1 .. num + 1 : num < power[k] /\ (k = 1 \/ num >= power[k - 1])
        all == Max({len, w})
    IN [j \in 1 .. all |->
            IF j > all - len THEN Digit[((num \div power[all - j]) % base) + 1] ELSE c]

\* A directive's width, precision and padding, its arguments being a; no
\* precision is -1.
Width(d, a)     == IF Starred(d.width) THEN a[1] ELSE Number(d.width)
Precision(d, a) == IF Starred(d.prec) THEN a[IF Starred(d.width) THEN 2 ELSE 1]
                   ELSE IF d.prec = <<>> THEN -1 ELSE Number(d.prec)
Padding(d)      == IF d.pad = <<>> THEN " " ELSE d.pad[1]

\* A string, cut off at the precision, between the spaces that fill the width.
StringField(d, a, s) ==
    LET cut   == IF Precision(d, a) \in 0 .. Len(s) THEN SubSeq(s, 1, Precision(d, a)) ELSE s
        shown == IF d.alt = <<>> THEN cut
                 ELSE [k \in DOMAIN cut |-> IF cut[k] = "\t" THEN "?" ELSE cut[k]]
        fill  == Repeat(IF d.pad = <<"-">> THEN " " ELSE Padding(d), Width(d, a) - Len(shown))
    IN IF d.pad = <<"-">> THEN shown \o fill ELSE fill \o shown

\* What directive d prints; its last argument is the value.
Expected(d, a) ==
    LET v == a[Len(a)]
        Field(num, base) == Numeral(num, base, Width(d, a), Padding(d))
    IN CASE ~Known(d)     -> Directive(d)
         [] d.conv = "%"  -> <<"%">>
         [] d.conv = "c"  -> <<v>>
         [] d.conv = "e"  -> IF Abs(v) \in DOMAIN error_string THEN error_string[Abs(v)]
                             ELSE <<"e", "r", "r", "o", "r", " ">> \o Numeral(Abs(v), 10, 0, " ")
         [] d.conv = "d"  -> (IF v < 0 THEN <<"-">> ELSE <<>>) \o Field(Abs(v), 10)
         [] d.conv = "p"  -> <<"0", "x">> \o Field(v % IntMod, 16)
         [] d.conv \in DOMAIN Base ->
              Field(v % (IF d.long = <<"l", "l">> THEN LongLongMod ELSE IntMod), Base[d.conv])
         [] d.conv = "s"  ->
              StringField(d, a, IF v = NULL THEN <<"(", "n", "u", "l", "l", ")">> ELSE v)

\* What the first k directives print, each with its own arguments.
ExpectedText(k) ==
    FlattenSeq([j \in 1 .. k |->
        format.directives[j].before \o Expected(format.directives[j], Arguments(j))])

\* Directives that the code reads otherwise than its comments say: '-' before
\* a number, and a width before a string.
MinusNumber(d)  == d.pad = <<"-">> /\ d.conv \in {"d", "p"} \cup DOMAIN Base
FilledString(d) == d.conv = "s" /\ d.width # <<>>
AsCommented ==
    \A k \in DOMAIN format.directives :
        ~MinusNumber(format.directives[k]) /\ ~FilledString(format.directives[k])

Completed == done /\ ret # -E_INVAL
AllAsExpected ==
    LET last == Len(format.directives) IN
    out = ExpectedText(last) \o format.rest /\ Len(args) = Taken(last)

(***************************************************************************)
(* Whatever mix of flags, width and precision precedes a conversion, it    *)
(* takes its own arguments and none of the next one's, prints its value as *)
(* the comments of printfmt.c on the flags say, and a directive vprintfmt  *)
(* does not know is printed as it was written ("unrecognized escape        *)
(* sequence - just print it literally").  This is about the formats in     *)
(* which the comments and the code agree on every directive.               *)
(***************************************************************************)
PrintsAsDirected == Completed /\ AsCommented => AllAsExpected

(***************************************************************************)
(* In the other formats the code goes its own way, and only so.  '-' is    *)
(* the "flag to pad on the right" (printfmt.c:107), and a number with it   *)
(* is padded on the left, with '-'.  "Space or zero padding and a field    *)
(* width are supported for the numeric formats only" (printfmt.c:12-13),   *)
(* and %s is filled to its width, by what is shown of the string and on    *)
(* the side the flag says.                                                 *)
(***************************************************************************)
OwnReadings == Completed /\ ~AsCommented => AllAsExpected

(***************************************************************************)
(* snprintf never writes past its n bytes, ends what it stored with a 0,   *)
(* stores the beginning of the text and returns the length of all of it.   *)
(***************************************************************************)
BufferBounded ==
    /\ \A k \in n .. MemSize - 1 : b.mem[k] = "untouched"
    /\ done /\ call = "snprintf" /\ n > 0 =>
         LET stored == Min({n - 1, Len(out)}) IN
         /\ ret = Len(out)
         /\ b.mem[stored] = NUL
         /\ \A k \in 1 .. stored : b.mem[k - 1] = out[k]

(***************************************************************************)
(* Every format comes to its end, also one that ends inside an escape or   *)
(* makes vprintfmt go back.                                                *)
(***************************************************************************)
Finishes == <>done
===============================================================================
