------------------------------ MODULE OsPrintf ------------------------------
(***************************************************************************)
(* util/os_printf.c: os_vsniprintf writes a format into a buffer of a      *)
(* given size, one piece after another, and stops early when what may come *)
(* next would not fit.  A character is a digit 0 .. 15, or one of the      *)
(* numbers below; a float is a number of hundredths.                       *)
(***************************************************************************)
EXTENDS Integers, Sequences

CONSTANTS
  BufferSize, \* size
  MaxInt,     \* 2^31 - 1
  Values,     \* the int arguments
  Hundredths, \* the float arguments
  Precisions, \* the digits after '.' in a format
  Lengths,    \* the lengths of the string arguments
  Plain       \* formats without "%%" or an unknown conversion

MinInt == -MaxInt - 1

ASSUME PrintAssumption ==
  /\ BufferSize \in Nat \ {0} /\ MaxInt \in Nat
  /\ Values \subseteq MinInt .. MaxInt
  /\ Hundredths \subseteq Int
  /\ Precisions \subseteq 0 .. 8
  /\ Lengths \subseteq Nat
  /\ Plain \in BOOLEAN

Minus   == 16  \* '-'
Point   == 17  \* '.'
Letter  == 18  \* any other character
Garbage == 19  \* what was in the buffer before, or no digit at all

VARIABLES
  used,      \* bp - buff
  precision, \* dec_precision
  item,      \* the conversion made last, with its argument
  text,      \* what it wrote
  stopped    \* at DONE, with the final '\0' written

printVars == <<used, precision, item, text, stopped>>

NoItem == [kind |-> "none", arg |-> 0, mode |-> 0]

PrintInit ==
  /\ used = 0
  /\ precision = 1
  /\ item = NoItem
  /\ text = << >>
  /\ stopped = FALSE

-----------------------------------------------------------------------------
(* Division and remainder of C, and -val, which overflows for MinInt.      *)
Quot(a, b) ==
  LET m == -(a + 1)
  IN  IF a >= 0 THEN a \div b
      ELSE -(m \div b) - (IF m % b = b - 1 THEN 1 ELSE 0)
Rem(a, b)  == a - Quot(a, b) * b
Negated(a) == IF a = MinInt THEN MinInt ELSE -a

(* The loop that counts the places, and the one that writes the digits     *)
(* backwards, which ends when val is not positive.                         *)
NumDigits(v, radix) ==
  LET places[w \in Nat] == IF w = 0 THEN 0 ELSE 1 + places[w \div radix]
  IN  IF v >= 0 THEN places[v] ELSE 1 + places[-Quot(v, radix)]

DigitsOf(v, radix) ==
  LET digits[w \in Nat] ==
        (IF w \div radix = 0 THEN << >> ELSE digits[w \div radix]) \o <<w % radix>>
  IN  IF v >= 0 THEN digits[v] ELSE <<IF Rem(v, radix) < 0 THEN Garbage ELSE 0>>

ItoaNoSign(val, radix, isUnsigned) ==                            \* mutant
  DigitsOf(IF val < 0 THEN Negated(val) ELSE val, radix)

(* os_itoa: of a negative value that is not negated the loop writes the    *)
(* last place only.                                                        *)
Itoa(val, radix, isUnsigned) ==
  LET negative == val < 0 /\ ~isUnsigned
      v        == IF negative THEN Negated(val) ELSE val
      places   == IF v = 0 THEN 1 ELSE NumDigits(v, radix)
      digits   == DigitsOf(v, radix)
      unset    == [i \in 1 .. places - Len(digits) |-> Garbage]
  IN  (IF negative THEN <<Minus>> ELSE << >>) \o unset \o digits

POW10 == <<1, 10, 100, 1000, 10000, 100000, 1000000, 10000000, 100000000>>

(* os_ftoa: the digits after the point are a number of their own, so that  *)
(* zeros before them are lost; there are as many zeros as asked for only   *)
(* when all are.                                                           *)
Ftoa(f, digits) ==
  LET mult == POW10[digits + 1]
      n    == Rem(Quot(f * mult, 100), mult)
  IN  Itoa(Quot(f, 100), 10, FALSE)
        \o (IF digits = 0 THEN << >>
            ELSE <<Point>> \o IF n # 0 THEN Itoa(n, 10, FALSE) ELSE [i \in 1 .. digits |-> 0])

-----------------------------------------------------------------------------
(* A conversion that may write as many as reserve characters is not begun  *)
(* when they might not fit.                                                *)
Fits(reserve)       == used + reserve < BufferSize - 1

Written(k, a, m, t) ==
  /\ item' = [kind |-> k, arg |-> a, mode |-> m]
  /\ text' = t
  /\ used' = used + Len(t)

Done(n) == used' = n + 1 /\ stopped' = TRUE

Convert(k, a, m, t, reserve) ==
  IF Fits(reserve) THEN Written(k, a, m, t) /\ UNCHANGED stopped
  ELSE Done(used) /\ UNCHANGED <<item, text>>

(* Plain characters, '%c' and '%s': the buffer is checked after every      *)
(* character.                                                              *)
PutChars(n) ==
  /\ n > 0
  /\ item' = NoItem /\ text' = << >>
  /\ IF used + n >= BufferSize - 1
       THEN Done(IF used + 1 >= BufferSize - 1 THEN used + 1 ELSE BufferSize - 1)
       ELSE used' = used + n /\ UNCHANGED stopped
  /\ UNCHANGED precision

(* The signedness of '%u' is taken from the character after it.            *)
PutDecimal(k, a, nextIsU) ==
  /\ Convert(k, a, IF nextIsU THEN 1 ELSE 0, Itoa(a, 10, nextIsU), 11)
  /\ UNCHANGED precision

PutHex(a) ==
  /\ Convert("x", a, 1, Itoa(a, 16, TRUE), 8)
  /\ UNCHANGED precision

SetPrecision(p) ==
  /\ precision' = p
  /\ UNCHANGED <<used, item, text, stopped>>

PutFloat(f) ==
  /\ Convert("f", f, precision, Ftoa(f, precision), 16)
  /\ precision' = IF stopped' THEN precision ELSE 1

(* '%%' and unknown conversions: one character, unchecked.                 *)
PutUnknown ==
  /\ ~Plain
  /\ Written("none", 0, 0, <<Letter>>)
  /\ UNCHANGED <<precision, stopped>>

EndOfFormat == Done(used) /\ UNCHANGED <<precision, item, text>>

PrintNext ==
  /\ ~stopped
  /\ \/ PutChars(1)
     \/ \E n \in Lengths : PutChars(n)
     \/ \E a \in Values, u \in BOOLEAN : PutDecimal("d", a, u) \/ PutDecimal("u", a, u)
     \/ \E a \in Values : PutHex(a)
     \/ \E p \in Precisions : SetPrecision(p)
     \/ \E f \in Hundredths : PutFloat(f)
     \/ PutUnknown
     \/ EndOfFormat

PrintSpec == PrintInit /\ [][PrintNext]_printVars

-----------------------------------------------------------------------------
(* Reference: the number a text stands for.                                *)
Magnitude(t, radix) ==
  LET upTo[i \in 0 .. Len(t)] == IF i = 0 THEN 0 ELSE upTo[i - 1] * radix + t[i]
  IN  upTo[Len(t)]

Reads(t, radix, val) ==
  LET digits == IF val < 0 THEN Tail(t) ELSE t
  IN  /\ t # << >> /\ (val < 0 => Head(t) = Minus)
      /\ digits # << >> /\ \A i \in DOMAIN digits : digits[i] \in 0 .. radix - 1
      /\ Magnitude(digits, radix) = IF val < 0 THEN -val ELSE val

(* A number is printed as what reads back as it (os_printf.c:84-146), where*)
(* the code can: '%d' of any value that can be negated, but of no negative *)
(* one before a letter u, as in the "%dus" of shell.c:70; '%u' and '%x'    *)
(* below 2^31; '%f' not negative, with one digit.  The next two properties *)
(* say what is lost elsewhere.                                             *)
NumbersRead ==
  LET a == item.arg
  IN  /\ (item.kind = "d" /\ a # MinInt /\ (item.mode = 1 => a >= 0)) => Reads(text, 10, a)
      /\ (item.kind = "u" /\ a >= 0) => Reads(text, 10, a)
      /\ (item.kind = "x" /\ a >= 0) => Reads(text, 16, a)
      /\ (item.kind = "f" /\ a >= 0 /\ item.mode = 1) =>
           \E i \in 1 .. Len(text) :
             /\ text[i] = Point /\ i = Len(text) - 1
             /\ Reads(SubSeq(text, 1, i - 1) \o <<text[i + 1]>>, 10, a \div 10)

(* '%u' prints a number without a sign (os_printf.c:57-62): the signedness *)
(* is looked for in the wrong place, so that a value above 2^31 has one.   *)
UnsignedHasNoSign == item.kind = "u" => \A i \in DOMAIN text : text[i] \in 0 .. 9

(* '%f' prints as many digits after the point as asked for                 *)
(* (os_printf.c:96-110): zeros before the others are lost.                 *)
FractionHasAllDigits ==
  item.kind = "f" /\ item.arg >= 0 /\ item.mode > 0 =>
    Len(text) > item.mode /\ text[Len(text) - item.mode] = Point

(* The text and its '\0' fit the buffer (os_printf.c:29-82), if the format *)
(* has no "%%" and no unknown conversion: those are not checked.           *)
FitsBuffer == used <= BufferSize

(* Both hold of every sequence of conversions, with any of them last       *)
(* (os_printf.c:29-146).                                                   *)
PrintsAsAsked == NumbersRead /\ FitsBuffer

=============================================================================
