----------------------------- MODULE PrintkFormat -----------------------------
(***************************************************************************)
(* cOS/kernel/src/printk.c: what __vsprintf and __number turn a format and *)
(* its arguments into.  A text is a sequence of characters.                *)
(*                                                                         *)
(* A format is a sequence of items: [lit |-> c] for a character that stands *)
(* for itself, and for a conversion a record of its letter, the set of its *)
(* flags, the field width and precision as written (None when absent; a    *)
(* `*` may give any other number), whether it has the qualifier l, and its *)
(* argument, under "num", "chr" or "str".  Whether the letters of a        *)
(* hexadecimal number are small is left out.                               *)
(***************************************************************************)
EXTENDS Integers, Sequences, SequencesExt

CONSTANTS
    IntBits,    \* the width of int32: 32
    LongBits,   \* the width of int64, of a pointer, and of a register: 64
    Chars       \* the characters, byte

ASSUME WidthAssumption == IntBits \in Nat \ {0} /\ LongBits \in Nat /\ LongBits >= IntBits

None == -1

\* The power of two there are as many bits for, and x as a two's complement
\* number of so many bits.
Pow2[n \in Nat] == IF n = 0 THEN 1 ELSE 2 * Pow2[n - 1]
Signed(x, bits) ==
    LET m == x % Pow2[bits] IN IF m < Pow2[bits - 1] THEN m ELSE m - Pow2[bits]

DigitChars == <<"0", "1", "2", "3", "4", "5", "6", "7", "8", "9", "A", "B", "C", "D", "E", "F">>
NUL == "NUL"     \* the character '\0'

ASSUME CharAssumption ==
    {DigitChars[k] : k \in 1 .. 16} \cup {NUL, " ", "+", "-", "%", "x", "b"} \subseteq Chars

\* The loop of get_remainder, an unsigned division.
Digits(n, base) ==
    LET digits[k \in Nat] ==
            IF k < base THEN <<DigitChars[k + 1]>>
            ELSE Append(digits[k \div base], DigitChars[(k % base) + 1])
    IN  digits[n]

Pad(c, n) == [i \in 1 .. n |-> c]

-----------------------------------------------------------------------------
(***************************************************************************)
(* __number.                                                               *)
(***************************************************************************)
Negative(num, type) == "SIGN" \in type /\ num < 0

\* num = -num wraps for the most negative number; the division reads the
\* register as unsigned, which is then its magnitude.
Magnitude_NotNegated(num, type) == num % Pow2[LongBits]
Magnitude(num, type) ==
    (IF Negative(num, type) THEN Signed(-num, LongBits) ELSE num) % Pow2[LongBits]

SignChars(num, type) ==
    CASE Negative(num, type) -> <<"-">>
      [] ~Negative(num, type) /\ "PLUS" \in type -> <<"+">>
      [] ~Negative(num, type) /\ "PLUS" \notin type /\ "SPACE" \in type -> <<" ">>
      [] OTHER -> <<>>

Prefix(base, type) ==
    CASE "SPECIAL" \in type /\ base = 16 -> <<"0", "x">>
      [] "SPECIAL" \in type /\ base = 8 -> <<"0">>
      [] OTHER -> <<>>

__number(num, base, size, precision, type) ==
    LET head == SignChars(num, type) \o Prefix(base, type)
        tmp == Digits(Magnitude(num, type), base)
        zeros == Pad("0", precision - Len(tmp))
        left == size - Len(head) - Len(zeros) - Len(tmp)
        padded(where) == IF where THEN left ELSE 0
    IN  Pad(" ", padded(type \cap {"ZEROPAD", "LEFT"} = {})) \o head
            \o Pad("0", padded("ZEROPAD" \in type /\ "LEFT" \notin type))
            \o zeros \o tmp \o Pad(" ", padded("LEFT" \in type))

-----------------------------------------------------------------------------
(***************************************************************************)
(* The conversions of __vsprintf.                                          *)
(***************************************************************************)
\* A negative width, which only `*` can give, is a left-justified one; a
\* precision below zero is none when absent and 0 when given by `*`.
Flags(c) == IF c.width < None THEN c.flags \cup {"LEFT"} ELSE c.flags
FieldWidth(c) == IF c.width < None THEN -c.width ELSE c.width
Precision(c) == IF c.precision < None THEN 0 ELSE c.precision

\* va_arg(args, int64) with l, va_arg(args, int32) without.
ArgumentBits(c) == IF c.long THEN LongBits ELSE IntBits
va_arg(c) == Signed(c.num, ArgumentBits(c))

Justify(c, text) ==
    LET pad == Pad(" ", FieldWidth(c) - Len(text))
    IN  IF "LEFT" \in Flags(c) THEN text \o pad ELSE pad \o text

BaseOf(c) == IF c.conv \in {"x", "X", "p"} THEN 16 ELSE IF c.conv = "o" THEN 8 ELSE 10

\* %p is a number with l, and as wide as a pointer when no width is given.
Plain(c) ==
    IF c.conv # "p" THEN c
    ELSE IF c.width # None THEN [c EXCEPT !.long = TRUE]
    ELSE [c EXCEPT !.long = TRUE, !.width = LongBits \div 4, !.flags = @ \cup {"ZEROPAD"}]

NumberType(c) == Flags(c) \cup (IF c.conv \in {"d", "i"} THEN {"SIGN"} ELSE {})

NumberOf(c) == __number(va_arg(c), BaseOf(c), FieldWidth(c), Precision(c), NumberType(c))

\* A NULL argument is not replaced: `if (!s) s = '\0'` (printk.c:208) assigns NULL again,
\* and the string is then what lies at address 0.
StringOf(c) ==
    Justify(c, IF Precision(c) # None /\ Len(c.str) > Precision(c)
               THEN SubSeq(c.str, 1, Precision(c)) ELSE c.str)

\* A letter that is no conversion is copied with its percent sign.
Item(c) ==
    CASE "lit" \in DOMAIN c -> <<c.lit>>
      [] "num" \in DOMAIN c -> NumberOf(Plain(c))
      [] "str" \in DOMAIN c -> StringOf(c)
      [] "chr" \in DOMAIN c -> Justify(c, <<c.chr>>)
      [] "other" \in DOMAIN c -> IF c.other \in {"%", NUL} THEN <<"%">> ELSE <<"%", c.other>>

__vsprintf(fmt) == FoldLeft(LAMBDA text, c : text \o Item(c), <<>>, fmt)

-----------------------------------------------------------------------------
(***************************************************************************)
(* The items of a format.                                                  *)
(***************************************************************************)
FormatFlags == {"ZEROPAD", "LEFT", "PLUS", "SPACE", "SPECIAL"}
NumberConversion ==
    [conv : {"d", "i", "u", "o", "x", "X", "p"}, flags : SUBSET FormatFlags,
     width : Int, precision : Int, long : BOOLEAN, num : Int]
StringConversion ==
    [conv : {"s"}, flags : SUBSET FormatFlags, width : Int, precision : Int, str : Seq(Chars)]
CharConversion ==
    [conv : {"c"}, flags : SUBSET FormatFlags, width : Int, precision : Int, chr : Chars]
Items ==
    [lit : Chars] \cup NumberConversion \cup StringConversion \cup CharConversion
        \cup [other : Chars]

\* The argument of a number's conversion is of the type va_arg reads, an int32 or with
\* l an int64, which %u, %o and %x also take as an unsigned one.
ArgumentFits(c) ==
    \/ c.long /\ c.conv \notin {"d", "i"}
    \/ c.num \in -Pow2[ArgumentBits(c) - 1] .. Pow2[ArgumentBits(c) - 1] - 1

-----------------------------------------------------------------------------
(***************************************************************************)
(* What a number should look like, read back from its text.                *)
(***************************************************************************)
DigitValue(ch) == (CHOOSE i \in DOMAIN DigitChars : DigitChars[i] = ch) - 1
ValueOf(digits, base) == FoldLeft(LAMBDA v, ch : v * base + DigitValue(ch), 0, digits)
IsDigits(s, base) == s # <<>> /\ \A i \in DOMAIN s : s[i] \in {DigitChars[k] : k \in 1 .. base}
Blank(s) == \A i \in DOMAIN s : s[i] = " "

\* text is a blanks, a sign and a prefix, digits that read as magnitude, at least
\* as many as the precision asks, and b blanks; blanks only on the side asked for
\* and only to fill the width, with zeros in their place when asked.
ReadsBetween(text, c, head, magnitude, a, b) ==
    LET body == SubSeq(text, a + 1, Len(text) - b)
        digits == SubSeq(body, Len(head) + 1, Len(body))
    IN  /\ a + b <= Len(text)
        /\ Blank(SubSeq(text, 1, a)) /\ Blank(SubSeq(text, Len(text) - b + 1, Len(text)))
        /\ IsPrefix(head, body)
        /\ IsDigits(digits, BaseOf(c)) /\ ValueOf(digits, BaseOf(c)) = magnitude
        /\ Len(digits) >= Precision(c)
        /\ Len(text) >= FieldWidth(c)
        /\ a + b > 0 => Len(text) = FieldWidth(c)
        /\ "LEFT" \in Flags(c) => a = 0
        /\ "LEFT" \notin Flags(c) => b = 0
        /\ a > 0 => "ZEROPAD" \notin Flags(c)
        /\ digits[1] = "0" /\ Len(digits) > 1 =>
               Len(digits) = Precision(c) \/ Len(text) = FieldWidth(c)

ReadsAs(text, c, negative, magnitude) ==
    LET head == SignChars(IF negative THEN -1 ELSE 0, NumberType(c)) \o Prefix(BaseOf(c), NumberType(c))
    IN  \E a, b \in 0 .. Len(text) : ReadsBetween(text, c, head, magnitude, a, b)
=============================================================================
