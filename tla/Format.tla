------------------------------- MODULE Format -------------------------------
(***************************************************************************)
(* How numbers and strings are put into fields: libc/printf.c for the ROMs *)
(* and the tools, console_printf and itoa of k/console.c for the kernel.   *)
(* A directive is a record of what stands between `%' and the conversion;  *)
(* letter case of digits is left out.                                      *)
(***************************************************************************)
EXTENDS Integers, Sequences
LOCAL INSTANCE SequencesExt

CONSTANTS
    WordBits,   \* bits of long and int (32)
    ShortBits   \* bits of short (16)

Digit == <<"0", "1", "2", "3", "4", "5", "6", "7", "8", "9",
           "A", "B", "C", "D", "E", "F">>
Unsigned(num, bits) == num % 2^bits
Signed(num, bits) ==
    LET u == Unsigned(num, bits)
    IN  IF u < 2^(bits - 1) THEN u ELSE u - 2^bits

Pad(ch, room) == [i \in 1..room |-> ch]
Larger(a, b) == IF a > b THEN a ELSE b

\* __do_div until nothing is left, the last remainder first.
DigitsOf(num, base) ==
    LET d[m \in Nat] == IF m < base THEN <<Digit[m + 1]>>
                        ELSE Append(d[m \div base], Digit[(m % base) + 1])
    IN  d[num]

Sign(num, flags) ==
    IF "SIGN" \notin flags THEN <<>>
    ELSE IF num < 0 THEN <<"-">>
    ELSE IF "PLUS" \in flags THEN <<"+">>
    ELSE IF "SPACE" \in flags THEN <<" ">> ELSE <<>>
Prefix(base, flags) ==
    IF "SPECIAL" \notin flags \/ base = 10 THEN <<>>
    ELSE IF base = 8 THEN <<"0">> ELSE <<"0", "X">>

\* A long is its own opposite when it is the least: its digits are taken as
\* those of an unsigned.
number(num, base, size, precision, flags) ==
    LET left == "LEFT" \in flags
        zero == "ZEROPAD" \in flags /\ ~left
        sign == Sign(num, flags)
        prefix == Prefix(base, flags)
        digits == DigitsOf(Unsigned(IF sign = <<"-">> THEN -num ELSE num, WordBits), base)
        zeros == Pad("0", precision - Len(digits))
        room == size - Len(sign \o prefix \o zeros \o digits)
    IN  (IF left \/ zero THEN <<>> ELSE Pad(" ", room)) \o sign \o prefix
        \o (IF zero THEN Pad("0", room) ELSE <<>>) \o zeros \o digits
        \o (IF left THEN Pad(" ", room) ELSE <<>>)

Aligned(text, width, flags) ==
    IF "LEFT" \in flags THEN text \o Pad(" ", width - Len(text))
    ELSE Pad(" ", width - Len(text)) \o text

\* A width of -1 is none given, but a negative argument of `*' is a width to
\* the left; a precision of -1 is none given.
Field(d) == IF d.star /\ d.width < 0
            THEN [d EXCEPT !.width = -@, !.flags = @ \cup {"LEFT"}] ELSE d

Taken(d) ==
    IF d.qualifier = "h"
    THEN IF d.conv = "d" THEN Signed(d.arg, ShortBits) ELSE Unsigned(d.arg, ShortBits)
    ELSE IF d.conv = "d" THEN Signed(d.arg, WordBits) ELSE Unsigned(d.arg, WordBits)

\* One turn of vsprintf's loop.
Converted(given) ==
    LET d == Field(given)
        numeric(base, flags) == number(Taken(d), base, d.width, d.precision, flags)
    IN  CASE d.conv = "literal" -> <<d.arg>>
          [] d.conv = "c" -> Aligned(<<d.arg>>, d.width, d.flags)
          [] d.conv = "s" ->
                Aligned(IF d.precision < 0 \/ d.precision >= Len(d.arg) THEN d.arg
                        ELSE SubSeq(d.arg, 1, d.precision), d.width, d.flags)
          [] d.conv = "p" ->
                number(d.arg, 16, IF d.width = -1 THEN WordBits \div 4 ELSE d.width,
                       d.precision,
                       IF d.width = -1 THEN d.flags \cup {"ZEROPAD"} ELSE d.flags)
          [] d.conv = "o" -> numeric(8, d.flags)
          [] d.conv = "x" -> numeric(16, d.flags)
          [] d.conv = "u" -> numeric(10, d.flags)
          [] d.conv = "d" -> numeric(10, d.flags \cup {"SIGN"})
          [] OTHER -> <<"%", d.conv>>

vsprintf(directives) == FlattenSeq([i \in DOMAIN directives |-> Converted(directives[i])])

\* The kernel's own: any conversion but `d' takes the number as unsigned.
itoa(base, num) ==
    LET negative == base = "d" /\ num < 0
    IN  (IF negative THEN <<"-">> ELSE <<>>)
        \o DigitsOf(Unsigned(IF negative THEN -num ELSE num, WordBits),
                    IF base = "x" THEN 16 ELSE 10)

\* A digit in a directive is taken for its conversion: the argument is printed
\* as a character, and the conversion, if any, as it stands.
console_printf(d) ==
    IF d.width > 0 THEN <<d.arg, d.conv>>
    ELSE IF d.conv \in {"d", "u", "x"} THEN itoa(d.conv, d.arg)
    ELSE IF d.conv = "s" THEN d.arg ELSE <<d.arg>>

-----------------------------------------------------------------------------
\* The reference: what a reader makes of a field.
Strip(out, chars) == SelectSeq(out, LAMBDA ch : ch \notin chars)
Read(out, base) ==
    LET text == Strip(out, {" ", "+", "-", "X"})
        v[i \in 0..Len(text)] ==
            IF i = 0 THEN 0
            ELSE base * v[i - 1] + (CHOOSE n \in 0..15 : Digit[n + 1] = text[i])
    IN  IF "-" \in ToSet(out) THEN -v[Len(text)] ELSE v[Len(text)]

BaseOf(conv) == IF conv = "o" THEN 8 ELSE IF conv \in {"x", "p"} THEN 16 ELSE 10

\* A field of a number is as wide as asked, reads back as the number, has its
\* digits together, and blanks on one side only.
FieldRight(d) ==
    LET out == Converted(d)
        core == Strip(out, {" "})
        plain == Converted([d EXCEPT !.star = FALSE, !.width = 0])
    IN  /\ Read(out, BaseOf(d.conv)) = (IF d.conv = "p" THEN d.arg ELSE Taken(d))
        /\ Len(out) >= Field(d).width /\ Len(out) >= Len(plain)
        /\ Len(out) > Len(plain) => Len(out) = Field(d).width \/ d.conv = "p"
        /\ Len(core) > d.precision - 1
        /\ \E i \in 0..Len(out) : SubSeq(out, i + 1, i + Len(core)) = core
        /\ Field(d).width > Len(plain) /\ "LEFT" \in Field(d).flags => Last(out) = " "

ItoaRight(conv, num) ==
    Read(itoa(conv, num), BaseOf(conv)) =
        IF conv = "d" THEN Signed(num, WordBits) ELSE Unsigned(num, WordBits)
=============================================================================
