-------------------------------- MODULE Text --------------------------------
(***************************************************************************)
(* Text: the two formatters (tty/printf.c), which parse and pad a          *)
(* conversion each in its own way, and the string functions that the file  *)
(* systems and the loader are built on (memory/string.c).                  *)
(*                                                                         *)
(* A formatted text is a sequence of one-character strings.  The string    *)
(* functions work on bytes: a C string is the sequence of its bytes        *)
(* without the final 0, and Byte reads that 0 at its end.                  *)
(***************************************************************************)
EXTENDS Integers, SequencesExt, FiniteSetsExt

CONSTANTS
  Word,           \* 2^32: unsigned int
  DigitBuffer     \* 32: the bytes a formatter has for a number's digits

\* In place of what a formatter would write when it leaves its own memory: of
\* the text from there on nothing is known.
Astray == "astray"

HexDigits == <<"0", "1", "2", "3", "4", "5", "6", "7",
               "8", "9", "a", "b", "c", "d", "e", "f">>

HEXDigits == <<"0", "1", "2", "3", "4", "5", "6", "7",
               "8", "9", "A", "B", "C", "D", "E", "F">>

Decimal == {HexDigits[d] : d \in 1..10}

Value(c) == CHOOSE v \in 0..15 : c \in {HexDigits[v + 1], HEXDigits[v + 1]}

At(s, i) == IF i <= Len(s) THEN s[i] ELSE ""

\* How many characters of s from i on are in S.
Span(s, i, S) ==
  CHOOSE n \in 0..Len(s) : /\ \A k \in i..i + n - 1 : At(s, k) \in S
                           /\ At(s, i + n) \notin S

Number(s, i) ==
  FoldLeft(LAMBDA v, c : 10 * v + Value(c), 0, SubSeq(s, i, i + Span(s, i, Decimal) - 1))

Pad(n, c) == [k \in 1..n |-> c]

\* The digits of n >= 0 in some base; none for 0.
Numeral(n, base, digits) ==
  LET of[k \in 0..n] == IF k = 0 THEN <<>>
                        ELSE Append(of[k \div base], digits[(k % base) + 1])
  IN of[n]

-----------------------------------------------------------------------------
(* vsnprintf.                                                              *)

\* A conversion: any number of flags, a width and a precision, each of
\* digits or a "*" that takes an argument, and a letter.  No length letters.
Spec(s, i, args) ==
  LET w     == i + Span(s, i, {"-", "0"})
      star  == At(s, w) = "*"
      p     == IF star THEN w + 1 ELSE w + Span(s, w, Decimal)
      left  == IF star THEN Tail(args) ELSE args
      dot   == At(s, p) = "."
      dstar == dot /\ At(s, p + 1) = "*"
      e     == IF ~dot THEN p
               ELSE IF dstar THEN p + 2 ELSE p + 1 + Span(s, p + 1, Decimal)
  IN [left      |-> \E k \in i..w - 1 : s[k] = "-",
      zero      |-> \E k \in i..w - 1 : s[k] = "0",
      width     |-> IF star THEN Head(args) ELSE Number(s, w),
      precision |-> IF ~dot THEN -1
                    ELSE IF dstar THEN Head(left) ELSE Number(s, p + 1),
      conv      |-> At(s, e),
      next      |-> e + 1,
      args      |-> IF dstar THEN Tail(left) ELSE left]

\* A negative number left negative (an int of the smallest value, or any
\* negative one in hexadecimal) has none.
DigitsOf(n, base) ==
  IF n = 0 THEN <<"0">> ELSE IF n < 0 THEN <<>> ELSE Numeral(n, base, HexDigits)

\* At least `precision' digits.
Digits(n, base, precision) ==
  LET d == DigitsOf(n, base) IN Pad(precision - Len(d), "0") \o d

Aligned(sp, fill, body) ==
  IF sp.left THEN body \o Pad(sp.width - Len(body), " ")
  ELSE Pad(sp.width - Len(body), fill) \o body

Fill(sp) == IF sp.zero THEN "0" ELSE " "

\* The loop that puts `precision' digits into their buffer does not look at its
\* length.  Zeros are put before the sign.  No digits at all are asked for and
\* there are none: the width in blanks.
Numerical(sp, n, base, sign) ==
  IF sp.precision > DigitBuffer THEN <<Astray>>
  ELSE IF sp.precision = 0 /\ DigitsOf(n, base) = <<>> THEN Pad(sp.width, " ")
  ELSE Aligned(sp, Fill(sp), sign \o Digits(n, base, sp.precision))

\* Of the smallest int there is no opposite.
Signed(sp, n) ==
  IF n < 0 THEN Numerical(sp, IF 2 * n = -Word THEN n ELSE -n, 10, <<"-">>)
  ELSE Numerical(sp, n, 10, <<>>)

\* A pointer to no text.
NULL == <<"NULL">>

Null == <<"(", "n", "u", "l", "l", ")">>

\* Of a NULL pointer the text "(null)"; at most `precision' characters.
String(sp, text) ==
  LET s == IF text = NULL THEN Null ELSE text
  IN Aligned(sp, " ", IF sp.precision = -1 THEN s
                      ELSE SubSeq(s, 1, Min({Len(s), sp.precision})))

\* An unknown letter is copied behind its percent sign.  So is the end of the
\* format, and the loop goes on behind it.
Converted(sp) ==
  CASE sp.conv = "d" -> Signed(sp, Head(sp.args))
    [] sp.conv = "s" -> String(sp, Head(sp.args))
    [] sp.conv = "c" -> Aligned(sp, " ", <<Head(sp.args)>>)
    [] sp.conv \in {"x", "X"} ->
         Numerical(sp, Head(sp.args), 16, <<>>)
    [] sp.conv = "%" -> <<"%">>
    [] sp.conv = ""  -> <<Astray>>
    [] OTHER -> <<"%", sp.conv>>

\* All that is written, of the format from its i-th character on, when a
\* arguments are used up.
vsnprintf_helper(s, args) ==
  LET out[i \in 1..Len(s) + 2, a \in 0..Len(args)] ==
        IF i > Len(s) THEN <<>>
        ELSE IF s[i] # "%" THEN <<s[i]>> \o out[i + 1, a]
        ELSE LET sp   == Spec(s, i + 1, SubSeq(args, a + 1, Len(args)))
                 used == Len(args) - Len(sp.args)
             IN Converted(sp) \o
                out[sp.next, IF sp.conv \in {"d", "s", "c", "x", "X"} THEN used + 1 ELSE used]
  IN out[1, 0]

\* Every copy loop stops at size; a text that fills the buffer loses its last
\* character to the terminator.  The result is how much was written, not how
\* much was needed: the measuring pass is given a size of 0 and stops at once.
\* What goes astray does so only when the text has not filled the buffer before.
vsnprintf(size, s, args) ==
  LET out == vsnprintf_helper(s, args)
      pos == Min({Len(out), size})
  IN [astray |-> \E k \in 1..pos : out[k] = Astray,
      result |-> pos,
      str    |-> SubSeq(out, 1, IF Len(out) < size THEN pos ELSE size - 1)]

-----------------------------------------------------------------------------
(* printf.                                                                 *)

\* One "0", then one "-"; digits only; one or two of a length letter.
PrintSpec(s, i) ==
  LET l == IF At(s, i) = "0" THEN i + 1 ELSE i
      w == IF At(s, l) = "-" THEN l + 1 ELSE l
      p == w + Span(s, w, Decimal)
      m == IF At(s, p) = "." THEN p + 1 + Span(s, p + 1, Decimal) ELSE p
      e == IF At(s, m) \notin {"l", "h"} THEN m
           ELSE IF At(s, m + 1) = At(s, m) THEN m + 2 ELSE m + 1
  IN [zero      |-> At(s, i) = "0",
      left      |-> At(s, l) = "-",
      width     |-> Number(s, w),
      precision |-> IF At(s, p) = "." THEN Number(s, p + 1) ELSE -1,
      conv      |-> At(s, e),
      next      |-> e + 1]

\* Zero is one digit whatever the width.  On the left, the loop that pads
\* counts from the index that printing has brought to 0: a full width of
\* spaces follows the number.
PrintNumber(sp, n, base, digits) ==
  LET d == Numeral(n, base, digits)
  IN IF n = 0 THEN <<"0">>
     ELSE IF sp.left THEN d \o Pad(sp.width, " ")
     ELSE Pad(sp.width - Len(d), Fill(sp)) \o d

\* A negative number is its sign alone: the digits are printed in the branch
\* for positive ones.
PrintSigned(sp, n) == IF n < 0 THEN <<"-">> ELSE PrintNumber(sp, n, 10, HexDigits)

PrintString(sp, text) ==
  LET s == IF text = NULL THEN Null ELSE text
  IN Aligned(sp, " ", SubSeq(s, 1, IF sp.precision >= 0 THEN Min({Len(s), sp.precision})
                                   ELSE Len(s)))

Unsigned(n) == n % Word

Printed(sp, args) ==
  CASE sp.conv \in {"d", "i"} -> PrintSigned(sp, Head(args))
    [] sp.conv = "u" -> PrintNumber(sp, Unsigned(Head(args)), 10, HexDigits)
    [] sp.conv = "s" -> PrintString(sp, Head(args))
    [] sp.conv = "c" -> <<Head(args)>>
    [] sp.conv = "x" -> PrintNumber(sp, Unsigned(Head(args)), 16, HexDigits)
    [] sp.conv = "X" -> PrintNumber(sp, Unsigned(Head(args)), 16, HEXDigits)
    [] sp.conv = "p" ->
         <<"0", "x">> \o PrintNumber([sp EXCEPT !.left = FALSE, !.width = 0],
                                   Unsigned(Head(args)), 16, HexDigits)
    [] sp.conv = "o" -> PrintNumber(sp, Unsigned(Head(args)), 8, HexDigits)
    [] sp.conv = "%" -> <<"%">>
    [] sp.conv = ""  -> <<Astray>>
    [] OTHER -> <<"%", sp.conv>>

printf(s, args) ==
  LET out[i \in 1..Len(s) + 2, a \in 0..Len(args)] ==
        IF i > Len(s) THEN <<>>
        ELSE IF s[i] # "%" THEN <<s[i]>> \o out[i + 1, a]
        ELSE LET sp == PrintSpec(s, i + 1)
             IN Printed(sp, SubSeq(args, a + 1, Len(args))) \o
                out[sp.next, IF sp.conv \in {"d", "i", "u", "s", "c", "x", "X", "p", "o"}
                             THEN a + 1 ELSE a]
  IN out[1, 0]

-----------------------------------------------------------------------------
(* Numbers in texts.                                                       *)

\* A negative number in another base than ten has negative digits: not asked for.
itos(value, base) ==
  LET n == IF value < 0 /\ base = 10 THEN -value ELSE value
      d == IF n = 0 THEN <<"0">> ELSE Numeral(n, base, HexDigits)
  IN IF value < 0 THEN <<"-">> \o d ELSE d

atoi(s) == [value |-> Number(s, 1), len |-> Span(s, 1, Decimal)]

\* Up to the first character that is no digit; only capitals are digits.
strthex(s) ==
  LET n == Span(s, 1, {HEXDigits[d] : d \in 1..16})
  IN FoldLeft(LAMBDA h, c : (16 * h + Value(c)) % Word, 0, SubSeq(s, 1, n))

-----------------------------------------------------------------------------
(* Bytes.                                                                  *)

Byte(s, i) == IF i <= Len(s) THEN s[i] ELSE 0

strlen(buf) == CHOOSE n \in 0..Len(buf) : Byte(buf, n + 1) = 0 /\ \A k \in 1..n : buf[k] # 0

strnlen(buf, max) == Min({strlen(buf), max})

\* The difference at the first of the places where a loop stops, or 0.
Difference(s, t, stops) ==
  IF stops = {} THEN 0 ELSE Byte(s, Min(stops)) - Byte(t, Min(stops))

memcmp(s, t, n) == Difference(s, t, {i \in 1..n : Byte(s, i) # Byte(t, i)})

strncmp(s, t, n) ==
  Difference(s, t, {i \in 1..n : Byte(s, i) # Byte(t, i) \/ Byte(s, i) = 0})

strcmp(s, t) == strncmp(s, t, Len(s) + 1)

toupper(c) == IF c \in 97..122 THEN c - 32 ELSE c

tolower(c) == IF c \in 65..90 THEN c + 32 ELSE c

\* Folds the case to compare, not in the difference it returns.
ncsstrncmp(s, t, n) ==
  Difference(s, t, {i \in 1..n : tolower(Byte(s, i)) # tolower(Byte(t, i)) \/ Byte(s, i) = 0})

\* The n bytes written: cut, or filled up with zeros; cut, they have no end.
strncpy(s, n) == [i \in 1..n |-> Byte(s, i)]

memcpy(dest, src, n) == [i \in 1..Len(dest) |-> IF i <= n THEN src[i] ELSE dest[i]]

memset(dest, v, n) == [i \in 1..Len(dest) |-> IF i <= n THEN v ELSE dest[i]]

\* Places in a buffer, 0 for NULL; the terminator itself can be looked for.
strchr(buf, i, c) ==
  LET here == {k \in i..i + strlen(SubSeq(buf, i, Len(buf))) : buf[k] = c}
  IN IF here = {} THEN 0 ELSE Min(here)

strrchr(buf, i, c) ==
  LET here == {k \in i..i + strlen(SubSeq(buf, i, Len(buf))) : buf[k] = c}
  IN IF here = {} THEN 0 ELSE Max(here)

\* A token and the place to go on from, in a static variable: 0 when the end
\* was reached, by the token or by the delimiters behind the last one.
strtok(buf, str, save, delim) ==
  LET from  == IF str = 0 THEN save ELSE str
      start == from + Span(buf, from, delim)
      end   == start + Span(buf, start, 1..255 \ delim)
  IN IF from = 0 THEN [token |-> 0, buf |-> buf, save |-> 0]
     ELSE IF buf[start] = 0 THEN [token |-> 0, buf |-> buf, save |-> 0]
     ELSE IF buf[end] = 0 THEN [token |-> start, buf |-> buf, save |-> 0]
     ELSE [token |-> start, buf |-> [buf EXCEPT ![end] = 0], save |-> end + 1]

\* The tokens a caller gets, as every caller here asks for them: once with the
\* text and then with NULL until the answer is NULL.
\* strtok writes behind no place it still reads: buf is the text of each call.
Tokens(buf, delim) ==
  LET from[n \in 0..Len(buf)] ==
        LET t == strtok(buf, 0, n, delim)
            c == SubSeq(t.buf, t.token, Len(t.buf))
        IN IF t.token = 0 THEN <<>> ELSE <<SubSeq(c, 1, strlen(c))>> \o from[t.save]
  IN from[1]

-----------------------------------------------------------------------------
(* What they are for.                                                      *)

\* The words of a text: maximal runs without a delimiter, in order.
WordsOf(text, delim) ==
  LET ends == {r \in (1..Len(text)) \X (1..Len(text)) :
                 /\ r[1] <= r[2]
                 /\ \A k \in r[1]..r[2] : text[k] \notin delim
                 /\ r[1] = 1 \/ text[r[1] - 1] \in delim
                 /\ r[2] = Len(text) \/ text[r[2] + 1] \in delim}
      sorted == SetToSortSeq(ends, LAMBDA a, b : a[1] < b[1])
  IN [k \in 1..Len(sorted) |-> SubSeq(text, sorted[k][1], sorted[k][2])]

\* Of a formatted number, the digits read back as the number.
ReadsBack(text, n) ==
  LET d == SelectSeq(text, LAMBDA c : c \in Decimal)
  IN atoi(d).value = n /\ ((n = 0) => d # <<>>)
=============================================================================
