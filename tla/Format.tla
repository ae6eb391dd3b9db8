------------------------------- MODULE Format -------------------------------
(***************************************************************************)
(* common/format.c and bip32_path_format: numbers and paths written into    *)
(* char arrays of a fixed size.  An array is a sequence of characters,      *)
(* NUL-terminated or not: what is cut, and what is left of an earlier text, *)
(* is what the properties of Screens are about.                             *)
(***************************************************************************)
EXTENDS Arithmetic, SequencesExt

CONSTANTS
  UINT64_MAX,
  MaxDigits,       \* the digits of UINT64_MAX
  MAX_BIP32_PATH,
  NUL              \* the character '\0'

ASSUME FormatAssumption ==
  /\ MaxDigits \in Nat \ {0}
  /\ UINT64_MAX \in 0..(Power(10, MaxDigits) - 1)
  /\ MAX_BIP32_PATH \in Nat

Zeroed(len) == [i \in 1..len |-> NUL]

\* cells with text written behind the first at of them.
Written(cells, at, text) ==
  [i \in DOMAIN cells |->
     IF i \in (at + 1)..(at + Len(text)) THEN text[i - at] ELSE cells[i]]

Cut(text, n) == IF Len(text) <= n THEN text ELSE SubSeq(text, 1, n)

\* The C string that starts there.
CString(cells, at) ==
  LET end == SelectInSubSeq(cells, at + 1, Len(cells), LAMBDA c : c = NUL)
  IN  SubSeq(cells, at + 1, IF end = 0 THEN Len(cells) ELSE end - 1)

snprintf(cells, at, text) ==
  Written(cells, at, Cut(text, Len(cells) - at - 1) \o <<NUL>>)

\* n characters, padded with NUL and not terminated when the text is longer.
strncpy(cells, at, text, n) == Written(cells, at, Cut(text \o Zeroed(n), n))

Digit == <<"0", "1", "2", "3", "4", "5", "6", "7", "8", "9">>

Digits[n \in 0..UINT64_MAX] ==
  IF n <= 9 THEN <<Digit[n + 1]>> ELSE Append(Digits[n \div 10], Digit[(n % 10) + 1])

\* The room is looked at after each digit but the last, the low digits first.
\* A number of one digit is written into an array of one character, and its
\* terminator behind it.
format_u64(out, in) ==
  LET digits == Digits[in]
      ok == Len(out) # 0 /\ (Len(digits) = 1 \/ Len(digits) <= Len(out) - 1)
      tried == IF Len(out) <= 1 THEN Len(out) ELSE Len(out) - 1
  IN  [ok |-> ok,
       out |-> Written(out, 0, IF ok THEN digits \o <<NUL>> ELSE Cut(Reverse(digits), tried))]

\* Quotient and remainder of C, which truncates.
CDiv(a, b) == IF a >= 0 THEN a \div b ELSE -((-a) \div b)
CRem(a, b) == a - b * CDiv(a, b)

\* The digits of a signed number are taken with its sign: it is never negated.
SignedDigits[num \in (-UINT64_MAX)..UINT64_MAX] ==
  LET sign == IF num < 0 THEN -1 ELSE 1
  IN  IF num = 0 THEN <<>> ELSE Append(SignedDigits[CDiv(num, 10)], Digit[CRem(num, 10) * sign + 1])

Distance(text) == Len(text) + 1

\* The smallest signed number of the same width has no positive one.
INT64_MIN == -((UINT64_MAX + 1) \div 2)
Negated(num) == IF num = INT64_MIN THEN INT64_MIN ELSE -num

\* Variant: a negative number is negated first, and digits are taken as long as it
\* is positive (format.c:31-38).
format_i64_Negated(dst, value) ==
  LET num == IF value < 0 THEN Negated(value) ELSE value
      digits == IF num > 0 THEN Digits[num] ELSE <<>>
      text == CASE value < 0 -> <<"-">> \o digits
                [] value = 0 -> <<"0">>
                [] value > 0 -> digits
  IN  IF Len(dst) < Distance(text)
        THEN [ok |-> FALSE, out |-> dst]
        ELSE [ok |-> TRUE, out |-> Written(dst, 0, text \o <<NUL>>)]

format_i64(dst, value) ==
  LET text == CASE value < 0 -> <<"-">> \o SignedDigits[value]
                [] value = 0 -> <<"0">>
                [] value > 0 -> SignedDigits[value]
  IN  IF Len(dst) < Distance(text)
        THEN [ok |-> FALSE, out |-> dst]
        ELSE [ok |-> TRUE, out |-> Written(dst, 0, text \o <<NUL>>)]

HexDigit == Digit \o <<"A", "B", "C", "D", "E", "F">>

\* No character that is written is the end of a string.
ASSUME NulAssumption == NUL \notin ToSet(HexDigit) \cup {"-", ".", "'", "/"}

\* The value of a digit's character, and those of a text.
DigitValue(c) == (CHOOSE d \in 1..16 : HexDigit[d] = c) - 1
DigitValues(text) == [i \in DOMAIN text |-> DigitValue(text[i])]

HexPair(byte) == <<HexDigit[byte \div 16 + 1], HexDigit[(byte % 16) + 1]>>
Hex(bytes) == [i \in 1..(2 * Len(bytes)) |-> HexPair(bytes[(i + 1) \div 2])[2 - (i % 2)]]

\* What is returned counts the terminator.
format_hex(in, out) ==
  IF Len(out) < 2 * Len(in) + 1
    THEN [len |-> -1, out |-> out]
    ELSE [len |-> 2 * Len(in) + 1,
          out |-> Written(out, 0, Hex(in) \o <<NUL>>)]

Fraction(dst, digits, decimals) ==
  LET lead == <<"0", ".">> \o [i \in 1..(decimals - Len(digits)) |-> "0"]
  IN  IF Len(dst) <= Len(lead)
        THEN [ok |-> FALSE, out |-> dst]
        ELSE [ok |-> TRUE,
              out |-> strncpy(Written(dst, 0, lead), Len(lead), digits,
                              Len(dst) - Len(lead))]

\* Variant: the room asked for is one more than the text can need.
Whole_OneMore(dst, digits, decimals) ==
  LET shift == Len(digits) - decimals
  IN  IF Len(dst) <= Len(digits) + 2 + decimals
        THEN [ok |-> FALSE, out |-> dst]
        ELSE [ok |-> TRUE,
              out |-> Written(dst, 0, SubSeq(digits, 1, shift) \o <<".">>
                                      \o SubSeq(digits, shift + 1, Len(digits)))]

\* Variant: the point one digit too far right.
Whole_Shifted(dst, digits, decimals) ==
  LET shift == Len(digits) - decimals + 1
  IN  IF Len(dst) <= Len(digits) + 1 + decimals
        THEN [ok |-> FALSE, out |-> dst]
        ELSE [ok |-> TRUE,
              out |-> Written(dst, 0, SubSeq(digits, 1, shift) \o <<".">>
                                      \o SubSeq(digits, shift + 1, Len(digits)))]

\* The text is not terminated: dst was zeroed before.
Whole(dst, digits, decimals) ==
  LET shift == Len(digits) - decimals
  IN  IF Len(dst) <= Len(digits) + 1 + decimals
        THEN [ok |-> FALSE, out |-> dst]
        ELSE [ok |-> TRUE,
              out |-> Written(dst, 0, SubSeq(digits, 1, shift) \o <<".">>
                                      \o SubSeq(digits, shift + 1, Len(digits)))]

format_fpu64(dst, value, decimals) ==
  LET buffer == format_u64(Zeroed(MaxDigits + 1), value)
      digits == CString(buffer.out, 0)
  IN  IF ~buffer.ok THEN [ok |-> FALSE, out |-> dst]
      ELSE IF Len(digits) <= decimals THEN Fraction(dst, digits, decimals)
      ELSE Whole(dst, digits, decimals)

-----------------------------------------------------------------------------
(* Paths: a component is its index and whether it is hardened. *)

PathPieces(path) ==
  FlattenSeq([i \in 1..Len(path) |->
    <<Digits[path[i].index]>>
      \o (IF path[i].hardened THEN << <<"'">> >> ELSE <<>>)
      \o (IF i # Len(path) THEN << <<"/">> >> ELSE <<>>)])

\* Variant: a piece that was cut to nothing is not noticed.
AppendPiece_Empty(s, piece) ==
  LET out == snprintf(s.out, s.offset, piece)
      written == Len(CString(out, s.offset))
  IN  IF ~s.ok \/ written >= Len(out) - s.offset
        THEN [ok |-> FALSE, out |-> Zeroed(Len(out)), offset |-> 0]
        ELSE [ok |-> TRUE, out |-> out, offset |-> s.offset + written]

\* One snprintf of the loop and the check behind it.
AppendPiece(s, piece) ==
  LET out == snprintf(s.out, s.offset, piece)
      written == Len(CString(out, s.offset))
  IN  IF ~s.ok \/ written = 0 \/ written >= Len(out) - s.offset
        THEN [ok |-> FALSE, out |-> Zeroed(Len(out)), offset |-> 0]
        ELSE [ok |-> TRUE, out |-> out, offset |-> s.offset + written]

bip32_path_format(path, out) ==
  IF Len(path) = 0 \/ Len(path) > MAX_BIP32_PATH
    THEN [ok |-> FALSE, out |-> out, offset |-> 0]
    ELSE LET pieces == PathPieces(path)
             after[i \in 0..Len(pieces)] ==
               IF i = 0 THEN [ok |-> TRUE, out |-> out, offset |-> 0]
                        ELSE AppendPiece(after[i - 1], pieces[i])
         IN  after[Len(pieces)]

=============================================================================
