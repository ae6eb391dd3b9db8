----------------------------- MODULE FormatProofs -----------------------------
(***************************************************************************)
(* What the operations of Format write: what is cut of a text, where it    *)
(* ends in its array, which digits a number has and what they denote, and  *)
(* bytes in hexadecimal; for arrays and numbers of every size.             *)
(***************************************************************************)
EXTENDS Format, ArithmeticProofs, FiniteSetTheorems, SequenceTheorems, TLAPS

\* A zeroed array.
LEMMA ZeroedIs ==
  ASSUME NEW S, NUL \in S, NEW n \in Nat
  PROVE  /\ Zeroed(n) \in Seq(S) /\ Len(Zeroed(n)) = n
         /\ \A i \in 1..n : Zeroed(n)[i] = NUL
BY DEF Zeroed

\* What is cut of a text is its beginning.
LEMMA CutIs ==
  ASSUME NEW S, NEW text \in Seq(S), NEW n \in Nat
  PROVE  /\ Cut(text, n) \in Seq(S)
         /\ Len(Cut(text, n)) = IF Len(text) <= n THEN Len(text) ELSE n
         /\ \A i \in 1..Len(Cut(text, n)) : Cut(text, n)[i] = text[i]
         /\ Cut(text, n) = SubSeq(text, 1, Len(Cut(text, n)))
<1>1. CASE Len(text) <= n
  BY <1>1 DEF Cut
<1>2. CASE Len(text) > n
  BY <1>2 DEF Cut
<1> QED BY <1>1, <1>2

\* What is written into an array stays in its cells.
LEMMA WrittenIs ==
  ASSUME NEW S, NEW cells \in Seq(S), NEW text \in Seq(S), NEW at \in Nat
  PROVE  /\ Written(cells, at, text) \in Seq(S)
         /\ Len(Written(cells, at, text)) = Len(cells)
         /\ \A i \in 1..Len(cells) :
              Written(cells, at, text)[i] =
                IF i > at /\ i <= at + Len(text) THEN text[i - at] ELSE cells[i]
<1>1. DOMAIN cells = 1..Len(cells) /\ Len(cells) \in Nat /\ Len(text) \in Nat
  OBVIOUS
<1>2. \A i \in 1..Len(cells) : i \in (at + 1)..(at + Len(text)) => i - at \in 1..Len(text)
  BY <1>1
<1>3. \A i \in 1..Len(text) : text[i] \in S
  OBVIOUS
<1>4. \A i \in 1..Len(cells) : cells[i] \in S
  OBVIOUS
<1> DEFINE w == [i \in 1..Len(cells) |-> IF i \in (at + 1)..(at + Len(text)) THEN text[i - at] ELSE cells[i]]
<1>5. \A i \in 1..Len(cells) : w[i] \in S
  BY <1>2, <1>3, <1>4
<1>6. w \in Seq(S) /\ Len(w) = Len(cells)
  <2>1. w \in [1..Len(cells) -> S]
    BY <1>5
  <2> HIDE DEF w
  <2> QED BY <2>1, <1>1
<1>7. Written(cells, at, text) = w
  BY <1>1 DEF Written
<1> QED
  BY <1>1, <1>6, <1>7

\* The least member of a set.
LEMMA MinIs ==
  ASSUME NEW T, T \subseteq Int, NEW m \in T, \A i \in T : m <= i
  PROVE  Min(T) = m
<1>1. \E x \in T : \A y \in T : x =< y
  OBVIOUS
<1>2. Min(T) \in T /\ \A y \in T : Min(T) =< y
  BY <1>1, Zenon DEF Min
<1> DEFINE least == Min(T)
<1>3. least \in Int /\ m \in Int /\ least <= m /\ m <= least
  BY <1>2
<1> HIDE DEF least
<1>4. least = m
  BY <1>3
<1> QED BY <1>4 DEF least

\* A C string ends before the first NUL, or where its array does.
LEMMA CStringIs ==
  ASSUME NEW S, NEW cells \in Seq(S), NEW at \in Nat, NEW k \in Nat, at + k <= Len(cells),
         \A i \in (at + 1)..(at + k) : cells[i] # NUL,
         at + k < Len(cells) => cells[at + k + 1] = NUL
  PROVE  CString(cells, at) = SubSeq(cells, at + 1, at + k)
<1> DEFINE I == {i \in (at + 1)..Len(cells) : cells[i] = NUL}
           end == IF I # {} THEN Min(I) ELSE 0
<1>1. CString(cells, at) = SubSeq(cells, at + 1, IF end = 0 THEN Len(cells) ELSE end - 1)
  BY DEF CString, SelectInSubSeq
<1>2. CASE at + k = Len(cells)
  <2>1. I = {}
    BY <1>2
  <2> QED BY <1>1, <1>2, <2>1
<1>3. CASE at + k < Len(cells)
  <2>1. at + k + 1 \in I /\ \A i \in I : at + k + 1 <= i
    BY <1>3
  <2>2. I \subseteq Int
    OBVIOUS
  <2> HIDE DEF I
  <2>3. Min(I) = at + k + 1
    BY <2>1, <2>2, MinIs
  <2>4. end = at + k + 1
    BY <2>1, <2>3
  <2> QED BY <1>1, <2>4
<1> QED BY <1>2, <1>3

\* One snprintf: what fits of the text stands behind what was there, terminated.
LEMMA SnprintfIs ==
  ASSUME NEW S, NUL \in S, NEW cells \in Seq(S), NEW at \in Nat, at < Len(cells),
         NEW text \in Seq(S), \A i \in 1..Len(text) : text[i] # NUL
  PROVE  LET out == snprintf(cells, at, text)
             cut == Cut(text, Len(cells) - at - 1)
         IN  /\ out \in Seq(S) /\ Len(out) = Len(cells)
             /\ CString(out, at) = cut
             /\ \A i \in 1..at : out[i] = cells[i]
             /\ \A i \in (at + 1)..(at + Len(cut)) : out[i] = text[i - at]
             /\ out[at + Len(cut) + 1] = NUL
             /\ \A i \in (at + Len(cut) + 2)..Len(cells) : out[i] = cells[i]
<1> DEFINE n == Len(cells) - at - 1
           cut == Cut(text, n)
           all == cut \o <<NUL>>
           out == snprintf(cells, at, text)
<1>1. n \in Nat /\ Len(cells) \in Nat /\ Len(text) \in Nat
  OBVIOUS
<1>2. /\ cut \in Seq(S) /\ Len(cut) <= n /\ Len(cut) <= Len(text) /\ Len(cut) \in Nat
      /\ \A i \in 1..Len(cut) : cut[i] = text[i]
  BY <1>1, CutIs
<1>3. out = Written(cells, at, all)
  BY DEF snprintf
<1> HIDE DEF cut, out
<1>4. /\ all \in Seq(S) /\ Len(all) = Len(cut) + 1
      /\ \A i \in 1..Len(cut) : all[i] = cut[i]
      /\ all[Len(cut) + 1] = NUL
  BY <1>2
<1> HIDE DEF all
<1>5. /\ out \in Seq(S) /\ Len(out) = Len(cells)
      /\ \A i \in 1..Len(cells) :
           out[i] = IF i > at /\ i <= at + Len(all) THEN all[i - at] ELSE cells[i]
  BY <1>3, <1>4, WrittenIs
<1>6. \A i \in 1..at : out[i] = cells[i]
  BY <1>1, <1>5
<1>7. \A i \in (at + 1)..(at + Len(cut)) : out[i] = cut[i - at] /\ out[i] = text[i - at]
  <2> TAKE i \in (at + 1)..(at + Len(cut))
  <2>1. i - at \in 1..Len(cut) /\ i \in 1..Len(cells) /\ i <= at + Len(all)
    BY <1>1, <1>2, <1>4
  <2> QED BY <1>2, <1>4, <1>5, <2>1
<1>8. out[at + Len(cut) + 1] = NUL
  <2>1. at + Len(cut) + 1 \in 1..Len(cells) /\ (at + Len(cut) + 1) - at = Len(cut) + 1
    BY <1>1, <1>2
  <2> QED BY <1>2, <1>4, <1>5, <2>1
<1>9. \A i \in (at + Len(cut) + 2)..Len(cells) : out[i] = cells[i]
  <2> TAKE i \in (at + Len(cut) + 2)..Len(cells)
  <2>1. i \in 1..Len(cells) /\ ~(i <= at + Len(all))
    BY <1>1, <1>2, <1>4
  <2> QED BY <1>5, <2>1
<1>10. CString(out, at) = cut
  <2>1. \A i \in (at + 1)..(at + Len(cut)) : out[i] # NUL
    <3> TAKE i \in (at + 1)..(at + Len(cut))
    <3>1. i - at \in 1..Len(text)
      BY <1>1, <1>2
    <3> QED BY <1>7, <3>1
  <2>2. at + Len(cut) < Len(out)
    BY <1>1, <1>2, <1>5
  <2>3. CString(out, at) = SubSeq(out, at + 1, at + Len(cut))
    BY <1>2, <1>5, <1>8, <2>1, <2>2, CStringIs
  <2>4. SubSeq(out, at + 1, at + Len(cut)) = cut
    <3> DEFINE s == SubSeq(out, at + 1, at + Len(cut))
    <3>1. s \in Seq(S) /\ Len(s) = Len(cut) /\ \A i \in 1..Len(cut) : s[i] = out[at + i]
      BY <1>2, <1>5, <2>2
    <3> HIDE DEF s
    <3>2. \A i \in 1..Len(cut) : s[i] = cut[i]
      <4> TAKE i \in 1..Len(cut)
      <4>1. at + i \in (at + 1)..(at + Len(cut)) /\ (at + i) - at = i
        BY <1>2
      <4> QED BY <1>7, <3>1, <4>1
    <3>3. s = cut
      BY <1>2, <3>1, <3>2, SeqEqual
    <3> QED BY <3>3 DEF s
  <2> QED BY <2>3, <2>4
<1> QED
  BY <1>5, <1>6, <1>7, <1>8, <1>9, <1>10 DEF cut, out

-----------------------------------------------------------------------------
(* Digits. *)

\* The sixteen characters.
HexChars == ToSet(HexDigit)

\* The sixteen digits, no two the same.
LEMMA HexDigitIs ==
  /\ HexDigit[1] = "0" /\ HexDigit[2] = "1" /\ HexDigit[3] = "2" /\ HexDigit[4] = "3" /\ HexDigit[5] = "4"
  /\ HexDigit[6] = "5" /\ HexDigit[7] = "6" /\ HexDigit[8] = "7" /\ HexDigit[9] = "8" /\ HexDigit[10] = "9"
  /\ HexDigit[11] = "A" /\ HexDigit[12] = "B" /\ HexDigit[13] = "C" /\ HexDigit[14] = "D"
  /\ HexDigit[15] = "E" /\ HexDigit[16] = "F" /\ DOMAIN HexDigit = 1..16
BY DEF HexDigit, Digit

\* No two digits have one character.
LEMMA HexDigitsDiffer ==
  \A d, e \in 0..15 : HexDigit[d + 1] = HexDigit[e + 1] => d = e
BY HexDigitIs

\* The value of the character of a digit is the digit.
LEMMA HexNumberIs ==
  \A d \in 0..15 : DigitValue(HexDigit[d + 1]) = d /\ HexDigit[d + 1] \in HexChars
<1> TAKE d \in 0..15
<1> DEFINE P(e) == HexDigit[e] = HexDigit[d + 1]
           v == CHOOSE e \in 1..16 : P(e)
<1>1. \E e \in 1..16 : P(e)
  <2>1. d + 1 \in 1..16
    OBVIOUS
  <2> QED BY <2>1
<1>2. v \in 1..16 /\ P(v)
  <2> HIDE DEF P
  <2> QED BY <1>1, Zenon
<1> HIDE DEF v
<1>3. v = d + 1
  <2>1. v - 1 \in 0..15 /\ (v - 1) + 1 = v
    BY <1>2
  <2>2. HexDigit[(v - 1) + 1] = HexDigit[d + 1]
    BY <1>2, <2>1
  <2>3. v - 1 = d
    BY <2>1, <2>2, HexDigitsDiffer
  <2> QED BY <2>1, <2>3
<1>4. d + 1 \in DOMAIN HexDigit
  BY HexDigitIs
<1>5. HexDigit[d + 1] \in HexChars
  BY <1>4 DEF HexChars, ToSet
<1>6. DigitValue(HexDigit[d + 1]) = v - 1
  BY DEF DigitValue, v
<1> QED BY <1>3, <1>5, <1>6

\* The ten characters.
DigitChars == {"0", "1", "2", "3", "4", "5", "6", "7", "8", "9"}

\* Each digit has its character, no two the same.
LEMMA DigitIs == \A d \in 0..9 : Digit[d + 1] \in DigitChars
BY DEF Digit, DigitChars

\* No two digits have one character.
LEMMA DigitsDiffer == \A d, e \in 0..9 : Digit[d + 1] = Digit[e + 1] => d = e
BY DEF Digit

\* The value of the character of a digit is the digit.
LEMMA DigitValueIs == \A d \in 0..9 : DigitValue(Digit[d + 1]) = d
<1> TAKE d \in 0..9
<1>1. d + 1 \in 1..10 /\ d \in 0..15
  OBVIOUS
<1>2. HexDigit[d + 1] = Digit[d + 1]
  BY <1>1, HexDigitIs DEF Digit
<1> QED BY <1>1, <1>2, HexNumberIs

\* The value of a digit character is a digit.
LEMMA DigitValueType == \A c \in DigitChars : DigitValue(c) \in 0..9 /\ DigitValue(c) \in Nat
<1>1. \A c \in DigitChars : \E d \in 0..9 : Digit[d + 1] = c
  <2> TAKE c \in DigitChars
  <2>1. Digit[1] = "0" /\ Digit[2] = "1" /\ Digit[3] = "2" /\ Digit[4] = "3" /\ Digit[5] = "4"
        /\ Digit[6] = "5" /\ Digit[7] = "6" /\ Digit[8] = "7" /\ Digit[9] = "8" /\ Digit[10] = "9"
    BY DEF Digit
  <2>2. /\ Digit[0+1] = "0" /\ Digit[1+1] = "1" /\ Digit[2+1] = "2" /\ Digit[3+1] = "3" /\ Digit[4+1] = "4"
        /\ Digit[5+1] = "5" /\ Digit[6+1] = "6" /\ Digit[7+1] = "7" /\ Digit[8+1] = "8" /\ Digit[9+1] = "9"
    BY <2>1
  <2>3. 0 \in 0..9 /\ 1 \in 0..9 /\ 2 \in 0..9 /\ 3 \in 0..9 /\ 4 \in 0..9 /\ 5 \in 0..9
        /\ 6 \in 0..9 /\ 7 \in 0..9 /\ 8 \in 0..9 /\ 9 \in 0..9
    OBVIOUS
  <2> QED BY <2>2, <2>3, Zenon DEF DigitChars
<1> QED BY <1>1, DigitValueIs

\* The recursion of Digits.
DigitsRhs(u, n) == IF n <= 9 THEN <<Digit[n + 1]>> ELSE Append(u[n \div 10], Digit[(n % 10) + 1])
DigitsTo(u, m) == u \in [0..m -> Seq(DigitChars)] /\ \A n \in 0..m : u[n] = DigitsRhs(u, n)

\* Quotient and remainder by ten.
LEMMA ByTen ==
  ASSUME NEW n \in Nat
  PROVE  /\ n % 10 \in 0..9 /\ n \div 10 \in Nat
         /\ n = 10 * (n \div 10) + (n % 10)
         /\ n > 9 => n \div 10 \in 1..(n - 1)
OBVIOUS

\* The right side is a text if what it recurs on is.
LEMMA DigitsRhsType ==
  ASSUME NEW u, NEW n \in Nat, n > 9 => u[n \div 10] \in Seq(DigitChars)
  PROVE  DigitsRhs(u, n) \in Seq(DigitChars)
<1>1. CASE n <= 9
  <2>1. Digit[n + 1] \in DigitChars
    BY <1>1, DigitIs, n \in 0..9
  <2> QED BY <1>1, <2>1 DEF DigitsRhs
<1>2. CASE n > 9
  <2>1. Digit[(n % 10) + 1] \in DigitChars
    BY ByTen, DigitIs
  <2>2. DigitsRhs(u, n) = Append(u[n \div 10], Digit[(n % 10) + 1])
    BY <1>2 DEF DigitsRhs
  <2> QED BY <1>2, <2>1, <2>2, AppendProperties
<1> QED BY <1>1, <1>2

\* The texts of the numbers up to any one exist.
LEMMA DigitsUpTo == \A m \in Nat : \E u : DigitsTo(u, m)
<1> DEFINE S == {m \in Nat : \E u : DigitsTo(u, m)}
<1>1. 0 \in S
  <2> DEFINE u == [n \in 0..0 |-> <<Digit[1]>>]
  <2>1. u \in [0..0 -> Seq(DigitChars)]
    BY DigitIs, Digit[0 + 1] \in DigitChars
  <2>2. u[0] = DigitsRhs(u, 0)
    BY DEF DigitsRhs
  <2>3. DigitsTo(u, 0)
    <3> HIDE DEF u
    <3> QED BY <2>1, <2>2 DEF DigitsTo
  <2> QED BY <2>3
<1>2. ASSUME NEW m \in Nat, m \in S PROVE m + 1 \in S
  <2>1. PICK u : DigitsTo(u, m)
    BY <1>2
  <2> DEFINE v == [n \in 0..(m + 1) |-> IF n <= m THEN u[n] ELSE DigitsRhs(u, n)]
  <2>2. \A n \in 0..m : v[n] = u[n]
    OBVIOUS
  <2>3. v[m + 1] = DigitsRhs(u, m + 1)
    OBVIOUS
  <2>4. \A n \in 0..(m + 1) : n > 9 => n \div 10 \in 0..m
    <3> SUFFICES ASSUME NEW n \in 0..(m + 1), n > 9 PROVE n \div 10 \in 0..m
      OBVIOUS
    <3>1. n \div 10 \in 1..(n - 1)
      BY ByTen
    <3> QED BY <3>1
  <2>5. \A n \in 0..(m + 1) : DigitsRhs(v, n) = DigitsRhs(u, n)
    <3> HIDE DEF v
    <3> QED BY <2>2, <2>4 DEF DigitsRhs
  <2>6. DigitsRhs(u, m + 1) \in Seq(DigitChars)
    <3>1. m + 1 \in Nat /\ m + 1 \in 0..(m + 1)
      OBVIOUS
    <3>2. m + 1 > 9 => u[(m + 1) \div 10] \in Seq(DigitChars)
      BY <2>1, <2>4, <3>1 DEF DigitsTo
    <3> QED BY <3>1, <3>2, DigitsRhsType
  <2>7. v \in [0..(m + 1) -> Seq(DigitChars)]
    BY <2>1, <2>6 DEF DigitsTo
  <2>8. \A n \in 0..(m + 1) : v[n] = DigitsRhs(v, n)
    <3> HIDE DEF v
    <3>1. \A n \in 0..m : v[n] = DigitsRhs(u, n)
      BY <2>1, <2>2 DEF DigitsTo
    <3>2. \A n \in 0..(m + 1) : n \in 0..m \/ n = m + 1
      OBVIOUS
    <3> QED BY <2>3, <2>5, <3>1, <3>2
  <2> HIDE DEF v
  <2>9. DigitsTo(v, m + 1)
    BY <2>7, <2>8 DEF DigitsTo
  <2> QED BY <2>9
<1> HIDE DEF S
<1>3. \A m \in Nat : m \in S
  BY <1>1, <1>2, SetInduction
<1> QED BY <1>3 DEF S

\* The largest number.
LEMMA MaxIs == UINT64_MAX \in Nat /\ MaxDigits \in Nat \ {0} /\ UINT64_MAX < Power(10, MaxDigits)
<1>1. Power(10, MaxDigits) \in Nat
  BY FormatAssumption, PowerType
<1> QED BY <1>1, FormatAssumption

\* Digits is the function its definition describes.
LEMMA DigitsRecursion == \A n \in 0..UINT64_MAX : Digits[n] = DigitsRhs(Digits, n)
<1>1. PICK u : DigitsTo(u, UINT64_MAX)
  BY MaxIs, DigitsUpTo
<1>2. u = [n \in 0..UINT64_MAX |-> DigitsRhs(u, n)]
  BY <1>1 DEF DigitsTo
<1>3. Digits = CHOOSE w : w = [n \in 0..UINT64_MAX |-> DigitsRhs(w, n)]
  BY DEF Digits, DigitsRhs
<1>4. Digits = [n \in 0..UINT64_MAX |-> DigitsRhs(Digits, n)]
  BY <1>2, <1>3
<1> QED BY <1>4

\* The text of a number: digits, no zero in front, and the number is what they
\* denote.
IsTextOf(text, n) ==
  /\ text \in Seq(DigitChars) /\ Len(text) >= 1
  /\ text[1] = "0" => n = 0 /\ Len(text) = 1
  /\ Denoted(DigitValues(text), 10) = n

\* The values of a text of digits are numbers.
LEMMA DigitValuesType ==
  ASSUME NEW text \in Seq(DigitChars)
  PROVE  /\ DigitValues(text) \in Seq(Nat) /\ Len(DigitValues(text)) = Len(text)
         /\ \A i \in 1..Len(text) : DigitValues(text)[i] = DigitValue(text[i])
<1>1. DOMAIN text = 1..Len(text) /\ Len(text) \in Nat /\ \A i \in 1..Len(text) : text[i] \in DigitChars
  OBVIOUS
<1> QED BY <1>1, DigitValueType DEF DigitValues

\* Digits are the text of their number.
LEMMA DigitsAreText == \A n \in 0..UINT64_MAX : IsTextOf(Digits[n], n)
<1> DEFINE S == {n \in Nat : n <= UINT64_MAX => IsTextOf(Digits[n], n)}
<1>1. ASSUME NEW n \in Nat, \A j \in 0..(n - 1) : j \in S PROVE n \in S
  <2> SUFFICES ASSUME n <= UINT64_MAX PROVE IsTextOf(Digits[n], n)
    OBVIOUS
  <2>1. Digits[n] = DigitsRhs(Digits, n)
    BY DigitsRecursion, MaxIs
  <2>2. CASE n <= 9
    <3> DEFINE text == <<Digit[n + 1]>>
    <3>1. Digits[n] = text
      BY <2>1, <2>2 DEF DigitsRhs
    <3>2. Digit[n + 1] \in DigitChars /\ DigitValue(Digit[n + 1]) = n /\ (Digit[n + 1] = "0" => n = 0)
      <4>1. n \in 0..9
        BY <2>2
      <4>2. Digit[0 + 1] = "0"
        BY DEF Digit
      <4> QED BY <4>1, <4>2, DigitIs, DigitValueIs, DigitsDiffer
    <3>3. text \in Seq(DigitChars) /\ Len(text) = 1 /\ text[1] = Digit[n + 1]
      BY <3>2
    <3> DEFINE none == <<>>
    <3>4. none \in Seq(Nat) /\ Len(none) = 0
      OBVIOUS
    <3> HIDE DEF text, none
    <3>5. /\ DigitValues(text) \in Seq(Nat) /\ Len(DigitValues(text)) = 1 /\ DigitValues(text)[1] = n
      BY <3>2, <3>3, DigitValuesType
    <3>6. Denoted(DigitValues(text), 10) = 10 * Denoted(none, 10) + DigitValues(text)[Len(DigitValues(text))]
      <4>1. /\ Len(DigitValues(text)) = Len(none) + 1
            /\ \A i \in 1..Len(none) : none[i] = DigitValues(text)[i]
        BY <3>4, <3>5
      <4> QED BY <3>4, <3>5, <4>1, DenotedMore
    <3>7. Denoted(none, 10) = 0
      BY <3>4, DenotedOfNone
    <3>8. Denoted(DigitValues(text), 10) = n
      BY <3>5, <3>6, <3>7
    <3> QED BY <3>1, <3>2, <3>3, <3>8 DEF IsTextOf
  <2>3. CASE n > 9
    <3> DEFINE q == n \div 10
               r == n % 10
               front == Digits[q]
               text == Digits[n]
    <3>1. r \in 0..9 /\ q \in Nat /\ n = 10 * q + r /\ q \in 1..(n - 1)
      BY <2>3, ByTen
    <3> HIDE DEF q, r
    <3>2. IsTextOf(front, q)
      BY <1>1, <3>1, MaxIs
    <3>3. text = Append(front, Digit[r + 1])
      BY <2>1, <2>3 DEF DigitsRhs, q, r
    <3>4. Digit[r + 1] \in DigitChars /\ DigitValue(Digit[r + 1]) = r
      BY <3>1, DigitIs, DigitValueIs
    <3>5. front \in Seq(DigitChars) /\ Len(front) >= 1 /\ (front[1] = "0" => q = 0)
          /\ Denoted(DigitValues(front), 10) = q
      BY <3>2 DEF IsTextOf
    <3> HIDE DEF front, text
    <3>6. /\ text \in Seq(DigitChars) /\ Len(text) = Len(front) + 1
          /\ \A i \in 1..Len(front) : text[i] = front[i]
          /\ text[Len(text)] = Digit[r + 1]
      BY <3>3, <3>4, <3>5
    <3>7. /\ DigitValues(text) \in Seq(Nat) /\ Len(DigitValues(text)) = Len(text)
          /\ \A i \in 1..Len(text) : DigitValues(text)[i] = DigitValue(text[i])
      BY <3>6, DigitValuesType
    <3>8. /\ DigitValues(front) \in Seq(Nat) /\ Len(DigitValues(front)) = Len(front)
          /\ \A i \in 1..Len(front) : DigitValues(front)[i] = DigitValue(front[i])
      BY <3>5, DigitValuesType
    <3>9. Denoted(DigitValues(text), 10) = 10 * Denoted(DigitValues(front), 10) + DigitValues(text)[Len(DigitValues(text))]
      <4>1. \A i \in 1..Len(DigitValues(front)) : DigitValues(front)[i] = DigitValues(text)[i]
        BY <3>6, <3>7, <3>8
      <4> QED BY <3>6, <3>7, <3>8, <4>1, DenotedMore
    <3>10. DigitValues(text)[Len(DigitValues(text))] = r
      BY <3>4, <3>5, <3>6, <3>7
    <3>11. Denoted(DigitValues(text), 10) = n
      BY <3>1, <3>5, <3>9, <3>10
    <3>12. text[1] # "0"
      BY <3>1, <3>5, <3>6
    <3>13. Len(text) >= 1
      BY <3>5, <3>6
    <3> QED BY <3>6, <3>11, <3>12, <3>13 DEF IsTextOf, text
  <2> QED BY <2>2, <2>3
<1> HIDE DEF S
<1>2. \A n \in Nat : n \in S
  BY <1>1, CourseInduction
<1> QED BY <1>2, MaxIs DEF S

\* No power of ten is zero.
LEMMA TenPowers == \A k \in Nat : Power(10, k) \in Nat \ {0}
<1> DEFINE S == {k \in Nat : Power(10, k) # 0}
<1>1. 0 \in S
  BY PowerZero
<1>2. ASSUME NEW k \in Nat, k \in S PROVE k + 1 \in S
  BY <1>2, PowerStep, PowerType
<1> HIDE DEF S
<1>3. \A k \in Nat : k \in S
  BY <1>1, <1>2, SetInduction
<1> QED BY <1>3, PowerType DEF S

\* A number below a power of ten has no more digits than its exponent.
LEMMA DigitsFit ==
  ASSUME NEW k \in Nat
  PROVE  \A n \in 0..UINT64_MAX : n < Power(10, k + 1) => Len(Digits[n]) <= k + 1
<1> DEFINE S == {j \in Nat : \A n \in 0..UINT64_MAX : n < Power(10, j + 1) => Len(Digits[n]) <= j + 1}
<1>0. \A n \in 0..UINT64_MAX : n <= 9 => Len(Digits[n]) = 1
  <2> SUFFICES ASSUME NEW n \in 0..UINT64_MAX, n <= 9 PROVE Len(Digits[n]) = 1
    OBVIOUS
  <2>1. Digits[n] = <<Digit[n + 1]>>
    BY DigitsRecursion DEF DigitsRhs
  <2> QED BY <2>1
<1>1. 0 \in S
  <2>1. Power(10, 0 + 1) = 10
    BY PowerZero, PowerStep
  <2>2. \A n \in 0..UINT64_MAX : n < 10 => n <= 9
    BY MaxIs
  <2>3. \A n \in 0..UINT64_MAX : n < Power(10, 0 + 1) => Len(Digits[n]) <= 0 + 1
    <3> SUFFICES ASSUME NEW n \in 0..UINT64_MAX, n < 10 PROVE Len(Digits[n]) <= 1
      BY <2>1
    <3>1. Len(Digits[n]) = 1
      BY <1>0, <2>2
    <3> QED BY <3>1
  <2> QED BY <2>3
<1>2. ASSUME NEW j \in Nat, j \in S PROVE j + 1 \in S
  <2> SUFFICES ASSUME NEW n \in 0..UINT64_MAX, n < Power(10, (j + 1) + 1)
               PROVE  Len(Digits[n]) <= (j + 1) + 1
    OBVIOUS
  <2>1. CASE n <= 9
    <3>1. Len(Digits[n]) = 1
      BY <1>0, <2>1
    <3> QED BY <3>1
  <2>2. CASE n > 9
    <3> DEFINE q == n \div 10
               p == Power(10, j + 1)
    <3>1. n % 10 \in 0..9 /\ q \in Nat /\ n = 10 * q + (n % 10) /\ q \in 1..(n - 1)
      BY <2>2, MaxIs, ByTen
    <3>2. Power(10, (j + 1) + 1) = 10 * p /\ p \in Nat
      <4>1. j + 1 \in Nat
        OBVIOUS
      <4> QED BY <4>1, PowerStep, PowerType
    <3>3. Digits[n] = Append(Digits[q], Digit[(n % 10) + 1])
      <4>1. Digits[n] = DigitsRhs(Digits, n) /\ ~(n <= 9)
        BY <2>2, DigitsRecursion, MaxIs
      <4> QED BY <4>1 DEF DigitsRhs
    <3> HIDE DEF q, p
    <3>4. q < p
      BY <3>1, <3>2
    <3>5. Len(Digits[q]) <= j + 1 /\ Digits[q] \in Seq(DigitChars)
      BY <1>2, <3>1, <3>4, MaxIs, DigitsAreText DEF IsTextOf, p
    <3> QED BY <3>1, <3>3, <3>5
  <2> QED BY <2>1, <2>2, MaxIs
<1> HIDE DEF S
<1>3. k \in S
  BY <1>1, <1>2, SetInduction
<1> QED BY <1>3 DEF S

\* No number has more digits than the largest.
LEMMA DigitsInRoom == \A n \in 0..UINT64_MAX : Len(Digits[n]) <= MaxDigits
<1> TAKE n \in 0..UINT64_MAX
<1> DEFINE k == MaxDigits - 1
<1>1. k \in Nat /\ k + 1 = MaxDigits
  BY MaxIs
<1>2. n < Power(10, k + 1)
  <2>1. n \in Nat /\ n <= UINT64_MAX /\ Power(10, MaxDigits) \in Nat
    BY MaxIs, PowerType
  <2> QED BY <1>1, <2>1, MaxIs
<1> HIDE DEF k
<1> QED BY <1>1, <1>2, DigitsFit

\* A number that is not below a power of ten has more digits than its exponent.
LEMMA DigitsReach ==
  ASSUME NEW k \in Nat
  PROVE  \A n \in 0..UINT64_MAX : n >= Power(10, k) => Len(Digits[n]) >= k + 1
<1> DEFINE S == {j \in Nat : \A n \in 0..UINT64_MAX : n >= Power(10, j) => Len(Digits[n]) >= j + 1}
<1>1. 0 \in S
  BY DigitsAreText DEF IsTextOf
<1>2. ASSUME NEW j \in Nat, j \in S PROVE j + 1 \in S
  <2> SUFFICES ASSUME NEW n \in 0..UINT64_MAX, n >= Power(10, j + 1)
               PROVE  Len(Digits[n]) >= (j + 1) + 1
    OBVIOUS
  <2> DEFINE q == n \div 10
             p == Power(10, j)
  <2>1. p \in Nat \ {0} /\ Power(10, j + 1) = 10 * p
    <3>1. p \in Nat /\ Power(10, j + 1) = 10 * p
      BY PowerStep, PowerType
    <3>2. p # 0
      BY TenPowers
    <3> QED BY <3>1, <3>2
  <2> HIDE DEF p
  <2>2. n \in Nat /\ n > 9 /\ n <= UINT64_MAX
    BY <2>1, MaxIs
  <2>3. n % 10 \in 0..9 /\ q \in Nat /\ n = 10 * q + (n % 10) /\ q \in 1..(n - 1)
    BY <2>2, ByTen
  <2>4. Digits[n] = Append(Digits[q], Digit[(n % 10) + 1])
    <3>1. Digits[n] = DigitsRhs(Digits, n) /\ ~(n <= 9)
      BY <2>2, DigitsRecursion
    <3> QED BY <3>1 DEF DigitsRhs
  <2> HIDE DEF q
  <2>5. q >= p /\ q \in 0..UINT64_MAX
    BY <2>1, <2>2, <2>3, MaxIs
  <2>6. Len(Digits[q]) >= j + 1 /\ Digits[q] \in Seq(DigitChars)
    BY <1>2, <2>5, DigitsAreText DEF IsTextOf, p
  <2> QED BY <2>4, <2>6
<1> HIDE DEF S
<1>3. k \in S
  BY <1>1, <1>2, SetInduction
<1> QED BY <1>3 DEF S

\* The powers of ten that a number is not below.
LEMMA DigitsCount ==
  ASSUME NEW n \in 0..UINT64_MAX
  PROVE  /\ Len(Digits[n]) \in 1..MaxDigits
         /\ Cardinality({k \in 1..MaxDigits : n >= Power(10, k)}) = Len(Digits[n]) - 1
<1> DEFINE m == Len(Digits[n])
           K == {k \in 1..MaxDigits : n >= Power(10, k)}
<1>1. m \in Nat /\ m >= 1 /\ m <= MaxDigits
  BY DigitsAreText, DigitsInRoom DEF IsTextOf
<1> HIDE DEF m
<1>2. \A k \in 1..MaxDigits : n >= Power(10, k) <=> k <= m - 1
  <2> TAKE k \in 1..MaxDigits
  <2>1. k \in Nat /\ k - 1 \in Nat /\ (k - 1) + 1 = k /\ n \in Nat
    BY MaxIs
  <2>2. Power(10, k) \in Nat
    BY <2>1, PowerType
  <2>3. n >= Power(10, k) => m >= k + 1
    BY <2>1, DigitsReach DEF m
  <2>4. n < Power(10, k) => m <= k
    BY <2>1, DigitsFit DEF m
  <2> QED BY <1>1, <2>1, <2>2, <2>3, <2>4
<1>3. K = 1..(m - 1)
  <2>1. \A k \in 1..(m - 1) : k \in 1..MaxDigits
    BY <1>1, MaxIs
  <2>2. \A k \in 1..MaxDigits : k <= m - 1 => k \in 1..(m - 1)
    BY <1>1, MaxIs
  <2>3. \A k \in 1..(m - 1) : k <= m - 1
    BY <1>1
  <2> QED BY <1>2, <2>1, <2>2, <2>3
<1> HIDE DEF K
<1>4. Cardinality(1..(m - 1)) = m - 1
  <2>1. m - 1 \in Int /\ (IF 1 > m - 1 THEN 0 ELSE (m - 1) - 1 + 1) = m - 1
    BY <1>1
  <2> QED BY <2>1, FS_Interval, 1 \in Int
<1>5. m \in 1..MaxDigits
  BY <1>1, MaxIs
<1>6. Cardinality(K) = m - 1
  BY <1>3, <1>4
<1> QED BY <1>5, <1>6 DEF m, K

\* A signed number has the digits of its magnitude.
LEMMA SignedDigitsAre ==
  \A n \in 1..UINT64_MAX : SignedDigits[n] = Digits[n] /\ SignedDigits[-n] = Digits[n]
<1> DEFINE D == (-UINT64_MAX)..UINT64_MAX
           mag(n) == IF n < 0 THEN -n ELSE n
           rhs(u, n) == IF n = 0 THEN <<>>
                        ELSE Append(u[CDiv(n, 10)],
                                    Digit[CRem(n, 10) * (IF n < 0 THEN -1 ELSE 1) + 1])
           f == [n \in D |-> IF n = 0 THEN <<>> ELSE Digits[mag(n)]]
<1>1. ASSUME NEW n \in D, n # 0
      PROVE  /\ mag(n) \in 1..UINT64_MAX /\ CDiv(n, 10) \in D
             /\ mag(CDiv(n, 10)) = mag(n) \div 10
             /\ CDiv(n, 10) = 0 <=> mag(n) \div 10 = 0
             /\ CRem(n, 10) * (IF n < 0 THEN -1 ELSE 1) = mag(n) % 10
  BY <1>1, MaxIs DEF CDiv, CRem
<1>2. \A n \in D : f[n] = rhs(f, n)
  <2> SUFFICES ASSUME NEW n \in D PROVE f[n] = rhs(f, n)
    OBVIOUS
  <2>1. CASE n = 0
    BY <2>1
  <2>2. CASE n # 0
    <3> DEFINE m == mag(n)
               c == CDiv(n, 10)
    <3>1. /\ m \in 1..UINT64_MAX /\ c \in D /\ mag(c) = m \div 10 /\ (c = 0 <=> m \div 10 = 0)
          /\ CRem(n, 10) * (IF n < 0 THEN -1 ELSE 1) = m % 10
      BY <1>1, <2>2
    <3>2. f[n] = Digits[m] /\ f[c] = IF c = 0 THEN <<>> ELSE Digits[m \div 10]
      BY <2>2, <3>1
    <3>3. rhs(f, n) = Append(f[c], Digit[(m % 10) + 1])
      BY <2>2, <3>1
    <3> HIDE DEF m, c, f, rhs
    <3>4. m \in Nat /\ m >= 1 /\ m <= UINT64_MAX
      BY <3>1, MaxIs
    <3>5. Digits[m] = DigitsRhs(Digits, m)
      BY <3>4, MaxIs, DigitsRecursion
    <3>6. CASE m <= 9
      <4>1. m \div 10 = 0 /\ m % 10 = m
        BY <3>4, <3>6
      <4> QED BY <3>1, <3>2, <3>3, <3>5, <3>6, <4>1 DEF DigitsRhs
    <3>7. CASE m > 9
      <4>1. m \div 10 # 0 /\ ~(m <= 9)
        BY <3>4, <3>7
      <4> QED BY <3>1, <3>2, <3>3, <3>5, <4>1 DEF DigitsRhs
    <3> QED BY <3>4, <3>6, <3>7
  <2> QED BY <2>1, <2>2
<1>3. f = [n \in D |-> rhs(f, n)]
  <2>1. f = [n \in D |-> f[n]]
    OBVIOUS
  <2> HIDE DEF f, rhs, D
  <2> QED BY <1>2, <2>1
<1>4. SignedDigits = CHOOSE u : u = [n \in D |-> rhs(u, n)]
  BY DEF SignedDigits
<1>5. SignedDigits = [n \in D |-> rhs(SignedDigits, n)]
  <2> HIDE DEF f, rhs, D
  <2> QED BY <1>3, <1>4
<1> DEFINE s == SignedDigits
<1>6. \A n \in D : s[n] = rhs(s, n)
  <2> HIDE DEF rhs, D
  <2> QED BY <1>5
<1> HIDE DEF s
<1> DEFINE S == {m \in Nat : \A n \in D : mag(n) = m => s[n] = f[n]}
<1>7. ASSUME NEW m \in Nat, \A j \in 0..(m - 1) : j \in S PROVE m \in S
  <2> SUFFICES ASSUME NEW n \in D, mag(n) = m PROVE s[n] = f[n]
    OBVIOUS
  <2>1. CASE n = 0
    BY <1>6, <2>1
  <2>2. CASE n # 0
    <3> DEFINE c == CDiv(n, 10)
    <3>1. c \in D /\ mag(c) \in 0..(m - 1)
      BY <1>1, <2>2
    <3>2. s[c] = f[c]
      BY <1>7, <3>1
    <3>3. rhs(s, n) = rhs(f, n)
      BY <3>2
    <3> HIDE DEF rhs, s, f
    <3> QED BY <1>2, <1>6, <3>3
  <2> QED BY <2>1, <2>2
<1> HIDE DEF S
<1>8. \A m \in Nat : m \in S
  BY <1>7, CourseInduction
<1>9. \A n \in D : s[n] = f[n]
  <2> TAKE n \in D
  <2>1. mag(n) \in Nat
    BY MaxIs
  <2> QED BY <1>8, <2>1 DEF S
<1> SUFFICES ASSUME NEW n \in 1..UINT64_MAX PROVE s[n] = Digits[n] /\ s[-n] = Digits[n]
  BY DEF s
<1>10. n \in D /\ -n \in D /\ n # 0 /\ -n # 0 /\ mag(n) = n /\ mag(-n) = n
  BY MaxIs
<1> QED BY <1>9, <1>10

\* The digits are hexadecimal digits, and none ends a string.
LEMMA NoNul ==
  /\ ToSet(Digit) = DigitChars
  /\ \A c \in DigitChars \cup {"."} : c # NUL
<1>1. /\ DOMAIN Digit = 1..10
      /\ Digit[1] = "0" /\ Digit[2] = "1" /\ Digit[3] = "2" /\ Digit[4] = "3" /\ Digit[5] = "4"
      /\ Digit[6] = "5" /\ Digit[7] = "6" /\ Digit[8] = "7" /\ Digit[9] = "8" /\ Digit[10] = "9"
  BY DEF Digit
<1>2. \A c : c \in ToSet(Digit) <=> c \in DigitChars
  BY <1>1 DEF ToSet, DigitChars
<1>3. \A i \in 1..10 : HexDigit[i] = Digit[i] /\ i \in DOMAIN HexDigit
  BY DEF HexDigit, Digit
<1>4. DigitChars \subseteq ToSet(HexDigit)
  BY <1>1, <1>2, <1>3 DEF ToSet
<1> QED BY <1>2, <1>4, NulAssumption

\* The text from the start of an array to its first NUL.
LEMMA TextIs ==
  ASSUME NEW S, NEW cells \in Seq(S), NEW text \in Seq(S), Len(text) <= Len(cells),
         \A i \in 1..Len(text) : text[i] # NUL /\ cells[i] = text[i],
         Len(text) < Len(cells) => cells[Len(text) + 1] = NUL
  PROVE  CString(cells, 0) = text
<1> DEFINE k == Len(text)
           s == SubSeq(cells, 1, k)
<1>1. k \in Nat /\ Len(cells) \in Nat /\ k <= Len(cells)
  OBVIOUS
<1>2. s \in Seq(S) /\ Len(s) = k /\ \A i \in 1..k : s[i] = cells[i]
  BY <1>1
<1> HIDE DEF s
<1>3. s = text
  <2>1. Len(s) = Len(text) /\ \A i \in 1..Len(text) : s[i] = text[i]
    BY <1>2
  <2> QED BY <1>2, <2>1, SeqEqual
<1> HIDE DEF k
<1>4. /\ 0 + k = k /\ 0 + 1 = 1
      /\ \A i \in (0 + 1)..(0 + k) : cells[i] # NUL
      /\ 0 + k < Len(cells) => cells[0 + k + 1] = NUL
  BY <1>1 DEF k
<1>5. CString(cells, 0) = SubSeq(cells, 0 + 1, 0 + k)
  BY <1>1, <1>4, CStringIs, 0 \in Nat
<1> QED BY <1>3, <1>4, <1>5 DEF s

\* A text written from the start of a zeroed array and shorter than it.
LEMMA WrittenText ==
  ASSUME NEW S, NUL \in S, NEW n \in Nat, NEW text \in Seq(S), Len(text) < n,
         \A i \in 1..Len(text) : text[i] # NUL
  PROVE  LET out == Written(Zeroed(n), 0, text)
         IN  /\ out \in Seq(S) /\ Len(out) = n /\ out[n] = NUL
             /\ CString(out, 0) = text
<1> DEFINE cells == Zeroed(n)
           out == Written(cells, 0, text)
<1>1. cells \in Seq(S) /\ Len(cells) = n /\ \A i \in 1..n : cells[i] = NUL
  BY ZeroedIs
<1> HIDE DEF cells
<1>2. /\ out \in Seq(S) /\ Len(out) = n
      /\ \A i \in 1..n : out[i] = IF i > 0 /\ i <= 0 + Len(text) THEN text[i - 0] ELSE cells[i]
  BY <1>1, WrittenIs, 0 \in Nat
<1> HIDE DEF out
<1>3. Len(text) \in Nat /\ \A i \in 1..n : i - 0 = i
  OBVIOUS
<1>4. \A i \in 1..n : out[i] = IF i <= Len(text) THEN text[i] ELSE NUL
  BY <1>1, <1>2, <1>3
<1>5. CString(out, 0) = text
  BY <1>2, <1>3, <1>4, TextIs
<1> QED BY <1>2, <1>3, <1>4, <1>5 DEF out, cells

\* A text written with its terminator from the start of an array that has room.
LEMMA StringIs ==
  ASSUME NEW S, NUL \in S, NEW cells \in Seq(S), NEW text \in Seq(S), Len(text) < Len(cells),
         \A i \in 1..Len(text) : text[i] # NUL, NEW out, out = Written(cells, 0, text \o <<NUL>>)
  PROVE  CString(out, 0) = text
<1> DEFINE all == text \o <<NUL>>
           k == Len(text)
           m == Len(cells)
<1>1. k \in Nat /\ m \in Nat /\ k < m
  OBVIOUS
<1>2. /\ all \in Seq(S) /\ Len(all) = k + 1 /\ all[k + 1] = NUL
      /\ \A i \in 1..k : all[i] = text[i]
  OBVIOUS
<1> HIDE DEF all, k, m
<1>3. out = Written(cells, 0, all)
  BY DEF all
<1>4. out \in Seq(S) /\ Len(out) = m
  BY <1>2, <1>3, WrittenIs, 0 \in Nat DEF m
<1>5. \A i \in 1..m : out[i] = IF i > 0 /\ i <= 0 + Len(all) THEN all[i - 0] ELSE cells[i]
  BY <1>2, <1>3, WrittenIs, 0 \in Nat DEF m
<1>6. \A i \in 1..(k + 1) : out[i] = all[i]
  <2> TAKE i \in 1..(k + 1)
  <2>1. i \in 1..m /\ i > 0 /\ i <= 0 + Len(all) /\ i - 0 = i
    BY <1>1, <1>2
  <2> QED BY <1>5, <2>1
<1>7. \A i \in 1..k : text[i] # NUL /\ out[i] = text[i]
  <2> TAKE i \in 1..k
  <2>1. i \in 1..(k + 1)
    BY <1>1
  <2> QED BY <1>2, <1>6, <2>1 DEF k
<1>8. out[k + 1] = NUL
  BY <1>1, <1>2, <1>6
<1>9. /\ Len(text) <= Len(out)
      /\ \A i \in 1..Len(text) : text[i] # NUL /\ out[i] = text[i]
      /\ out[Len(text) + 1] = NUL
  BY <1>1, <1>4, <1>7, <1>8 DEF k
<1> QED BY <1>4, <1>9, TextIs

\* The digits of a number are formatted whole where there is room for them.
LEMMA FormatUnsignedIs ==
  ASSUME NEW S, DigitChars \cup {NUL} \subseteq S, NEW cells \in Seq(S), NEW value \in 0..UINT64_MAX,
         NEW b, b = format_u64(cells, value)
  PROVE  /\ b.ok <=> Len(cells) # 0 /\ (Len(Digits[value]) = 1 \/ Len(Digits[value]) < Len(cells))
         /\ Len(Digits[value]) < Len(cells) => CString(b.out, 0) = Digits[value]
<1> DEFINE digits == Digits[value]
           ok == Len(cells) # 0 /\ (Len(digits) = 1 \/ Len(digits) <= Len(cells) - 1)
<1>1. digits \in Seq(DigitChars) /\ Len(digits) \in Nat /\ Len(cells) \in Nat /\ Len(digits) >= 1
  BY DigitsAreText DEF IsTextOf
<1>2. b.ok = ok /\ (ok => b.out = Written(cells, 0, digits \o <<NUL>>))
  BY DEF format_u64
<1> HIDE DEF digits
<1>3. ok <=> Len(cells) # 0 /\ (Len(digits) = 1 \/ Len(digits) < Len(cells))
  BY <1>1
<1>4. ASSUME Len(digits) < Len(cells) PROVE CString(b.out, 0) = digits
  <2>1. NUL \in S /\ digits \in Seq(S)
    BY <1>1
  <2>2. \A i \in 1..Len(digits) : digits[i] # NUL
    BY <1>1, NoNul
  <2>3. b.out = Written(cells, 0, digits \o <<NUL>>)
    BY <1>1, <1>2, <1>3, <1>4
  <2> QED BY <1>4, <2>1, <2>2, <2>3, StringIs
<1> QED BY <1>2, <1>3, <1>4 DEF digits

\* They have room in the array that format_fpu64 has for them.
LEMMA FormatDigits ==
  ASSUME NEW value \in 0..UINT64_MAX
  PROVE  LET buffer == format_u64(Zeroed(MaxDigits + 1), value)
         IN  buffer.ok /\ CString(buffer.out, 0) = Digits[value]
<1> DEFINE S == DigitChars \cup {NUL}
           cells == Zeroed(MaxDigits + 1)
           b == format_u64(cells, value)
<1>1. cells \in Seq(S) /\ Len(cells) = MaxDigits + 1
  BY ZeroedIs, MaxIs
<1>2. DigitChars \cup {NUL} \subseteq S
  OBVIOUS
<1>3. Len(Digits[value]) \in Nat /\ Len(Digits[value]) <= MaxDigits
  BY DigitsAreText, DigitsInRoom DEF IsTextOf
<1>4. Len(Digits[value]) < Len(cells) /\ Len(cells) # 0
  BY <1>1, <1>3, MaxIs
<1> HIDE DEF S, cells
<1>5. b = format_u64(cells, value)
  OBVIOUS
<1> HIDE DEF b
<1>6. b.ok <=> Len(cells) # 0 /\ (Len(Digits[value]) = 1 \/ Len(Digits[value]) < Len(cells))
  BY <1>1, <1>2, <1>5, FormatUnsignedIs
<1>7. CString(b.out, 0) = Digits[value]
  BY <1>1, <1>2, <1>4, <1>5, FormatUnsignedIs
<1> QED BY <1>4, <1>6, <1>7 DEF b, cells

\* A byte is two hexadecimal digits.
LEMMA ByteIs ==
  ASSUME NEW b \in 0..255
  PROVE  b \div 16 \in 0..15 /\ b % 16 \in 0..15 /\ 16 * (b \div 16) + (b % 16) = b
OBVIOUS

\* Where the two characters of a byte stand.
LEMMA PlaceIs ==
  ASSUME NEW n \in Nat, NEW i \in 1..n
  PROVE  /\ 2 * i - 1 \in 1..(2 * n) /\ 2 * i \in 1..(2 * n)
         /\ ((2 * i - 1) + 1) \div 2 = i /\ (2 * i + 1) \div 2 = i
         /\ 2 - ((2 * i - 1) % 2) = 1 /\ 2 - ((2 * i) % 2) = 2
OBVIOUS

\* The byte that a character belongs to.
LEMMA HalfIs ==
  ASSUME NEW n \in Nat, NEW i \in 1..(2 * n)
  PROVE  (i + 1) \div 2 \in 1..n /\ 2 - (i % 2) \in {1, 2}
OBVIOUS

\* Bytes in hexadecimal: two digits for each.
LEMMA HexIs ==
  ASSUME NEW S, S \subseteq 0..255, NEW bytes \in Seq(S)
  PROVE  /\ Hex(bytes) \in Seq(HexChars) /\ Len(Hex(bytes)) = 2 * Len(bytes)
         /\ \A i \in 1..Len(bytes) :
              /\ Hex(bytes)[2 * i - 1] = HexDigit[bytes[i] \div 16 + 1]
              /\ Hex(bytes)[2 * i] = HexDigit[(bytes[i] % 16) + 1]
<1> DEFINE n == Len(bytes)
           pair(k) == HexPair(bytes[k])
           hex == [i \in 1..(2 * n) |-> pair((i + 1) \div 2)[2 - (i % 2)]]
<1>0. n \in Nat /\ \A k \in 1..n : bytes[k] \in 0..255
  <2>1. n \in Nat /\ \A k \in 1..n : bytes[k] \in S
    OBVIOUS
  <2> QED BY <2>1
<1> HIDE DEF n
<1>2. \A k \in 1..n : /\ pair(k)[1] = HexDigit[bytes[k] \div 16 + 1] /\ pair(k)[2] = HexDigit[(bytes[k] % 16) + 1]
                      /\ pair(k)[1] \in HexChars /\ pair(k)[2] \in HexChars
  <2> TAKE k \in 1..n
  <2>1. bytes[k] \div 16 \in 0..15 /\ bytes[k] % 16 \in 0..15
    BY <1>0, ByteIs
  <2>2. HexDigit[bytes[k] \div 16 + 1] \in HexChars /\ HexDigit[(bytes[k] % 16) + 1] \in HexChars
    BY <2>1, HexNumberIs
  <2> QED BY <2>2 DEF HexPair
<1> HIDE DEF pair
<1>3. \A i \in 1..(2 * n) : hex[i] \in HexChars
  <2> TAKE i \in 1..(2 * n)
  <2>1. (i + 1) \div 2 \in 1..n /\ 2 - (i % 2) \in {1, 2}
    BY <1>0, HalfIs
  <2> QED BY <1>2, <2>1
<1>4. hex \in Seq(HexChars) /\ Len(hex) = 2 * n
  <2>1. 2 * n \in Nat
    BY <1>0
  <2>2. hex \in [1..(2 * n) -> HexChars]
    BY <1>3
  <2> HIDE DEF hex
  <2> QED BY <2>1, <2>2
<1>5. \A i \in 1..n : hex[2 * i - 1] = pair(i)[1] /\ hex[2 * i] = pair(i)[2]
  <2> TAKE i \in 1..n
  <2>1. /\ 2 * i - 1 \in 1..(2 * n) /\ 2 * i \in 1..(2 * n)
        /\ ((2 * i - 1) + 1) \div 2 = i /\ (2 * i + 1) \div 2 = i
        /\ 2 - ((2 * i - 1) % 2) = 1 /\ 2 - ((2 * i) % 2) = 2
    BY <1>0, PlaceIs
  <2> QED BY <2>1
<1>6. Hex(bytes) = hex
  BY DEF Hex, pair, n
<1> HIDE DEF hex
<1> QED BY <1>2, <1>4, <1>5, <1>6 DEF n

\* Two digits denote their byte.
LEMMA HexPairDenotes ==
  ASSUME NEW b \in 0..255, NEW S, NEW text \in Seq(S), Len(text) = 2,
         text[1] = HexDigit[b \div 16 + 1], text[2] = HexDigit[(b % 16) + 1]
  PROVE  Denoted(DigitValues(text), 16) = b
<1> DEFINE digits == DigitValues(text)
<1>2. b \div 16 \in 0..15 /\ b % 16 \in 0..15 /\ 16 * (b \div 16) + (b % 16) = b
  BY ByteIs
<1>3. DOMAIN text = 1..2
  OBVIOUS
<1>4. digits[1] = b \div 16 /\ digits[2] = b % 16 /\ digits = [i \in 1..2 |-> digits[i]]
  <2>1. digits = [i \in 1..2 |-> DigitValue(text[i])]
    BY <1>3 DEF DigitValues
  <2>2. DigitValue(text[1]) = b \div 16 /\ DigitValue(text[2]) = b % 16
    BY <1>2, HexNumberIs
  <2> HIDE DEF digits
  <2> QED BY <2>1, <2>2
<1>5. digits \in Seq(Nat) /\ Len(digits) = 2
  <2> HIDE DEF digits
  <2>2. \A i \in 1..2 : digits[i] \in Nat
    BY <1>2, <1>4
  <2> QED BY <1>4, <2>2
<1> HIDE DEF digits
<1>6. Denoted(digits, 16) = b
  BY <1>2, <1>4, <1>5, DenotedTwo
<1> QED BY <1>6 DEF digits

=============================================================================
