---------------------------- MODULE ScreensProofs ----------------------------
(***************************************************************************)
(* The properties of Screens for arrays, numbers, addresses, paths and      *)
(* names of every size.  A text is shown in the array that it was written   *)
(* into, so most of this says what writing does: digits and what they       *)
(* denote, a point among them, hexadecimal bytes, names up to a NUL, the    *)
(* pieces of a path one behind the other, and what snprintf cuts.  The      *)
(* properties are then inductive together.                                  *)
(***************************************************************************)
EXTENDS Screens, FormatProofs

\* What a text of a number is made of, and an array with one.
NumberChars == DigitChars \cup {"."}
Cells == NumberChars \cup {NUL}

\* A part of a sequence, and two sequences one behind the other.
LEMMA PartIs ==
  ASSUME NEW S, NEW s \in Seq(S), NEW a \in Nat, NEW b \in Nat, a <= b, b <= Len(s),
         NEW u, u = SubSeq(s, a + 1, b)
  PROVE  /\ u \in Seq(S) /\ Len(u) = b - a
         /\ \A i \in 1..(b - a) : u[i] = s[a + i]
OBVIOUS

\* The beginning of a sequence.
LEMMA FirstIs ==
  ASSUME NEW S, NEW s \in Seq(S), NEW b \in Nat, b <= Len(s)
  PROVE  /\ SubSeq(s, 1, b) \in Seq(S) /\ Len(SubSeq(s, 1, b)) = b
         /\ \A i \in 1..b : SubSeq(s, 1, b)[i] = s[i]
OBVIOUS

\* What follows the beginning of one.
LEMMA RestIs ==
  ASSUME NEW S, NEW s \in Seq(S), NEW a \in Nat, a <= Len(s), NEW u, u = SubSeq(s, a + 1, Len(s))
  PROVE  /\ u \in Seq(S) /\ Len(u) = Len(s) - a
         /\ \A i \in 1..(Len(s) - a) : u[i] = s[a + i]
OBVIOUS

\* A sequence of members of another set.
LEMMA Narrow ==
  ASSUME NEW S, NEW T, NEW s \in Seq(S), \A i \in 1..Len(s) : s[i] \in T
  PROVE  s \in Seq(T)
OBVIOUS

\* Two sequences joined.
LEMMA JoinIs ==
  ASSUME NEW S, NEW s \in Seq(S), NEW t \in Seq(S), NEW u, u = s \o t
  PROVE  /\ u \in Seq(S) /\ Len(u) = Len(s) + Len(t)
         /\ \A i \in 1..Len(s) : u[i] = s[i]
         /\ \A i \in 1..Len(t) : u[Len(s) + i] = t[i]
OBVIOUS

\* The sizes of the arrays that numbers are written into.
LEMMA SizesAre ==
  /\ AmountSize \in Nat /\ Decimals \in Nat /\ MaxDigits \in Nat \ {0}
  /\ AmountSize >= MaxDigits + Decimals + 2
  /\ AmountSize >= MaxDigits + 6
  /\ AmountSize >= Decimals + 7
BY ScreensAssumption, SizesAssumption, MaxIs

\* The number that a text of digits says, the one of Screens.
LEMMA NumberIs == \A text : Number(text) = Denoted(DigitValues(text), 10)
BY DEF Number, DigitValues, DigitValue

\* Zeros in front do not count.
LEMMA ZerosFirst ==
  ASSUME NEW text \in Seq(DigitChars), NEW z \in Nat, NEW digits \in Seq(DigitChars),
         Len(text) = z + Len(digits),
         \A i \in 1..z : text[i] = "0",
         \A i \in 1..Len(digits) : text[z + i] = digits[i]
  PROVE  Number(text) = Number(digits)
<1> DEFINE t == DigitValues(text)
           d == DigitValues(digits)
           s == SubSeq(t, z + 1, Len(t))
<1>1. /\ t \in Seq(Nat) /\ Len(t) = z + Len(digits) /\ \A i \in 1..Len(t) : t[i] = DigitValue(text[i])
      /\ d \in Seq(Nat) /\ Len(d) = Len(digits) /\ \A i \in 1..Len(d) : d[i] = DigitValue(digits[i])
  BY DigitValuesType
<1>2. DigitValue("0") = 0
  <2>1. Digit[0 + 1] = "0" /\ 0 \in 0..9
    BY DEF Digit
  <2> QED BY <2>1, DigitValueIs
<1> HIDE DEF t, d
<1>3. Len(digits) \in Nat /\ 10 \in Nat
  OBVIOUS
<1>4. \A i \in 1..z : t[i] = 0
  BY <1>1, <1>2, <1>3
<1>5. Denoted(t, 10) = Denoted(s, 10)
  <2>1. z <= Len(t)
    BY <1>1, <1>3
  <2> QED BY <1>1, <1>3, <1>4, <2>1, DenotedZerosFirst
<1>6. s \in Seq(Nat) /\ Len(s) = Len(d) /\ \A i \in 1..Len(d) : s[i] = t[z + i]
  BY <1>1, <1>3
<1> HIDE DEF s
<1>7. \A i \in 1..Len(d) : s[i] = d[i]
  BY <1>1, <1>3, <1>6
<1>8. s = d
  BY <1>1, <1>6, <1>7, SeqEqual
<1> QED BY <1>5, <1>8, NumberIs DEF t, d

\* Zeros and the digits of a value, with the point before the last decimals.
IsPointed(t, value, z, p) ==
  /\ t \in Seq(NumberChars) /\ Len(t) = z + Len(Digits[value]) + 1
  /\ p \in Nat /\ p = Len(t) - Decimals /\ p >= 2 /\ (z > 0 => p = 2)
  /\ t[p] = "."
  /\ \A i \in 1..(p - 1) : t[i] = IF i <= z THEN "0" ELSE Digits[value][i - z]
  /\ \A i \in (p + 1)..Len(t) : t[i] = IF i - 1 <= z THEN "0" ELSE Digits[value][i - 1 - z]

\* Where the characters of a number with a point stand.
LEMMA PointedArithmetic ==
  ASSUME NEW z \in Nat, NEW d \in Nat, d >= 1, NEW n, n = z + d + 1, NEW m \in Nat, NEW p \in Nat, p = n - m, p >= 2
  PROVE  /\ n \in Nat /\ n - 1 \in Nat /\ p <= n /\ z + d = n - 1 /\ p - 1 \in Nat /\ n - p \in Nat
         /\ p + (n - p) = n /\ n - m = p /\ z <= n /\ (p - 1) + (n - p) = n - 1
         /\ \A i \in 1..(p - 1) : i \in 1..(n - 1)
         /\ \A i \in (p + 1)..n : i - 1 \in 1..(n - 1)
         /\ \A i \in 1..n \ {p} : i \in 1..(p - 1) \/ i \in (p + 1)..n
         /\ \A i \in 1..(n - 1) : i \in 1..(p - 1) \/
              (/\ i - (p - 1) \in 1..(n - p) /\ (p - 1) + (i - (p - 1)) = i
               /\ p + (i - (p - 1)) \in (p + 1)..n /\ (p + (i - (p - 1))) - 1 = i)
         /\ \A j \in 1..(n - 1) : j > z => j - z \in 1..d
         /\ \A i \in 1..z : i \in 1..(n - 1) /\ i <= z
         /\ \A i \in 1..d : z + i \in 1..(n - 1) /\ ~(z + i <= z) /\ (z + i) - z = i
         /\ 1 \in 1..(p - 1) /\ (z = 0 => 1 - z = 1 /\ ~(1 <= z)) /\ (d = 1 /\ z = 0 => p = 2)
OBVIOUS

\* The digits of a value, zeros in front of them and a point among them denote
\* the value.
LEMMA PointedIs ==
  ASSUME NEW value \in 0..UINT64_MAX, NEW z \in Nat, NEW t, NEW p, IsPointed(t, value, z, p)
  PROVE  Denotes(t, value)
<1> DEFINE digits == Digits[value]
           before == SubSeq(t, 1, p - 1)
           behind == SubSeq(t, p + 1, Len(t))
           all == before \o behind
           A(j) == IF j <= z THEN "0" ELSE digits[j - z]
           n == Len(t)
           d == Len(digits)
<1>1. /\ digits \in Seq(DigitChars) /\ d >= 1 /\ d \in Nat
      /\ digits[1] = "0" => d = 1
      /\ Number(digits) = value
      /\ \A i \in 1..d : digits[i] \in DigitChars
  BY DigitsAreText, NumberIs DEF IsTextOf
<1>2. /\ t \in Seq(NumberChars) /\ n = z + d + 1 /\ Decimals \in Nat /\ p \in Nat /\ p = n - Decimals /\ p >= 2
      /\ (z > 0 => p = 2) /\ t[p] = "." /\ DOMAIN t = 1..n
  BY SizesAre DEF IsPointed
<1>5. /\ \A i \in 1..(p - 1) : t[i] = A(i)
      /\ \A i \in (p + 1)..n : t[i] = A(i - 1)
  BY DEF IsPointed
<1> HIDE DEF n, d, A, digits
<1>a. /\ n \in Nat /\ n - 1 \in Nat /\ p <= n /\ z + d = n - 1 /\ p - 1 \in Nat /\ n - p \in Nat
      /\ p + (n - p) = n /\ n - Decimals = p /\ z <= n /\ (p - 1) + (n - p) = n - 1
      /\ 1 \in 1..(p - 1) /\ (z = 0 => 1 - z = 1 /\ ~(1 <= z)) /\ (d = 1 /\ z = 0 => p = 2)
  BY <1>1, <1>2, PointedArithmetic
<1>b. /\ \A i \in 1..(p - 1) : i \in 1..(n - 1)
      /\ \A i \in (p + 1)..n : i - 1 \in 1..(n - 1)
      /\ \A i \in 1..n \ {p} : i \in 1..(p - 1) \/ i \in (p + 1)..n
      /\ \A i \in 1..(n - 1) : i \in 1..(p - 1) \/
              (/\ i - (p - 1) \in 1..(n - p) /\ (p - 1) + (i - (p - 1)) = i
               /\ p + (i - (p - 1)) \in (p + 1)..n /\ (p + (i - (p - 1))) - 1 = i)
  BY <1>1, <1>2, PointedArithmetic
<1>c. /\ \A j \in 1..(n - 1) : j > z => j - z \in 1..d
      /\ \A i \in 1..z : i \in 1..(n - 1) /\ i <= z
      /\ \A i \in 1..d : z + i \in 1..(n - 1) /\ ~(z + i <= z) /\ (z + i) - z = i
  BY <1>1, <1>2, PointedArithmetic
<1>3. "0" \in DigitChars
  BY DEF DigitChars
<1>4. \A j \in 1..(n - 1) : A(j) \in DigitChars
  <2> TAKE j \in 1..(n - 1)
  <2>1. CASE j <= z
    BY <1>3, <2>1 DEF A
  <2>2. CASE ~(j <= z)
    <3>1. j - z \in 1..d
      BY <1>a, <1>c, <2>2
    <3> QED BY <1>1, <2>2, <3>1 DEF A
  <2> QED BY <2>1, <2>2
<1>6. /\ before \in Seq(NumberChars) /\ Len(before) = p - 1 /\ \A i \in 1..(p - 1) : before[i] = t[i]
      /\ behind \in Seq(NumberChars) /\ Len(behind) = n - p
      /\ \A i \in 1..(n - p) : behind[i] = t[p + i]
  <2> DEFINE a == p - 1
  <2>1. a \in Nat /\ a <= Len(t) /\ p <= Len(t) /\ Len(t) \in Nat
    BY <1>a DEF n
  <2> HIDE DEF a
  <2>2. /\ SubSeq(t, 1, a) \in Seq(NumberChars) /\ Len(SubSeq(t, 1, a)) = a
        /\ \A i \in 1..a : SubSeq(t, 1, a)[i] = t[i]
    BY <1>2, <2>1, FirstIs
  <2>3. behind = SubSeq(t, p + 1, Len(t)) /\ t \in Seq(NumberChars) /\ p \in Nat
    BY <1>2
  <2> HIDE DEF behind
  <2>4. /\ behind \in Seq(NumberChars) /\ Len(behind) = Len(t) - p
        /\ \A i \in 1..(Len(t) - p) : behind[i] = t[p + i]
    BY <2>1, <2>3, RestIs
  <2> QED BY <2>1, <2>2, <2>4 DEF a, n
<1> HIDE DEF before, behind
<1>7. /\ Len(all) = n - 1 /\ all \in Seq(NumberChars)
      /\ \A i \in 1..(p - 1) : all[i] = t[i]
      /\ \A i \in 1..(n - p) : all[(p - 1) + i] = t[p + i]
  <2>1. /\ all \in Seq(NumberChars) /\ Len(all) = Len(before) + Len(behind)
        /\ \A i \in 1..Len(before) : all[i] = before[i]
        /\ \A i \in 1..Len(behind) : all[Len(before) + i] = behind[i]
    <3>1. before \in Seq(NumberChars) /\ behind \in Seq(NumberChars)
      BY <1>6
    <3>2. all = before \o behind
      OBVIOUS
    <3> HIDE DEF all
    <3> QED BY <3>1, <3>2, JoinIs
  <2> HIDE DEF all
  <2> QED BY <1>a, <1>6, <2>1
<1> HIDE DEF all
<1>8. \A i \in 1..(n - 1) : all[i] = A(i)
  <2> TAKE i \in 1..(n - 1)
  <2>1. CASE i \in 1..(p - 1)
    BY <1>5, <1>7, <2>1
  <2>2. CASE ~(i \in 1..(p - 1))
    <3> DEFINE k == i - (p - 1)
    <3>1. k \in 1..(n - p) /\ (p - 1) + k = i /\ p + k \in (p + 1)..n /\ (p + k) - 1 = i
      BY <1>b, <2>2
    <3> HIDE DEF k
    <3>2. all[(p - 1) + k] = t[p + k] /\ t[p + k] = A((p + k) - 1)
      BY <1>5, <1>7, <3>1
    <3> QED BY <3>1, <3>2
  <2> QED BY <2>1, <2>2
<1>9. all \in Seq(DigitChars)
  <2>1. \A i \in 1..Len(all) : all[i] \in DigitChars
    BY <1>4, <1>7, <1>8
  <2> QED BY <1>7, <2>1, Narrow
<1>10. Number(all) = value
  <2>1. \A i \in 1..z : all[i] = "0"
    BY <1>8, <1>c DEF A
  <2>2. \A i \in 1..d : all[z + i] = digits[i]
    BY <1>8, <1>c DEF A
  <2>3. Len(all) = z + Len(digits)
    BY <1>a, <1>7 DEF d
  <2>4. Number(all) = Number(digits)
    BY <1>1, <1>9, <2>1, <2>2, <2>3, ZerosFirst DEF d
  <2> QED BY <1>1, <2>4
<1>11. \A i \in 1..n \ {p} : t[i] \in DigitChars
  <2> TAKE i \in 1..n \ {p}
  <2>1. i \in 1..(p - 1) \/ i \in (p + 1)..n
    BY <1>b
  <2>2. (i \in 1..(p - 1) /\ i \in 1..(n - 1)) \/ (i \in (p + 1)..n /\ i - 1 \in 1..(n - 1))
    BY <1>b, <2>1
  <2> QED BY <1>4, <1>5, <2>2
<1>12. t[1] = "0" => p = 2
  <2> SUFFICES ASSUME t[1] = "0", z = 0 PROVE p = 2
    BY <1>2
  <2>1. t[1] = digits[1]
    BY <1>a, <1>5 DEF A
  <2> QED BY <1>1, <1>a, <2>1
<1>13. Len(t) - Decimals = p /\ DOMAIN t = 1..n
  BY <1>a, <1>2 DEF n
<1> QED
  BY <1>2, <1>10, <1>11, <1>12, <1>13, NoNul DEF Denotes, all, before, behind

\* An array of an amount with the text of a number, short enough for the unit.
IsAmount(out, value) ==
  /\ out \in Seq(Cells) /\ Len(out) = AmountSize /\ out[AmountSize] = NUL
  /\ CString(out, 0) \in Seq(NumberChars)
  /\ Len(CString(out, 0)) + Len(APT) < AmountSize
  /\ Denotes(CString(out, 0), value)

\* The digits of a value.
LEMMA DigitsOf ==
  ASSUME NEW value \in 0..UINT64_MAX
  PROVE  /\ Digits[value] \in Seq(DigitChars) /\ Len(Digits[value]) \in 1..MaxDigits
         /\ \A i \in 1..Len(Digits[value]) : Digits[value][i] \in DigitChars
BY DigitsAreText, DigitsInRoom, MaxIs DEF IsTextOf

\* What the cells of those arrays hold.
LEMMA CellsAre ==
  /\ NUL \in Cells /\ "." \in NumberChars /\ "0" \in NumberChars
  /\ \A c \in NumberChars : c # NUL /\ c \in Cells
  /\ \A c \in DigitChars : c \in NumberChars
  /\ Seq(NumberChars) \subseteq Seq(Cells) /\ Seq(DigitChars) \subseteq Seq(NumberChars)
<1>1. \A c \in NumberChars : c # NUL
  BY NoNul DEF NumberChars
<1>2. \A c \in DigitChars : c \in NumberChars
  BY DEF NumberChars
<1>3. "0" \in NumberChars /\ "." \in NumberChars
  BY DEF NumberChars, DigitChars
<1>4. NUL \in Cells /\ \A c \in NumberChars : c \in Cells
  BY DEF Cells
<1>5. NumberChars \subseteq Cells /\ DigitChars \subseteq NumberChars
  BY <1>2, <1>4
<1> QED BY <1>1, <1>2, <1>3, <1>4, <1>5

\* A text of a number at the start of an array that is NUL behind it.
LEMMA AmountIsText ==
  ASSUME NEW value \in 0..UINT64_MAX, NEW z \in Nat, NEW p, NEW t, IsPointed(t, value, z, p),
         Len(t) + 4 < AmountSize,
         NEW out, out \in Seq(Cells), Len(out) = AmountSize,
         \A i \in 1..Len(t) : out[i] = t[i],
         \A i \in (Len(t) + 1)..AmountSize : out[i] = NUL
  PROVE  IsAmount(out, value)
<1>1. t \in Seq(NumberChars) /\ Len(t) \in Nat /\ AmountSize \in Nat
  BY SizesAre DEF IsPointed
<1>2. t \in Seq(Cells) /\ \A i \in 1..Len(t) : t[i] # NUL
  BY <1>1, CellsAre
<1>3. Len(t) <= Len(out) /\ (Len(t) < Len(out) => out[Len(t) + 1] = NUL) /\ out[AmountSize] = NUL
  BY <1>1
<1>4. CString(out, 0) = t
  BY <1>2, <1>3, TextIs
<1>5. Denotes(t, value)
  BY PointedIs
<1>6. Len(APT) = 4
  BY DEF APT
<1> QED BY <1>1, <1>3, <1>4, <1>5, <1>6 DEF IsAmount

\* A value below 1: zeros in front of its digits.
LEMMA FractionIs ==
  ASSUME NEW value \in 0..UINT64_MAX, Len(Digits[value]) <= Decimals
  PROVE  LET number == Fraction(Zeroed(AmountSize), Digits[value], Decimals)
         IN  number = [ok |-> TRUE, out |-> number.out] /\ IsAmount(number.out, value)
<1> DEFINE digits == Digits[value]
           d == Len(digits)
           zeros == [i \in 1..(Decimals - d) |-> "0"]
           lead == <<"0", ".">> \o zeros
           first == Written(Zeroed(AmountSize), 0, lead)
           n == AmountSize - Len(lead)
           padded == digits \o Zeroed(n)
           behind == Cut(padded, n)
           out == Written(first, Len(lead), behind)
           whole == lead \o digits
<1>1. /\ digits \in Seq(NumberChars) /\ digits \in Seq(Cells) /\ d \in Nat /\ d >= 1 /\ d <= Decimals
      /\ Decimals \in Nat /\ AmountSize \in Nat /\ AmountSize >= Decimals + 7
  BY DigitsOf, CellsAre, SizesAre
<1>2. /\ zeros \in Seq(NumberChars) /\ Len(zeros) = Decimals - d
      /\ \A i \in 1..Len(zeros) : zeros[i] = "0"
  BY <1>1, CellsAre
<1> HIDE DEF zeros, digits, d
<1>3. /\ lead \in Seq(NumberChars) /\ Len(lead) = Decimals - d + 2 /\ lead[1] = "0" /\ lead[2] = "."
      /\ \A i \in 1..(Decimals - d) : lead[2 + i] = "0"
  <2> DEFINE two == <<"0", ".">>
  <2>1. two \in Seq(NumberChars) /\ Len(two) = 2 /\ two[1] = "0" /\ two[2] = "."
    BY CellsAre
  <2> HIDE DEF two
  <2>2. lead = two \o zeros
    BY DEF two
  <2> HIDE DEF lead
  <2>3. /\ lead \in Seq(NumberChars) /\ Len(lead) = Len(two) + Len(zeros)
        /\ \A i \in 1..Len(two) : lead[i] = two[i]
        /\ \A i \in 1..Len(zeros) : lead[Len(two) + i] = zeros[i]
    <3>1. two \in Seq(NumberChars) /\ zeros \in Seq(NumberChars)
      BY <1>2, <2>1
    <3> QED BY <2>2, <3>1, JoinIs
  <2>4. Len(lead) = Decimals - d + 2 /\ 1 \in 1..Len(two) /\ 2 \in 1..Len(two)
    BY <1>1, <1>2, <2>1, <2>3
  <2> QED BY <1>2, <2>1, <2>3, <2>4
<1>4. lead \in Seq(Cells) /\ n \in Nat /\ n >= d + 5 /\ Len(lead) \in Nat /\ Len(lead) + n = AmountSize
  BY <1>1, <1>3, CellsAre
<1>5. Fraction(Zeroed(AmountSize), digits, Decimals) = [ok |-> TRUE, out |-> out]
  <2>1. /\ Len(Zeroed(AmountSize)) = AmountSize /\ Len(digits) = d
        /\ lead = <<"0", ".">> \o [i \in 1..(Decimals - Len(digits)) |-> "0"]
    BY <1>1, CellsAre, ZeroedIs DEF zeros, d
  <2> HIDE DEF lead
  <2>2. ~(AmountSize <= Len(lead)) /\ n = AmountSize - Len(lead)
    BY <1>1, <1>3
  <2> HIDE DEF n
  <2> QED BY <2>1, <2>2 DEF Fraction, strncpy
<1> HIDE DEF n, lead
<1>6. /\ whole \in Seq(NumberChars) /\ Len(whole) = Decimals + 2
      /\ \A i \in 1..Len(lead) : whole[i] = lead[i]
      /\ \A i \in 1..d : whole[Len(lead) + i] = digits[i]
  <2>0. Len(digits) = d
    BY DEF d
  <2>1. whole = lead \o digits
    OBVIOUS
  <2> HIDE DEF whole
  <2>2. /\ whole \in Seq(NumberChars) /\ Len(whole) = Len(lead) + Len(digits)
        /\ \A i \in 1..Len(lead) : whole[i] = lead[i]
        /\ \A i \in 1..Len(digits) : whole[Len(lead) + i] = digits[i]
    <3>1. lead \in Seq(NumberChars) /\ digits \in Seq(NumberChars)
      BY <1>1, <1>3
    <3> QED BY <2>1, <3>1, JoinIs
  <2> QED BY <1>1, <1>3, <2>0, <2>2
<1> HIDE DEF whole
<1>7. /\ behind \in Seq(Cells) /\ Len(behind) = n
      /\ \A i \in 1..n : behind[i] = IF i <= d THEN digits[i] ELSE NUL
  <2>1. Zeroed(n) \in Seq(Cells) /\ Len(Zeroed(n)) = n /\ \A i \in 1..n : Zeroed(n)[i] = NUL
    BY <1>4, CellsAre, ZeroedIs
  <2>0. Len(digits) = d
    BY DEF d
  <2>2. padded = digits \o Zeroed(n)
    OBVIOUS
  <2> HIDE DEF padded
  <2>3. /\ padded \in Seq(Cells) /\ Len(padded) = Len(digits) + Len(Zeroed(n))
        /\ \A i \in 1..Len(digits) : padded[i] = digits[i]
        /\ \A i \in 1..Len(Zeroed(n)) : padded[Len(digits) + i] = Zeroed(n)[i]
    <3>1. digits \in Seq(Cells) /\ Zeroed(n) \in Seq(Cells)
      BY <1>1, <2>1
    <3> QED BY <2>2, <3>1, JoinIs
  <2>4. \A i \in 1..n : padded[i] = IF i <= d THEN digits[i] ELSE NUL
    <3> TAKE i \in 1..n
    <3>1. CASE i <= d
      BY <2>0, <2>3, <3>1
    <3>2. CASE i > d
      <4>1. i - d \in 1..n /\ d + (i - d) = i
        BY <1>1, <1>4, <3>2
      <4> QED BY <1>1, <2>1, <2>0, <2>3, <3>2, <4>1
    <3> QED BY <1>1, <3>1, <3>2
  <2>5. /\ behind \in Seq(Cells) /\ Len(behind) = IF Len(padded) <= n THEN Len(padded) ELSE n
        /\ \A i \in 1..Len(behind) : behind[i] = padded[i]
    BY <1>4, <2>3, CutIs
  <2> HIDE DEF behind
  <2>6. Len(behind) = n
    BY <1>1, <1>4, <2>1, <2>0, <2>3, <2>5
  <2> QED BY <2>4, <2>5, <2>6
<1> HIDE DEF behind
<1>8. /\ first \in Seq(Cells) /\ Len(first) = AmountSize
      /\ \A i \in 1..Len(lead) : first[i] = lead[i]
  <2> DEFINE zeroed == Zeroed(AmountSize)
  <2>1. zeroed \in Seq(Cells) /\ Len(zeroed) = AmountSize
    BY <1>1, CellsAre, ZeroedIs
  <2> HIDE DEF zeroed
  <2>2. first = Written(zeroed, 0, lead)
    BY DEF zeroed
  <2> HIDE DEF first
  <2>3. /\ first \in Seq(Cells) /\ Len(first) = Len(zeroed)
        /\ \A i \in 1..Len(zeroed) : first[i] = IF i > 0 /\ i <= 0 + Len(lead) THEN lead[i - 0] ELSE zeroed[i]
    BY <1>4, <2>1, <2>2, WrittenIs, 0 \in Nat
  <2>4. \A i \in 1..Len(lead) : i \in 1..AmountSize /\ i > 0 /\ i <= 0 + Len(lead) /\ i - 0 = i
    BY <1>1, <1>4
  <2> QED BY <2>1, <2>3, <2>4
<1> HIDE DEF first
<1>9. /\ out \in Seq(Cells) /\ Len(out) = AmountSize
      /\ \A i \in 1..AmountSize :
           out[i] = IF i > Len(lead) /\ i <= Len(lead) + n THEN behind[i - Len(lead)] ELSE first[i]
  BY <1>4, <1>7, <1>8, WrittenIs
<1> HIDE DEF out
<1>10. \A i \in 1..(Decimals + 2) : out[i] = whole[i]
  <2> TAKE i \in 1..(Decimals + 2)
  <2>1. CASE i <= Len(lead)
    BY <1>1, <1>4, <1>6, <1>8, <1>9, <2>1
  <2>2. CASE i > Len(lead)
    <3> DEFINE j == i - Len(lead)
    <3>1. j \in 1..d /\ j \in 1..n /\ Len(lead) + j = i /\ j <= d /\ i <= Len(lead) + n /\ i \in 1..AmountSize
      BY <1>1, <1>3, <1>4, <2>2
    <3>2. whole[Len(lead) + j] = digits[j]
      <4> HIDE DEF j
      <4> QED BY <1>6, <3>1
    <3>3. out[i] = behind[j]
      BY <1>9, <2>2, <3>1
    <3> QED BY <1>7, <3>1, <3>2, <3>3
  <2> QED BY <1>4, <2>1, <2>2
<1>11. \A i \in (Decimals + 2 + 1)..AmountSize : out[i] = NUL
  <2> TAKE i \in (Decimals + 2 + 1)..AmountSize
  <2> DEFINE j == i - Len(lead)
  <2>1. j \in 1..n /\ ~(j <= d) /\ i > Len(lead) /\ i <= Len(lead) + n /\ i \in 1..AmountSize
    BY <1>1, <1>3, <1>4
  <2> QED BY <1>7, <1>9, <2>1
<1>12. IsPointed(whole, value, Decimals + 1 - d, 2)
  <2> DEFINE z == Decimals + 1 - d
  <2>1. /\ Len(whole) = z + d + 1 /\ 2 \in Nat /\ 2 = Len(whole) - Decimals /\ 2 >= 2
        /\ z \in Nat /\ z >= 1 /\ Len(lead) = z + 1
    BY <1>1, <1>3, <1>6
  <2>2. whole[2] = "." /\ whole[1] = "0"
    BY <1>3, <1>4, <1>6, <2>1
  <2>3. \A i \in 1..(2 - 1) : whole[i] = IF i <= z THEN "0" ELSE digits[i - z]
    <3>1. \A i \in 1..(2 - 1) : i = 1
      OBVIOUS
    <3> QED BY <2>1, <2>2, <3>1
  <2>4. \A i \in (2 + 1)..Len(whole) : whole[i] = IF i - 1 <= z THEN "0" ELSE digits[i - 1 - z]
    <3> TAKE i \in (2 + 1)..Len(whole)
    <3>1. CASE i - 1 <= z
      <4>1. i - 2 \in 1..(Decimals - d) /\ 2 + (i - 2) = i /\ i \in 1..Len(lead)
        BY <1>1, <1>6, <2>1, <3>1
      <4> QED BY <1>3, <1>6, <3>1, <4>1
    <3>2. CASE ~(i - 1 <= z)
      <4> DEFINE j == i - 1 - z
      <4>1. j \in 1..d /\ Len(lead) + j = i
        BY <1>1, <1>6, <2>1, <3>2
      <4> HIDE DEF j
      <4>2. whole[Len(lead) + j] = digits[j]
        BY <1>6, <4>1
      <4> QED BY <3>2, <4>1, <4>2 DEF j
    <3> QED BY <3>1, <3>2
  <2> HIDE DEF z
  <2>5. IsPointed(whole, value, z, 2)
    BY <1>6, <2>1, <2>2, <2>3, <2>4 DEF IsPointed, digits, d
  <2> QED BY <2>5 DEF z
<1>13. IsAmount(out, value)
  <2>1. Decimals + 1 - d \in Nat /\ Len(whole) + 4 < AmountSize
    BY <1>1, <1>6
  <2>2. (\A i \in 1..Len(whole) : out[i] = whole[i]) /\ \A i \in (Len(whole) + 1)..AmountSize : out[i] = NUL
    BY <1>6, <1>10, <1>11
  <2>3. out \in Seq(Cells) /\ Len(out) = AmountSize
    BY <1>9
  <2> DEFINE z == Decimals + 1 - d
  <2>4. z \in Nat /\ IsPointed(whole, value, z, 2)
    BY <1>12, <2>1
  <2> HIDE DEF z
  <2> QED BY <2>1, <2>2, <2>3, <2>4, AmountIsText
<1> QED BY <1>5, <1>13 DEF digits

\* Where the characters of a number that is longer than its decimals stand.
LEMMA WholeArithmetic ==
  ASSUME NEW d \in Nat, NEW m \in Nat, d > m, NEW A \in Nat, A >= d + m + 2, A >= d + 6
  PROVE  /\ d - m \in Nat /\ d - m >= 1 /\ d - m <= d /\ d - (d - m) = m /\ ~(A <= d + 1 + m)
         /\ d + 1 + 4 < A /\ d + 1 < A
         /\ (d - m) + 1 + m = d + 1 /\ d + 1 = 0 + d + 1 /\ (d - m) + 1 = (d + 1) - m /\ (d - m) + 1 >= 2
         /\ ((d - m) + 1) - 1 = d - m
         /\ \A i \in 1..(d - m) : ~(i <= 0) /\ i - 0 = i /\ i \in 1..d
         /\ \A i \in ((d - m) + 1 + 1)..(d + 1) :
              /\ i - ((d - m) + 1) \in 1..m /\ ((d - m) + 1) + (i - ((d - m) + 1)) = i
              /\ ~(i - 1 <= 0) /\ (d - m) + (i - ((d - m) + 1)) = i - 1 - 0
OBVIOUS

\* A value of 1 or more: the point between its digits.
LEMMA WholeIs ==
  ASSUME NEW value \in 0..UINT64_MAX, Len(Digits[value]) > Decimals
  PROVE  LET number == Whole(Zeroed(AmountSize), Digits[value], Decimals)
         IN  number = [ok |-> TRUE, out |-> number.out] /\ IsAmount(number.out, value)
<1> DEFINE digits == Digits[value]
           d == Len(digits)
           shift == d - Decimals
           front == SubSeq(digits, 1, shift)
           back == SubSeq(digits, shift + 1, Len(digits))
           point == <<".">>
           pointed == front \o point
           whole == pointed \o back
           out == Written(Zeroed(AmountSize), 0, whole)
<1>1. /\ digits \in Seq(NumberChars) /\ d \in Nat /\ d <= MaxDigits /\ d > Decimals
      /\ Decimals \in Nat /\ AmountSize \in Nat /\ AmountSize >= d + Decimals + 2 /\ AmountSize >= d + 6
  <2>1. digits \in Seq(NumberChars) /\ d \in Nat /\ d <= MaxDigits
    BY DigitsOf, CellsAre, MaxIs
  <2> HIDE DEF d
  <2>2. /\ Decimals \in Nat /\ AmountSize \in Nat
        /\ AmountSize >= d + Decimals + 2 /\ AmountSize >= d + 6
    BY <2>1, SizesAre
  <2> QED BY <2>1, <2>2 DEF d
<1>2. Len(digits) = d
  OBVIOUS
<1> HIDE DEF digits, d
<1>3. /\ shift \in Nat /\ shift >= 1 /\ shift <= d /\ d - shift = Decimals /\ ~(AmountSize <= d + 1 + Decimals)
      /\ d + 1 + 4 < AmountSize /\ d + 1 < AmountSize /\ shift + 1 + Decimals = d + 1 /\ d + 1 = 0 + d + 1
      /\ shift + 1 = (d + 1) - Decimals /\ shift + 1 >= 2 /\ (shift + 1) - 1 = shift
      /\ \A i \in 1..shift : ~(i <= 0) /\ i - 0 = i /\ i \in 1..d
      /\ \A i \in (shift + 1 + 1)..(d + 1) :
              /\ i - (shift + 1) \in 1..Decimals /\ (shift + 1) + (i - (shift + 1)) = i
              /\ ~(i - 1 <= 0) /\ shift + (i - (shift + 1)) = i - 1 - 0
  BY <1>1, WholeArithmetic
<1>4. Whole(Zeroed(AmountSize), digits, Decimals) = [ok |-> TRUE, out |-> out]
  <2>1. Len(Zeroed(AmountSize)) = AmountSize
    BY <1>1, CellsAre, ZeroedIs
  <2> QED BY <1>2, <1>3, <2>1 DEF Whole
<1> HIDE DEF shift
<1>5. /\ front \in Seq(NumberChars) /\ Len(front) = shift /\ \A i \in 1..shift : front[i] = digits[i]
  <2>1. shift <= Len(digits)
    BY <1>2, <1>3
  <2> QED BY <1>1, <1>3, <2>1, FirstIs
<1>6. /\ back \in Seq(NumberChars) /\ Len(back) = Decimals
      /\ \A i \in 1..Decimals : back[i] = digits[shift + i]
  <2>1. back = SubSeq(digits, shift + 1, Len(digits))
    OBVIOUS
  <2> HIDE DEF back
  <2>2. digits \in Seq(NumberChars) /\ shift \in Nat
    BY <1>1, <1>3
  <2>3. shift <= Len(digits)
    BY <1>2, <1>3
  <2>4. /\ back \in Seq(NumberChars) /\ Len(back) = Len(digits) - shift
        /\ \A i \in 1..(Len(digits) - shift) : back[i] = digits[shift + i]
    BY <2>1, <2>2, <2>3, RestIs
  <2>5. Len(digits) - shift = Decimals
    BY <1>2, <1>3
  <2> QED BY <2>4, <2>5
<1>7. point \in Seq(NumberChars) /\ Len(point) = 1 /\ point[1] = "."
  BY CellsAre
<1> HIDE DEF front, back, point
<1>8. /\ pointed \in Seq(NumberChars) /\ Len(pointed) = shift + 1
      /\ \A i \in 1..shift : pointed[i] = digits[i]
      /\ pointed[shift + 1] = "."
  <2>1. pointed = front \o point /\ front \in Seq(NumberChars) /\ point \in Seq(NumberChars)
    BY <1>5, <1>7
  <2> HIDE DEF pointed
  <2>2. /\ pointed \in Seq(NumberChars) /\ Len(pointed) = Len(front) + Len(point)
        /\ \A i \in 1..Len(front) : pointed[i] = front[i]
        /\ \A i \in 1..Len(point) : pointed[Len(front) + i] = point[i]
    BY <2>1, JoinIs
  <2>3. 1 \in 1..Len(point)
    BY <1>7
  <2>4. pointed[Len(front) + 1] = "."
    BY <1>7, <2>2, <2>3
  <2> QED BY <1>5, <1>7, <2>2, <2>4
<1> HIDE DEF pointed
<1>9. /\ whole \in Seq(NumberChars) /\ Len(whole) = d + 1
      /\ \A i \in 1..shift : whole[i] = digits[i]
      /\ whole[shift + 1] = "."
      /\ \A i \in 1..Decimals : whole[shift + 1 + i] = digits[shift + i]
  <2>1. whole = pointed \o back /\ pointed \in Seq(NumberChars) /\ back \in Seq(NumberChars)
    BY <1>6, <1>8
  <2> HIDE DEF whole
  <2>2. /\ whole \in Seq(NumberChars) /\ Len(whole) = Len(pointed) + Len(back)
        /\ \A i \in 1..Len(pointed) : whole[i] = pointed[i]
        /\ \A i \in 1..Len(back) : whole[Len(pointed) + i] = back[i]
    BY <2>1, JoinIs
  <2>3. \A i \in 1..shift : i \in 1..(shift + 1)
    BY <1>3
  <2>4. shift + 1 \in 1..(shift + 1)
    BY <1>3
  <2> QED BY <1>3, <1>6, <1>8, <2>2, <2>3, <2>4
<1> HIDE DEF whole
<1>10. IsPointed(whole, value, 0, shift + 1)
  <2>1. \A i \in 1..((shift + 1) - 1) : whole[i] = IF i <= 0 THEN "0" ELSE digits[i - 0]
    BY <1>3, <1>9
  <2>2. \A i \in (shift + 1 + 1)..Len(whole) : whole[i] = IF i - 1 <= 0 THEN "0" ELSE digits[i - 1 - 0]
    <3> TAKE i \in (shift + 1 + 1)..Len(whole)
    <3> DEFINE j == i - (shift + 1)
    <3>1. j \in 1..Decimals /\ (shift + 1) + j = i /\ ~(i - 1 <= 0) /\ shift + j = i - 1 - 0
      BY <1>3, <1>9
    <3> HIDE DEF j
    <3>2. whole[shift + 1 + j] = digits[shift + j]
      BY <1>9, <3>1
    <3> QED BY <3>1, <3>2
  <2>3. Len(whole) = 0 + Len(digits) + 1
    BY <1>2, <1>3, <1>9
  <2>4. shift + 1 \in Nat /\ shift + 1 = Len(whole) - Decimals
    BY <1>3, <1>9
  <2> QED BY <1>3, <1>9, <2>1, <2>2, <2>3, <2>4 DEF IsPointed, digits
<1>11. Denotes(whole, value)
  BY <1>10, PointedIs, 0 \in Nat
<1>12. /\ out \in Seq(Cells) /\ Len(out) = AmountSize /\ out[AmountSize] = NUL /\ CString(out, 0) = whole
  <2>1. whole \in Seq(Cells) /\ \A i \in 1..Len(whole) : whole[i] # NUL
    BY <1>9, CellsAre
  <2>2. Len(whole) < AmountSize
    BY <1>3, <1>9
  <2> QED BY <1>1, <2>1, <2>2, CellsAre, WrittenText
<1>13. IsAmount(out, value)
  <2>1. Len(APT) = 4
    BY DEF APT
  <2> HIDE DEF out
  <2> QED BY <1>3, <1>9, <1>11, <1>12, <2>1 DEF IsAmount
<1> QED BY <1>4, <1>13 DEF digits

\* A number is always formatted, on an array that was zeroed: NoAmountRefused.
LEMMA FpuIs ==
  ASSUME NEW value \in 0..UINT64_MAX
  PROVE  LET number == format_fpu64(Zeroed(AmountSize), value, Decimals)
         IN  number = [ok |-> TRUE, out |-> number.out] /\ IsAmount(number.out, value)
<1> DEFINE buffer == format_u64(Zeroed(MaxDigits + 1), value)
<1>1. buffer.ok /\ CString(buffer.out, 0) = Digits[value]
  BY FormatDigits
<1> HIDE DEF buffer
<1>2. CASE Len(Digits[value]) <= Decimals
  <2>1. format_fpu64(Zeroed(AmountSize), value, Decimals) = Fraction(Zeroed(AmountSize), Digits[value], Decimals)
    BY <1>1, <1>2 DEF format_fpu64, buffer
  <2> QED BY <1>2, <2>1, FractionIs
<1>3. CASE ~(Len(Digits[value]) <= Decimals)
  <2>1. format_fpu64(Zeroed(AmountSize), value, Decimals) = Whole(Zeroed(AmountSize), Digits[value], Decimals)
    BY <1>1, <1>3 DEF format_fpu64, buffer
  <2>2. Len(Digits[value]) > Decimals
    BY <1>3, DigitsOf, SizesAre
  <2> QED BY <2>1, <2>2, WholeIs
<1> QED BY <1>2, <1>3

\* All the characters of the texts.
\* Every character that is written.
Letters == NumberChars \cup HexChars \cup {"x", ":", "A", "P", "T", " ", "'", "/", "-"}
Symbols == Letters \cup {Char[b] : b \in DOMAIN Char} \cup ToSet(TypeText["script"])
             \cup ToSet(TypeText["with_data"]) \cup {NUL}

\* Only a NUL ends a string.
LEMMA SymbolsAre ==
  /\ NUL \in Symbols /\ Letters \subseteq Symbols /\ Cells \subseteq Symbols
  /\ NumberChars \subseteq Letters /\ HexChars \subseteq Letters
  /\ \A c \in Letters : c # NUL
  /\ \A b \in DOMAIN Char : Char[b] \in Symbols
  /\ ToSet(TypeText["script"]) \subseteq Symbols /\ ToSet(TypeText["with_data"]) \subseteq Symbols
<1>1. \A c \in HexChars \cup {"-", ".", "'", "/"} : c # NUL
  BY NulAssumption DEF HexChars
<1>2. \A c \in {"x", ":", "A", "P", "T", " "} : c # NUL
  BY TextAssumption
<1>3. \A c \in NumberChars : c # NUL
  BY CellsAre
<1>4. \A c \in Letters : c # NUL
  BY <1>1, <1>2, <1>3 DEF Letters
<1> HIDE DEF HexChars
<1>5. NumberChars \subseteq Letters /\ HexChars \subseteq Letters
  BY DEF Letters
<1>6. NUL \in Symbols /\ Letters \subseteq Symbols
  BY DEF Symbols
<1>7. Cells \subseteq Symbols
  BY <1>5, <1>6 DEF Cells
<1>8. \A b \in DOMAIN Char : Char[b] \in Symbols
  BY DEF Symbols
<1>9. ToSet(TypeText["script"]) \subseteq Symbols /\ ToSet(TypeText["with_data"]) \subseteq Symbols
  BY DEF Symbols
<1> QED BY <1>4, <1>5, <1>6, <1>7, <1>8, <1>9

\* A sequence over a larger set.
LEMMA Wider ==
  ASSUME NEW S, NEW T, S \subseteq T, NEW s \in Seq(S)
  PROVE  s \in Seq(T)
OBVIOUS

\* A text formatted into a zeroed array: what fits, and terminated.
LEMMA FormattedIs ==
  ASSUME NEW S, NUL \in S, NEW n \in Nat, n >= 1, NEW text \in Seq(S), \A i \in 1..Len(text) : text[i] # NUL
  PROVE  LET out == snprintf(Zeroed(n), 0, text)
         IN  /\ out \in Seq(S) /\ Len(out) = n /\ out[n] = NUL
             /\ CString(out, 0) = Cut(text, n - 1)
<1> DEFINE cells == Zeroed(n)
           out == snprintf(cells, 0, text)
           cut == Cut(text, n - 1)
<1>1. cells \in Seq(S) /\ Len(cells) = n /\ \A i \in 1..n : cells[i] = NUL
  BY ZeroedIs
<1>2. Len(cells) - 0 - 1 = n - 1 /\ n - 1 \in Nat /\ 0 < Len(cells)
  BY <1>1
<1> HIDE DEF cells
<1>3. /\ cut \in Seq(S) /\ Len(cut) = IF Len(text) <= n - 1 THEN Len(text) ELSE n - 1
  BY <1>2, CutIs
<1> DEFINE c == Cut(text, Len(cells) - 0 - 1)
<1>a. cells \in Seq(S) /\ 0 < Len(cells) /\ 0 \in Nat
  BY <1>1, <1>2
<1>4. /\ out \in Seq(S) /\ Len(out) = Len(cells) /\ CString(out, 0) = c
      /\ out[0 + Len(c) + 1] = NUL
      /\ \A i \in (0 + Len(c) + 2)..Len(cells) : out[i] = cells[i]
  <2>1. out \in Seq(S) /\ Len(out) = Len(cells) /\ CString(out, 0) = c
    BY <1>a, SnprintfIs
  <2>2. out[0 + Len(c) + 1] = NUL
    BY <1>a, SnprintfIs
  <2>3. \A i \in (0 + Len(c) + 2)..Len(cells) : out[i] = cells[i]
    BY <1>a, SnprintfIs
  <2> QED BY <2>1, <2>2, <2>3
<1> HIDE DEF out, c
<1>5. CString(out, 0) = cut /\ out[Len(cut) + 1] = NUL /\ \A i \in (Len(cut) + 2)..n : out[i] = NUL
  <2>1. c = cut
    BY <1>2 DEF c
  <2> HIDE DEF cut
  <2>2. Len(cut) \in Nat
    BY <1>3
  <2>3. \A i \in (Len(cut) + 2)..n : i \in 1..n /\ i \in (0 + Len(cut) + 2)..n
    BY <2>2
  <2> QED BY <1>1, <1>4, <2>1, <2>2, <2>3
<1> HIDE DEF cut
<1>6. out[n] = NUL
  <2>1. Len(cut) + 1 = n \/ n \in (Len(cut) + 2)..n
    BY <1>3
  <2> QED BY <1>5, <2>1
<1> QED BY <1>1, <1>4, <1>5, <1>6 DEF cut, out, cells

\* Two texts without a NUL, one behind the other, have none.
LEMMA JoinNoNul ==
  ASSUME NEW S, NEW s \in Seq(S), NEW t \in Seq(S), NEW u, u = s \o t,
         \A i \in 1..Len(s) : s[i] # NUL, \A i \in 1..Len(t) : t[i] # NUL
  PROVE  u \in Seq(S) /\ \A i \in 1..Len(u) : u[i] # NUL
<1>1. /\ u \in Seq(S) /\ Len(u) = Len(s) + Len(t)
      /\ \A i \in 1..Len(s) : u[i] = s[i]
      /\ \A i \in 1..Len(t) : u[Len(s) + i] = t[i]
  BY JoinIs
<1>2. \A i \in 1..Len(u) : u[i] # NUL
  <2> TAKE i \in 1..Len(u)
  <2>1. CASE i <= Len(s)
    BY <1>1, <2>1
  <2>2. CASE i > Len(s)
    <3> DEFINE j == i - Len(s)
    <3>1. j \in 1..Len(t) /\ Len(s) + j = i
      BY <1>1, <2>2
    <3> HIDE DEF j
    <3> QED BY <1>1, <3>1
  <2> QED BY <2>1, <2>2
<1> QED BY <1>1, <1>2

\* The unit.
LEMMA AptIs == APT \in Seq(Symbols) /\ Len(APT) = 4 /\ \A i \in 1..4 : APT[i] # NUL
<1> DEFINE C == {"A", "P", "T", " "}
<1>1. C \subseteq Symbols /\ \A c \in C : c # NUL
  BY SymbolsAre DEF Letters
<1>2. APT \in Seq(C) /\ Len(APT) = 4
  BY DEF APT
<1> HIDE DEF C
<1> QED BY <1>1, <1>2

\* A number with its unit.
LEMMA WithUnitIs ==
  ASSUME NEW value \in 0..UINT64_MAX
  PROVE  LET number == WithUnit(value)
         IN  /\ number.ok /\ Len(number.out) = AmountSize /\ Last(number.out) = NUL
             /\ Denotes(WithoutUnit(CString(number.out, 0)), value)
<1> DEFINE number == format_fpu64(Zeroed(AmountSize), value, Decimals)
           text == CString(number.out, 0)
           whole == APT \o text
           out == snprintf(Zeroed(AmountSize), 0, whole)
<1>1. number = [ok |-> TRUE, out |-> number.out] /\ IsAmount(number.out, value)
  BY FpuIs
<1>2. WithUnit(value).ok /\ WithUnit(value).out = out
  <2> HIDE DEF number
  <2> QED BY <1>1 DEF WithUnit, number
<1> HIDE DEF number
<1>3. text \in Seq(NumberChars) /\ Len(text) + 4 < AmountSize /\ Denotes(text, value)
  BY <1>1, AptIs DEF IsAmount
<1> HIDE DEF text
<1>4. text \in Seq(Symbols) /\ \A i \in 1..Len(text) : text[i] # NUL
  <2>1. NumberChars \subseteq Symbols
    BY SymbolsAre
  <2> QED BY <1>3, <2>1, CellsAre, Wider
<1>5. /\ whole \in Seq(Symbols) /\ Len(whole) = 4 + Len(text)
      /\ \A i \in 1..Len(whole) : whole[i] # NUL
      /\ \A i \in 1..Len(text) : whole[4 + i] = text[i]
  <2>1. whole = APT \o text
    OBVIOUS
  <2> HIDE DEF whole
  <2>2. whole \in Seq(Symbols) /\ \A i \in 1..Len(whole) : whole[i] # NUL
    BY <1>4, <2>1, AptIs, JoinNoNul
  <2>3. /\ whole \in Seq(Symbols) /\ Len(whole) = Len(APT) + Len(text)
        /\ \A i \in 1..Len(text) : whole[Len(APT) + i] = text[i]
    <3>1. APT \in Seq(Symbols) /\ text \in Seq(Symbols)
      BY <1>4, AptIs
    <3> QED BY <2>1, <3>1, JoinIs
  <2> QED BY <2>2, <2>3, AptIs
<1> HIDE DEF whole
<1>6. AmountSize \in Nat /\ AmountSize >= 1 /\ AmountSize - 1 \in Nat /\ Len(whole) <= AmountSize - 1 /\ Len(text) \in Nat
  BY <1>3, <1>5, SizesAre
<1>7. /\ out \in Seq(Symbols) /\ Len(out) = AmountSize /\ out[AmountSize] = NUL
      /\ CString(out, 0) = Cut(whole, AmountSize - 1)
  BY <1>5, <1>6, SymbolsAre, FormattedIs
<1> HIDE DEF out
<1>8. CString(out, 0) = whole
  BY <1>6, <1>7 DEF Cut
<1>9. WithoutUnit(whole) = text
  <2> DEFINE rest == SubSeq(whole, 4 + 1, Len(whole))
  <2>1. rest = SubSeq(whole, 4 + 1, Len(whole)) /\ 4 \in Nat /\ 4 <= Len(whole)
    BY <1>5, <1>6
  <2> HIDE DEF rest
  <2>2. /\ rest \in Seq(Symbols) /\ Len(rest) = Len(whole) - 4
        /\ \A i \in 1..(Len(whole) - 4) : rest[i] = whole[4 + i]
    BY <1>5, <2>1, RestIs
  <2>3. Len(whole) - 4 = Len(text)
    BY <1>5, <1>6
  <2>4. Len(rest) = Len(text) /\ \A i \in 1..Len(text) : rest[i] = text[i]
    BY <1>5, <2>2, <2>3
  <2>5. rest = text
    BY <1>4, <2>2, <2>4, SeqEqual
  <2> QED BY <2>5, AptIs DEF WithoutUnit, rest
<1> QED BY <1>2, <1>3, <1>7, <1>8, <1>9 DEF Last

\* Characters are converted from bytes.
LEMMA CharBytes == DOMAIN Char \subseteq 0..255
BY ScreensAssumption

\* Two digits are read as their byte.
LEMMA HexValueIs ==
  ASSUME NEW b \in DOMAIN Char, NEW S, NEW text \in Seq(S), Len(text) = 2,
         text[1] = HexDigit[b \div 16 + 1], text[2] = HexDigit[(b % 16) + 1]
  PROVE  HexValue(text) = b
BY CharBytes, HexPairDenotes DEF HexValue

\* What stands before the first NUL of a conversion of bytes.
LEMMA CharsAre ==
  ASSUME NEW bytes \in Seq(DOMAIN Char)
  PROVE  /\ Chars(bytes) = UpToNul(bytes)
         /\ UpToNul(bytes) \in Seq(Symbols)
         /\ \A i \in 1..Len(UpToNul(bytes)) : UpToNul(bytes)[i] # NUL
<1> DEFINE n == Len(bytes)
           cells == [i \in 1..n |-> Char[bytes[i]]]
           I == {i \in 1..n : Char[bytes[i]] = NUL}
           end == IF I # {} THEN Min(I) ELSE 0
           k == IF end = 0 THEN n ELSE end - 1
           text == [i \in 1..k |-> Char[bytes[i]]]
<1>1. n \in Nat /\ DOMAIN bytes = 1..n /\ \A i \in 1..n : bytes[i] \in DOMAIN Char
  OBVIOUS
<1>2. /\ cells \in Seq(Symbols) /\ Len(cells) = n
      /\ \A i \in 1..n : cells[i] = Char[bytes[i]]
  BY <1>1, SymbolsAre
<1>3. UpToNul(bytes) = text
  BY DEF UpToNul, SelectInSeq
<1>4. k \in 0..n /\ (\A i \in 1..k : i \notin I) /\ (k < n => k + 1 \in I)
  <2>1. CASE I = {}
    BY <1>1, <2>1
  <2>2. CASE I # {}
    <3>1. I \in SUBSET Nat
      OBVIOUS
    <3>2. \E m \in I : \A i \in I : m <= i
      <4> DEFINE J == I
      <4>1. J \in SUBSET Nat /\ J # {}
        BY <2>2, <3>1
      <4> HIDE DEF J
      <4>2. \E m \in J : \A i \in J : m <= i
        BY <4>1, LeastNumber
      <4> QED BY <4>2 DEF J
    <3> PICK m \in I : \A i \in I : m <= i
      BY <3>2
    <3>3. I \subseteq Int /\ m \in 1..n /\ m \in I /\ \A i \in I : m <= i
      OBVIOUS
    <3> HIDE DEF I
    <3>4. Min(I) = m
      BY <3>3, MinIs
    <3>5. end = m /\ k = m - 1
      BY <2>2, <3>3, <3>4
    <3>6. \A i \in 1..(m - 1) : ~(m <= i)
      BY <3>3
    <3> HIDE DEF end, k
    <3> QED BY <1>1, <3>3, <3>5, <3>6
  <2> QED BY <2>1, <2>2
<1> HIDE DEF k
<1>5. \A i \in 1..k : i \in 1..n /\ Char[bytes[i]] # NUL /\ Char[bytes[i]] \in Symbols
  BY <1>1, <1>4, SymbolsAre
<1>6. /\ text \in Seq(Symbols) /\ Len(text) = k
      /\ \A i \in 1..k : text[i] = Char[bytes[i]]
  BY <1>4, <1>5
<1>7. k < n => Char[bytes[k + 1]] = NUL /\ k + 1 \in 1..n
  BY <1>4
<1> HIDE DEF cells, text
<1>8. CString(cells, 0) = text
  <2>1. Len(text) <= Len(cells) /\ \A i \in 1..Len(text) : text[i] # NUL /\ cells[i] = text[i]
    BY <1>1, <1>2, <1>4, <1>5, <1>6
  <2>2. Len(text) < Len(cells) => cells[Len(text) + 1] = NUL
    BY <1>2, <1>6, <1>7
  <2> QED BY <1>2, <1>6, <2>1, <2>2, TextIs
<1>9. Chars(bytes) = CString(cells, 0)
  BY <1>1 DEF Chars, cells
<1> QED BY <1>3, <1>5, <1>6, <1>8, <1>9

\* The sizes of the arrays that addresses, names and paths are written into.
LEMMA AddressSizes ==
  /\ ADDRESS_LEN \in Nat /\ ADDRESS_LEN >= 1 /\ AddressSize \in Nat /\ AddressSize >= 2 * ADDRESS_LEN + 3
  /\ FunctionSize \in Nat /\ FunctionSize >= 7 /\ StructSize \in Nat /\ StructSize >= 9
  /\ PathSize \in Nat /\ PathSize >= 1
BY ScreensAssumption, SizesAssumption DEF UI_MODULE_ADDRESS_LEN

\* What a hexadecimal number begins with.
LEMMA ZeroxIs ==
  Zerox \in Seq(Symbols) /\ Len(Zerox) = 2 /\ \A i \in 1..Len(Zerox) : Zerox[i] # NUL
<1> DEFINE C == {"0", "x"}
<1>1. C \subseteq Symbols /\ \A c \in C : c # NUL
  BY SymbolsAre DEF Letters, NumberChars, DigitChars
<1>2. Zerox \in Seq(C) /\ Len(Zerox) = 2
  BY DEF Zerox
<1> HIDE DEF C
<1> QED BY <1>1, <1>2

\* Hexadecimal digits are characters of texts.
LEMMA HexText ==
  ASSUME NEW bytes \in Seq(DOMAIN Char)
  PROVE  Hex(bytes) \in Seq(Symbols) /\ \A i \in 1..Len(Hex(bytes)) : Hex(bytes)[i] # NUL
<1>1. HexChars \subseteq Symbols /\ \A c \in HexChars : c # NUL
  BY SymbolsAre
<1>2. Hex(bytes) \in Seq(HexChars)
  BY HexIs, CharBytes
<1> QED BY <1>1, <1>2

\* Two characters of a text.
LEMMA PairIs ==
  ASSUME NEW S, NEW s \in Seq(S), NEW i \in Nat, i >= 1, i + 1 <= Len(s), NEW u, u = SubSeq(s, i, i + 1)
  PROVE  u \in Seq(S) /\ Len(u) = 2 /\ u[1] = s[i] /\ u[2] = s[i + 1]
<1> DEFINE a == i - 1
<1>1. a \in Nat /\ i = a + 1 /\ i + 1 \in Nat /\ a <= i + 1 /\ (i + 1) - a = 2
  OBVIOUS
<1> HIDE DEF a
<1>2. u = SubSeq(s, a + 1, i + 1)
  BY <1>1
<1>3. /\ u \in Seq(S) /\ Len(u) = (i + 1) - a
      /\ \A j \in 1..((i + 1) - a) : u[j] = s[a + j]
  BY <1>1, <1>2, PartIs
<1>4. u[1] = s[a + 1] /\ u[2] = s[a + 2] /\ a + 2 = i + 1
  BY <1>1, <1>3
<1> QED BY <1>1, <1>3, <1>4

\* An address is shown whole, each byte by its two digits.
LEMMA AddressTextIs ==
  ASSUME NEW address \in Seq(DOMAIN Char), Len(address) = ADDRESS_LEN
  PROVE  LET out == AddressText(address)
             text == CString(out, 0)
         IN  /\ Len(out) = AddressSize /\ Last(out) = NUL
             /\ Len(text) = 2 * ADDRESS_LEN + 2
             /\ \A i \in 1..ADDRESS_LEN : HexValue(SubSeq(text, 2 * i + 1, 2 * i + 2)) = address[i]
<1> DEFINE hex == Hex(address)
           whole == Zerox \o hex
           out == snprintf(Zeroed(AddressSize), 0, whole)
<1>1. /\ hex \in Seq(Symbols) /\ \A i \in 1..Len(hex) : hex[i] # NUL
      /\ Len(hex) = 2 * ADDRESS_LEN
      /\ \A i \in 1..ADDRESS_LEN : /\ hex[2 * i - 1] = HexDigit[address[i] \div 16 + 1]
                                   /\ hex[2 * i] = HexDigit[(address[i] % 16) + 1]
  BY HexIs, HexText, CharBytes
<1> HIDE DEF hex
<1>2. /\ whole \in Seq(Symbols) /\ Len(whole) = 2 + 2 * ADDRESS_LEN
      /\ \A i \in 1..Len(whole) : whole[i] # NUL
      /\ \A i \in 1..(2 * ADDRESS_LEN) : whole[2 + i] = hex[i]
  <2>1. whole = Zerox \o hex
    OBVIOUS
  <2> HIDE DEF whole
  <2>3. Zerox \in Seq(Symbols) /\ hex \in Seq(Symbols)
    BY <1>1, ZeroxIs
  <2>5. (\A i \in 1..Len(Zerox) : Zerox[i] # NUL) /\ \A i \in 1..Len(hex) : hex[i] # NUL
    BY <1>1, ZeroxIs
  <2>2. whole \in Seq(Symbols) /\ \A i \in 1..Len(whole) : whole[i] # NUL
    BY <2>1, <2>3, <2>5, JoinNoNul
  <2>4. /\ whole \in Seq(Symbols) /\ Len(whole) = Len(Zerox) + Len(hex)
        /\ \A i \in 1..Len(hex) : whole[Len(Zerox) + i] = hex[i]
    BY <2>1, <2>3, JoinIs
  <2> QED BY <1>1, <2>2, <2>4, ZeroxIs
<1> HIDE DEF whole
<1>3. AddressSize \in Nat /\ AddressSize >= 1 /\ AddressSize - 1 \in Nat /\ Len(whole) <= AddressSize - 1
  BY <1>2, AddressSizes
<1>4. /\ out \in Seq(Symbols) /\ Len(out) = AddressSize /\ out[AddressSize] = NUL
      /\ CString(out, 0) = Cut(whole, AddressSize - 1)
  BY <1>2, <1>3, SymbolsAre, FormattedIs
<1> HIDE DEF out
<1>5. CString(out, 0) = whole
  BY <1>3, <1>4 DEF Cut
<1>6. \A i \in 1..ADDRESS_LEN : HexValue(SubSeq(whole, 2 * i + 1, 2 * i + 2)) = address[i]
  <2> TAKE i \in 1..ADDRESS_LEN
  <2> DEFINE k == 2 * i + 1
             pair == SubSeq(whole, k, k + 1)
  <2>1. /\ k \in Nat /\ k >= 1 /\ k + 1 <= Len(whole) /\ k + 1 = 2 * i + 2
        /\ 2 * i - 1 \in 1..(2 * ADDRESS_LEN) /\ 2 * i \in 1..(2 * ADDRESS_LEN)
        /\ 2 + (2 * i - 1) = k /\ 2 + 2 * i = k + 1
    BY <1>2, AddressSizes
  <2> HIDE DEF k
  <2>2. whole[k] = HexDigit[address[i] \div 16 + 1] /\ whole[k + 1] = HexDigit[(address[i] % 16) + 1]
    <3>1. whole[2 + (2 * i - 1)] = hex[2 * i - 1] /\ whole[2 + 2 * i] = hex[2 * i]
      BY <1>2, <2>1
    <3> QED BY <1>1, <2>1, <3>1
  <2>3. pair = SubSeq(whole, k, k + 1)
    OBVIOUS
  <2> HIDE DEF pair
  <2>4. pair \in Seq(Symbols) /\ Len(pair) = 2 /\ pair[1] = whole[k] /\ pair[2] = whole[k + 1]
    BY <1>2, <2>1, <2>3, PairIs
  <2>5. address[i] \in DOMAIN Char
    BY AddressSizes
  <2>6. HexValue(pair) = address[i]
    BY <2>2, <2>4, <2>5, HexValueIs
  <2> QED BY <2>1, <2>6 DEF pair, k
<1>7. AddressText(address) = out
  BY DEF AddressText, whole, hex, out
<1>8. Len(whole) = 2 * ADDRESS_LEN + 2
  BY <1>2, AddressSizes
<1> QED BY <1>4, <1>5, <1>6, <1>7, <1>8 DEF Last

\* Texts without a NUL.
NulFree(s) == s \in Seq(Symbols) /\ \A i \in 1..Len(s) : s[i] # NUL

\* The two texts, one behind the other.
Joined(u, s, t) ==
  /\ NulFree(u) /\ Len(u) = Len(s) + Len(t)
  /\ \A i \in 1..Len(s) : u[i] = s[i]
  /\ \A i \in 1..Len(t) : u[Len(s) + i] = t[i]

\* Joining texts makes a text.
LEMMA NulFreeJoin ==
  ASSUME NEW s, NEW t, NulFree(s), NulFree(t), NEW u, u = s \o t
  PROVE  Joined(u, s, t)
<1>1. s \in Seq(Symbols) /\ t \in Seq(Symbols)
  BY DEF NulFree
<1>2. (\A i \in 1..Len(s) : s[i] # NUL) /\ \A i \in 1..Len(t) : t[i] # NUL
  BY DEF NulFree
<1>3. u \in Seq(Symbols) /\ \A i \in 1..Len(u) : u[i] # NUL
  BY <1>1, <1>2, JoinNoNul
<1>4. /\ Len(u) = Len(s) + Len(t)
      /\ \A i \in 1..Len(s) : u[i] = s[i]
      /\ \A i \in 1..Len(t) : u[Len(s) + i] = t[i]
  BY <1>1, JoinIs
<1> QED BY <1>3, <1>4 DEF NulFree, Joined

\* Texts are joined in any order.
LEMMA JoinAssociative ==
  ASSUME NEW s, NEW t, NEW u, NulFree(s), NulFree(t), NulFree(u)
  PROVE  (s \o t) \o u = s \o (t \o u)
<1>1. s \in Seq(Symbols) /\ t \in Seq(Symbols) /\ u \in Seq(Symbols)
  BY DEF NulFree
<1> QED BY <1>1

\* The texts between the parts.
LEMMA PiecesNulFree ==
  /\ NulFree(Zerox) /\ Len(Zerox) = 2
  /\ NulFree(Colons) /\ Len(Colons) = 2
  /\ NulFree(<<".", ".">>) /\ Len(<<".", ".">>) = 2
<1> DEFINE C == {":"}
           D == {"."}
           two == <<".", ".">>
<1>1. C \subseteq Symbols /\ (\A c \in C : c # NUL) /\ D \subseteq Symbols /\ \A c \in D : c # NUL
  BY SymbolsAre DEF Letters, NumberChars
<1>2. Colons \in Seq(C) /\ Len(Colons) = 2 /\ two \in Seq(D) /\ Len(two) = 2
  BY DEF Colons
<1> HIDE DEF C, D, two
<1>3. NulFree(Colons)
  <2>1. Colons \in Seq(Symbols)
    BY <1>1, <1>2, Wider
  <2>2. \A i \in 1..Len(Colons) : Colons[i] \in C
    <3>1. \A i \in 1..2 : Colons[i] = ":"
      BY DEF Colons
    <3> QED BY <1>2, <3>1 DEF C
  <2> QED BY <1>1, <2>1, <2>2 DEF NulFree
<1>4. NulFree(two)
  <2>1. two \in Seq(Symbols)
    BY <1>1, <1>2, Wider
  <2>2. \A i \in 1..Len(two) : two[i] \in D
    <3>1. \A i \in 1..2 : two[i] = "."
      BY DEF two
    <3> QED BY <1>2, <3>1 DEF D
  <2> QED BY <1>1, <2>1, <2>2 DEF NulFree
<1> QED BY <1>2, <1>3, <1>4, ZeroxIs DEF NulFree, two

\* A name is shown up to a NUL in it.
LEMMA NamesNulFree ==
  ASSUME NEW bytes \in Seq(DOMAIN Char)
  PROVE  NulFree(UpToNul(bytes)) /\ Chars(bytes) = UpToNul(bytes)
BY CharsAre DEF NulFree

\* One byte in hexadecimal.
LEMMA HexOne ==
  ASSUME NEW bytes \in Seq(DOMAIN Char), Len(bytes) = 1
  PROVE  /\ NulFree(Hex(bytes)) /\ Len(Hex(bytes)) = 2
         /\ Hex(bytes)[1] = HexDigit[bytes[1] \div 16 + 1] /\ Hex(bytes)[2] = HexDigit[(bytes[1] % 16) + 1]
<1> DEFINE hex == Hex(bytes)
<1>1. /\ Len(hex) = 2 * 1 /\ hex[2 * 1 - 1] = HexDigit[bytes[1] \div 16 + 1]
      /\ hex[2 * 1] = HexDigit[(bytes[1] % 16) + 1]
  <2>1. /\ Len(hex) = 2 * Len(bytes)
        /\ \A i \in 1..Len(bytes) : /\ hex[2 * i - 1] = HexDigit[bytes[i] \div 16 + 1]
                                    /\ hex[2 * i] = HexDigit[(bytes[i] % 16) + 1]
    BY HexIs, CharBytes
  <2> HIDE DEF hex
  <2>2. 1 \in 1..Len(bytes)
    OBVIOUS
  <2> QED BY <2>1, <2>2
<1>2. NulFree(hex)
  BY HexText DEF NulFree
<1> HIDE DEF hex
<1>3. 2 * 1 = 2 /\ 2 * 1 - 1 = 1
  OBVIOUS
<1> QED BY <1>1, <1>2, <1>3 DEF hex

\* The first and the last byte of an address.
LEMMA EndsAre ==
  ASSUME NEW address \in Seq(DOMAIN Char), Len(address) = ADDRESS_LEN
  PROVE  /\ Head1(address) \in Seq(DOMAIN Char) /\ Len(Head1(address)) = 1 /\ Head1(address)[1] = address[1]
         /\ Tail1(address) \in Seq(DOMAIN Char) /\ Len(Tail1(address)) = 1
         /\ Tail1(address)[1] = address[ADDRESS_LEN]
         /\ address[1] \in DOMAIN Char /\ address[ADDRESS_LEN] \in DOMAIN Char
<1> DEFINE a == ADDRESS_LEN - 1
           head == SubSeq(address, 1, 1)
           tail == SubSeq(address, a + 1, Len(address))
<1>1. /\ a \in Nat /\ a <= Len(address) /\ Len(address) - a = 1 /\ a + 1 = ADDRESS_LEN /\ 1 <= Len(address)
      /\ 1 \in Nat /\ 1 \in 1..Len(address) /\ ADDRESS_LEN \in 1..Len(address)
  BY AddressSizes
<1> HIDE DEF a
<1>2. head \in Seq(DOMAIN Char) /\ Len(head) = 1 /\ \A i \in 1..1 : head[i] = address[i]
  BY <1>1, FirstIs
<1>3. tail = SubSeq(address, a + 1, Len(address))
  OBVIOUS
<1> HIDE DEF head, tail
<1>4. /\ tail \in Seq(DOMAIN Char) /\ Len(tail) = Len(address) - a
      /\ \A i \in 1..(Len(address) - a) : tail[i] = address[a + i]
  BY <1>1, <1>3, RestIs
<1>5. head[1] = address[1] /\ tail[1] = address[ADDRESS_LEN] /\ Len(tail) = 1
  BY <1>1, <1>2, <1>4
<1>6. Head1(address) = head /\ Tail1(address) = tail
  BY <1>1 DEF Head1, Tail1, UI_MODULE_ADDRESS_LEN, head, tail, a
<1>7. address[1] \in DOMAIN Char /\ address[ADDRESS_LEN] \in DOMAIN Char
  BY <1>1
<1> QED BY <1>2, <1>4, <1>5, <1>6, <1>7

\* A text with a head that is never cut, in an array of its own.
Headed(out, head, names, size) ==
  LET text == CString(out, 0)
      h == Len(head)
  IN  /\ Len(out) = size /\ Last(out) = NUL
      /\ text \in Seq(Symbols)
      /\ Len(text) = IF h + Len(names) < size THEN h + Len(names) ELSE size - 1
      /\ \A i \in 1..h : text[i] = head[i]
      /\ SubSeq(text, h + 1, Len(text)) = Cut(names, size - 1 - h)

\* A text that fits with its head, and is cut behind it, in a zeroed array.
LEMMA HeadedIs ==
  ASSUME NEW head, NulFree(head), NEW names, NulFree(names), NEW size \in Nat, size >= Len(head) + 1
  PROVE  Headed(snprintf(Zeroed(size), 0, head \o names), head, names, size)
<1> DEFINE whole == head \o names
           h == Len(head)
           out == snprintf(Zeroed(size), 0, whole)
           text == CString(out, 0)
           rest == SubSeq(text, h + 1, Len(text))
           cut == Cut(names, size - 1 - h)
<1>1. /\ NulFree(whole) /\ Len(whole) = Len(head) + Len(names)
      /\ \A i \in 1..Len(head) : whole[i] = head[i]
      /\ \A i \in 1..Len(names) : whole[Len(head) + i] = names[i]
  <2>1. whole = head \o names
    OBVIOUS
  <2> HIDE DEF whole
  <2>2. NulFree(head) /\ NulFree(names)
    OBVIOUS
  <2>3. Joined(whole, head, names)
    BY <2>1, <2>2, NulFreeJoin
  <2> QED BY <2>3 DEF Joined
<1>2. whole \in Seq(Symbols) /\ names \in Seq(Symbols) /\ (\A i \in 1..Len(whole) : whole[i] # NUL)
  BY <1>1 DEF NulFree
<1>3. h \in Nat
  BY DEF NulFree
<1> HIDE DEF whole
<1>4. size - 1 \in Nat /\ size >= 1 /\ size - 1 - h \in Nat /\ Len(names) \in Nat
  BY <1>2, <1>3
<1>5. out \in Seq(Symbols) /\ Len(out) = size /\ out[size] = NUL /\ CString(out, 0) = Cut(whole, size - 1)
  BY <1>2, <1>4, SymbolsAre, FormattedIs
<1>6. text = Cut(whole, size - 1)
  BY <1>5
<1> HIDE DEF text
<1>7. /\ text \in Seq(Symbols) /\ Len(text) = IF Len(whole) <= size - 1 THEN Len(whole) ELSE size - 1
      /\ \A i \in 1..Len(text) : text[i] = whole[i]
  BY <1>2, <1>4, <1>6, CutIs
<1>8. /\ cut \in Seq(Symbols) /\ Len(cut) = IF Len(names) <= size - 1 - h THEN Len(names) ELSE size - 1 - h
      /\ \A i \in 1..Len(cut) : cut[i] = names[i]
  BY <1>2, <1>4, CutIs
<1> HIDE DEF out, cut
<1>9. /\ Len(text) = (IF h + Len(names) < size THEN h + Len(names) ELSE size - 1)
      /\ h <= Len(text) /\ Len(cut) = Len(text) - h /\ Len(text) <= Len(whole)
  BY <1>1, <1>3, <1>4, <1>7, <1>8
<1>10. \A i \in 1..h : text[i] = head[i]
  BY <1>1, <1>3, <1>7, <1>9
<1>11. rest = cut
  <2>1. rest = SubSeq(text, h + 1, Len(text)) /\ text \in Seq(Symbols) /\ h \in Nat /\ h <= Len(text)
    BY <1>3, <1>7, <1>9
  <2> HIDE DEF rest
  <2>2. /\ rest \in Seq(Symbols) /\ Len(rest) = Len(text) - h
        /\ \A i \in 1..(Len(text) - h) : rest[i] = text[h + i]
    BY <2>1, RestIs
  <2>3. \A i \in 1..Len(cut) : rest[i] = cut[i]
    <3> TAKE i \in 1..Len(cut)
    <3>1. i \in 1..(Len(text) - h) /\ h + i \in 1..Len(text) /\ i \in 1..Len(names)
      BY <1>1, <1>3, <1>4, <1>7, <1>9
    <3>2. rest[i] = text[h + i] /\ text[h + i] = whole[h + i] /\ whole[h + i] = names[i]
      BY <1>1, <1>7, <2>2, <3>1
    <3> QED BY <1>8, <3>2
  <2> QED BY <1>8, <1>9, <2>2, <2>3, SeqEqual
<1> QED BY <1>5, <1>7, <1>9, <1>10, <1>11 DEF Headed, Last, out, cut, rest, whole, text

\* Two characters of a text, in the middle of it.
LEMMA PairOfText ==
  \A text \in Seq(Symbols) : \A k \in Nat :
    k >= 1 /\ k + 1 <= Len(text) =>
      LET pair == SubSeq(text, k, k + 1)
      IN  pair \in Seq(Symbols) /\ Len(pair) = 2 /\ pair[1] = text[k] /\ pair[2] = text[k + 1]
<1> SUFFICES ASSUME NEW text \in Seq(Symbols), NEW k \in Nat, k >= 1, k + 1 <= Len(text)
             PROVE  LET pair == SubSeq(text, k, k + 1)
                    IN  pair \in Seq(Symbols) /\ Len(pair) = 2 /\ pair[1] = text[k] /\ pair[2] = text[k + 1]
  OBVIOUS
<1> DEFINE pair == SubSeq(text, k, k + 1)
<1>1. pair = SubSeq(text, k, k + 1)
  OBVIOUS
<1> HIDE DEF pair
<1>2. pair \in Seq(Symbols) /\ Len(pair) = 2 /\ pair[1] = text[k] /\ pair[2] = text[k + 1]
  BY <1>1, PairIs
<1> QED BY <1>2 DEF pair

\* A byte behind what introduces it, read back.
LEMMA ByteReadBack ==
  ASSUME NEW b \in DOMAIN Char, NEW text, text \in Seq(Symbols), NEW k \in Nat, k >= 1, k + 1 <= Len(text),
         text[k] = HexDigit[b \div 16 + 1], text[k + 1] = HexDigit[(b % 16) + 1]
  PROVE  HexValue(SubSeq(text, k, k + 1)) = b
<1> DEFINE pair == SubSeq(text, k, k + 1)
<1>2. pair \in Seq(Symbols) /\ Len(pair) = 2 /\ pair[1] = text[k] /\ pair[2] = text[k + 1]
  BY PairOfText
<1> HIDE DEF pair
<1>3. HexValue(pair) = b
  BY <1>2, HexValueIs
<1> QED BY <1>3 DEF pair

\* The head of both texts: 0x and a byte.
LEMMA ZeroxByte ==
  ASSUME NEW bytes \in Seq(DOMAIN Char), Len(bytes) = 1
  PROVE  LET head == Zerox \o Hex(bytes)
         IN  /\ NulFree(head) /\ Len(head) = 4
             /\ head[3] = HexDigit[bytes[1] \div 16 + 1] /\ head[4] = HexDigit[(bytes[1] % 16) + 1]
<1> DEFINE hex == Hex(bytes)
           head == Zerox \o hex
<1>1. /\ NulFree(hex) /\ Len(hex) = 2
      /\ hex[1] = HexDigit[bytes[1] \div 16 + 1] /\ hex[2] = HexDigit[(bytes[1] % 16) + 1]
  BY HexOne
<1>2. NulFree(Zerox) /\ Len(Zerox) = 2
  BY PiecesNulFree
<1>3. head = Zerox \o hex
  OBVIOUS
<1> HIDE DEF hex, head
<1>4. Joined(head, Zerox, hex)
  BY <1>1, <1>2, <1>3, NulFreeJoin
<1>5. NulFree(head) /\ Len(head) = 4 /\ head[3] = hex[1] /\ head[4] = hex[2]
  <2>1. 1 \in 1..Len(hex) /\ 2 \in 1..Len(hex) /\ Len(Zerox) + 1 = 3 /\ Len(Zerox) + 2 = 4
    BY <1>1, <1>2
  <2>2. head[Len(Zerox) + 1] = hex[1] /\ head[Len(Zerox) + 2] = hex[2]
    BY <1>4, <2>1 DEF Joined
  <2> QED BY <1>1, <1>2, <1>4, <2>1, <2>2 DEF Joined
<1> QED BY <1>1, <1>5 DEF head, hex

\* What is joined from the left, as a head and what is behind it.
FromLeft(s, t, u, v) == ((s \o t) \o u) \o v
FromRight(s, t, u, v) == s \o ((t \o u) \o v)

\* Four texts are joined in either order.
LEMMA Regroup ==
  ASSUME NEW s, NEW t, NEW u, NEW v, NulFree(s), NulFree(t), NulFree(u), NulFree(v)
  PROVE  FromLeft(s, t, u, v) = FromRight(s, t, u, v)
<1> DEFINE w == t \o u
<1>1. (s \o t) \o u = s \o w
  BY JoinAssociative
<1>2. w = t \o u
  OBVIOUS
<1> HIDE DEF w
<1>3. Joined(w, t, u)
  BY <1>2, NulFreeJoin
<1>4. (s \o w) \o v = s \o (w \o v)
  <2>1. NulFree(w)
    BY <1>3 DEF Joined
  <2> QED BY <2>1, JoinAssociative
<1> QED BY <1>1, <1>4 DEF w, FromLeft, FromRight

\* The function: the last byte of the module's address and the names.
HasFunction(tx) ==
  /\ {tx.module_address, tx.module_name, tx.function_name} \subseteq Seq(DOMAIN Char)
  /\ Len(tx.module_address) = ADDRESS_LEN

\* The two parts of the text of a function.
FunctionHead(tx) == Zerox \o Hex(Tail1(tx.module_address)) \o Colons
FunctionNames(tx) == UpToNul(tx.module_name) \o Colons \o UpToNul(tx.function_name)

\* The text of a function is its head, six characters, and the two names.
LEMMA FunctionParts ==
  ASSUME NEW tx, HasFunction(tx)
  PROVE  /\ FunctionText(tx) = FunctionHead(tx) \o FunctionNames(tx)
         /\ NulFree(FunctionHead(tx)) /\ NulFree(FunctionNames(tx)) /\ Len(FunctionHead(tx)) = 6
         /\ LET b == tx.module_address[ADDRESS_LEN]
            IN  /\ b \in DOMAIN Char /\ FunctionHead(tx)[3] = HexDigit[b \div 16 + 1]
                /\ FunctionHead(tx)[4] = HexDigit[(b % 16) + 1]
<1> DEFINE byte == Tail1(tx.module_address)
           first == Zerox \o Hex(byte)
           head == first \o Colons
           within == UpToNul(tx.module_name)
           called == UpToNul(tx.function_name)
           names == (within \o Colons) \o called
<1>1. /\ byte \in Seq(DOMAIN Char) /\ Len(byte) = 1 /\ byte[1] = tx.module_address[ADDRESS_LEN]
      /\ tx.module_address[ADDRESS_LEN] \in DOMAIN Char
  <2>1. tx.module_address \in Seq(DOMAIN Char) /\ Len(tx.module_address) = ADDRESS_LEN
    BY DEF HasFunction
  <2> QED BY <2>1, EndsAre
<1> HIDE DEF byte
<1>2. /\ NulFree(first) /\ Len(first) = 4
      /\ first[3] = HexDigit[byte[1] \div 16 + 1] /\ first[4] = HexDigit[(byte[1] % 16) + 1]
  BY <1>1, ZeroxByte
<1>3. /\ NulFree(within) /\ Chars(tx.module_name) = within
      /\ NulFree(called) /\ Chars(tx.function_name) = called
  BY NamesNulFree DEF HasFunction
<1>4. NulFree(Colons) /\ Len(Colons) = 2
  BY PiecesNulFree
<1>5. FunctionText(tx) = (((first \o Colons) \o within) \o Colons) \o called
  BY <1>3 DEF FunctionText, byte
<1> HIDE DEF first, within, called
<1>6. /\ NulFree(head) /\ Len(head) = 6
      /\ head[3] = HexDigit[byte[1] \div 16 + 1] /\ head[4] = HexDigit[(byte[1] % 16) + 1]
  <2>1. head = first \o Colons
    OBVIOUS
  <2> HIDE DEF head
  <2>2. Joined(head, first, Colons)
    BY <1>2, <1>4, <2>1, NulFreeJoin
  <2> QED BY <1>2, <1>4, <2>2 DEF Joined
<1>7. NulFree(within \o Colons) /\ NulFree(names)
  <2>1. Joined(within \o Colons, within, Colons)
    BY <1>3, <1>4, NulFreeJoin
  <2>2. NulFree(within \o Colons)
    BY <2>1 DEF Joined
  <2>3. Joined(names, within \o Colons, called)
    BY <1>3, <2>2, NulFreeJoin
  <2> QED BY <2>2, <2>3 DEF Joined
<1>8. FunctionText(tx) = head \o names
  <2> HIDE DEF head
  <2>1. NulFree(head) /\ NulFree(within) /\ NulFree(Colons) /\ NulFree(called)
    BY <1>3, <1>4, <1>6
  <2>2. FromLeft(head, within, Colons, called) = FromRight(head, within, Colons, called)
    BY <2>1, Regroup
  <2> QED BY <1>5, <2>2 DEF head, FromLeft, FromRight
<1>9. FunctionHead(tx) = head /\ FunctionNames(tx) = names
  BY DEF FunctionHead, FunctionNames, first, byte, within, called
<1> QED BY <1>1, <1>6, <1>7, <1>8, <1>9

\* An array into which it was written shows the function.
LEMMA FunctionTextIs ==
  ASSUME NEW tx, HasFunction(tx), NEW cells, cells = snprintf(Zeroed(FunctionSize), 0, FunctionText(tx))
  PROVE  FunctionIs(cells, tx) /\ Len(cells) = FunctionSize /\ Last(cells) = NUL
<1> DEFINE head == FunctionHead(tx)
           names == FunctionNames(tx)
           text == CString(cells, 0)
           b == tx.module_address[ADDRESS_LEN]
<1>1. /\ FunctionText(tx) = head \o names /\ NulFree(head) /\ NulFree(names) /\ Len(head) = 6
      /\ b \in DOMAIN Char /\ head[3] = HexDigit[b \div 16 + 1] /\ head[4] = HexDigit[(b % 16) + 1]
  BY FunctionParts
<1> HIDE DEF head, names
<1>9. FunctionSize \in Nat /\ FunctionSize >= Len(head) + 1 /\ FunctionSize - 1 - 6 \in Nat
  BY <1>1, AddressSizes
<1>10. /\ Len(cells) = FunctionSize /\ Last(cells) = NUL
       /\ text \in Seq(Symbols)
       /\ Len(text) = IF 6 + Len(names) < FunctionSize THEN 6 + Len(names) ELSE FunctionSize - 1
       /\ \A i \in 1..6 : text[i] = head[i]
       /\ SubSeq(text, 6 + 1, Len(text)) = Cut(names, FunctionSize - 1 - 6)
  <2>1. Headed(cells, head, names, FunctionSize)
    BY <1>1, <1>9, HeadedIs
  <2> QED BY <1>1, <2>1 DEF Headed
<1> HIDE DEF text, b
<1>11. HexValue(SubSeq(text, 3, 4)) = b
  <2>1. text[3] = HexDigit[b \div 16 + 1] /\ text[3 + 1] = HexDigit[(b % 16) + 1]
    BY <1>1, <1>10
  <2>2. 3 + 1 <= Len(text) /\ 3 + 1 = 4 /\ 3 \in Nat /\ 3 >= 1
    BY <1>1, <1>9, <1>10 DEF NulFree
  <2>3. HexValue(SubSeq(text, 3, 3 + 1)) = b
    BY <1>1, <1>10, <2>1, <2>2, ByteReadBack
  <2> QED BY <2>2, <2>3
<1>12. IsPrefix(SubSeq(text, 7, Len(text)), names)
  <2> DEFINE cut == Cut(names, FunctionSize - 1 - 6)
             n == FunctionSize - 1 - 6
  <2>1. names \in Seq(Symbols) /\ n \in Nat
    BY <1>1, <1>9 DEF NulFree
  <2>2. /\ cut \in Seq(Symbols) /\ Len(cut) = (IF Len(names) <= n THEN Len(names) ELSE n)
        /\ cut = SubSeq(names, 1, Len(cut))
    BY <2>1, CutIs
  <2>3. SubSeq(text, 7, Len(text)) = cut
    BY <1>10
  <2> HIDE DEF cut, n
  <2>4. SubSeq(cut, 1, Len(cut)) = cut /\ Len(cut) <= Len(names)
    BY <2>1, <2>2
  <2> QED BY <2>2, <2>3, <2>4 DEF IsPrefix
<1> QED BY <1>10, <1>11, <1>12 DEF FunctionIs, FunctionNames, text, names, b

\* The coin: the first and the last byte of its address and the names.
HasCoin(tx) ==
  /\ {tx.coin_address, tx.coin_module, tx.coin_name} \subseteq Seq(DOMAIN Char)
  /\ Len(tx.coin_address) = ADDRESS_LEN

\* The two parts of the text of a coin.
CoinHead(tx) == Zerox \o Hex(Head1(tx.coin_address)) \o <<".", ".">> \o Hex(Tail1(tx.coin_address))
CoinNames(tx) == Colons \o UpToNul(tx.coin_module) \o Colons \o UpToNul(tx.coin_name)

\* The text of a coin is its head, eight characters, and the two names.
LEMMA CoinParts ==
  ASSUME NEW tx, HasCoin(tx)
  PROVE  /\ CoinText(tx) = CoinHead(tx) \o CoinNames(tx)
         /\ NulFree(CoinHead(tx)) /\ NulFree(CoinNames(tx)) /\ Len(CoinHead(tx)) = 8
         /\ LET b == tx.coin_address[1]
                c == tx.coin_address[ADDRESS_LEN]
            IN  /\ b \in DOMAIN Char /\ CoinHead(tx)[3] = HexDigit[b \div 16 + 1]
                /\ CoinHead(tx)[4] = HexDigit[(b % 16) + 1]
                /\ c \in DOMAIN Char /\ CoinHead(tx)[7] = HexDigit[c \div 16 + 1]
                /\ CoinHead(tx)[8] = HexDigit[(c % 16) + 1]
<1> DEFINE byte == Head1(tx.coin_address)
           tail == Tail1(tx.coin_address)
           first == Zerox \o Hex(byte)
           dots == <<".", ".">>
           dotted == first \o dots
           hex == Hex(tail)
           head == dotted \o hex
           within == UpToNul(tx.coin_module)
           named == UpToNul(tx.coin_name)
           front == Colons \o within
           names == (front \o Colons) \o named
<1>1. /\ byte \in Seq(DOMAIN Char) /\ Len(byte) = 1 /\ byte[1] = tx.coin_address[1]
      /\ tail \in Seq(DOMAIN Char) /\ Len(tail) = 1 /\ tail[1] = tx.coin_address[ADDRESS_LEN]
      /\ tx.coin_address[1] \in DOMAIN Char /\ tx.coin_address[ADDRESS_LEN] \in DOMAIN Char
  <2>1. tx.coin_address \in Seq(DOMAIN Char) /\ Len(tx.coin_address) = ADDRESS_LEN
    BY DEF HasCoin
  <2> QED BY <2>1, EndsAre
<1> HIDE DEF byte, tail
<1>2. /\ NulFree(first) /\ Len(first) = 4
      /\ first[3] = HexDigit[byte[1] \div 16 + 1] /\ first[4] = HexDigit[(byte[1] % 16) + 1]
  BY <1>1, ZeroxByte
<1>3. /\ NulFree(within) /\ Chars(tx.coin_module) = within
      /\ NulFree(named) /\ Chars(tx.coin_name) = named
  BY NamesNulFree DEF HasCoin
<1>4. NulFree(Colons) /\ NulFree(dots) /\ Len(dots) = 2
  BY PiecesNulFree
<1>5. /\ NulFree(hex) /\ Len(hex) = 2
      /\ hex[1] = HexDigit[tail[1] \div 16 + 1] /\ hex[2] = HexDigit[(tail[1] % 16) + 1]
  BY <1>1, HexOne
<1>6. CoinText(tx) = (((head \o Colons) \o within) \o Colons) \o named
  BY <1>3 DEF CoinText, byte, tail
<1> HIDE DEF first, dots, hex, within, named
<1>7. /\ NulFree(dotted) /\ Len(dotted) = 6 /\ dotted[3] = first[3] /\ dotted[4] = first[4]
  <2>1. dotted = first \o dots
    OBVIOUS
  <2> HIDE DEF dotted
  <2>2. Joined(dotted, first, dots)
    BY <1>2, <1>4, <2>1, NulFreeJoin
  <2> QED BY <1>2, <1>4, <2>2 DEF Joined
<1> HIDE DEF dotted
<1>8. /\ NulFree(head) /\ Len(head) = 8
      /\ head[3] = first[3] /\ head[4] = first[4] /\ head[7] = hex[1] /\ head[8] = hex[2]
  <2>1. head = dotted \o hex
    OBVIOUS
  <2> HIDE DEF head
  <2>2. Joined(head, dotted, hex)
    BY <1>5, <1>7, <2>1, NulFreeJoin
  <2>3. 1 \in 1..Len(hex) /\ 2 \in 1..Len(hex) /\ Len(dotted) + 1 = 7 /\ Len(dotted) + 2 = 8
    BY <1>5, <1>7
  <2>4. head[Len(dotted) + 1] = hex[1] /\ head[Len(dotted) + 2] = hex[2]
    BY <2>2, <2>3 DEF Joined
  <2> QED BY <1>5, <1>7, <2>2, <2>3, <2>4 DEF Joined
<1> HIDE DEF head
<1>9. NulFree(front)
  <2>1. front = Colons \o within
    OBVIOUS
  <2> HIDE DEF front
  <2>2. Joined(front, Colons, within)
    BY <1>3, <1>4, <2>1, NulFreeJoin
  <2> QED BY <2>2 DEF Joined
<1>10. (head \o Colons) \o within = head \o front
  <2>1. NulFree(head) /\ NulFree(Colons) /\ NulFree(within)
    BY <1>3, <1>4, <1>8
  <2> QED BY <2>1, JoinAssociative
<1> HIDE DEF front
<1>11. NulFree(names)
  <2>1. Joined(front \o Colons, front, Colons)
    BY <1>4, <1>9, NulFreeJoin
  <2>2. NulFree(front \o Colons)
    BY <2>1 DEF Joined
  <2>3. Joined(names, front \o Colons, named)
    BY <1>3, <2>2, NulFreeJoin
  <2> QED BY <2>3 DEF Joined
<1>12. CoinText(tx) = head \o names
  <2>1. NulFree(head) /\ NulFree(front) /\ NulFree(Colons) /\ NulFree(named)
    BY <1>3, <1>4, <1>8, <1>9
  <2>2. FromLeft(head, front, Colons, named) = FromRight(head, front, Colons, named)
    BY <2>1, Regroup
  <2> QED BY <1>6, <1>10, <2>2 DEF FromLeft, FromRight
<1>13. CoinHead(tx) = head /\ CoinNames(tx) = names
  BY DEF CoinHead, CoinNames, head, dotted, dots, hex, first, byte, tail, front, within, named
<1> QED BY <1>1, <1>2, <1>5, <1>8, <1>11, <1>12, <1>13

\* An array into which it was written shows the coin.
LEMMA CoinTextIs ==
  ASSUME NEW tx, HasCoin(tx), NEW cells, cells = StructText(CoinText(tx))
  PROVE  CoinIs(cells, tx) /\ Len(cells) = StructSize /\ Last(cells) = NUL
<1> DEFINE head == CoinHead(tx)
           names == CoinNames(tx)
           text == CString(cells, 0)
           b == tx.coin_address[1]
           c == tx.coin_address[ADDRESS_LEN]
<1>1. /\ CoinText(tx) = head \o names /\ NulFree(head) /\ NulFree(names) /\ Len(head) = 8
      /\ b \in DOMAIN Char /\ head[3] = HexDigit[b \div 16 + 1] /\ head[4] = HexDigit[(b % 16) + 1]
      /\ c \in DOMAIN Char /\ head[7] = HexDigit[c \div 16 + 1] /\ head[8] = HexDigit[(c % 16) + 1]
  BY CoinParts
<1> HIDE DEF head, names
<1>2. StructSize \in Nat /\ StructSize >= Len(head) + 1 /\ StructSize - 1 - 8 = StructSize - 9
  BY <1>1, AddressSizes
<1>3. /\ Len(cells) = StructSize /\ Last(cells) = NUL
      /\ text \in Seq(Symbols)
      /\ Len(text) = IF 8 + Len(names) < StructSize THEN 8 + Len(names) ELSE StructSize - 1
      /\ \A i \in 1..8 : text[i] = head[i]
      /\ SubSeq(text, 8 + 1, Len(text)) = Cut(names, StructSize - 1 - 8)
  <2>1. cells = snprintf(Zeroed(StructSize), 0, head \o names)
    BY <1>1 DEF StructText
  <2>2. Headed(cells, head, names, StructSize)
    BY <1>1, <1>2, <2>1, HeadedIs
  <2> QED BY <1>1, <2>2 DEF Headed
<1> HIDE DEF text, b, c
<1>4. 8 <= Len(text)
  BY <1>1, <1>2, <1>3 DEF NulFree
<1>5. HexValue(SubSeq(text, 3, 4)) = b
  <2>1. text[3] = HexDigit[b \div 16 + 1] /\ text[3 + 1] = HexDigit[(b % 16) + 1]
    BY <1>1, <1>3
  <2>2. 3 + 1 <= Len(text) /\ 3 + 1 = 4 /\ 3 \in Nat /\ 3 >= 1
    BY <1>3, <1>4
  <2>3. HexValue(SubSeq(text, 3, 3 + 1)) = b
    BY <1>1, <1>3, <2>1, <2>2, ByteReadBack
  <2> QED BY <2>2, <2>3
<1>6. HexValue(SubSeq(text, 7, 8)) = c
  <2>1. text[7] = HexDigit[c \div 16 + 1] /\ text[7 + 1] = HexDigit[(c % 16) + 1]
    BY <1>1, <1>3
  <2>2. 7 + 1 <= Len(text) /\ 7 + 1 = 8 /\ 7 \in Nat /\ 7 >= 1
    BY <1>3, <1>4
  <2>3. HexValue(SubSeq(text, 7, 7 + 1)) = c
    BY <1>1, <1>3, <2>1, <2>2, ByteReadBack
  <2> QED BY <2>2, <2>3
<1>7. SubSeq(text, 9, Len(text)) = Cut(names, StructSize - 9)
  BY <1>2, <1>3
<1> QED BY <1>3, <1>5, <1>6, <1>7 DEF CoinIs, CoinNames, text, names, b, c

\* A text that is cut where it does not fit.
LEMMA CutTextIs ==
  ASSUME NEW text, NulFree(text), NEW cells, cells = StructText(text)
  PROVE  /\ Len(cells) = StructSize /\ Last(cells) = NUL
         /\ CString(cells, 0) = Cut(text, StructSize - 1)
<1>1. text \in Seq(Symbols) /\ \A i \in 1..Len(text) : text[i] # NUL
  BY DEF NulFree
<1>2. StructSize \in Nat /\ StructSize >= 1
  BY AddressSizes
<1> DEFINE out == snprintf(Zeroed(StructSize), 0, text)
<1>3. Len(out) = StructSize /\ out[StructSize] = NUL /\ CString(out, 0) = Cut(text, StructSize - 1)
  BY <1>1, <1>2, SymbolsAre, FormattedIs
<1>4. cells = out
  BY DEF StructText
<1> HIDE DEF out
<1> QED BY <1>3, <1>4 DEF Last

\* A message is shown up to a NUL in it.
LEMMA MessageTextIs ==
  ASSUME NEW bytes \in Seq(DOMAIN Char), NEW cells, cells = StructText(Chars(bytes))
  PROVE  MessageIs(cells, bytes) /\ Len(cells) = StructSize /\ Last(cells) = NUL
<1>1. NulFree(UpToNul(bytes)) /\ Chars(bytes) = UpToNul(bytes)
  BY NamesNulFree
<1>2. cells = StructText(UpToNul(bytes))
  BY <1>1
<1> QED BY <1>1, <1>2, CutTextIs DEF MessageIs

\* A type is shown whole.
LEMMA TypeTextIs ==
  ASSUME NEW type \in {"script", "with_data"}, NEW cells, cells = StructText(TypeText[type])
  PROVE  CString(cells, 0) = TypeText[type] /\ Len(cells) = StructSize /\ Last(cells) = NUL
<1> DEFINE text == TypeText[type]
<1>1. text \in Seq(ToSet(text)) /\ NUL \notin ToSet(text) /\ Len(text) < StructSize
  BY TextAssumption
<1>2. ToSet(text) \subseteq Symbols
  BY SymbolsAre
<1>3. \A i \in 1..Len(text) : text[i] \in ToSet(text)
  BY <1>1 DEF ToSet
<1> HIDE DEF text
<1>4. NulFree(text)
  <2>1. text \in Seq(Symbols)
    BY <1>1, <1>2, Wider
  <2> QED BY <1>1, <1>3, <2>1 DEF NulFree
<1>5. Len(text) <= StructSize - 1
  BY <1>1, <1>4, AddressSizes DEF NulFree
<1>6. /\ Len(cells) = StructSize /\ Last(cells) = NUL
      /\ CString(cells, 0) = Cut(text, StructSize - 1)
  BY <1>4, CutTextIs DEF text
<1> QED BY <1>5, <1>6 DEF Cut, text

\* The texts that joining the first sequences gives, one more at a time.
IsFlat(flat, seqs, n, T) ==
  /\ flat \in [0..n -> Seq(T)]
  /\ flat[0] = <<>>
  /\ \A i \in 1..n : flat[i] = flat[i - 1] \o seqs[i]

\* They exist.
LEMMA FlatExists ==
  ASSUME NEW T, NEW n \in Nat, NEW seqs, \A i \in 1..n : seqs[i] \in Seq(T)
  PROVE  \E flat : IsFlat(flat, seqs, n, T)
<1> DEFINE V == Seq(T)
           h == [i \in 1..n |-> [s \in V |-> s \o seqs[i]]]
           c == <<>>
<1>1. c \in V /\ h \in [1..n -> [V -> V]]
  OBVIOUS
<1>2. \A i \in 1..n : \A s \in V : h[i][s] = s \o seqs[i]
  OBVIOUS
<1> HIDE DEF V, h, c
<1>3. PICK g \in [0..n -> V] : g[0] = c /\ \A i \in 1..n : g[i] = h[i][g[i - 1]]
  BY <1>1, PrimRec
<1>4. \A i \in 1..n : g[i] = g[i - 1] \o seqs[i]
  <2> TAKE i \in 1..n
  <2>1. i - 1 \in 0..n
    OBVIOUS
  <2> QED BY <1>2, <1>3, <2>1
<1> QED BY <1>3, <1>4 DEF V, c, IsFlat

\* FlattenSeq is the last of them.
LEMMA FlattenIs ==
  ASSUME NEW T, NEW seqs \in Seq(Seq(T)), Len(seqs) > 0
  PROVE  \E flat : IsFlat(flat, seqs, Len(seqs), T) /\ FlattenSeq(seqs) = flat[Len(seqs)]
<1> DEFINE n == Len(seqs)
<1>1. n \in Nat /\ n > 0 /\ \A i \in 1..n : seqs[i] \in Seq(T)
  OBVIOUS
<1> HIDE DEF n
<1>0. PICK flat : IsFlat(flat, seqs, n, T)
  BY <1>1, FlatExists
<1>2. /\ flat \in [0..n -> Seq(T)] /\ flat[0] = <<>>
      /\ \A i \in 1..n : flat[i] = flat[i - 1] \o seqs[i]
  BY <1>0 DEF IsFlat
<1> DEFINE part == [i \in 1..n |-> flat[i]]
           flatten == CHOOSE f : f = [i \in 1..n |-> IF i = 1 THEN seqs[i] ELSE f[i - 1] \o seqs[i]]
<1>3. part = [i \in 1..n |-> IF i = 1 THEN seqs[i] ELSE part[i - 1] \o seqs[i]]
  <2>1. \A i \in 1..n : part[i] = IF i = 1 THEN seqs[i] ELSE part[i - 1] \o seqs[i]
    <3> TAKE i \in 1..n
    <3>1. CASE i = 1
      <4>1. flat[1] = flat[0] \o seqs[1]
        <5>1. 1 \in 1..n /\ 1 - 1 = 0
          BY <1>1
        <5> QED BY <1>2, <5>1
      <4>2. seqs[1] \in Seq(T)
        BY <1>1
      <4>3. <<>> \o seqs[1] = seqs[1]
        BY <4>2
      <4> QED BY <1>2, <3>1, <4>1, <4>3
    <3>2. CASE i # 1
      <4>1. i - 1 \in 1..n
        BY <1>1, <3>2
      <4> QED BY <1>2, <3>2, <4>1
    <3> QED BY <3>1, <3>2
  <2> QED BY <2>1, Zenon
<1>4. flatten = [i \in 1..n |-> IF i = 1 THEN seqs[i] ELSE flatten[i - 1] \o seqs[i]]
  <2> HIDE DEF part
  <2> QED BY <1>3, Zenon
<1> DEFINE S == {k \in Nat : k \in 1..n => flatten[k] = flat[k]}
<1>5. \A k \in Nat : k \in S
  <2>1. 0 \in S
    OBVIOUS
  <2>2. ASSUME NEW k \in Nat, k \in S PROVE k + 1 \in S
    <3>1. SUFFICES ASSUME k + 1 \in 1..n PROVE flatten[k + 1] = flat[k + 1]
      OBVIOUS
    <3>2. flatten[k + 1] = IF k + 1 = 1 THEN seqs[k + 1] ELSE flatten[(k + 1) - 1] \o seqs[k + 1]
      <4> HIDE DEF flatten
      <4> QED BY <1>4, <3>1
    <3>3. part[k + 1] = IF k + 1 = 1 THEN seqs[k + 1] ELSE part[(k + 1) - 1] \o seqs[k + 1]
      <4> HIDE DEF part
      <4> QED BY <1>3, <3>1
    <3>4. k + 1 # 1 => flatten[(k + 1) - 1] = part[(k + 1) - 1]
      <4> SUFFICES ASSUME k + 1 # 1 PROVE flatten[k] = part[k]
        OBVIOUS
      <4>1. k \in 1..n
        BY <1>1, <3>1
      <4> HIDE DEF flatten
      <4> QED BY <2>2, <4>1
    <3>5. flatten[k + 1] = part[k + 1]
      <4> HIDE DEF flatten, part
      <4> QED BY <3>2, <3>3, <3>4
    <3> HIDE DEF flatten
    <3> QED BY <3>1, <3>5
  <2> HIDE DEF S
  <2> QED BY <2>1, <2>2, SetInduction
<1>6. flatten[n] = flat[n]
  <2> HIDE DEF flatten
  <2> QED BY <1>1, <1>5
<1>7. FlattenSeq(seqs) = flatten[n]
  BY <1>1 DEF FlattenSeq, n
<1> QED BY <1>0, <1>6, <1>7 DEF n

\* What is written at once: some characters, none of them NUL.
Pieces == {piece \in Seq(Symbols) : Len(piece) >= 1 /\ NulFree(piece)}

\* Pieces are texts.
LEMMA PieceSymbols == Seq(Pieces) \subseteq Seq(Seq(Symbols))
BY DEF Pieces

\* The pieces of one component.
ComponentPieces(path, i) ==
  <<Digits[path[i].index]>>
    \o (IF path[i].hardened THEN << <<"'">> >> ELSE <<>>)
    \o (IF i # Len(path) THEN << <<"/">> >> ELSE <<>>)

\* One character is a piece.
LEMMA MarkIs ==
  ASSUME NEW c \in Letters
  PROVE  <<c>> \in Pieces
<1>1. c # NUL /\ c \in Symbols
  BY SymbolsAre
<1> DEFINE s == <<c>>
<1>2. s \in Seq(Symbols) /\ Len(s) = 1 /\ \A i \in 1..1 : s[i] = c
  BY <1>1
<1> HIDE DEF s
<1>3. s \in Pieces
  <2>1. \A i \in 1..Len(s) : s[i] # NUL
    BY <1>1, <1>2
  <2>2. NulFree(s)
    BY <1>2, <2>1 DEF NulFree
  <2>3. s \in Seq(Symbols) /\ Len(s) >= 1
    BY <1>2
  <2> QED BY <2>2, <2>3 DEF Pieces
<1> QED BY <1>3 DEF s

\* A number is a piece.
LEMMA DigitsPiece ==
  ASSUME NEW value \in 0..UINT64_MAX
  PROVE  Digits[value] \in Pieces
<1> DEFINE digits == Digits[value]
<1>1. /\ digits \in Seq(DigitChars) /\ Len(digits) \in 1..MaxDigits
      /\ \A i \in 1..Len(digits) : digits[i] \in DigitChars
  BY DigitsOf
<1>2. DigitChars \subseteq Letters /\ DigitChars \subseteq Symbols
  BY SymbolsAre DEF Letters, NumberChars
<1> HIDE DEF digits
<1>3. digits \in Seq(Symbols)
  BY <1>1, <1>2, Wider
<1>4. \A i \in 1..Len(digits) : digits[i] # NUL
  BY <1>1, <1>2, SymbolsAre
<1>5. digits \in Pieces
  BY <1>1, <1>3, <1>4, SizesAre DEF Pieces, NulFree
<1> QED BY <1>5 DEF digits

\* Two sequences of one element.
LEMMA OneAndOne ==
  \A d, q : <<d>> \o <<q>> = <<d, q>>
<1> TAKE d, q
<1> DEFINE S == {d, q}
           u == <<d>> \o <<q>>
           v == <<d, q>>
<1>1. <<d>> \in Seq(S) /\ <<q>> \in Seq(S)
  OBVIOUS
<1>2. u \in Seq(S) /\ Len(u) = 2 /\ u[1] = d /\ u[2] = q
  BY <1>1
<1>3. v \in Seq(S) /\ Len(v) = 2 /\ v[1] = d /\ v[2] = q
  OBVIOUS
<1> HIDE DEF u, v, S
<1>4. \A i \in 1..Len(u) : u[i] = v[i]
  BY <1>2, <1>3
<1>5. u = v
  BY <1>2, <1>3, <1>4, SeqEqual
<1> QED BY <1>5 DEF u, v

\* A component has its pieces, and the last one has no separator.
LEMMA ComponentIs ==
  ASSUME NEW path, Displayable(path), NEW i \in 1..Len(path)
  PROVE  /\ ComponentPieces(path, i) \in Seq(Pieces)
         /\ i = Len(path) =>
              ComponentPieces(path, i) = IF path[i].hardened THEN <<Digits[path[i].index], <<"'">> >>
                                                             ELSE <<Digits[path[i].index]>>
<1>1. path[i].index \in 0..UINT64_MAX /\ path[i].hardened \in BOOLEAN
  <2> DEFINE R == [index : 0..UINT64_MAX, hardened : BOOLEAN]
  <2>1. path \in Seq(R)
    BY DEF Displayable
  <2>2. \A r \in R : r.index \in 0..UINT64_MAX /\ r.hardened \in BOOLEAN
    OBVIOUS
  <2> HIDE DEF R
  <2>3. path[i] \in R
    BY <2>1
  <2> QED BY <2>2, <2>3
<1> DEFINE d == Digits[path[i].index]
           q == <<"'">>
           s == <<"/">>
           a == <<d>>
           b == IF path[i].hardened THEN <<q>> ELSE <<>>
           c == IF i # Len(path) THEN <<s>> ELSE <<>>
<1>2. d \in Pieces /\ q \in Pieces /\ s \in Pieces
  BY <1>1, DigitsPiece, MarkIs DEF Letters
<1> HIDE DEF d, q, s
<1>3. a \in Seq(Pieces) /\ b \in Seq(Pieces) /\ c \in Seq(Pieces)
  BY <1>2
<1>4. ComponentPieces(path, i) = a \o b \o c
  BY DEF ComponentPieces, d, q, s
<1>5. a \o b \o c \in Seq(Pieces)
  <2> HIDE DEF a, b, c
  <2> QED BY <1>3
<1>6. ASSUME i = Len(path) PROVE a \o b \o c = IF path[i].hardened THEN <<d, q>> ELSE <<d>>
  <2>1. c = <<>>
    BY <1>6
  <2>2. CASE path[i].hardened
    <3>1. b = <<q>>
      BY <2>2
    <3>2. a \o <<q>> = <<d, q>> /\ <<d, q>> \in Seq(Pieces)
      <4>1. <<d, q>> \in Seq(Pieces)
        BY <1>2
      <4>2. a \o <<q>> = <<d, q>>
        BY OneAndOne
      <4> QED BY <4>1, <4>2
    <3>3. <<d, q>> \o <<>> = <<d, q>>
      BY <3>2
    <3> HIDE DEF a, b, c
    <3> QED BY <2>1, <2>2, <3>1, <3>2, <3>3
  <2>3. CASE ~path[i].hardened
    <3>1. b = <<>>
      BY <2>3
    <3>2. a \o <<>> = <<d>> /\ <<d>> \o <<>> = <<d>>
      BY <1>2
    <3>3. a = <<d>>
      OBVIOUS
    <3> HIDE DEF a, b, c
    <3> QED BY <2>1, <2>3, <3>1, <3>2, <3>3
  <2> QED BY <2>2, <2>3
<1> QED BY <1>4, <1>5, <1>6 DEF d, q

\* The pieces of a path, and the last of them.
LEMMA PiecesAre ==
  ASSUME NEW path, Displayable(path), Len(path) > 0
  PROVE  LET pieces == PathPieces(path)
             last == path[Len(path)]
         IN  /\ pieces \in Seq(Pieces) /\ Len(pieces) > 0
             /\ pieces[Len(pieces)] = IF last.hardened THEN <<"'">> ELSE Digits[last.index]
<1> DEFINE n == Len(path)
           seqs == [i \in 1..n |-> ComponentPieces(path, i)]
<1>0. n \in Nat /\ n > 0
  BY DEF Displayable
<1>1. PathPieces(path) = FlattenSeq(seqs)
  BY DEF PathPieces, ComponentPieces
<1>2. \A i \in 1..n : ComponentPieces(path, i) \in Seq(Pieces)
  BY ComponentIs
<1>3. ComponentPieces(path, n) = IF path[n].hardened THEN <<Digits[path[n].index], <<"'">> >>
                                                      ELSE <<Digits[path[n].index]>>
  BY <1>0, ComponentIs, n \in 1..n
<1> HIDE DEF n
<1>4. seqs \in Seq(Seq(Pieces)) /\ Len(seqs) = n /\ seqs[n] = ComponentPieces(path, n)
  BY <1>0, <1>2
<1> HIDE DEF seqs
<1>5. seqs \in Seq(Seq(Pieces)) /\ Len(seqs) > 0
  BY <1>0, <1>4
<1>6. PICK flat : IsFlat(flat, seqs, Len(seqs), Pieces) /\ FlattenSeq(seqs) = flat[Len(seqs)]
  BY <1>5, FlattenIs
<1> DEFINE f == flat[n - 1]
           l == seqs[n]
           pieces == FlattenSeq(seqs)
<1>7. f \in Seq(Pieces) /\ pieces = f \o l
  <2>1. n - 1 \in 0..n /\ n \in 1..n
    BY <1>0
  <2> QED BY <1>4, <1>6, <2>1 DEF IsFlat
<1>8. /\ l \in Seq(Pieces) /\ Len(l) \in Nat /\ Len(l) > 0
      /\ l[Len(l)] = IF path[n].hardened THEN <<"'">> ELSE Digits[path[n].index]
  <2>1. l \in Seq(Pieces) /\ l = IF path[n].hardened THEN <<Digits[path[n].index], <<"'">> >>
                                                     ELSE <<Digits[path[n].index]>>
    BY <1>0, <1>2, <1>3, <1>4, n \in 1..n
  <2> HIDE DEF l
  <2> QED BY <2>1
<1> HIDE DEF f, l, pieces
<1>9. pieces \in Seq(Pieces) /\ Len(pieces) = Len(f) + Len(l) /\ \A i \in 1..Len(l) : pieces[Len(f) + i] = l[i]
  BY <1>7, <1>8, JoinIs
<1>10. Len(f) \in Nat /\ Len(l) \in 1..Len(l)
  BY <1>7, <1>8
<1>11. Len(pieces) > 0 /\ pieces[Len(pieces)] = l[Len(l)]
  BY <1>8, <1>9, <1>10
<1> QED BY <1>1, <1>8, <1>9, <1>11 DEF pieces, n

\* What bip32_path_format keeps between two pieces.
Formats(n) == [ok : BOOLEAN, out : {cells \in Seq(Symbols) : Len(cells) = n}, offset : 0..(n - 1)]

\* It has written text up to its offset, all of it unless the array is full and
\* then more than its first k characters.
Appended(s, text, k, n) ==
  /\ s \in Formats(n) /\ s.out[n] = NUL
  /\ s.ok =>
       /\ s.offset <= Len(text)
       /\ s.offset = Len(text) \/ (s.offset = n - 1 /\ s.offset > k)
       /\ \A j \in 1..s.offset : s.out[j] = text[j]
       /\ s.out[s.offset + 1] = NUL

\* What is kept, field by field.
LEMMA FormatFields ==
  ASSUME NEW n \in Nat, NEW s \in Formats(n)
  PROVE  s.ok \in BOOLEAN /\ s.out \in Seq(Symbols) /\ Len(s.out) = n /\ s.offset \in 0..(n - 1)
BY DEF Formats

\* The array after one snprintf.
LEMMA PrintedIs ==
  ASSUME NEW n \in Nat, n >= 1, NEW s \in Formats(n), NEW piece \in Pieces
  PROVE  LET out == snprintf(s.out, s.offset, piece)
             cut == Cut(piece, n - s.offset - 1)
         IN  /\ out \in Seq(Symbols) /\ Len(out) = n
             /\ Len(cut) \in Nat
             /\ Len(cut) = IF Len(piece) <= n - s.offset - 1 THEN Len(piece) ELSE n - s.offset - 1
             /\ Len(CString(out, s.offset)) = Len(cut)
             /\ \A i \in 1..s.offset : out[i] = s.out[i]
             /\ \A i \in (s.offset + 1)..(s.offset + Len(cut)) : out[i] = piece[i - s.offset]
             /\ out[s.offset + Len(cut) + 1] = NUL
             /\ s.out[n] = NUL => out[n] = NUL
<1> DEFINE cells == s.out
           at == s.offset
           out == snprintf(cells, at, piece)
           cut == Cut(piece, n - at - 1)
<1>1. cells \in Seq(Symbols) /\ Len(cells) = n /\ at \in 0..(n - 1)
  BY FormatFields
<1>2. piece \in Seq(Symbols) /\ Len(piece) \in Nat /\ \A i \in 1..Len(piece) : piece[i] # NUL
  BY DEF Pieces, NulFree
<1> HIDE DEF cells, at
<1>3. at \in Nat /\ at < n /\ n - at - 1 \in Nat
  BY <1>1
<1>4. NUL \in Symbols
  BY SymbolsAre
<1>5. /\ Len(cut) = IF Len(piece) <= n - at - 1 THEN Len(piece) ELSE n - at - 1
      /\ Len(cut) \in Nat
  BY <1>2, <1>3, CutIs
<1>6. at < Len(cells)
  BY <1>1, <1>3
<1>7. Len(cells) - at - 1 = n - at - 1
  BY <1>1
<1>8. /\ out \in Seq(Symbols) /\ Len(out) = Len(cells)
      /\ CString(out, at) = Cut(piece, Len(cells) - at - 1)
      /\ \A i \in 1..at : out[i] = cells[i]
      /\ \A i \in (at + 1)..(at + Len(Cut(piece, Len(cells) - at - 1))) : out[i] = piece[i - at]
      /\ out[at + Len(Cut(piece, Len(cells) - at - 1)) + 1] = NUL
      /\ \A i \in (at + Len(Cut(piece, Len(cells) - at - 1)) + 2)..Len(cells) : out[i] = cells[i]
  <2>1. cells \in Seq(Symbols) /\ at \in Nat
    BY <1>1, <1>3
  <2>2. piece \in Seq(Symbols) /\ \A i \in 1..Len(piece) : piece[i] # NUL
    BY <1>2
  <2> DEFINE c == Cut(piece, Len(cells) - at - 1)
             S == Symbols
  <2>3. /\ snprintf(cells, at, piece) \in Seq(S) /\ Len(snprintf(cells, at, piece)) = Len(cells)
        /\ CString(snprintf(cells, at, piece), at) = c
        /\ \A i \in 1..at : snprintf(cells, at, piece)[i] = cells[i]
        /\ \A i \in (at + 1)..(at + Len(c)) : snprintf(cells, at, piece)[i] = piece[i - at]
        /\ snprintf(cells, at, piece)[at + Len(c) + 1] = NUL
        /\ \A i \in (at + Len(c) + 2)..Len(cells) : snprintf(cells, at, piece)[i] = cells[i]
    <3> HIDE DEF S
    <3>1. cells \in Seq(S) /\ piece \in Seq(S) /\ NUL \in S
      BY <1>4, <2>1, <2>2 DEF S
    <3> QED BY <1>6, <2>1, <2>2, <3>1, SnprintfIs
  <2> QED BY <2>3 DEF S
<1> HIDE DEF out, cut
<1>9. /\ out \in Seq(Symbols) /\ Len(out) = n /\ CString(out, at) = cut
      /\ \A i \in 1..at : out[i] = cells[i]
      /\ \A i \in (at + 1)..(at + Len(cut)) : out[i] = piece[i - at]
      /\ out[at + Len(cut) + 1] = NUL
      /\ \A i \in (at + Len(cut) + 2)..n : out[i] = cells[i]
  BY <1>1, <1>7, <1>8 DEF cut
<1>10. cells[n] = NUL => out[n] = NUL
  <2>1. at + Len(cut) + 1 <= n
    BY <1>2, <1>3, <1>5
  <2>2. CASE at + Len(cut) + 1 = n
    BY <1>9, <2>2
  <2>3. CASE at + Len(cut) + 1 < n
    <3>1. n \in (at + Len(cut) + 2)..n
      BY <1>3, <1>5, <2>3
    <3> QED BY <1>9, <3>1
  <2> QED BY <1>3, <1>5, <2>1, <2>2, <2>3
<1> QED BY <1>5, <1>9, <1>10 DEF out, cut, cells, at

\* One piece more.
LEMMA AppendType ==
  ASSUME NEW n \in Nat, n >= 1, NEW s \in Formats(n), NEW piece \in Pieces
  PROVE  /\ AppendPiece(s, piece) \in Formats(n)
         /\ s.out[n] = NUL => AppendPiece(s, piece).out[n] = NUL
<1> DEFINE out == snprintf(s.out, s.offset, piece)
           written == Len(CString(out, s.offset))
           zeroed == Zeroed(Len(out))
<1>1. /\ out \in Seq(Symbols) /\ Len(out) = n /\ written \in Nat
      /\ s.out[n] = NUL => out[n] = NUL
  BY PrintedIs
<1>2. zeroed \in Seq(Symbols) /\ Len(zeroed) = n /\ zeroed[n] = NUL
  <2>1. n \in 1..n /\ NUL \in Symbols
    BY SymbolsAre
  <2>2. Zeroed(n) \in Seq(Symbols) /\ Len(Zeroed(n)) = n /\ Zeroed(n)[n] = NUL
    BY <2>1, ZeroedIs
  <2> HIDE DEF out
  <2> QED BY <1>1, <2>2
<1>3. s.offset \in 0..(n - 1)
  BY FormatFields
<1>4. AppendPiece(s, piece) =
        IF ~s.ok \/ written = 0 \/ written >= Len(out) - s.offset
          THEN [ok |-> FALSE, out |-> zeroed, offset |-> 0]
          ELSE [ok |-> TRUE, out |-> out, offset |-> s.offset + written]
  BY DEF AppendPiece
<1> HIDE DEF out, written, zeroed
<1>5. CASE ~s.ok \/ written = 0 \/ written >= Len(out) - s.offset
  <2>1. AppendPiece(s, piece) = [ok |-> FALSE, out |-> zeroed, offset |-> 0]
    BY <1>4, <1>5
  <2>2. 0 \in 0..(n - 1)
    OBVIOUS
  <2> QED BY <1>2, <2>1, <2>2 DEF Formats
<1>6. CASE ~(~s.ok \/ written = 0 \/ written >= Len(out) - s.offset)
  <2>1. AppendPiece(s, piece) = [ok |-> TRUE, out |-> out, offset |-> s.offset + written]
    BY <1>4, <1>6
  <2>2. s.offset + written \in 0..(n - 1)
    BY <1>1, <1>3, <1>6
  <2> QED BY <1>1, <2>1, <2>2 DEF Formats
<1> QED BY <1>5, <1>6

\* One piece more is written behind what was whole.
LEMMA AppendIs ==
  ASSUME NEW n \in Nat, n >= 1, NEW s, NEW text, NEW k, Appended(s, text, k, n),
         NEW piece \in Pieces, NEW all, Joined(all, text, piece), NulFree(text)
  PROVE  Appended(AppendPiece(s, piece), all, Len(text), n)
<1> DEFINE t == AppendPiece(s, piece)
           out == snprintf(s.out, s.offset, piece)
           at == s.offset
           cut == Cut(piece, n - at - 1)
           written == Len(CString(out, at))
<1>1. s \in Formats(n) /\ s.out[n] = NUL
  BY DEF Appended
<1>2. t \in Formats(n) /\ t.out[n] = NUL
  BY <1>1, AppendType
<1>3. /\ Len(out) = n /\ Len(cut) \in Nat /\ written = Len(cut)
      /\ Len(cut) = IF Len(piece) <= n - at - 1 THEN Len(piece) ELSE n - at - 1
      /\ \A i \in 1..at : out[i] = s.out[i]
      /\ \A i \in (at + 1)..(at + Len(cut)) : out[i] = piece[i - at]
      /\ out[at + Len(cut) + 1] = NUL
  BY <1>1, PrintedIs
<1>4. at \in 0..(n - 1) /\ Len(text) \in Nat /\ Len(piece) \in Nat /\ Len(piece) >= 1
  BY <1>1, FormatFields DEF NulFree, Pieces
<1>5. /\ Len(all) = Len(text) + Len(piece)
      /\ \A i \in 1..Len(text) : all[i] = text[i]
      /\ \A i \in 1..Len(piece) : all[Len(text) + i] = piece[i]
  BY DEF Joined
<1>6. t = IF ~s.ok \/ written = 0 \/ written >= Len(out) - at
            THEN [ok |-> FALSE, out |-> Zeroed(Len(out)), offset |-> 0]
            ELSE [ok |-> TRUE, out |-> out, offset |-> at + written]
  BY DEF AppendPiece
<1>7. ASSUME s.ok
      PROVE  /\ at <= Len(text) /\ (at = Len(text) \/ at = n - 1)
             /\ \A j \in 1..at : s.out[j] = text[j]
  BY <1>7 DEF Appended
<1> HIDE DEF t, out, cut, written, at
<1>8. ASSUME t.ok
      PROVE  /\ t.offset <= Len(all)
             /\ t.offset = Len(all) \/ (t.offset = n - 1 /\ t.offset > Len(text))
             /\ \A j \in 1..t.offset : t.out[j] = all[j]
             /\ t.out[t.offset + 1] = NUL
  <2>1. ~(~s.ok \/ written = 0 \/ written >= Len(out) - at)
    BY <1>6, <1>8
  <2>2. t.out = out /\ t.offset = at + written /\ s.ok /\ written # 0
    BY <1>6, <2>1
  <2>3. at = Len(text)
    BY <1>3, <1>4, <1>7, <2>2
  <2>4. at + written <= Len(all) /\ (at + written = Len(all) \/ (at + written = n - 1 /\ at + written > Len(text)))
    BY <1>3, <1>4, <1>5, <2>2, <2>3
  <2>5. \A j \in 1..(at + written) : out[j] = all[j]
    <3> TAKE j \in 1..(at + written)
    <3>1. CASE j <= at
      <4>1. j \in 1..at /\ j \in 1..Len(text)
        BY <1>4, <2>3, <3>1
      <4> QED BY <1>3, <1>5, <1>7, <2>2, <4>1
    <3>2. CASE j > at
      <4>1. j \in (at + 1)..(at + Len(cut)) /\ j - at \in 1..Len(piece) /\ Len(text) + (j - at) = j
        BY <1>3, <1>4, <2>3, <3>2
      <4>2. out[j] = piece[j - at] /\ all[Len(text) + (j - at)] = piece[j - at]
        BY <1>3, <1>5, <4>1
      <4> QED BY <4>1, <4>2
    <3> QED BY <1>4, <3>1, <3>2
  <2>6. out[at + written + 1] = NUL
    BY <1>3
  <2> QED BY <2>2, <2>4, <2>5, <2>6
<1> QED BY <1>2, <1>8 DEF Appended, t

\* What it starts with.
Blank(n) == [ok |-> TRUE, out |-> Zeroed(n), offset |-> 0]

\* The array before the first piece.
LEMMA BlankIs ==
  ASSUME NEW n \in Nat, n >= 1
  PROVE  Appended(Blank(n), <<>>, 0, n)
<1> DEFINE zeroed == Zeroed(n)
           s == Blank(n)
<1>1. n \in 1..n /\ 1 \in 1..n /\ NUL \in Symbols
  BY SymbolsAre
<1>2. zeroed \in Seq(Symbols) /\ Len(zeroed) = n /\ zeroed[n] = NUL /\ zeroed[1] = NUL
  BY <1>1, ZeroedIs
<1>3. s = [ok |-> TRUE, out |-> zeroed, offset |-> 0]
  BY DEF Blank
<1> HIDE DEF zeroed, s
<1>4. s \in Formats(n) /\ s.out[n] = NUL
  <2>1. 0 \in 0..(n - 1)
    OBVIOUS
  <2> QED BY <1>2, <1>3, <2>1 DEF Formats
<1>5. /\ s.offset <= Len(<<>>) /\ s.offset = Len(<<>>)
      /\ \A j \in 1..s.offset : s.out[j] = <<>>[j]
      /\ s.out[s.offset + 1] = NUL
  BY <1>2, <1>3
<1> QED BY <1>4, <1>5 DEF Appended, s

\* Pieces joined are texts.
LEMMA FlatPieces ==
  ASSUME NEW n \in Nat, NEW pieces, \A i \in 1..n : pieces[i] \in Pieces,
         NEW flat, IsFlat(flat, pieces, n, Symbols)
  PROVE  \A i \in 0..n : NulFree(flat[i])
<1> DEFINE S == {i \in Nat : i <= n => NulFree(flat[i])}
<1>1. 0 \in S
  BY DEF IsFlat, NulFree
<1>2. ASSUME NEW i \in Nat, i \in S PROVE i + 1 \in S
  <2>1. SUFFICES ASSUME i + 1 <= n PROVE NulFree(flat[i + 1])
    OBVIOUS
  <2> DEFINE s == flat[i]
             t == pieces[i + 1]
             u == flat[i + 1]
  <2>2. i + 1 \in 1..n /\ (i + 1) - 1 = i
    BY <2>1
  <2>3. u = s \o t
    BY <2>2 DEF IsFlat
  <2>4. NulFree(s) /\ NulFree(t)
    BY <1>2, <2>1, <2>2 DEF Pieces
  <2> HIDE DEF s, t, u
  <2>5. Joined(u, s, t)
    BY <2>3, <2>4, NulFreeJoin
  <2> QED BY <2>5 DEF Joined, u
<1>3. \A i \in Nat : i \in S
  <2> HIDE DEF S
  <2> QED BY <1>1, <1>2, SetInduction
<1> QED BY <1>3

\* The recursion of bip32_path_format.
Formatting(f, pieces, k, n) ==
  f = [i \in 0..k |-> IF i = 0 THEN Blank(n) ELSE AppendPiece(f[i - 1], pieces[i])]

\* A recursion over the first k numbers, and a solution of it.
Iterates(V, c, h, k) == c \in V /\ h \in [1..k -> [V -> V]]
Follows(V, c, h, k, g) == g \in [0..k -> V] /\ g[0] = c /\ \A i \in 1..k : g[i] = h[i][g[i - 1]]

\* A recursion over the first numbers has a solution.
LEMMA Recursion ==
  \A V, c, h : \A k \in Nat : Iterates(V, c, h, k) => \E g : Follows(V, c, h, k, g)
BY PrimRec DEF Iterates, Follows

\* That of the formatting has.
LEMMA FormattingExists ==
  ASSUME NEW n \in Nat, n >= 1, NEW k \in Nat, NEW pieces, \A i \in 1..k : pieces[i] \in Pieces
  PROVE  \E f : Formatting(f, pieces, k, n)
<1> DEFINE V == Formats(n)
           h == [i \in 1..k |-> [s \in V |-> AppendPiece(s, pieces[i])]]
           c == Blank(n)
<1>1. c \in V /\ h \in [1..k -> [V -> V]]
  <2>1. c \in V
    BY BlankIs DEF Appended
  <2>2. \A i \in 1..k : \A s \in V : AppendPiece(s, pieces[i]) \in V
    BY AppendType
  <2> HIDE DEF V
  <2> QED BY <2>1, <2>2
<1>2. \A i \in 1..k : \A s \in V : h[i][s] = AppendPiece(s, pieces[i])
  OBVIOUS
<1> HIDE DEF V, h, c
<1>a. PICK g : Follows(V, c, h, k, g)
  <2>1. Iterates(V, c, h, k)
    BY <1>1 DEF Iterates
  <2> QED BY <2>1, Recursion
<1>3. g \in [0..k -> V] /\ g[0] = c /\ \A i \in 1..k : g[i] = h[i][g[i - 1]]
  BY <1>a DEF Follows
<1>4. \A i \in 0..k : g[i] = IF i = 0 THEN c ELSE AppendPiece(g[i - 1], pieces[i])
  <2> TAKE i \in 0..k
  <2>1. CASE i = 0
    BY <1>3, <2>1
  <2>2. CASE i # 0
    <3>1. i \in 1..k /\ i - 1 \in 0..k
      BY <2>2
    <3> QED BY <1>2, <1>3, <2>2, <3>1
  <2> QED BY <2>1, <2>2
<1>5. g = [i \in 0..k |-> IF i = 0 THEN c ELSE AppendPiece(g[i - 1], pieces[i])]
  BY <1>3, <1>4
<1>6. Formatting(g, pieces, k, n)
  BY <1>5 DEF Formatting, c
<1> QED BY <1>6

\* After each piece, the array has the text up to it.
LEMMA FormattedPath ==
  ASSUME NEW n \in Nat, n >= 1, NEW k \in Nat, NEW pieces, \A i \in 1..k : pieces[i] \in Pieces,
         NEW flat, IsFlat(flat, pieces, k, Symbols), NEW f, Formatting(f, pieces, k, n)
  PROVE  \A i \in 1..k : Appended(f[i], flat[i], Len(flat[i - 1]), n)
<1> DEFINE S == {i \in Nat : i <= k => Appended(f[i], flat[i], IF i = 0 THEN 0 ELSE Len(flat[i - 1]), n)}
<1>1. f[0] = Blank(n) /\ \A i \in 1..k : f[i] = AppendPiece(f[i - 1], pieces[i])
  <2>1. \A i \in 0..k : f[i] = IF i = 0 THEN Blank(n) ELSE AppendPiece(f[i - 1], pieces[i])
    BY DEF Formatting
  <2>2. 0 \in 0..k /\ \A i \in 1..k : i \in 0..k /\ i # 0
    OBVIOUS
  <2> QED BY <2>1, <2>2
<1>2. flat[0] = <<>> /\ \A i \in 1..k : flat[i] = flat[i - 1] \o pieces[i]
  BY DEF IsFlat
<1>3. \A i \in 0..k : NulFree(flat[i])
  BY FlatPieces
<1>4. 0 \in S
  BY <1>1, <1>2, BlankIs
<1>5. ASSUME NEW i \in Nat, i \in S PROVE i + 1 \in S
  <2>1. SUFFICES ASSUME i + 1 <= k PROVE Appended(f[i + 1], flat[i + 1], Len(flat[i]), n)
    OBVIOUS
  <2> DEFINE s == flat[i]
             t == pieces[i + 1]
             u == flat[i + 1]
             l == IF i = 0 THEN 0 ELSE Len(flat[i - 1])
  <2>2. i + 1 \in 1..k /\ (i + 1) - 1 = i /\ i \in 0..k /\ i <= k
    BY <2>1
  <2>3. u = s \o t /\ f[i + 1] = AppendPiece(f[i], t)
    BY <1>1, <1>2, <2>2
  <2>4. NulFree(s) /\ NulFree(t) /\ t \in Pieces
    BY <1>3, <2>2 DEF Pieces
  <2>5. Appended(f[i], s, l, n)
    BY <1>5, <2>2
  <2> HIDE DEF s, t, u, l
  <2>6. Joined(u, s, t)
    BY <2>3, <2>4, NulFreeJoin
  <2>7. Appended(AppendPiece(f[i], t), u, Len(s), n)
    BY <2>4, <2>5, <2>6, AppendIs
  <2> QED BY <2>3, <2>7 DEF s, u
<1>6. \A i \in Nat : i \in S
  <2> HIDE DEF S
  <2> QED BY <1>4, <1>5, SetInduction
<1> QED BY <1>6

\* What stands on the screen of a path.
PathTextShown(text, path) ==
  /\ IsPrefix(text, FullPath(path))
  /\ IF Last(path).hardened
       THEN text = FullPath(path)
       ELSE Len(text) > Len(FullPath(path)) - Len(Digits[Last(path).index])

\* The formatting of a path is the recursion over its pieces.
LEMMA FormatIs ==
  ASSUME NEW path, NEW n \in Nat, n >= 1, Displayable(path), Len(path) > 0, Len(path) <= MAX_BIP32_PATH
  PROVE  LET pieces == PathPieces(path)
         IN  \E f : /\ Formatting(f, pieces, Len(pieces), n)
                    /\ bip32_path_format(path, Zeroed(n)) = f[Len(pieces)]
<1> DEFINE pieces == PathPieces(path)
           k == Len(pieces)
           after == CHOOSE f : f = [i \in 0..k |-> IF i = 0 THEN [ok |-> TRUE, out |-> Zeroed(n), offset |-> 0]
                                                            ELSE AppendPiece(f[i - 1], pieces[i])]
<1>1. bip32_path_format(path, Zeroed(n)) = after[k]
  <2>1. Len(path) \in Nat /\ MAX_BIP32_PATH \in Nat
    BY FormatAssumption DEF Displayable
  <2>2. ~(Len(path) = 0 \/ Len(path) > MAX_BIP32_PATH)
    BY <2>1
  <2> QED BY <2>2 DEF bip32_path_format
<1>2. k \in Nat /\ \A i \in 1..k : pieces[i] \in Pieces
  <2>1. pieces \in Seq(Pieces)
    BY PiecesAre
  <2> HIDE DEF pieces
  <2> QED BY <2>1
<1> HIDE DEF k, pieces
<1>3. \E f : Formatting(f, pieces, k, n)
  BY <1>2, FormattingExists
<1>4. Formatting(after, pieces, k, n)
  BY <1>3, Zenon DEF Formatting, Blank
<1> HIDE DEF after
<1> QED BY <1>1, <1>4 DEF k, pieces

\* A path that is formatted stands in its array up to the digits of its last
\* component; one that is not leaves a zeroed array.
LEMMA PathTextIs ==
  ASSUME NEW path, Displayable(path)
  PROVE  LET text == bip32_path_format(path, Zeroed(PathSize))
         IN  /\ Len(text.out) = PathSize /\ Last(text.out) = NUL
             /\ text.ok => PathTextShown(CString(text.out, 0), path)
<1> DEFINE n == PathSize
           zeroed == Zeroed(n)
           text == bip32_path_format(path, zeroed)
<1>1. n \in Nat /\ n >= 1
  BY AddressSizes
<1>2. Len(path) \in Nat /\ MAX_BIP32_PATH \in Nat
  BY FormatAssumption DEF Displayable
<1> HIDE DEF n
<1>3. CASE Len(path) = 0 \/ Len(path) > MAX_BIP32_PATH
  <2>1. text = [ok |-> FALSE, out |-> zeroed, offset |-> 0]
    BY <1>3 DEF bip32_path_format
  <2>2. Len(zeroed) = n /\ zeroed[n] = NUL
    <3>1. NUL \in Symbols /\ n \in 1..n
      BY <1>1, SymbolsAre
    <3> QED BY <1>1, <3>1, ZeroedIs
  <2> HIDE DEF text, zeroed
  <2> QED BY <2>1, <2>2 DEF Last, n, text, zeroed
<1>4. CASE Len(path) > 0 /\ Len(path) <= MAX_BIP32_PATH
  <2> DEFINE pieces == PathPieces(path)
             k == Len(pieces)
             last == path[Len(path)]
             full == FlattenSeq(pieces)
  <2>1. /\ pieces \in Seq(Pieces) /\ k > 0
        /\ pieces[k] = IF last.hardened THEN <<"'">> ELSE Digits[last.index]
    BY <1>4, PiecesAre
  <2>2. PICK f : Formatting(f, pieces, k, n) /\ text = f[k]
    BY <1>1, <1>4, FormatIs
  <2> HIDE DEF pieces, text
  <2>3. k \in Nat /\ \A i \in 1..k : pieces[i] \in Pieces
    BY <2>1
  <2>4. PICK flat : IsFlat(flat, pieces, k, Symbols) /\ full = flat[k]
    <3>1. pieces \in Seq(Seq(Symbols)) /\ Len(pieces) > 0
      BY <2>1, PieceSymbols
    <3> QED BY <3>1, FlattenIs
  <2> HIDE DEF k, full
  <2>5. k \in 1..k /\ k \in 0..k /\ k - 1 \in 0..k
    BY <2>1, <2>3
  <2>6. Appended(text, flat[k], Len(flat[k - 1]), n)
    <3>1. \A i \in 1..k : Appended(f[i], flat[i], Len(flat[i - 1]), n)
      BY <1>1, <2>2, <2>3, <2>4, FormattedPath
    <3> QED BY <2>2, <2>5, <3>1
  <2>7. NulFree(full) /\ NulFree(flat[k - 1])
    <3>1. \A i \in 0..k : NulFree(flat[i])
      BY <2>3, <2>4, FlatPieces
    <3> QED BY <2>4, <2>5, <3>1
  <2> DEFINE before == flat[k - 1]
             piece == pieces[k]
             o == text.offset
             shown == CString(text.out, 0)
  <2>8. Joined(full, before, piece) /\ piece \in Pieces
    <3>1. full = before \o piece /\ NulFree(piece) /\ piece \in Pieces
      BY <2>3, <2>4, <2>5 DEF IsFlat, Pieces
    <3> HIDE DEF before, piece
    <3>2. NulFree(before)
      BY <2>7 DEF before
    <3> QED BY <3>1, <3>2, NulFreeJoin
  <2>9. Len(full) = Len(before) + Len(piece) /\ Len(before) \in Nat /\ Len(piece) \in Nat /\ Len(piece) >= 1
    BY <2>7, <2>8 DEF Joined, Pieces, NulFree
  <2>10. text \in Formats(n) /\ text.out[n] = NUL
    BY <2>6 DEF Appended
  <2>11. text.out \in Seq(Symbols) /\ Len(text.out) = n /\ o \in 0..(n - 1)
    BY <1>1, <2>10, FormatFields
  <2>12. Last(text.out) = NUL
    BY <2>10, <2>11 DEF Last
  <2>13. ASSUME text.ok
         PROVE  /\ o <= Len(full) /\ (o = Len(full) \/ o > Len(before))
                /\ \A j \in 1..o : text.out[j] = full[j]
                /\ text.out[o + 1] = NUL
    BY <2>4, <2>6, <2>13 DEF Appended
  <2> HIDE DEF before, piece, o
  <2>14. ASSUME text.ok
         PROVE  shown = SubSeq(full, 1, o) /\ o \in Nat /\ o <= Len(full) /\ o > Len(before)
    <3> DEFINE part == SubSeq(full, 1, o)
    <3>1. o \in Nat /\ o <= Len(full) /\ full \in Seq(Symbols) /\ \A i \in 1..Len(full) : full[i] # NUL
      BY <1>1, <2>7, <2>11, <2>13, <2>14 DEF NulFree
    <3>2. part \in Seq(Symbols) /\ Len(part) = o /\ \A i \in 1..o : part[i] = full[i]
      BY <3>1, FirstIs
    <3> HIDE DEF part
    <3>3. Len(part) <= Len(text.out) /\ Len(part) < Len(text.out)
      BY <1>1, <2>11, <3>2
    <3>4. /\ \A i \in 1..Len(part) : part[i] # NUL /\ text.out[i] = part[i]
          /\ text.out[Len(part) + 1] = NUL
      <4>1. \A i \in 1..o : i \in 1..Len(full)
        BY <3>1, <2>9
      <4> QED BY <2>13, <2>14, <3>1, <3>2, <4>1
    <3>5. shown = part
      <4>1. text.out \in Seq(Symbols)
        BY <2>11
      <4>2. part \in Seq(Symbols)
        BY <3>2
      <4> QED BY <3>3, <3>4, <4>1, <4>2, TextIs
    <3>6. o > Len(before)
      BY <2>9, <2>13, <2>14
    <3> QED BY <3>1, <3>5, <3>6 DEF part
  <2>15. ASSUME text.ok PROVE PathTextShown(shown, path)
    <3>1. full \in Seq(Symbols)
      BY <2>7 DEF NulFree
    <3> DEFINE part == SubSeq(full, 1, o)
    <3>2. part \in Seq(Symbols) /\ Len(part) = o /\ \A i \in 1..o : part[i] = full[i]
      BY <2>14, <2>15, <3>1, FirstIs
    <3>3. IsPrefix(part, full)
      <4> HIDE DEF part
      <4> QED BY <2>14, <2>15, <3>1, <3>2 DEF IsPrefix, part
    <3>4. FullPath(path) = full
      BY DEF FullPath, full, pieces
    <3>5. CASE last.hardened
      <4>1. Len(piece) = 1
        BY <2>1, <3>5 DEF piece
      <4>2. o = Len(full)
        BY <2>9, <2>14, <2>15, <4>1
      <4>3. part = full
        <5> HIDE DEF part
        <5>1. Len(part) = Len(full) /\ \A i \in 1..Len(part) : part[i] = full[i]
          BY <3>2, <4>2
        <5> QED BY <3>1, <3>2, <5>1, SeqEqual
      <4> HIDE DEF part, shown
      <4> QED BY <2>14, <2>15, <3>3, <3>4, <3>5, <4>3 DEF PathTextShown, Last, part
    <3>6. CASE ~last.hardened
      <4>1. piece = Digits[last.index]
        BY <2>1, <3>6 DEF piece
      <4>2. o > Len(full) - Len(piece)
        BY <2>9, <2>14, <2>15
      <4> HIDE DEF part, shown
      <4>3. Len(shown) = o
        BY <2>14, <2>15, <3>2 DEF part
      <4> QED BY <2>14, <2>15, <3>3, <3>4, <3>6, <4>1, <4>2, <4>3 DEF PathTextShown, Last, part
    <3> QED BY <3>5, <3>6
  <2> QED BY <2>11, <2>12, <2>15 DEF text, n
<1> QED BY <1>2, <1>3, <1>4

\* A C string in an array of that size.
IsString(cells, size) == Len(cells) = size /\ Last(cells) = NUL

\* The flows.
Flows == {"menu", "address", "default", "message", "entry_function", "account_transfer", "coin_transfer"}

\* The flows that show each text.
LEMMA StepsAre ==
  /\ DOMAIN Steps = Flows
  /\ \A f \in Flows :
       /\ "amount" \in Steps[f] <=> f \in {"account_transfer", "coin_transfer"}
       /\ "gas_fee" \in Steps[f] <=>
            f \in {"default", "entry_function", "account_transfer", "coin_transfer"}
       /\ "address" \in Steps[f] <=> f \in {"address", "account_transfer", "coin_transfer"}
       /\ "function" \in Steps[f] <=> f \in {"entry_function", "account_transfer", "coin_transfer"}
       /\ "struct" \in Steps[f] <=> f \in {"default", "message", "coin_transfer"}
<1>1. DOMAIN Steps = Flows
  BY DEF Steps, Flows
<1>2. /\ Steps["menu"] = {} /\ Steps["address"] = {"path", "address"}
      /\ Steps["default"] = {"struct", "gas_fee"} /\ Steps["message"] = {"struct"}
      /\ Steps["entry_function"] = {"function", "gas_fee"}
      /\ Steps["account_transfer"] = {"function", "address", "amount", "gas_fee"}
      /\ Steps["coin_transfer"] = {"function", "struct", "address", "amount", "gas_fee"}
  BY DEF Steps
<1> QED BY <1>1, <1>2 DEF Flows

\* The fee of a transaction, on the array it is written to.
LEMMA FeeTextIs ==
  ASSUME NEW tx, Reviewable(tx)
  PROVE  LET text == WithUnit(GasFee(tx))
         IN  /\ text.ok /\ IsString(text.out, AmountSize)
             /\ Denotes(WithoutUnit(CString(text.out, 0)),
                        (tx.gas_unit_price * tx.max_gas_amount) % (UINT64_MAX + 1))
<1> DEFINE product == tx.gas_unit_price * tx.max_gas_amount
           fee == GasFee(tx)
<1>1. UINT64_MAX \in Nat
  BY MaxIs
<1>2. product \in Nat
  BY <1>1 DEF Reviewable
<1> HIDE DEF product
<1>3. fee = product % (UINT64_MAX + 1)
  BY DEF GasFee, product
<1> HIDE DEF fee
<1>4. fee \in 0..UINT64_MAX
  BY <1>1, <1>2, <1>3
<1>5. /\ WithUnit(fee).ok /\ Len(WithUnit(fee).out) = AmountSize /\ Last(WithUnit(fee).out) = NUL
      /\ Denotes(WithoutUnit(CString(WithUnit(fee).out, 0)), fee)
  BY <1>4, WithUnitIs
<1>6. Denotes(WithoutUnit(CString(WithUnit(fee).out, 0)), product % (UINT64_MAX + 1))
  BY <1>3, <1>5
<1> QED BY <1>5, <1>6 DEF IsString, product, fee

\* The two ways an amount is written.
LEMMA AmountTexts ==
  ASSUME NEW tx, Reviewable(tx)
  PROVE  /\ WithUnit(tx.amount).ok /\ IsString(WithUnit(tx.amount).out, AmountSize)
         /\ Denotes(WithoutUnit(CString(WithUnit(tx.amount).out, 0)), tx.amount)
         /\ CoinAmount(tx).ok /\ IsString(CoinAmount(tx).out, AmountSize)
         /\ Denotes(CString(CoinAmount(tx).out, 0), tx.amount)
<1> DEFINE value == tx.amount
           number == format_fpu64(Zeroed(AmountSize), value, Decimals)
<1>1. value \in 0..UINT64_MAX
  BY DEF Reviewable
<1>2. CoinAmount(tx) = number
  BY DEF CoinAmount
<1> HIDE DEF value
<1>3. /\ WithUnit(value).ok /\ Len(WithUnit(value).out) = AmountSize /\ Last(WithUnit(value).out) = NUL
      /\ Denotes(WithoutUnit(CString(WithUnit(value).out, 0)), value)
  BY <1>1, WithUnitIs
<1>4. number = [ok |-> TRUE, out |-> number.out] /\ IsAmount(number.out, value)
  BY <1>1, FpuIs
<1> HIDE DEF number
<1>5. /\ number.ok
      /\ Len(number.out) = AmountSize /\ Last(number.out) = NUL /\ Denotes(CString(number.out, 0), value)
  BY <1>4 DEF IsAmount, Last
<1> QED BY <1>2, <1>3, <1>5 DEF IsString, value

\* An address is written whole.
LEMMA AddressStrings ==
  ASSUME NEW address \in Seq(DOMAIN Char), Len(address) = ADDRESS_LEN
  PROVE  AddressIs(AddressText(address), address) /\ IsString(AddressText(address), AddressSize)
BY AddressTextIs DEF AddressIs, IsString

\* An array that is zeroed.
LEMMA ZeroedIsString ==
  ASSUME NEW n \in Nat, n >= 1
  PROVE  IsString(Zeroed(n), n)
<1>1. n \in 1..n
  OBVIOUS
<1>2. NUL \in Symbols
  BY SymbolsAre
<1> DEFINE z == Zeroed(n)
<1>3. Len(z) = n /\ z[n] = NUL
  BY <1>1, <1>2, ZeroedIs
<1> HIDE DEF z
<1> QED BY <1>3 DEF IsString, Last, z

\* The empty text is one in every array.
LEMMA ZeroedString ==
  /\ IsString(Zeroed(AmountSize), AmountSize) /\ IsString(Zeroed(PathSize), PathSize)
  /\ IsString(Zeroed(AddressSize), AddressSize) /\ IsString(Zeroed(FunctionSize), FunctionSize)
  /\ IsString(Zeroed(StructSize), StructSize)
<1>1. ASSUME NEW n \in Nat, n >= 1 PROVE IsString(Zeroed(n), n)
  BY <1>1, ZeroedIsString
<1>2. /\ AmountSize \in Nat /\ AmountSize >= 1 /\ PathSize \in Nat /\ PathSize >= 1
      /\ AddressSize \in Nat /\ AddressSize >= 1 /\ FunctionSize \in Nat /\ FunctionSize >= 1
      /\ StructSize \in Nat /\ StructSize >= 1
  BY SizesAre, AddressSizes
<1> QED BY <1>1, <1>2

\* What the properties say of a review, and the texts of a transaction.
Properties ==
  /\ AmountShown /\ GasFeeShown /\ NoAmountRefused /\ PathShownToLast
  /\ AddressShown /\ FunctionShown /\ TypeShown
Inv == TypeOK /\ Properties

\* The arrays of a transaction, and all of them, hold C strings.
Strings ==
  /\ IsString(g_address, AddressSize) /\ IsString(g_amount, AmountSize)
  /\ IsString(g_function, FunctionSize) /\ IsString(g_struct, StructSize)

TypedStrings ==
  /\ IsString(g_bip32_path, PathSize) /\ IsString(g_gas_fee, AmountSize) /\ Strings
  /\ flow \in Flows /\ refused \in {"none", "path", "address", "amount"}

\* The types, array by array.
LEMMA TypeIs == TypeOK <=> TypedStrings
BY StepsAre DEF TypeOK, TypedStrings, Strings, IsString

\* What the texts other than the fee say of the transaction on screen.
TextsOf(tx) ==
  /\ flow = "account_transfer" =>
       /\ Denotes(WithoutUnit(CString(g_amount, 0)), tx.amount)
       /\ AddressIs(g_address, tx.receiver)
  /\ flow = "coin_transfer" =>
       /\ Denotes(CString(g_amount, 0), tx.amount)
       /\ AddressIs(g_address, tx.receiver)
       /\ CoinIs(g_struct, tx)
  /\ flow \in {"entry_function", "account_transfer", "coin_transfer"} => FunctionIs(g_function, tx)
  /\ flow = "message" => MessageIs(g_struct, tx.message)
  /\ flow = "default" =>
       CString(g_struct, 0) = TypeText[IF tx.tx_variant = "TX_RAW" THEN "script" ELSE "with_data"]

TransactionFlows == {"default", "message", "entry_function", "account_transfer", "coin_transfer"}
\* A review of a transaction but for its fee.
ReviewOf(tx) ==
  /\ flow \in TransactionFlows /\ subject = tx /\ refused = "none"
  /\ Strings /\ TextsOf(tx)

\* A script, or what is not parsed, is shown by its type.
LEMMA DefaultStep ==
  ASSUME NEW tx, NEW type \in {"script", "with_data"},
         type = IF tx.tx_variant = "TX_RAW" THEN "script" ELSE "with_data",
         Strings, ui_display_default(tx, type)
  PROVE  ReviewOf(tx)'
<1>1. /\ g_struct' = StructText(TypeText[type])
      /\ flow' = "default" /\ subject' = tx /\ refused' = "none"
      /\ UNCHANGED <<g_address, g_amount, g_function>>
  BY DEF ui_display_default, Show
<1>2. CString(g_struct', 0) = TypeText[type] /\ IsString(g_struct', StructSize)
  BY <1>1, TypeTextIs DEF IsString
<1>3. Strings'
  BY <1>1, <1>2 DEF Strings
<1> QED BY <1>1, <1>2, <1>3 DEF ReviewOf, TextsOf, TransactionFlows

\* A message is shown by its characters.
LEMMA MessageStep ==
  ASSUME NEW tx, Reviewable(tx), Strings, ui_display_message(tx)
  PROVE  ReviewOf(tx)'
<1>1. /\ g_struct' = StructText(Chars(tx.message))
      /\ flow' = "message" /\ subject' = tx /\ refused' = "none"
      /\ UNCHANGED <<g_address, g_amount, g_function>>
  BY DEF ui_display_message, Show
<1>2. MessageIs(g_struct', tx.message) /\ IsString(g_struct', StructSize)
  <2>1. tx.message \in Seq(DOMAIN Char)
    BY DEF Reviewable
  <2> QED BY <1>1, <2>1, MessageTextIs DEF IsString
<1>3. Strings'
  BY <1>1, <1>2 DEF Strings
<1> QED BY <1>1, <1>2, <1>3 DEF ReviewOf, TextsOf, TransactionFlows

\* The fields of a call have been read.
LEMMA FunctionOfTx ==
  ASSUME NEW tx, Reviewable(tx), tx.tx_variant = "TX_RAW", tx.payload_variant = "PAYLOAD_ENTRY_FUNCTION"
  PROVE  HasFunction(tx)
BY DEF Reviewable, HasFunction

\* Those of the coin have.
LEMMA CoinOfTx ==
  ASSUME NEW tx, Reviewable(tx), tx.tx_variant = "TX_RAW", tx.payload_variant = "PAYLOAD_ENTRY_FUNCTION",
         tx.known_type = "FUNC_COIN_TRANSFER"
  PROVE  HasCoin(tx)
BY DEF Reviewable, HasCoin

\* A call, a transfer or a transfer of a coin is shown by its own fields.
LEMMA EntryFunctionStep ==
  ASSUME NEW tx, Reviewable(tx), tx.tx_variant = "TX_RAW", tx.payload_variant = "PAYLOAD_ENTRY_FUNCTION",
         Strings, ui_display_entry_function(tx)
  PROVE  ReviewOf(tx)'
<1>1. FunctionIs(g_function', tx) /\ IsString(g_function', FunctionSize)
  <2>1. g_function' = snprintf(Zeroed(FunctionSize), 0, FunctionText(tx))
    BY DEF ui_display_entry_function
  <2>2. HasFunction(tx)
    BY FunctionOfTx
  <2> QED BY <2>1, <2>2, FunctionTextIs DEF IsString
<1>2. ASSUME tx.known_type \in {"FUNC_APTOS_ACCOUNT_TRANSFER", "FUNC_COIN_TRANSFER"}
      PROVE  AddressIs(AddressText(tx.receiver), tx.receiver) /\ IsString(AddressText(tx.receiver), AddressSize)
  <2>1. tx.receiver \in Seq(DOMAIN Char)
    BY DEF Reviewable
  <2>2. Len(tx.receiver) = ADDRESS_LEN
    BY <1>2 DEF Reviewable
  <2> QED BY <2>1, <2>2, AddressStrings
<1>3. CASE tx.known_type = "FUNC_APTOS_ACCOUNT_TRANSFER"
  <2>1. ui_display_tx_aptos_account_transfer(tx)
    BY <1>3 DEF ui_display_entry_function
  <2>2. /\ flow' = "account_transfer" /\ subject' = tx /\ refused' = "none"
        /\ g_amount' = WithUnit(tx.amount).out /\ g_address' = AddressText(tx.receiver)
        /\ UNCHANGED g_struct
    BY <2>1, AmountTexts DEF ui_display_tx_aptos_account_transfer, ShowAmount, Show
  <2>3. Strings'
    BY <1>1, <1>2, <1>3, <2>2, AmountTexts DEF Strings
  <2>4. /\ AddressIs(g_address', tx.receiver) /\ Denotes(WithoutUnit(CString(g_amount', 0)), tx.amount)
    BY <1>2, <1>3, <2>2, AmountTexts
  <2> QED BY <1>1, <2>2, <2>3, <2>4 DEF ReviewOf, TextsOf, TransactionFlows
<1>4. CASE tx.known_type = "FUNC_COIN_TRANSFER"
  <2>1. ui_display_tx_coin_transfer(tx)
    BY <1>4 DEF ui_display_entry_function
  <2>2. /\ flow' = "coin_transfer" /\ subject' = tx /\ refused' = "none"
        /\ g_amount' = CoinAmount(tx).out /\ g_address' = AddressText(tx.receiver)
        /\ g_struct' = StructText(CoinText(tx))
    BY <2>1, AmountTexts DEF ui_display_tx_coin_transfer, ShowAmount, Show, CoinReceiver
  <2>3. CoinIs(g_struct', tx) /\ IsString(g_struct', StructSize)
    <3>1. HasCoin(tx)
      BY <1>4, CoinOfTx
    <3> QED BY <2>2, <3>1, CoinTextIs DEF IsString
  <2>4. Strings'
    BY <1>1, <1>2, <1>4, <2>2, <2>3, AmountTexts DEF Strings
  <2>5. AddressIs(g_address', tx.receiver) /\ Denotes(CString(g_amount', 0), tx.amount)
    BY <1>2, <1>4, <2>2, AmountTexts
  <2> QED BY <1>1, <2>2, <2>3, <2>4, <2>5 DEF ReviewOf, TextsOf, TransactionFlows
<1>5. CASE tx.known_type \notin {"FUNC_APTOS_ACCOUNT_TRANSFER", "FUNC_COIN_TRANSFER"}
  <2>1. /\ flow' = "entry_function" /\ subject' = tx /\ refused' = "none"
        /\ UNCHANGED <<g_address, g_amount, g_struct>>
    BY <1>5 DEF ui_display_entry_function, Show
  <2>2. Strings'
    BY <1>1, <2>1 DEF Strings
  <2> QED BY <1>1, <2>1, <2>2 DEF ReviewOf, TextsOf, TransactionFlows
<1> QED BY <1>3, <1>4, <1>5

\* The fee on screen is that of the transaction.
FeeOf(tx) ==
  Denotes(WithoutUnit(CString(g_gas_fee, 0)),
          (tx.gas_unit_price * tx.max_gas_amount) % (UINT64_MAX + 1))

\* A review of a transaction has all of the properties.
LEMMA ReviewIsGood ==
  ASSUME NEW tx, ReviewOf(tx)', FeeOf(tx)', IsString(g_gas_fee, AmountSize)', IsString(g_bip32_path, PathSize)'
  PROVE  Inv'
<1>1. flow' \in TransactionFlows /\ subject' = tx /\ refused' = "none" /\ Strings' /\ TextsOf(tx)'
  BY DEF ReviewOf
<1>2. TypeOK'
  <2>1. TypedStrings'
    BY <1>1 DEF TypedStrings, Flows, TransactionFlows
  <2>2. TypeOK' <=> TypedStrings'
    BY StepsAre DEF TypeOK, TypedStrings, Strings, IsString
  <2> QED BY <2>1, <2>2
<1>3. flow' \in Flows
  BY <1>1 DEF TransactionFlows, Flows
<1>4. AmountShown'
  <2>1. ASSUME flow' \in {"account_transfer", "coin_transfer"} PROVE AmountIs(tx.amount)'
    BY <1>1, <2>1 DEF TextsOf, AmountIs
  <2> QED BY <1>1, <1>3, <2>1, StepsAre DEF AmountShown, Shows, AmountIs
<1>5. GasFeeShown'
  BY <1>1 DEF GasFeeShown, FeeOf, FeeIs
<1>6. NoAmountRefused' /\ PathShownToLast'
  BY <1>1 DEF NoAmountRefused, PathShownToLast, TransactionFlows
<1>7. AddressShown'
  BY <1>1, <1>3, StepsAre DEF AddressShown, Shows, TextsOf, TransactionFlows
<1>8. FunctionShown'
  BY <1>1, <1>3, StepsAre DEF FunctionShown, Shows, TextsOf
<1>9. TypeShown'
  <2>1. ASSUME flow' \in {"default", "message", "coin_transfer"}
        PROVE  CASE flow' = "message" -> MessageIs(g_struct', tx.message)
                 [] flow' = "coin_transfer" -> CoinIs(g_struct', tx)
                 [] flow' = "default" -> CString(g_struct', 0) = TypeText[IF tx.tx_variant = "TX_RAW" THEN "script" ELSE "with_data"]
    BY <1>1, <2>1 DEF TextsOf
  <2> QED BY <1>1, <1>3, <2>1, StepsAre DEF TypeShown, Shows
<1> QED BY <1>2, <1>4, <1>5, <1>6, <1>7, <1>8, <1>9 DEF Inv, Properties

\* Every transaction the parser lets through is shown well.
LEMMA TransactionStep ==
  ASSUME NEW tx, Reviewable(tx), Inv, ui_display_transaction(tx)
  PROVE  Inv' /\ flow' \in TransactionFlows /\ subject' = tx
<1>1. Strings /\ IsString(g_bip32_path, PathSize)
  BY TypeIs DEF Inv, TypedStrings
<1> DEFINE text == WithUnit(GasFee(tx))
<1>2. /\ text.ok /\ IsString(text.out, AmountSize)
      /\ Denotes(WithoutUnit(CString(text.out, 0)),
                 (tx.gas_unit_price * tx.max_gas_amount) % (UINT64_MAX + 1))
  BY FeeTextIs
<1>3. /\ g_gas_fee' = text.out /\ UNCHANGED g_bip32_path
      /\ CASE tx.tx_variant = "TX_RAW" ->
                 (CASE tx.payload_variant = "PAYLOAD_ENTRY_FUNCTION" -> ui_display_entry_function(tx)
                    [] tx.payload_variant = "PAYLOAD_SCRIPT" -> ui_display_default(tx, "script")
                    [] OTHER -> ui_display_default(tx, "unknown_payload"))
            [] tx.tx_variant = "TX_MESSAGE" -> ui_display_message(tx)
            [] tx.tx_variant = "TX_RAW_WITH_DATA" -> ui_display_default(tx, "with_data")
            [] OTHER -> ui_display_default(tx, "unknown")
  BY <1>2 DEF ui_display_transaction
<1>4. FeeOf(tx)' /\ IsString(g_gas_fee, AmountSize)' /\ IsString(g_bip32_path, PathSize)'
  BY <1>1, <1>2, <1>3 DEF FeeOf, IsString
<1>5. tx.tx_variant \in {"TX_RAW", "TX_MESSAGE", "TX_RAW_WITH_DATA"}
  BY DEF Reviewable
<1>6. CASE tx.tx_variant = "TX_RAW"
  <2>1. tx.payload_variant \in {"PAYLOAD_ENTRY_FUNCTION", "PAYLOAD_SCRIPT"}
    BY <1>6 DEF Reviewable
  <2>2. CASE tx.payload_variant = "PAYLOAD_ENTRY_FUNCTION"
    <3>1. ui_display_entry_function(tx)
      BY <1>3, <1>6, <2>2
    <3>2. ReviewOf(tx)'
      BY <1>1, <1>6, <2>2, <3>1, EntryFunctionStep
    <3> QED BY <1>4, <3>2, ReviewIsGood DEF ReviewOf
  <2>3. CASE tx.payload_variant = "PAYLOAD_SCRIPT"
    <3>1. ui_display_default(tx, "script")
      BY <1>3, <1>6, <2>3
    <3>2. ReviewOf(tx)'
      BY <1>1, <1>6, <3>1, DefaultStep
    <3> QED BY <1>4, <3>2, ReviewIsGood DEF ReviewOf
  <2> QED BY <2>1, <2>2, <2>3
<1>7. CASE tx.tx_variant = "TX_MESSAGE"
  <2>1. ui_display_message(tx)
    BY <1>3, <1>7
  <2>2. ReviewOf(tx)'
    BY <1>1, <2>1, MessageStep
  <2> QED BY <1>4, <2>2, ReviewIsGood DEF ReviewOf
<1>8. CASE tx.tx_variant = "TX_RAW_WITH_DATA"
  <2>1. ui_display_default(tx, "with_data")
    BY <1>3, <1>8
  <2>2. ReviewOf(tx)'
    BY <1>1, <1>8, <2>1, DefaultStep
  <2> QED BY <1>4, <2>2, ReviewIsGood DEF ReviewOf
<1> QED BY <1>5, <1>6, <1>7, <1>8

\* An address, or a path that has no room.
LEMMA AddressStep ==
  ASSUME NEW path, Displayable(path), Inv, ui_display_address(path)
  PROVE  Inv'
<1> DEFINE text == bip32_path_format(path, Zeroed(PathSize))
           address == AddressOf[path]
<1>1. /\ TypedStrings /\ NoAmountRefused
  BY TypeIs DEF Inv, Properties
<1>2. address_from_pubkey(path, ADDRESS_LEN) = [ok |-> TRUE, out |-> address]
  <2>1. ~(ADDRESS_LEN < ADDRESS_LEN)
    BY AddressSizes
  <2> QED BY <2>1 DEF address_from_pubkey
<1>3. AddressIs(AddressText(address), address) /\ IsString(AddressText(address), AddressSize)
  BY AddressStrings DEF Displayable
<1>4. /\ IsString(text.out, PathSize)
      /\ text.ok => PathTextShown(CString(text.out, 0), path)
  BY PathTextIs DEF IsString
<1>5. /\ flow = "menu" /\ g_bip32_path' = text.out
      /\ UNCHANGED <<g_gas_fee, g_amount, g_function, g_struct>>
      /\ \/ ~text.ok /\ refused' = "path" /\ UNCHANGED <<flow, subject, g_address>>
         \/ text.ok /\ flow' = "address" /\ subject' = path /\ refused' = "none" /\ g_address' = AddressText(address)
  <2>1. address_from_pubkey(path, ADDRESS_LEN).ok /\ address_from_pubkey(path, ADDRESS_LEN).out = address
    BY <1>2
  <2> HIDE DEF text, address
  <2> QED BY <2>1 DEF ui_display_address, NoReview, Refuse, Show, text
<1> HIDE DEF text, address
<1>6. TypedStrings'
  BY <1>1, <1>3, <1>4, <1>5 DEF TypedStrings, Strings, Flows
<1>7. TypeOK'
  BY <1>6, StepsAre DEF TypeOK, TypedStrings, Strings, IsString
<1>8. flow' \in {"menu", "address"} /\ NoAmountRefused'
  BY <1>5 DEF NoAmountRefused
<1>9. AmountShown' /\ GasFeeShown' /\ FunctionShown' /\ TypeShown'
  <2>1. \A f \in {"menu", "address"} : Steps[f] \cap {"amount", "gas_fee", "function", "struct"} = {}
    BY DEF Steps
  <2> QED BY <1>8, <2>1 DEF AmountShown, GasFeeShown, FunctionShown, TypeShown, Shows
<1>10. PathShownToLast' /\ AddressShown'
  <2>1. CASE flow' = "menu"
    <3>1. "address" \notin Steps["menu"]
      BY DEF Steps
    <3> QED BY <2>1, <3>1 DEF PathShownToLast, AddressShown, Shows
  <2>2. CASE flow' = "address"
    <3>1. text.ok /\ subject' = path /\ g_address' = AddressText(address) /\ g_bip32_path' = text.out
      BY <1>5, <2>2
    <3>2. PathShownToLast'
      BY <1>4, <2>2, <3>1 DEF PathShownToLast, PathTextShown
    <3>3. AddressShown'
      BY <1>3, <2>2, <3>1 DEF AddressShown, address
    <3> QED BY <3>2, <3>3
  <2> QED BY <1>8, <2>1, <2>2
<1> QED BY <1>7, <1>8, <1>9, <1>10 DEF Inv, Properties

\* In the menu no text is shown.
LEMMA MenuIsGood ==
  ASSUME TypedStrings', flow' = "menu", refused' = "none"
  PROVE  Inv'
<1>1. TypeOK'
  BY StepsAre DEF TypeOK, TypedStrings, Strings, IsString
<1>2. Steps["menu"] = {}
  BY DEF Steps
<1> QED
  BY <1>1, <1>2 DEF Inv, Properties, AmountShown, GasFeeShown, NoAmountRefused, PathShownToLast,
                    AddressShown, FunctionShown, TypeShown, Shows

\* The menu shows none.
LEMMA MenuStep ==
  ASSUME Inv, ui_menu_main
  PROVE  Inv'
<1>1. TypedStrings
  BY TypeIs DEF Inv
<1>2. /\ flow' = "menu" /\ refused' = "none"
      /\ UNCHANGED <<g_bip32_path, g_address, g_gas_fee, g_amount, g_function, g_struct>>
  BY DEF ui_menu_main, Show
<1>3. TypedStrings'
  BY <1>1, <1>2 DEF TypedStrings, Strings, Flows
<1> QED BY <1>2, <1>3, MenuIsGood

\* Nothing changes what is shown by itself.
LEMMA StutterStep ==
  ASSUME Inv, UNCHANGED vars
  PROVE  Inv'
BY DEF vars, Inv, TypeOK, Properties, AmountShown, GasFeeShown, NoAmountRefused, PathShownToLast,
       AddressShown, FunctionShown, TypeShown, Shows, AmountIs, FeeIs

\* At the start nothing is shown.
LEMMA InitIsGood ==
  ASSUME Init
  PROVE  Inv
<1>1. TypedStrings
  BY ZeroedString DEF Init, TypedStrings, Strings, Flows
<1>2. Steps["menu"] = {}
  BY DEF Steps
<1> QED
  BY <1>1, <1>2, TypeIs DEF Init, Inv, Properties, AmountShown, GasFeeShown, NoAmountRefused, PathShownToLast,
                    AddressShown, FunctionShown, TypeShown, Shows

\* Every review of every transaction and every path has the properties: they
\* are inductive together, because each text is written whenever it is shown.
THEOREM ReviewsInvariant == Spec => []Inv
<1>1. Init => Inv
  BY InitIsGood
<1>2. Inv /\ [Next]_vars => Inv'
  <2> SUFFICES ASSUME Inv, [Next]_vars PROVE Inv'
    OBVIOUS
  <2>1. CASE \E path \in Paths : ui_display_address(path)
    BY <2>1, AddressStep, ReviewsAssumption
  <2>2. CASE \E tx \in Reviewed : ui_display_transaction(tx)
    BY <2>2, TransactionStep, ReviewsAssumption
  <2>3. CASE ui_menu_main
    BY <2>3, MenuStep
  <2>4. CASE UNCHANGED vars
    BY <2>4, StutterStep
  <2> QED BY <2>1, <2>2, <2>3, <2>4 DEF Next
<1> QED BY <1>1, <1>2, PTL DEF Spec

\* Every array holds a C string of its size, whatever was written into it and
\* however much of that was cut (ui/display.c, common/format.c).
THEOREM TextsAreStrings == Spec => []TypeOK
<1>1. Inv => TypeOK
  BY DEF Inv
<1> QED BY <1>1, ReviewsInvariant, PTL

\* The amount on screen is that of the transfer, digit for digit, in arrays of
\* every size that SizesAssumption lets and for every number of 64 bits or less
\* (display.c:351-403, format.c:98-130).
THEOREM AmountIsShown == Spec => []AmountShown
<1>1. Inv => AmountShown
  BY DEF Inv, Properties
<1> QED BY <1>1, ReviewsInvariant, PTL

\* So is the fee of every review that shows one (display.c:260-281).
THEOREM FeeIsShown == Spec => []GasFeeShown
<1>1. Inv => GasFeeShown
  BY DEF Inv, Properties
<1> QED BY <1>1, ReviewsInvariant, PTL

\* No number is too long for its array: neither answer to format_fpu64's failure
\* is ever sent (display.c:272-274).
THEOREM NumbersFit == Spec => []NoAmountRefused
<1>1. Inv => NoAmountRefused
  BY DEF Inv, Properties
<1> QED BY <1>1, ReviewsInvariant, PTL

\* A path that is shown is cut in the digits of its last component or nowhere
\* (bip32.c:44-87, display.c:93-119).
THEOREM PathIsShown == Spec => []PathShownToLast
<1>1. Inv => PathShownToLast
  BY DEF Inv, Properties
<1> QED BY <1>1, ReviewsInvariant, PTL

\* An address on screen is whole and the one under review, in the array that
\* keys and receivers share (display.c:107, 355, 391).
THEOREM AddressIsShown == Spec => []AddressShown
<1>1. Inv => AddressShown
  BY DEF Inv, Properties
<1> QED BY <1>1, ReviewsInvariant, PTL

\* A function on screen is the one that is called, its names cut only at a NUL
\* or at the end of the array (ui_display_entry_function).
THEOREM FunctionIsShown == Spec => []FunctionShown
<1>1. Inv => FunctionShown
  BY DEF Inv, Properties
<1> QED BY <1>1, ReviewsInvariant, PTL

\* A message, a coin or a type on screen is the one under review, with nothing
\* of an earlier text (ui_display_message, ui_display_default).
THEOREM TypeIsShown == Spec => []TypeShown
<1>1. Inv => TypeShown
  BY DEF Inv, Properties
<1> QED BY <1>1, ReviewsInvariant, PTL

=============================================================================
