-------------------------- MODULE TxAcceptanceProofs --------------------------
(***************************************************************************)
(* transaction/deserialize.c accepts the encoding of any transaction that   *)
(* can be written, and parses from it what it was written from.             *)
(*                                                                         *)
(* The encoding is followed from its end: Rest says what stands in it from  *)
(* each field of the tables on, IsWritten that what stands there first is   *)
(* what the parser will ask for, and AcceptInv that the cursor stands       *)
(* before what is still to be read.                                         *)
(***************************************************************************)
EXTENDS TxParserProofs

-----------------------------------------------------------------------------
(* Bytes that are known one by one, and the numbers among them. *)

\* The elements of two sequences that are joined.
LEMMA ConcatNat ==
  \A v, w \in Seq(Nat) :
    /\ v \o w \in Seq(Nat) /\ Len(v \o w) = Len(v) + Len(w) /\ Len(v) \in Nat /\ Len(w) \in Nat
    /\ \A i \in 1..(Len(v) + Len(w)) : (v \o w)[i] = IF i <= Len(v) THEN v[i] ELSE w[i - Len(v)]
BY ConcatProperties

\* The bytes at o begin with w; they are w, to the last.
Begins(o, w) == o + Len(w) <= Len(raw) /\ \A j \in 1..Len(w) : raw[o + j] = w[j]
Ends(o, w) == o \in Nat /\ o + Len(w) = Len(raw) /\ \A j \in 1..Len(w) : raw[o + j] = w[j]

\* What ends with v and w begins with v, and w follows it.
LEMMA EndsSplit ==
  ASSUME raw \in Seq(Byte), NEW v \in Seq(Nat), NEW w \in Seq(Nat), NEW o, Ends(o, v \o w)
  PROVE  Begins(o, v) /\ Ends(o + Len(v), w)
<1> DEFINE n == Len(v)
           m == Len(w)
           u == v \o w
<1>1. /\ Len(u) = n + m /\ n \in Nat /\ m \in Nat
      /\ \A i \in 1..(n + m) : u[i] = IF i <= n THEN v[i] ELSE w[i - n]
  BY ConcatNat
<1> HIDE DEF n, m, u
<1>2. Ends(o, u) 
  BY DEF u
<1>3. /\ o \in Nat /\ o + (n + m) = Len(raw)
      /\ \A i \in 1..(n + m) : raw[o + i] = u[i]
  BY <1>1, <1>2 DEF Ends
<1>4. ASSUME NEW j \in 1..n PROVE raw[o + j] = v[j]
  <2>1. j \in 1..(n + m) /\ j <= n
    BY <1>1
  <2> QED BY <1>1, <1>3, <2>1
<1>5. ASSUME NEW j \in 1..m PROVE raw[(o + n) + j] = w[j]
  <2>1. n + j \in 1..(n + m) /\ ~(n + j <= n) /\ (n + j) - n = j /\ (o + n) + j = o + (n + j)
    BY <1>1, <1>3
  <2>2. u[n + j] = w[(n + j) - n] /\ raw[o + (n + j)] = u[n + j]
    BY <1>1, <1>3, <2>1
  <2> QED BY <2>1, <2>2
<1>6. o + n <= Len(raw) /\ o + n \in Nat /\ (o + n) + m = Len(raw)
  BY <1>1, <1>3
<1> QED BY <1>4, <1>5, <1>6 DEF Begins, Ends, n, m

\* A slice that is known byte by byte.
LEMMA BeginsIsPiece ==
  ASSUME raw \in Seq(Byte), NEW w \in Seq(Nat), NEW o \in Nat, Begins(o, w)
  PROVE  Piece(o, o + Len(w)) = w
<1> DEFINE k == Len(w)
           p == Piece(o, o + k)
<1>1. k \in Nat /\ o + k <= Len(raw) /\ \A j \in 1..k : raw[o + j] = w[j] /\ w[j] \in Nat
  BY DEF Begins
<1> HIDE DEF k
<1>2. \A i \in (o + 1)..(o + k) : raw[i] \in Nat
  BY <1>1, RawBytes
<1>3. o + 1 \in Int /\ o + k \in Int
  BY <1>1
<1>4. /\ p \in Seq(Nat) /\ Len(p) = (IF o + 1 <= o + k THEN (o + k) - (o + 1) + 1 ELSE 0)
      /\ \A i \in 1..((o + k) - (o + 1) + 1) : p[i] = raw[(o + 1) + i - 1]
  BY <1>2, <1>3, SubSeqProperties DEF Piece
<1> HIDE DEF p
<1>5. Len(p) = k
  BY <1>1, <1>4
<1>6. \A i \in 1..k : p[i] = w[i]
  <2> TAKE i \in 1..k
  <2>1. i \in 1..((o + k) - (o + 1) + 1) /\ (o + 1) + i - 1 = o + i
    BY <1>1
  <2> QED BY <1>1, <1>4, <2>1
<1>7. p = w
  BY <1>4, <1>5, <1>6, SeqEqual DEF k
<1> QED BY <1>7 DEF p, k

-----------------------------------------------------------------------------
(* A number that is written is read. *)

\* A number below the radix is one group.
LEMMA UlebSmall ==
  ASSUME NEW n \in Nat, n < Radix
  PROVE  Uleb[n] = <<n>> /\ Len(Uleb[n]) = 1 /\ Uleb[n][1] = n
<1>1. Uleb[n] = <<n>>
  BY UlebIs DEF UlebRhs
<1> QED BY <1>1

\* Another has one group more than its quotient, behind one with the remainder.
LEMMA UlebLarge ==
  ASSUME NEW n \in Nat, ~(n < Radix)
  PROVE  \E m \in 0..(n - 1), d \in 0..(Radix - 1) :
           /\ n = d + Radix * m /\ m >= 1
           /\ Len(Uleb[m]) \in Nat /\ Len(Uleb[n]) = Len(Uleb[m]) + 1
           /\ Uleb[n][1] = Radix + d
           /\ \A j \in 1..Len(Uleb[m]) : Uleb[n][j + 1] = Uleb[m][j]
<1> DEFINE m == n \div Radix
           d == n % Radix
           x == <<Radix + d>>
           y == Uleb[m]
<1>0. n >= Radix /\ Radix \in Nat \ {0}
  BY RadixIs
<1>1. m \in 0..(n - 1)
  BY <1>0, QuotientBefore
<1>2. d \in 0..(Radix - 1)
  BY <1>0, Division
<1>3. n = d + Radix * m
  BY <1>0, DivisionSum
<1>4. Uleb[n] = x \o y
  BY UlebIs DEF UlebRhs
<1>5. y \in Seq(Nat)
  BY <1>1, UlebIs
<1> HIDE DEF m, d
<1>6. x \in Seq(Nat) /\ Len(x) = 1 /\ x[1] = Radix + d
  BY <1>0, <1>2
<1> HIDE DEF x, y
<1>7. /\ Len(x \o y) = Len(x) + Len(y) /\ Len(y) \in Nat
      /\ \A i \in 1..(Len(x) + Len(y)) : (x \o y)[i] = IF i <= Len(x) THEN x[i] ELSE y[i - Len(x)]
  <2>1. x \in Seq(Nat) /\ y \in Seq(Nat)
    BY <1>5, <1>6
  <2> QED BY <2>1, ConcatNat
<1>8. Len(Uleb[n]) = Len(y) + 1 /\ Uleb[n][1] = Radix + d
  <2>1. 1 \in 1..(Len(x) + Len(y))
    BY <1>6, <1>7
  <2> QED BY <1>4, <1>6, <1>7, <2>1
<1>9. ASSUME NEW j \in 1..Len(y) PROVE Uleb[n][j + 1] = y[j]
  <2>1. j + 1 \in 1..(Len(x) + Len(y)) /\ ~(j + 1 <= Len(x)) /\ (j + 1) - Len(x) = j
    BY <1>6, <1>7
  <2> QED BY <1>4, <1>7, <2>1
<1>10. m >= 1
  <2> SUFFICES ASSUME m = 0 PROVE FALSE
    BY <1>1
  <2>1. Radix * m = 0
    BY <1>0
  <2> QED BY <1>0, <1>2, <1>3, <2>1
<1> QED BY <1>1, <1>2, <1>3, <1>7, <1>8, <1>9, <1>10 DEF y

\* An encoding has a group.
LEMMA UlebLen == \A n \in Nat : Uleb[n] \in Seq(Nat) /\ Len(Uleb[n]) \in Nat /\ Len(Uleb[n]) >= 1
<1> TAKE n \in Nat
<1>1. Uleb[n] \in Seq(Nat)
  BY UlebIs
<1>2. CASE n < Radix
  BY <1>1, <1>2, UlebSmall
<1>3. CASE ~(n < Radix)
  <2>1. PICK m \in 0..(n - 1) : Len(Uleb[m]) \in Nat /\ Len(Uleb[n]) = Len(Uleb[m]) + 1
    BY <1>3, UlebLarge
  <2> QED BY <1>1, <2>1
<1> QED BY <1>2, <1>3

\* One group is read at the bytes that are the encoding of a small number, ...
LEMMA SmallRead ==
  ASSUME raw \in Seq(Byte), NEW n \in Nat, n < Radix, NEW o \in Nat, Begins(o, Uleb[n])
  PROVE  GroupsOf(o, 1) /\ ValueAt(o, 1) = n
<1>1. o + 1 <= Len(raw) /\ raw[o + 1] = n
  BY UlebSmall DEF Begins
<1>2. GroupsOf(o, 1)
  BY <1>1 DEF GroupsOf
<1>3. n % Radix = n
  <2>1. n \in 0..(Radix - 1) /\ n = n + Radix * 0 /\ 0 \in Nat
    BY RadixIs
  <2>2. (n + Radix * 0) % Radix = n
    BY <2>1, RadixIs, DivisionIs
  <2> QED BY <2>1, <2>2
<1> QED BY <1>1, <1>2, <1>3, ValueOfOne

\* ... and one more than at the rest of it at those of a larger one.
LEMMA LargeRead ==
  ASSUME raw \in Seq(Byte), NEW o \in Nat, NEW k \in Nat, k >= 1, o + (k + 1) <= Len(raw),
         NEW m \in Nat, m >= 1, NEW d \in 0..(Radix - 1), raw[o + 1] = Radix + d,
         GroupsOf(o + 1, k), ValueAt(o + 1, k) = m
  PROVE  GroupsOf(o, k + 1) /\ ValueAt(o, k + 1) = d + Radix * m
<1>1. Radix \in Nat \ {0} /\ raw[o + 1] >= Radix
  BY RadixIs
<1>2. raw[o + 1] % Radix = d
  <2>1. raw[o + 1] = d + Radix * 1
    BY <1>1
  <2>2. (d + Radix * 1) % Radix = d
    BY <1>1, DivisionIs
  <2> QED BY <2>1, <2>2
<1>3. ValueAt(o, k + 1) = d + Radix * m
  <2>1. ValueAt(o, k + 1) = (raw[o + 1] % Radix) + Radix * ValueAt(o + 1, k)
    BY ValueOfMore
  <2> QED BY <1>2, <2>1
<1>4. o + (k + 1) = (o + 1) + k /\ raw[o + (k + 1)] < Radix
  <2>1. raw[(o + 1) + k] < Radix /\ o + (k + 1) = (o + 1) + k
    BY DEF GroupsOf
  <2> QED BY <2>1
<1>5. raw[(o + 1) + k] # 0
  <2>1. CASE k > 1
    BY <2>1 DEF GroupsOf
  <2>2. CASE ~(k > 1)
    <3>1. k = 1 /\ (o + 1) + 1 <= Len(raw) /\ o + 1 \in Nat
      BY <2>2
    <3>2. raw[(o + 1) + 1] % Radix = m
      BY <3>1, ValueOfOne
    <3>3. 0 % Radix = 0
      BY <1>1
    <3> QED BY <3>1, <3>2, <3>3
  <2> QED BY <2>1, <2>2
<1>6. ASSUME NEW j \in 1..((k + 1) - 1) PROVE raw[o + j] >= Radix
  <2>1. CASE j = 1
    BY <1>1, <2>1
  <2>2. CASE j # 1
    <3>1. j - 1 \in 1..(k - 1) /\ (o + 1) + (j - 1) = o + j
      BY <2>2
    <3>2. raw[(o + 1) + (j - 1)] >= Radix
      BY <3>1 DEF GroupsOf
    <3> QED BY <3>1, <3>2
  <2> QED BY <2>1, <2>2
<1> QED BY <1>3, <1>4, <1>5, <1>6 DEF GroupsOf

\* The groups of an encoding are those of the number.
LEMMA UlebGroups ==
  ASSUME raw \in Seq(Byte)
  PROVE  \A n \in Nat : \A o \in Nat : Begins(o, Uleb[n]) =>
           GroupsOf(o, Len(Uleb[n])) /\ ValueAt(o, Len(Uleb[n])) = n
<1> DEFINE P(n) == \A o \in Nat : Begins(o, Uleb[n]) =>
             GroupsOf(o, Len(Uleb[n])) /\ ValueAt(o, Len(Uleb[n])) = n
           S == {n \in Nat : P(n)}
<1>1. ASSUME NEW n \in Nat, \A m \in 0..(n - 1) : m \in S PROVE n \in S
  <2> SUFFICES ASSUME NEW o \in Nat, Begins(o, Uleb[n])
               PROVE  GroupsOf(o, Len(Uleb[n])) /\ ValueAt(o, Len(Uleb[n])) = n
    OBVIOUS
  <2>1. CASE n < Radix
    <3>1. Len(Uleb[n]) = 1
      BY <2>1, UlebSmall
    <3> HIDE DEF S
    <3> QED BY <2>1, <3>1, SmallRead
  <2>2. CASE ~(n < Radix)
    <3>1. PICK m \in 0..(n - 1), d \in 0..(Radix - 1) :
            /\ n = d + Radix * m /\ m >= 1
            /\ Len(Uleb[m]) \in Nat /\ Len(Uleb[n]) = Len(Uleb[m]) + 1
            /\ Uleb[n][1] = Radix + d
            /\ \A j \in 1..Len(Uleb[m]) : Uleb[n][j + 1] = Uleb[m][j]
      BY <2>2, UlebLarge
    <3>2. m \in Nat /\ P(m)
      BY <1>1, <3>1
    <3> DEFINE k == Len(Uleb[m])
    <3>3. k \in Nat /\ k >= 1 /\ Len(Uleb[n]) = k + 1
      BY <3>1, <3>2, UlebLen
    <3> HIDE DEF k, P, S
    <3>4. /\ o + (k + 1) <= Len(raw) /\ raw[o + 1] = Radix + d
          /\ \A j \in 1..k : raw[o + (j + 1)] = Uleb[n][j + 1]
      BY <3>1, <3>3 DEF Begins
    <3>5. Begins(o + 1, Uleb[m])
      <4>1. (o + 1) + k <= Len(raw)
        BY <3>3, <3>4
      <4>2. ASSUME NEW j \in 1..k PROVE raw[(o + 1) + j] = Uleb[m][j]
        <5>1. (o + 1) + j = o + (j + 1)
          OBVIOUS
        <5>2. Uleb[n][j + 1] = Uleb[m][j]
          BY <3>1 DEF k
        <5> QED BY <3>4, <5>1, <5>2
      <4> QED BY <4>1, <4>2 DEF Begins, k
    <3>6. GroupsOf(o + 1, k) /\ ValueAt(o + 1, k) = m
      <4>1. o + 1 \in Nat
        OBVIOUS
      <4> QED BY <3>2, <3>5, <4>1 DEF P, k
    <3>7. GroupsOf(o, k + 1) /\ ValueAt(o, k + 1) = d + Radix * m
      BY <3>1, <3>2, <3>3, <3>4, <3>6, LargeRead
    <3> QED BY <3>1, <3>3, <3>7
  <2> QED BY <2>1, <2>2
<1> HIDE DEF S
<1>2. \A n \in Nat : n \in S
  BY <1>1, CourseInduction
<1> QED BY <1>2 DEF S

\* A number below a power of the radix has no more groups than that.
LEMMA UlebShort ==
  \A j \in Nat : \A n \in Nat : n < Power(Radix, j + 1) => Len(Uleb[n]) <= j + 1
<1> DEFINE S == {j \in Nat : \A n \in Nat : n < Power(Radix, j + 1) => Len(Uleb[n]) <= j + 1}
<1>1. 0 \in S
  <2>1. Power(Radix, 0 + 1) = Radix
    <3>1. Power(Radix, 0 + 1) = Radix * Power(Radix, 0) /\ Power(Radix, 0) = 1
      BY RadixIs, PowerStep, PowerZero
    <3> QED BY <3>1, RadixIs
  <2>2. ASSUME NEW n \in Nat, n < Radix PROVE Len(Uleb[n]) <= 1
    <3>1. Len(Uleb[n]) = 1
      BY <2>2, UlebSmall
    <3> QED BY <3>1
  <2> QED BY <2>1, <2>2
<1>2. ASSUME NEW j \in Nat, j \in S PROVE j + 1 \in S
  <2> SUFFICES ASSUME NEW n \in Nat, n < Power(Radix, (j + 1) + 1)
               PROVE  Len(Uleb[n]) <= (j + 1) + 1
    OBVIOUS
  <2>1. CASE n < Radix
    <3>1. Len(Uleb[n]) = 1
      BY <2>1, UlebSmall
    <3> QED BY <3>1
  <2>2. CASE ~(n < Radix)
    <3> DEFINE p == Power(Radix, j + 1)
    <3>1. PICK m \in 0..(n - 1), d \in 0..(Radix - 1) :
            n = d + Radix * m /\ Len(Uleb[m]) \in Nat /\ Len(Uleb[n]) = Len(Uleb[m]) + 1
      BY <2>2, UlebLarge
    <3>2. m \in Nat /\ p \in Nat /\ Radix \in Nat /\ d \in 0..(Radix - 1)
      <4>1. Radix \in Nat /\ j + 1 \in Nat
        BY RadixIs
      <4>2. p \in Nat
        BY <4>1, PowerType
      <4> QED BY <3>1, <4>1, <4>2
    <3>3. Power(Radix, (j + 1) + 1) = Radix * p
      BY <3>2, PowerStep
    <3> HIDE DEF p, S
    <3>4. m < p
      <4> SUFFICES ASSUME p <= m PROVE FALSE
        BY <3>2
      <4> DEFINE e == m - p
      <4>1. e \in Nat /\ m = p + e
        BY <3>2
      <4> HIDE DEF e
      <4>2. Radix * m = Radix * p + Radix * e /\ Radix * e \in Nat /\ Radix * p \in Nat
        BY <3>2, <4>1, Distributes
      <4> QED BY <3>1, <3>2, <3>3, <4>2
    <3>5. Len(Uleb[m]) <= j + 1
      BY <1>2, <3>2, <3>4 DEF p, S
    <3> QED BY <3>1, <3>5
  <2> QED BY <2>1, <2>2
<1> HIDE DEF S
<1>3. \A j \in Nat : j \in S
  BY <1>1, <1>2, SetInduction
<1> QED BY <1>3 DEF S

\* The groups at a place end at one byte.
LEMMA OneNumber ==
  ASSUME raw \in Seq(Byte), NEW o \in Nat, NEW k \in GroupsAt(o), NEW j \in GroupsAt(o)
  PROVE  j = k
<1>1. MaxGroups \in Nat /\ Radix \in Nat
  BY ParserAssumption
<1>2. /\ k \in Nat /\ k >= 1 /\ raw[o + k] < Radix /\ o + k <= Len(raw)
      /\ \A i \in 1..(k - 1) : raw[o + i] >= Radix
  BY <1>1 DEF GroupsAt
<1>3. /\ j \in Nat /\ j >= 1 /\ raw[o + j] < Radix /\ o + j <= Len(raw)
      /\ \A i \in 1..(j - 1) : raw[o + i] >= Radix
  BY <1>1 DEF GroupsAt
<1>4. raw[o + k] \in Nat /\ raw[o + j] \in Nat
  BY <1>2, <1>3, RawBytes
<1>5. ~(j < k)
  <2> SUFFICES ASSUME j < k PROVE FALSE
    OBVIOUS
  <2>1. j \in 1..(k - 1)
    BY <1>2, <1>3
  <2>2. raw[o + j] >= Radix
    BY <1>2, <2>1
  <2> QED BY <1>1, <1>3, <1>4, <2>2
<1>6. ~(k < j)
  <2> SUFFICES ASSUME k < j PROVE FALSE
    OBVIOUS
  <2>1. k \in 1..(j - 1)
    BY <1>2, <1>3
  <2>2. raw[o + k] >= Radix
    BY <1>3, <2>1
  <2> QED BY <1>1, <1>2, <1>4, <2>2
<1> QED BY <1>2, <1>3, <1>5, <1>6

\* What is read where a number of 32 bits is written is that number, to its end.
LEMMA UlebRead ==
  ASSUME raw \in Seq(Byte), NEW o \in Nat, NEW n \in 0..UINT32_MAX, Begins(o, Uleb[n])
  PROVE  /\ Len(Uleb[n]) \in 1..MaxGroups
         /\ IsNumber(o, Len(Uleb[n])) /\ ValueAt(o, Len(Uleb[n])) = n
         /\ \A j \in 1..MaxGroups : IsNumber(o, j) => j = Len(Uleb[n])
<1> DEFINE k == Len(Uleb[n])
<1>1. n \in Nat /\ UINT32_MAX \in Nat /\ MaxGroups \in Nat /\ MaxGroups >= 1 /\ n <= UINT32_MAX
  BY ParserAssumption
<1>2. GroupsOf(o, k) /\ ValueAt(o, k) = n /\ k \in Nat /\ k >= 1
  BY <1>1, UlebGroups, UlebLen
<1>3. k <= MaxGroups
  <2> DEFINE j == MaxGroups - 1
  <2>1. j \in Nat /\ MaxGroups = j + 1
    BY <1>1
  <2>2. n < Power(Radix, j + 1)
    <3>1. UINT32_MAX < Power(Radix, MaxGroups) /\ Power(Radix, MaxGroups) \in Nat
      BY <1>1, RadixIs, PowerType, EncoderAssumption
    <3> QED BY <1>1, <2>1, <3>1
  <2> HIDE DEF j
  <2> QED BY <1>1, <2>1, <2>2, UlebShort
<1> HIDE DEF k
<1>4. k \in GroupsAt(o)
  BY <1>1, <1>2, <1>3 DEF GroupsAt, GroupsOf
<1>5. IsNumber(o, k)
  BY <1>1, <1>2, <1>4 DEF IsNumber, GroupsOf
<1>6. \A j \in 1..MaxGroups : IsNumber(o, j) => j = k
  BY <1>4, OneNumber DEF IsNumber
<1> QED BY <1>1, <1>2, <1>3, <1>5, <1>6 DEF k

-----------------------------------------------------------------------------
(* The encoding of a transaction, from each field on. *)

\* The footer, ...
AtEnd(t) == << >>
AtChain(t) == t.chain_id \o AtEnd(t)
AtExpiration(t) == t.expiration_timestamp_secs \o AtChain(t)
AtGasPrice(t) == t.gas_unit_price \o AtExpiration(t)
AtFooter(t) == t.max_gas_amount \o AtGasPrice(t)
\* ... the arguments of a transfer, ...
AtAmount(t) == t.amount \o AtFooter(t)
AtAmountLen(t) == Uleb[Len(t.amount)] \o AtAmount(t)
AtReceiver(t) == t.receiver \o AtAmountLen(t)
AtReceiverLen(t) == Uleb[Len(t.receiver)] \o AtReceiver(t)
AtArguments(t) == Uleb[2] \o AtReceiverLen(t)
\* ... the type of a coin, ...
AtCoinTypeArgs(t) == Uleb[0] \o AtArguments(t)
AtCoinName(t) == t.coin_name \o AtCoinTypeArgs(t)
AtCoinNameLen(t) == Uleb[Len(t.coin_name)] \o AtCoinName(t)
AtCoinModule(t) == t.coin_module \o AtCoinNameLen(t)
AtCoinModuleLen(t) == Uleb[Len(t.coin_module)] \o AtCoinModule(t)
AtCoinAddress(t) == t.coin_address \o AtCoinModuleLen(t)
AtCoinType(t) == Uleb[TYPE_TAG_STRUCT] \o AtCoinAddress(t)
\* ... and the front.
AtCall(t) ==
  CASE t.kind = "account" -> Uleb[0] \o AtArguments(t)
    [] t.kind = "coin" -> Uleb[1] \o AtCoinType(t)
    [] t.kind = "call" -> t.call \o AtFooter(t)
AtFunctionName(t) == t.function_name \o AtCall(t)
AtFunctionLen(t) == Uleb[Len(t.function_name)] \o AtFunctionName(t)
AtModuleName(t) == t.module_name \o AtFunctionLen(t)
AtModuleLen(t) == Uleb[Len(t.module_name)] \o AtModuleName(t)
AtModuleAddress(t) == t.module_address \o AtModuleLen(t)
AtPayload(t) == Uleb[PAYLOAD_ENTRY_FUNCTION] \o AtModuleAddress(t)
AtSequence(t) == t.sequence \o AtPayload(t)
AtSender(t) == t.sender \o AtSequence(t)

\* What stands in the encoding from field i of the part on.
Rests(t) ==
  [raw |-> <<AtSender(t), AtSequence(t), AtPayload(t)>>,
   footer |-> <<AtFooter(t), AtGasPrice(t), AtExpiration(t), AtChain(t), AtEnd(t)>>,
   payload |-> <<AtPayload(t), AtModuleAddress(t)>>,
   entry_function |-> <<AtModuleAddress(t), AtModuleLen(t), AtModuleName(t), AtFunctionLen(t),
                        AtFunctionName(t), AtCall(t)>>,
   account_transfer |-> <<AtCall(t), AtArguments(t), AtReceiverLen(t), AtReceiver(t),
                          AtAmountLen(t), AtAmount(t), AtFooter(t)>>,
   coin_transfer |-> <<AtCall(t), AtCoinType(t), AtCoinAddress(t), AtCoinModuleLen(t),
                       AtCoinModule(t), AtCoinNameLen(t), AtCoinName(t), AtCoinTypeArgs(t),
                       AtArguments(t), AtReceiverLen(t), AtReceiver(t), AtAmountLen(t),
                       AtAmount(t), AtFooter(t)>>]
Rest(t, p, i) == Rests(t)[p][i]

\* What is written for a field: the bytes of it, or the number that it is.
NumberFor(t, f) ==
  CASE f = "payload_variant" -> PAYLOAD_ENTRY_FUNCTION
    [] f = "module_name_len" -> Len(t.module_name)
    [] f = "function_name_len" -> Len(t.function_name)
    [] f = "ty_size" -> IF t.kind = "coin" THEN 1 ELSE 0
    [] f = "ty_arg_variant" -> TYPE_TAG_STRUCT
    [] f = "coin_module_len" -> Len(t.coin_module)
    [] f = "coin_name_len" -> Len(t.coin_name)
    [] f = "coin_type_args_size" -> 0
    [] f = "args_size" -> 2
    [] f = "receiver_len" -> Len(t.receiver)
    [] f = "amount_len" -> Len(t.amount)
Written(t, f) == IF f \in Numbers THEN Uleb[NumberFor(t, f)] ELSE t[f]

\* The parts that a transaction of each kind is read in.
PartsFor(t) ==
  {"raw", "footer", "payload", "entry_function"}
    \cup (IF t.kind = "account" THEN {"account_transfer"} ELSE {})
    \cup (IF t.kind = "coin" THEN {"coin_transfer"} ELSE {})

\* The field's bytes come first in what stands from it on, and are as many, or the
\* encoding of a number, as the field's entry in the table asks for.
IsWritten(t, p, i) ==
  LET f == Fields[p][i]
      w == Written(t, f.name)
  IN  /\ w \in Seq(Nat) /\ Rest(t, p, i + 1) \in Seq(Nat)
      /\ Rest(t, p, i) = w \o Rest(t, p, i + 1)
      /\ f.kind = "bytes" => Len(w) = f.len
      /\ f.kind = "text" => f.of \in Numbers /\ Len(w) = NumberFor(t, f.of)
      /\ f.kind = "number" => /\ NumberFor(t, f.name) \in 0..UINT32_MAX
                              /\ NumberFor(t, f.name) \in f.values
                              /\ w = Uleb[NumberFor(t, f.name)]

-----------------------------------------------------------------------------
(* The fields are written where they are read. *)

\* The bytes of a transaction's fields are sequences of numbers, no longer than 32 bits say.
LEMMA FieldBytes ==
  ASSUME NEW t \in Transactions, NEW f \in DOMAIN t \ {"kind"}
  PROVE  t[f] \in Seq(Nat) /\ Len(t[f]) \in 0..UINT32_MAX /\ Len(t[f]) \in Nat
<1>1. t[f] \in Seq(Byte) /\ Len(t[f]) <= UINT32_MAX
  BY TransactionsAssumption DEF WellFormed
<1>2. Byte \subseteq Nat
  BY RadixIs DEF Byte
<1>3. t[f] \in Seq(Nat)
  <2> DEFINE s == t[f]
             B == Byte
  <2>1. s \in Seq(B) /\ B \subseteq Nat
    BY <1>1, <1>2
  <2> HIDE DEF s, B
  <2>2. s \in Seq(Nat)
    BY <2>1, SeqMonotonic
  <2> QED BY <2>2 DEF s
<1>4. Len(t[f]) \in Nat
  BY <1>3, LenProperties
<1> QED BY <1>1, <1>3, <1>4, ParserAssumption

\* What every transaction has, and what those of each kind do.
LEMMA FieldsPresent ==
  ASSUME NEW t \in Transactions
  PROVE  /\ t.kind \in {"call", "account", "coin"}
         /\ CallFields \subseteq DOMAIN t \ {"kind"}
         /\ t.kind = "call" => DOMAIN t = {"kind"} \cup CallFields \cup {"call"}
         /\ t.kind = "account" => DOMAIN t = {"kind"} \cup CallFields \cup {"receiver", "amount"}
         /\ t.kind = "coin" => DOMAIN t = {"kind"} \cup CallFields
              \cup {"coin_address", "coin_module", "coin_name", "receiver", "amount"}
<1>1. t.kind \in DOMAIN ArgumentFields
      /\ DOMAIN t = {"kind"} \cup CallFields \cup ArgumentFields[t.kind]
  BY TransactionsAssumption DEF WellFormed
<1>2. "kind" \notin CallFields
  BY DEF CallFields
<1>3. DOMAIN ArgumentFields = {"call", "account", "coin"}
  BY DEF ArgumentFields
<1> QED BY <1>1, <1>2, <1>3 DEF ArgumentFields

\* Encodings of numbers that are written.
LEMMA UlebType == \A n \in Nat : Uleb[n] \in Seq(Nat)
BY UlebLen

\* What follows in an encoding is a sequence of numbers: the footer, ...
LEMMA FooterRests ==
  ASSUME NEW t \in Transactions
  PROVE  /\ AtEnd(t) \in Seq(Nat) /\ AtChain(t) \in Seq(Nat) /\ AtExpiration(t) \in Seq(Nat)
         /\ AtGasPrice(t) \in Seq(Nat) /\ AtFooter(t) \in Seq(Nat)
<1>1. /\ t.chain_id \in Seq(Nat) /\ t.expiration_timestamp_secs \in Seq(Nat)
      /\ t.gas_unit_price \in Seq(Nat) /\ t.max_gas_amount \in Seq(Nat)
  BY FieldsPresent, FieldBytes DEF CallFields
<1>2. AtEnd(t) \in Seq(Nat)
  BY DEF AtEnd
<1>3. AtChain(t) \in Seq(Nat)
  BY <1>1, <1>2, ConcatNat DEF AtChain
<1>4. AtExpiration(t) \in Seq(Nat)
  BY <1>1, <1>3, ConcatNat DEF AtExpiration
<1>5. AtGasPrice(t) \in Seq(Nat)
  BY <1>1, <1>4, ConcatNat DEF AtGasPrice
<1> QED BY <1>1, <1>2, <1>3, <1>4, <1>5, ConcatNat DEF AtFooter

\* ... the arguments, ...
LEMMA ArgumentRests ==
  ASSUME NEW t \in Transactions, t.kind # "call"
  PROVE  /\ t.receiver \in Seq(Nat) /\ t.amount \in Seq(Nat)
         /\ Uleb[Len(t.receiver)] \in Seq(Nat) /\ Uleb[Len(t.amount)] \in Seq(Nat)
         /\ Len(t.receiver) \in 0..UINT32_MAX /\ Len(t.amount) \in 0..UINT32_MAX
         /\ AtAmount(t) \in Seq(Nat) /\ AtAmountLen(t) \in Seq(Nat) /\ AtReceiver(t) \in Seq(Nat)
         /\ AtReceiverLen(t) \in Seq(Nat) /\ AtArguments(t) \in Seq(Nat)
<1>1. {"receiver", "amount"} \subseteq DOMAIN t \ {"kind"}
  BY FieldsPresent
<1>2. /\ t.receiver \in Seq(Nat) /\ t.amount \in Seq(Nat)
      /\ Len(t.receiver) \in 0..UINT32_MAX /\ Len(t.amount) \in 0..UINT32_MAX
      /\ Len(t.receiver) \in Nat /\ Len(t.amount) \in Nat
  BY <1>1, FieldBytes
<1>3. Uleb[Len(t.receiver)] \in Seq(Nat) /\ Uleb[Len(t.amount)] \in Seq(Nat) /\ Uleb[2] \in Seq(Nat)
  BY <1>2, UlebType
<1>4. AtAmount(t) \in Seq(Nat)
  BY <1>2, FooterRests, ConcatNat DEF AtAmount
<1>5. AtAmountLen(t) \in Seq(Nat)
  BY <1>3, <1>4, ConcatNat DEF AtAmountLen
<1>6. AtReceiver(t) \in Seq(Nat)
  BY <1>2, <1>5, ConcatNat DEF AtReceiver
<1>7. AtReceiverLen(t) \in Seq(Nat)
  BY <1>3, <1>6, ConcatNat DEF AtReceiverLen
<1>8. AtArguments(t) \in Seq(Nat)
  BY <1>3, <1>7, ConcatNat DEF AtArguments
<1> QED BY <1>2, <1>3, <1>4, <1>5, <1>6, <1>7, <1>8

\* ... the type of a coin, ...
LEMMA CoinRests ==
  ASSUME NEW t \in Transactions, t.kind = "coin"
  PROVE  /\ t.coin_address \in Seq(Nat) /\ t.coin_module \in Seq(Nat) /\ t.coin_name \in Seq(Nat)
         /\ Uleb[Len(t.coin_module)] \in Seq(Nat) /\ Uleb[Len(t.coin_name)] \in Seq(Nat)
         /\ Len(t.coin_module) \in 0..UINT32_MAX /\ Len(t.coin_name) \in 0..UINT32_MAX
         /\ AtCoinTypeArgs(t) \in Seq(Nat) /\ AtCoinName(t) \in Seq(Nat)
         /\ AtCoinNameLen(t) \in Seq(Nat) /\ AtCoinModule(t) \in Seq(Nat)
         /\ AtCoinModuleLen(t) \in Seq(Nat) /\ AtCoinAddress(t) \in Seq(Nat)
         /\ AtCoinType(t) \in Seq(Nat)
<1>1. {"coin_address", "coin_module", "coin_name"} \subseteq DOMAIN t \ {"kind"}
  BY FieldsPresent
<1>2. /\ t.coin_address \in Seq(Nat) /\ t.coin_module \in Seq(Nat) /\ t.coin_name \in Seq(Nat)
      /\ Len(t.coin_module) \in 0..UINT32_MAX /\ Len(t.coin_name) \in 0..UINT32_MAX
      /\ Len(t.coin_module) \in Nat /\ Len(t.coin_name) \in Nat
  BY <1>1, FieldBytes
<1>3. /\ Uleb[Len(t.coin_module)] \in Seq(Nat) /\ Uleb[Len(t.coin_name)] \in Seq(Nat)
      /\ Uleb[0] \in Seq(Nat) /\ Uleb[TYPE_TAG_STRUCT] \in Seq(Nat)
  BY <1>2, UlebType DEF TYPE_TAG_STRUCT
<1>4. AtCoinTypeArgs(t) \in Seq(Nat)
  BY <1>3, ArgumentRests, ConcatNat DEF AtCoinTypeArgs
<1>5. AtCoinName(t) \in Seq(Nat)
  BY <1>2, <1>4, ConcatNat DEF AtCoinName
<1>6. AtCoinNameLen(t) \in Seq(Nat)
  BY <1>3, <1>5, ConcatNat DEF AtCoinNameLen
<1>7. AtCoinModule(t) \in Seq(Nat)
  BY <1>2, <1>6, ConcatNat DEF AtCoinModule
<1>8. AtCoinModuleLen(t) \in Seq(Nat)
  BY <1>3, <1>7, ConcatNat DEF AtCoinModuleLen
<1>9. AtCoinAddress(t) \in Seq(Nat)
  BY <1>2, <1>8, ConcatNat DEF AtCoinAddress
<1>10. AtCoinType(t) \in Seq(Nat)
  BY <1>3, <1>9, ConcatNat DEF AtCoinType
<1> QED BY <1>2, <1>3, <1>4, <1>5, <1>6, <1>7, <1>8, <1>9, <1>10

\* ... and the front.
LEMMA FrontRests ==
  ASSUME NEW t \in Transactions
  PROVE  /\ t.sender \in Seq(Nat) /\ t.sequence \in Seq(Nat) /\ t.module_address \in Seq(Nat)
         /\ t.module_name \in Seq(Nat) /\ t.function_name \in Seq(Nat)
         /\ Uleb[Len(t.module_name)] \in Seq(Nat) /\ Uleb[Len(t.function_name)] \in Seq(Nat)
         /\ Len(t.module_name) \in 0..UINT32_MAX /\ Len(t.function_name) \in 0..UINT32_MAX
         /\ AtCall(t) \in Seq(Nat) /\ AtFunctionName(t) \in Seq(Nat) /\ AtFunctionLen(t) \in Seq(Nat)
         /\ AtModuleName(t) \in Seq(Nat) /\ AtModuleLen(t) \in Seq(Nat)
         /\ AtModuleAddress(t) \in Seq(Nat) /\ AtPayload(t) \in Seq(Nat)
         /\ AtSequence(t) \in Seq(Nat) /\ AtSender(t) \in Seq(Nat)
<1>1. {"sender", "sequence", "module_address", "module_name", "function_name"} \subseteq DOMAIN t \ {"kind"}
  BY FieldsPresent DEF CallFields
<1>2. /\ t.sender \in Seq(Nat) /\ t.sequence \in Seq(Nat) /\ t.module_address \in Seq(Nat)
      /\ t.module_name \in Seq(Nat) /\ t.function_name \in Seq(Nat)
      /\ Len(t.module_name) \in 0..UINT32_MAX /\ Len(t.function_name) \in 0..UINT32_MAX
      /\ Len(t.module_name) \in Nat /\ Len(t.function_name) \in Nat
  BY <1>1, FieldBytes
<1>3. /\ Uleb[Len(t.module_name)] \in Seq(Nat) /\ Uleb[Len(t.function_name)] \in Seq(Nat)
      /\ Uleb[0] \in Seq(Nat) /\ Uleb[1] \in Seq(Nat) /\ Uleb[PAYLOAD_ENTRY_FUNCTION] \in Seq(Nat)
  BY <1>2, UlebType DEF PAYLOAD_ENTRY_FUNCTION
<1>4. AtCall(t) \in Seq(Nat)
  <2>1. CASE t.kind = "account"
    <3>1. AtArguments(t) \in Seq(Nat)
      BY <2>1, ArgumentRests
    <3> QED BY <1>3, <2>1, <3>1, ConcatNat DEF AtCall
  <2>2. CASE t.kind = "coin"
    <3>1. AtCoinType(t) \in Seq(Nat)
      BY <2>2, CoinRests
    <3> QED BY <1>3, <2>2, <3>1, ConcatNat DEF AtCall
  <2>3. CASE t.kind = "call"
    <3>1. t.call \in Seq(Nat)
      BY <2>3, FieldsPresent, FieldBytes
    <3> QED BY <2>3, <3>1, FooterRests, ConcatNat DEF AtCall
  <2> QED BY <2>1, <2>2, <2>3, FieldsPresent
<1>5. AtFunctionName(t) \in Seq(Nat)
  BY <1>2, <1>4, ConcatNat DEF AtFunctionName
<1>6. AtFunctionLen(t) \in Seq(Nat)
  BY <1>3, <1>5, ConcatNat DEF AtFunctionLen
<1>7. AtModuleName(t) \in Seq(Nat)
  BY <1>2, <1>6, ConcatNat DEF AtModuleName
<1>8. AtModuleLen(t) \in Seq(Nat)
  BY <1>3, <1>7, ConcatNat DEF AtModuleLen
<1>9. AtModuleAddress(t) \in Seq(Nat)
  BY <1>2, <1>8, ConcatNat DEF AtModuleAddress
<1>10. AtPayload(t) \in Seq(Nat)
  BY <1>3, <1>9, ConcatNat DEF AtPayload
<1>11. AtSequence(t) \in Seq(Nat)
  BY <1>2, <1>10, ConcatNat DEF AtSequence
<1>12. AtSender(t) \in Seq(Nat)
  BY <1>2, <1>11, ConcatNat DEF AtSender
<1> QED BY <1>2, <1>3, <1>4, <1>5, <1>6, <1>7, <1>8, <1>9, <1>10, <1>11, <1>12

\* A field of fixed length is written with that length.
LEMMA FixedLength ==
  ASSUME NEW t \in Transactions, NEW p \in Parts, NEW i \in 1..Len(Fields[p]),
         Fields[p][i].kind = "bytes", Fields[p][i].name \in DOMAIN t
  PROVE  Len(t[Fields[p][i].name]) = Fields[p][i].len
<1>1. i \in DOMAIN Fields[p]
  BY Tables DEF TableOK
<1> QED BY <1>1, TransactionsAssumption DEF WellFormed

\* What is needed to write bytes of a length that is fixed, and of one that was written.
LEMMA BytesWritten ==
  ASSUME NEW t \in Transactions, NEW p \in Parts, NEW i \in 1..Len(Fields[p]), NEW f, NEW w,
         Fields[p][i].name = f, Fields[p][i].kind = "bytes", f \notin Numbers, f \in DOMAIN t \ {"kind"},
         w = t[f], Rest(t, p, i + 1) \in Seq(Nat), Rest(t, p, i) = w \o Rest(t, p, i + 1)
  PROVE  IsWritten(t, p, i)
<1>1. Len(w) = Fields[p][i].len
  BY FixedLength
<1>2. Written(t, Fields[p][i].name) = w /\ w \in Seq(Nat)
  BY FieldBytes DEF Written
<1> QED BY <1>1, <1>2 DEF IsWritten

\* A text of the length that was written before it.
LEMMA TextWritten ==
  ASSUME NEW t \in Transactions, NEW p \in Parts, NEW i \in 1..Len(Fields[p]), NEW f, NEW w,
         Fields[p][i].name = f, Fields[p][i].kind = "text", f \notin Numbers, f \in DOMAIN t \ {"kind"},
         Fields[p][i].of \in Numbers, NumberFor(t, Fields[p][i].of) = Len(w),
         w = t[f], Rest(t, p, i + 1) \in Seq(Nat), Rest(t, p, i) = w \o Rest(t, p, i + 1)
  PROVE  IsWritten(t, p, i)
<1>2. Written(t, Fields[p][i].name) = w /\ w \in Seq(Nat)
  BY FieldBytes DEF Written
<1> QED BY <1>2 DEF IsWritten

\* The fields of the front that come before the payload.
LEMMA RawWritten ==
  ASSUME NEW t \in Transactions
  PROVE  \A i \in 1..2 : IsWritten(t, "raw", i)
<1> DEFINE p == "raw"
<1>1. p \in Parts /\ 1 \in 1..Len(Fields[p]) /\ 2 \in 1..Len(Fields[p])
  BY Sizes, PartNames DEF PartSet
<1>2. /\ Fields[p][1].kind = "bytes" /\ Fields[p][1].name = "sender"
      /\ Fields[p][2].kind = "bytes" /\ Fields[p][2].name = "sequence"
  BY FieldsOf DEF Raw, Bytes
<1>3. {"sender", "sequence"} \subseteq (DOMAIN t \ {"kind"}) \ Numbers
  BY FieldsPresent DEF CallFields, Numbers
<1>5. /\ Rest(t, p, 1) = AtSender(t) /\ Rest(t, p, 1 + 1) = AtSequence(t)
      /\ Rest(t, p, 2) = AtSequence(t) /\ Rest(t, p, 2 + 1) = AtPayload(t)
  BY DEF Rest, Rests
<1> HIDE DEF p
<1>7. IsWritten(t, p, 1)
  BY <1>1, <1>2, <1>3, <1>5, FrontRests, BytesWritten DEF AtSender
<1>8. IsWritten(t, p, 2)
  BY <1>1, <1>2, <1>3, <1>5, FrontRests, BytesWritten DEF AtSequence
<1> QED BY <1>7, <1>8 DEF p

\* The fields of the footer.
LEMMA FooterWritten ==
  ASSUME NEW t \in Transactions
  PROVE  \A i \in 1..4 : IsWritten(t, "footer", i)
<1> DEFINE p == "footer"
<1>1. /\ p \in Parts /\ 1 \in 1..Len(Fields[p]) /\ 2 \in 1..Len(Fields[p])
      /\ 3 \in 1..Len(Fields[p]) /\ 4 \in 1..Len(Fields[p])
  BY Sizes, PartNames DEF PartSet
<1>2. /\ Fields[p][1].kind = "bytes" /\ Fields[p][1].name = "max_gas_amount"
      /\ Fields[p][2].kind = "bytes" /\ Fields[p][2].name = "gas_unit_price"
      /\ Fields[p][3].kind = "bytes" /\ Fields[p][3].name = "expiration_timestamp_secs"
      /\ Fields[p][4].kind = "bytes" /\ Fields[p][4].name = "chain_id"
  BY FieldsOf DEF Footer, Bytes
<1>3. {"max_gas_amount", "gas_unit_price", "expiration_timestamp_secs", "chain_id"}
        \subseteq (DOMAIN t \ {"kind"}) \ Numbers
  BY FieldsPresent DEF CallFields, Numbers
<1>5. /\ Rest(t, p, 1) = AtFooter(t) /\ Rest(t, p, 2) = AtGasPrice(t)
      /\ Rest(t, p, 3) = AtExpiration(t) /\ Rest(t, p, 4) = AtChain(t)
      /\ Rest(t, p, 1 + 1) = AtGasPrice(t) /\ Rest(t, p, 2 + 1) = AtExpiration(t)
      /\ Rest(t, p, 3 + 1) = AtChain(t) /\ Rest(t, p, 4 + 1) = AtEnd(t)
  BY DEF Rest, Rests
<1> HIDE DEF p
<1>8. IsWritten(t, p, 1)
  BY <1>1, <1>2, <1>3, <1>5, FooterRests, BytesWritten DEF AtFooter
<1>9. IsWritten(t, p, 2)
  BY <1>1, <1>2, <1>3, <1>5, FooterRests, BytesWritten DEF AtGasPrice
<1>10. IsWritten(t, p, 3)
  BY <1>1, <1>2, <1>3, <1>5, FooterRests, BytesWritten DEF AtExpiration
<1>11. IsWritten(t, p, 4)
  BY <1>1, <1>2, <1>3, <1>5, FooterRests, BytesWritten DEF AtChain
<1> QED BY <1>8, <1>9, <1>10, <1>11 DEF p

\* What is needed to write a number.
LEMMA NumberWritten ==
  ASSUME NEW t \in Transactions, NEW p \in Parts, NEW i \in 1..Len(Fields[p]),
         Fields[p][i].name \in Numbers, Fields[p][i].kind = "number",
         NumberFor(t, Fields[p][i].name) \in 0..UINT32_MAX \cap Fields[p][i].values,
         Rest(t, p, i + 1) \in Seq(Nat),
         Rest(t, p, i) = Uleb[NumberFor(t, Fields[p][i].name)] \o Rest(t, p, i + 1)
  PROVE  IsWritten(t, p, i)
<1>1. Written(t, Fields[p][i].name) = Uleb[NumberFor(t, Fields[p][i].name)]
  BY DEF Written
<1>2. NumberFor(t, Fields[p][i].name) \in Nat
  BY ParserAssumption
<1>3. Uleb[NumberFor(t, Fields[p][i].name)] \in Seq(Nat)
  BY <1>2, UlebType
<1> QED BY <1>1, <1>3 DEF IsWritten

\* Numbers that are always the same fit 32 bits.
LEMMA SmallNumbers ==
  ASSUME NEW n \in {0, 1, 2, TYPE_TAG_STRUCT, PAYLOAD_ENTRY_FUNCTION}
  PROVE  n \in 0..UINT32_MAX
BY ParserAssumption, EncoderAssumption DEF TYPE_TAG_STRUCT, PAYLOAD_ENTRY_FUNCTION

\* The variant of the payload.
LEMMA PayloadWritten ==
  ASSUME NEW t \in Transactions
  PROVE  IsWritten(t, "payload", 1)
<1>1. "payload" \in Parts /\ 1 \in 1..Len(Fields["payload"])
  BY Sizes, PartNames DEF PartSet
<1>2. /\ Fields["payload"][1].name = "payload_variant" /\ Fields["payload"][1].kind = "number"
      /\ PAYLOAD_ENTRY_FUNCTION \in Fields["payload"][1].values
  BY FieldsOf DEF Payload, Number
<1>3. Rest(t, "payload", 1) = AtPayload(t) /\ Rest(t, "payload", 1 + 1) = AtModuleAddress(t)
  BY DEF Rest, Rests
<1>4. NumberFor(t, "payload_variant") = PAYLOAD_ENTRY_FUNCTION /\ "payload_variant" \in Numbers
  BY DEF NumberFor, Numbers
<1>5. PAYLOAD_ENTRY_FUNCTION \in 0..UINT32_MAX
  BY SmallNumbers
<1>6. AtPayload(t) = Uleb[PAYLOAD_ENTRY_FUNCTION] \o AtModuleAddress(t) /\ AtModuleAddress(t) \in Seq(Nat)
  BY FrontRests DEF AtPayload
<1> QED BY <1>1, <1>2, <1>3, <1>4, <1>5, <1>6, NumberWritten

\* The fields of the function.
LEMMA EntryWritten ==
  ASSUME NEW t \in Transactions
  PROVE  \A i \in 1..5 : IsWritten(t, "entry_function", i)
<1> DEFINE p == "entry_function"
<1>1. /\ p \in Parts /\ 1 \in 1..Len(Fields[p]) /\ 2 \in 1..Len(Fields[p])
      /\ 3 \in 1..Len(Fields[p]) /\ 4 \in 1..Len(Fields[p]) /\ 5 \in 1..Len(Fields[p])
  BY Sizes, PartNames DEF PartSet
<1>2. /\ Fields[p][1].kind = "bytes" /\ Fields[p][1].name = "module_address"
      /\ Fields[p][2].kind = "number" /\ Fields[p][2].name = "module_name_len"
      /\ Fields[p][3].kind = "text" /\ Fields[p][3].name = "module_name" /\ Fields[p][3].of = "module_name_len"
      /\ Fields[p][4].kind = "number" /\ Fields[p][4].name = "function_name_len"
      /\ Fields[p][5].kind = "text" /\ Fields[p][5].name = "function_name" /\ Fields[p][5].of = "function_name_len"
      /\ Fields[p][2].values = 0..UINT32_MAX /\ Fields[p][4].values = 0..UINT32_MAX
  BY FieldsOf DEF EntryFunction, Bytes, Length, Number, Text
<1>3. {"module_address", "module_name", "function_name"} \subseteq (DOMAIN t \ {"kind"}) \ Numbers
  BY FieldsPresent DEF CallFields, Numbers
<1>5. /\ Rest(t, p, 1) = AtModuleAddress(t) /\ Rest(t, p, 2) = AtModuleLen(t)
      /\ Rest(t, p, 3) = AtModuleName(t) /\ Rest(t, p, 4) = AtFunctionLen(t)
      /\ Rest(t, p, 5) = AtFunctionName(t)
      /\ Rest(t, p, 1 + 1) = AtModuleLen(t) /\ Rest(t, p, 2 + 1) = AtModuleName(t)
      /\ Rest(t, p, 3 + 1) = AtFunctionLen(t) /\ Rest(t, p, 4 + 1) = AtFunctionName(t)
      /\ Rest(t, p, 5 + 1) = AtCall(t)
  BY DEF Rest, Rests
<1>7. /\ NumberFor(t, "module_name_len") = Len(t.module_name) /\ "module_name_len" \in Numbers
      /\ NumberFor(t, "function_name_len") = Len(t.function_name) /\ "function_name_len" \in Numbers
  BY DEF NumberFor, Numbers
<1> HIDE DEF p
<1>8. IsWritten(t, p, 1)
  BY <1>1, <1>2, <1>3, <1>5, FrontRests, BytesWritten DEF AtModuleAddress
<1>9. IsWritten(t, p, 2)
  <2>1. Rest(t, p, 2) = Uleb[Len(t.module_name)] \o Rest(t, p, 2 + 1) /\ Rest(t, p, 2 + 1) \in Seq(Nat)
    BY <1>5, FrontRests DEF AtModuleLen
  <2>2. NumberFor(t, Fields[p][2].name) \in 0..UINT32_MAX \cap Fields[p][2].values
    BY <1>2, <1>7, FrontRests
  <2> QED BY <1>1, <1>2, <1>7, <2>1, <2>2, NumberWritten
<1>10. IsWritten(t, p, 3)
  BY <1>1, <1>2, <1>3, <1>5, <1>7, FrontRests, TextWritten DEF AtModuleName
<1>11. IsWritten(t, p, 4)
  <2>1. Rest(t, p, 4) = Uleb[Len(t.function_name)] \o Rest(t, p, 4 + 1) /\ Rest(t, p, 4 + 1) \in Seq(Nat)
    BY <1>5, FrontRests DEF AtFunctionLen
  <2>2. NumberFor(t, Fields[p][4].name) \in 0..UINT32_MAX \cap Fields[p][4].values
    BY <1>2, <1>7, FrontRests
  <2> QED BY <1>1, <1>2, <1>7, <2>1, <2>2, NumberWritten
<1>12. IsWritten(t, p, 5)
  BY <1>1, <1>2, <1>3, <1>5, <1>7, FrontRests, TextWritten DEF AtFunctionName
<1> QED BY <1>8, <1>9, <1>10, <1>11, <1>12 DEF p

\* The two arguments, at the end of a part with n fields before them.
LEMMA ArgumentsWritten ==
  ASSUME NEW t \in Transactions, t.kind # "call", NEW p \in Parts, NEW n \in Nat,
         Len(Fields[p]) = n + 5,
         Fields[p][n + 1] = Arguments[1], Fields[p][n + 2] = Arguments[2],
         Fields[p][n + 3] = Arguments[3], Fields[p][n + 4] = Arguments[4],
         Fields[p][n + 5] = Arguments[5],
         Rest(t, p, n + 1) = AtArguments(t), Rest(t, p, n + 2) = AtReceiverLen(t),
         Rest(t, p, n + 3) = AtReceiver(t), Rest(t, p, n + 4) = AtAmountLen(t),
         Rest(t, p, n + 5) = AtAmount(t), Rest(t, p, n + 6) = AtFooter(t)
  PROVE  /\ IsWritten(t, p, n + 1) /\ IsWritten(t, p, n + 2) /\ IsWritten(t, p, n + 3)
         /\ IsWritten(t, p, n + 4) /\ IsWritten(t, p, n + 5)
<1>1. /\ n + 1 \in 1..Len(Fields[p]) /\ n + 2 \in 1..Len(Fields[p]) /\ n + 3 \in 1..Len(Fields[p])
      /\ n + 4 \in 1..Len(Fields[p]) /\ n + 5 \in 1..Len(Fields[p])
      /\ (n + 1) + 1 = n + 2 /\ (n + 2) + 1 = n + 3 /\ (n + 3) + 1 = n + 4
      /\ (n + 4) + 1 = n + 5 /\ (n + 5) + 1 = n + 6
  OBVIOUS
<1>2. /\ Arguments[1].kind = "number" /\ Arguments[1].name = "args_size" /\ Arguments[1].values = {2}
      /\ Arguments[2].kind = "number" /\ Arguments[2].name = "receiver_len" /\ Arguments[2].values = {ADDRESS_LEN}
      /\ Arguments[3].kind = "bytes" /\ Arguments[3].name = "receiver" /\ Arguments[3].len = ADDRESS_LEN
      /\ Arguments[4].kind = "number" /\ Arguments[4].name = "amount_len" /\ Arguments[4].values = {U64_LEN}
      /\ Arguments[5].kind = "bytes" /\ Arguments[5].name = "amount" /\ Arguments[5].len = U64_LEN
  BY DEF Arguments, Number, Bytes
<1>3. {"receiver", "amount"} \subseteq (DOMAIN t \ {"kind"}) \ Numbers
  BY FieldsPresent DEF Numbers
<1>4. Len(t.receiver) = ADDRESS_LEN /\ Len(t.amount) = U64_LEN
  <2>1. Fields[p][n + 3].name = "receiver" /\ Fields[p][n + 3].kind = "bytes"
        /\ Fields[p][n + 5].name = "amount" /\ Fields[p][n + 5].kind = "bytes"
    BY <1>2
  <2>2. Len(t[Fields[p][n + 3].name]) = Fields[p][n + 3].len
    BY <1>1, <1>3, <2>1, FixedLength
  <2>3. Len(t[Fields[p][n + 5].name]) = Fields[p][n + 5].len
    BY <1>1, <1>3, <2>1, FixedLength
  <2> QED BY <1>2, <2>1, <2>2, <2>3
<1>6. /\ NumberFor(t, "args_size") = 2 /\ NumberFor(t, "receiver_len") = Len(t.receiver)
      /\ NumberFor(t, "amount_len") = Len(t.amount)
      /\ "args_size" \in Numbers /\ "receiver_len" \in Numbers /\ "amount_len" \in Numbers
  BY DEF NumberFor, Numbers
<1>7. IsWritten(t, p, n + 1)
  <2> DEFINE i == n + 1
  <2>1. Fields[p][i].name = "args_size" /\ Fields[p][i].kind = "number" /\ Fields[p][i].values = {2}
    BY <1>2
  <2>2. Rest(t, p, i) = Uleb[2] \o Rest(t, p, i + 1) /\ Rest(t, p, i + 1) \in Seq(Nat)
    BY <1>1, ArgumentRests DEF AtArguments
  <2>3. 2 \in 0..UINT32_MAX
    BY SmallNumbers
  <2>4. i \in 1..Len(Fields[p])
    BY <1>1
  <2> HIDE DEF i
  <2>5. NumberFor(t, Fields[p][i].name) \in 0..UINT32_MAX \cap Fields[p][i].values
    BY <1>6, <2>1, <2>3
  <2>6. IsWritten(t, p, i)
    BY <1>6, <2>1, <2>2, <2>4, <2>5, NumberWritten
  <2> QED BY <2>6 DEF i
<1>8. IsWritten(t, p, n + 2)
  <2> DEFINE i == n + 2
  <2>1. Fields[p][i].name = "receiver_len" /\ Fields[p][i].kind = "number"
        /\ Fields[p][i].values = {ADDRESS_LEN}
    BY <1>2
  <2>2. Rest(t, p, i) = Uleb[Len(t.receiver)] \o Rest(t, p, i + 1) /\ Rest(t, p, i + 1) \in Seq(Nat)
    BY <1>1, ArgumentRests DEF AtReceiverLen
  <2>4. i \in 1..Len(Fields[p])
    BY <1>1
  <2> HIDE DEF i
  <2>5. NumberFor(t, Fields[p][i].name) \in 0..UINT32_MAX \cap Fields[p][i].values
    BY <1>4, <1>6, <2>1, ArgumentRests
  <2>6. IsWritten(t, p, i)
    BY <1>6, <2>1, <2>2, <2>4, <2>5, NumberWritten
  <2> QED BY <2>6 DEF i
<1>9. IsWritten(t, p, n + 3)
  <2> DEFINE i == n + 3
  <2>1. Fields[p][i].name = "receiver" /\ Fields[p][i].kind = "bytes" /\ i \in 1..Len(Fields[p])
    BY <1>1, <1>2
  <2>2. Rest(t, p, i) = t.receiver \o Rest(t, p, i + 1) /\ Rest(t, p, i + 1) \in Seq(Nat)
    BY <1>1, ArgumentRests DEF AtReceiver
  <2> HIDE DEF i
  <2>3. IsWritten(t, p, i)
    BY <1>3, <2>1, <2>2, BytesWritten
  <2> QED BY <2>3 DEF i
<1>10. IsWritten(t, p, n + 4)
  <2> DEFINE i == n + 4
  <2>1. Fields[p][i].name = "amount_len" /\ Fields[p][i].kind = "number"
        /\ Fields[p][i].values = {U64_LEN}
    BY <1>2
  <2>2. Rest(t, p, i) = Uleb[Len(t.amount)] \o Rest(t, p, i + 1) /\ Rest(t, p, i + 1) \in Seq(Nat)
    BY <1>1, ArgumentRests DEF AtAmountLen
  <2>4. i \in 1..Len(Fields[p])
    BY <1>1
  <2> HIDE DEF i
  <2>5. NumberFor(t, Fields[p][i].name) \in 0..UINT32_MAX \cap Fields[p][i].values
    BY <1>4, <1>6, <2>1, ArgumentRests
  <2>6. IsWritten(t, p, i)
    BY <1>6, <2>1, <2>2, <2>4, <2>5, NumberWritten
  <2> QED BY <2>6 DEF i
<1>11. IsWritten(t, p, n + 5)
  <2> DEFINE i == n + 5
  <2>1. Fields[p][i].name = "amount" /\ Fields[p][i].kind = "bytes" /\ i \in 1..Len(Fields[p])
    BY <1>1, <1>2
  <2>2. Rest(t, p, i) = t.amount \o Rest(t, p, i + 1) /\ Rest(t, p, i + 1) \in Seq(Nat)
    BY <1>1, FooterRests DEF AtAmount
  <2> HIDE DEF i
  <2>3. IsWritten(t, p, i)
    BY <1>3, <2>1, <2>2, BytesWritten
  <2> QED BY <2>3 DEF i
<1> QED BY <1>7, <1>8, <1>9, <1>10, <1>11

\* The fields of an account transfer.
LEMMA AccountWritten ==
  ASSUME NEW t \in Transactions, t.kind = "account"
  PROVE  \A i \in 1..6 : IsWritten(t, "account_transfer", i)
<1> DEFINE p == "account_transfer"
           n == 1
<1>1. p \in Parts /\ 1 \in 1..Len(Fields[p]) /\ Len(Fields[p]) = n + 5 /\ n \in Nat
  BY Sizes, PartNames DEF PartSet
<1>2. /\ Fields[p][1].name = "ty_size" /\ Fields[p][1].kind = "number" /\ Fields[p][1].values = {0}
      /\ Fields[p][n + 1] = Arguments[1] /\ Fields[p][n + 2] = Arguments[2]
      /\ Fields[p][n + 3] = Arguments[3] /\ Fields[p][n + 4] = Arguments[4]
      /\ Fields[p][n + 5] = Arguments[5]
  BY FieldsOf, AccountFields DEF Number
<1>3. /\ Rest(t, p, 1) = AtCall(t) /\ Rest(t, p, n + 1) = AtArguments(t)
      /\ Rest(t, p, n + 2) = AtReceiverLen(t) /\ Rest(t, p, n + 3) = AtReceiver(t)
      /\ Rest(t, p, n + 4) = AtAmountLen(t) /\ Rest(t, p, n + 5) = AtAmount(t)
      /\ Rest(t, p, n + 6) = AtFooter(t)
  BY DEF Rest, Rests
<1>4. NumberFor(t, "ty_size") = 0 /\ "ty_size" \in Numbers /\ 0 \in 0..UINT32_MAX
  BY SmallNumbers DEF NumberFor, Numbers
<1>5. AtCall(t) = Uleb[0] \o AtArguments(t) /\ AtArguments(t) \in Seq(Nat)
  BY ArgumentRests DEF AtCall
<1>6. Rest(t, p, 1 + 1) = AtArguments(t)
  BY <1>3
<1> HIDE DEF p
<1>7. IsWritten(t, p, 1)
  BY <1>1, <1>2, <1>3, <1>4, <1>5, <1>6, NumberWritten
<1> HIDE DEF n
<1>8. /\ IsWritten(t, p, n + 1) /\ IsWritten(t, p, n + 2) /\ IsWritten(t, p, n + 3)
      /\ IsWritten(t, p, n + 4) /\ IsWritten(t, p, n + 5)
  BY <1>1, <1>2, <1>3, ArgumentsWritten
<1> QED BY <1>7, <1>8 DEF p, n

\* The fields of a coin transfer.
LEMMA CoinWritten ==
  ASSUME NEW t \in Transactions, t.kind = "coin"
  PROVE  \A i \in 1..13 : IsWritten(t, "coin_transfer", i)
<1> DEFINE p == "coin_transfer"
           n == 8
<1>1. p \in Parts /\ Len(Fields[p]) = n + 5 /\ n \in Nat /\ \A i \in 1..8 : i \in 1..Len(Fields[p])
  BY Sizes, PartNames DEF PartSet
<1>2. /\ \A i \in 1..8 : Fields[p][i] = CoinType[i]
      /\ Fields[p][n + 1] = Arguments[1] /\ Fields[p][n + 2] = Arguments[2]
      /\ Fields[p][n + 3] = Arguments[3] /\ Fields[p][n + 4] = Arguments[4]
      /\ Fields[p][n + 5] = Arguments[5]
  BY FieldsOf, CoinFields
<1>3. /\ CoinType[1].name = "ty_size" /\ CoinType[1].kind = "number" /\ CoinType[1].values = {1}
      /\ CoinType[2].name = "ty_arg_variant" /\ CoinType[2].kind = "number"
      /\ CoinType[2].values = {TYPE_TAG_STRUCT}
      /\ CoinType[3].name = "coin_address" /\ CoinType[3].kind = "bytes"
      /\ CoinType[4].name = "coin_module_len" /\ CoinType[4].kind = "number"
      /\ CoinType[4].values = 0..UINT32_MAX
      /\ CoinType[5].name = "coin_module" /\ CoinType[5].kind = "text"
      /\ CoinType[5].of = "coin_module_len"
      /\ CoinType[6].name = "coin_name_len" /\ CoinType[6].kind = "number"
      /\ CoinType[6].values = 0..UINT32_MAX
      /\ CoinType[7].name = "coin_name" /\ CoinType[7].kind = "text"
      /\ CoinType[7].of = "coin_name_len"
      /\ CoinType[8].name = "coin_type_args_size" /\ CoinType[8].kind = "number"
      /\ CoinType[8].values = {0}
  BY DEF CoinType, Number, Bytes, Length, Text
<1>4. /\ Rest(t, p, n + 1) = AtArguments(t)
      /\ Rest(t, p, n + 2) = AtReceiverLen(t) /\ Rest(t, p, n + 3) = AtReceiver(t)
      /\ Rest(t, p, n + 4) = AtAmountLen(t) /\ Rest(t, p, n + 5) = AtAmount(t)
      /\ Rest(t, p, n + 6) = AtFooter(t)
  BY DEF Rest, Rests
<1>5. /\ Rest(t, p, 1) = AtCall(t) /\ Rest(t, p, 2) = AtCoinType(t) /\ Rest(t, p, 3) = AtCoinAddress(t)
      /\ Rest(t, p, 4) = AtCoinModuleLen(t) /\ Rest(t, p, 5) = AtCoinModule(t)
      /\ Rest(t, p, 6) = AtCoinNameLen(t) /\ Rest(t, p, 7) = AtCoinName(t)
      /\ Rest(t, p, 8) = AtCoinTypeArgs(t)
      /\ Rest(t, p, 1 + 1) = AtCoinType(t) /\ Rest(t, p, 2 + 1) = AtCoinAddress(t)
      /\ Rest(t, p, 3 + 1) = AtCoinModuleLen(t) /\ Rest(t, p, 4 + 1) = AtCoinModule(t)
      /\ Rest(t, p, 5 + 1) = AtCoinNameLen(t) /\ Rest(t, p, 6 + 1) = AtCoinName(t)
      /\ Rest(t, p, 7 + 1) = AtCoinTypeArgs(t) /\ Rest(t, p, 8 + 1) = AtArguments(t)
  BY DEF Rest, Rests
<1>6. /\ NumberFor(t, "ty_size") = 1 /\ NumberFor(t, "ty_arg_variant") = TYPE_TAG_STRUCT
      /\ NumberFor(t, "coin_module_len") = Len(t.coin_module)
      /\ NumberFor(t, "coin_name_len") = Len(t.coin_name)
      /\ NumberFor(t, "coin_type_args_size") = 0
      /\ {"ty_size", "ty_arg_variant", "coin_module_len", "coin_name_len", "coin_type_args_size"}
           \subseteq Numbers
  BY DEF NumberFor, Numbers
<1>7. {"coin_address", "coin_module", "coin_name"} \subseteq (DOMAIN t \ {"kind"}) \ Numbers
  BY FieldsPresent DEF Numbers
<1>8. AtCall(t) = Uleb[1] \o AtCoinType(t) /\ AtArguments(t) \in Seq(Nat)
  BY ArgumentRests DEF AtCall
<1>9. 0 \in 0..UINT32_MAX /\ 1 \in 0..UINT32_MAX /\ TYPE_TAG_STRUCT \in 0..UINT32_MAX
  BY SmallNumbers
<1>10. /\ 1 \in 1..Len(Fields[p]) /\ 2 \in 1..Len(Fields[p]) /\ 3 \in 1..Len(Fields[p])
       /\ 4 \in 1..Len(Fields[p]) /\ 5 \in 1..Len(Fields[p]) /\ 6 \in 1..Len(Fields[p])
       /\ 7 \in 1..Len(Fields[p]) /\ 8 \in 1..Len(Fields[p]) /\ p \in Parts
       /\ Fields[p][1] = CoinType[1] /\ Fields[p][2] = CoinType[2] /\ Fields[p][3] = CoinType[3]
       /\ Fields[p][4] = CoinType[4] /\ Fields[p][5] = CoinType[5] /\ Fields[p][6] = CoinType[6]
       /\ Fields[p][7] = CoinType[7] /\ Fields[p][8] = CoinType[8]
  BY <1>1, <1>2
<1> HIDE DEF p, n
<1>11. IsWritten(t, p, 1)
  <2>1. Fields[p][1].name = "ty_size" /\ Fields[p][1].kind = "number"
    BY <1>3, <1>10
  <2>2. NumberFor(t, "ty_size") = 1 /\ "ty_size" \in Numbers
    BY <1>6
  <2>3. 1 \in 0..UINT32_MAX \cap Fields[p][1].values
    BY <1>3, <1>9, <1>10, CoinRests
  <2>4. Rest(t, p, 1) = Uleb[1] \o Rest(t, p, 1 + 1) /\ Rest(t, p, 1 + 1) \in Seq(Nat)
    BY <1>8, <1>5, CoinRests
  <2> QED BY <1>10, <2>1, <2>2, <2>3, <2>4, NumberWritten
<1>12. IsWritten(t, p, 2)
  <2>1. Fields[p][2].name = "ty_arg_variant" /\ Fields[p][2].kind = "number"
    BY <1>3, <1>10
  <2>2. NumberFor(t, "ty_arg_variant") = TYPE_TAG_STRUCT /\ "ty_arg_variant" \in Numbers
    BY <1>6
  <2>3. TYPE_TAG_STRUCT \in 0..UINT32_MAX \cap Fields[p][2].values
    BY <1>3, <1>9, <1>10, CoinRests
  <2>4. Rest(t, p, 2) = Uleb[TYPE_TAG_STRUCT] \o Rest(t, p, 2 + 1) /\ Rest(t, p, 2 + 1) \in Seq(Nat)
    BY <1>5, CoinRests DEF AtCoinType
  <2> QED BY <1>10, <2>1, <2>2, <2>3, <2>4, NumberWritten
<1>13. IsWritten(t, p, 3)
  <2>1. Fields[p][3].name = "coin_address" /\ Fields[p][3].kind = "bytes"
    BY <1>3, <1>10
  <2>2. Rest(t, p, 3) = t.coin_address \o Rest(t, p, 3 + 1) /\ Rest(t, p, 3 + 1) \in Seq(Nat)
    BY <1>5, CoinRests DEF AtCoinAddress
  <2> QED BY <1>7, <1>10, <2>1, <2>2, BytesWritten
<1>14. IsWritten(t, p, 4)
  <2>1. Fields[p][4].name = "coin_module_len" /\ Fields[p][4].kind = "number"
    BY <1>3, <1>10
  <2>2. NumberFor(t, "coin_module_len") = Len(t.coin_module) /\ "coin_module_len" \in Numbers
    BY <1>6
  <2>3. Len(t.coin_module) \in 0..UINT32_MAX \cap Fields[p][4].values
    BY <1>3, <1>9, <1>10, CoinRests
  <2>4. Rest(t, p, 4) = Uleb[Len(t.coin_module)] \o Rest(t, p, 4 + 1) /\ Rest(t, p, 4 + 1) \in Seq(Nat)
    BY <1>5, CoinRests DEF AtCoinModuleLen
  <2> QED BY <1>10, <2>1, <2>2, <2>3, <2>4, NumberWritten
<1>15. IsWritten(t, p, 5)
  <2>1. Fields[p][5].name = "coin_module" /\ Fields[p][5].kind = "text" /\ Fields[p][5].of = "coin_module_len"
    BY <1>3, <1>10
  <2>2. Rest(t, p, 5) = t.coin_module \o Rest(t, p, 5 + 1) /\ Rest(t, p, 5 + 1) \in Seq(Nat)
    BY <1>5, CoinRests DEF AtCoinModule
  <2>3. NumberFor(t, "coin_module_len") = Len(t.coin_module) /\ "coin_module_len" \in Numbers
    BY <1>6
  <2> QED BY <1>7, <1>10, <2>1, <2>2, <2>3, TextWritten
<1>16. IsWritten(t, p, 6)
  <2>1. Fields[p][6].name = "coin_name_len" /\ Fields[p][6].kind = "number"
    BY <1>3, <1>10
  <2>2. NumberFor(t, "coin_name_len") = Len(t.coin_name) /\ "coin_name_len" \in Numbers
    BY <1>6
  <2>3. Len(t.coin_name) \in 0..UINT32_MAX \cap Fields[p][6].values
    BY <1>3, <1>9, <1>10, CoinRests
  <2>4. Rest(t, p, 6) = Uleb[Len(t.coin_name)] \o Rest(t, p, 6 + 1) /\ Rest(t, p, 6 + 1) \in Seq(Nat)
    BY <1>5, CoinRests DEF AtCoinNameLen
  <2> QED BY <1>10, <2>1, <2>2, <2>3, <2>4, NumberWritten
<1>17. IsWritten(t, p, 7)
  <2>1. Fields[p][7].name = "coin_name" /\ Fields[p][7].kind = "text" /\ Fields[p][7].of = "coin_name_len"
    BY <1>3, <1>10
  <2>2. Rest(t, p, 7) = t.coin_name \o Rest(t, p, 7 + 1) /\ Rest(t, p, 7 + 1) \in Seq(Nat)
    BY <1>5, CoinRests DEF AtCoinName
  <2>3. NumberFor(t, "coin_name_len") = Len(t.coin_name) /\ "coin_name_len" \in Numbers
    BY <1>6
  <2> QED BY <1>7, <1>10, <2>1, <2>2, <2>3, TextWritten
<1>18. IsWritten(t, p, 8)
  <2>1. Fields[p][8].name = "coin_type_args_size" /\ Fields[p][8].kind = "number"
    BY <1>3, <1>10
  <2>2. NumberFor(t, "coin_type_args_size") = 0 /\ "coin_type_args_size" \in Numbers
    BY <1>6
  <2>3. 0 \in 0..UINT32_MAX \cap Fields[p][8].values
    BY <1>3, <1>9, <1>10, CoinRests
  <2>4. Rest(t, p, 8) = Uleb[0] \o Rest(t, p, 8 + 1) /\ Rest(t, p, 8 + 1) \in Seq(Nat)
    BY <1>8, <1>5, CoinRests DEF AtCoinTypeArgs
  <2> QED BY <1>10, <2>1, <2>2, <2>3, <2>4, NumberWritten
<1>19. /\ IsWritten(t, p, n + 1) /\ IsWritten(t, p, n + 2) /\ IsWritten(t, p, n + 3)
       /\ IsWritten(t, p, n + 4) /\ IsWritten(t, p, n + 5)
  BY <1>1, <1>2, <1>4, ArgumentsWritten
<1>20. /\ IsWritten(t, p, 9) /\ IsWritten(t, p, 10) /\ IsWritten(t, p, 11)
       /\ IsWritten(t, p, 12) /\ IsWritten(t, p, 13)
  BY <1>19 DEF n
<1>21. \A i \in 1..13 : i \in {1, 2, 3, 4, 5, 6, 7, 8, 9, 10, 11, 12, 13}
  OBVIOUS
<1> QED BY <1>11, <1>12, <1>13, <1>14, <1>15, <1>16, <1>17, <1>18, <1>20, <1>21 DEF p

\* Every field that is read of a transaction was written for it.
LEMMA AllWritten ==
  ASSUME NEW t \in Transactions, NEW p \in PartsFor(t), NEW i \in 1..Len(Fields[p])
  PROVE  p \in Parts /\ IsWritten(t, p, i)
<1>1. p \in Parts
  BY PartNames DEF PartsFor, PartSet
<1>2. CASE p = "raw"
  BY <1>1, <1>2, Sizes, RawWritten
<1>3. CASE p = "footer"
  BY <1>1, <1>3, Sizes, FooterWritten
<1>4. CASE p = "payload"
  <2>1. i = 1
    BY <1>4, Sizes
  <2> QED BY <1>1, <1>4, <2>1, PayloadWritten
<1>5. CASE p = "entry_function"
  BY <1>1, <1>5, Sizes, EntryWritten
<1>6. CASE p = "account_transfer"
  <2>1. t.kind = "account"
    BY <1>6 DEF PartsFor
  <2> QED BY <1>1, <1>6, <2>1, Sizes, AccountWritten
<1>7. CASE p = "coin_transfer"
  <2>1. t.kind = "coin"
    BY <1>7 DEF PartsFor
  <2> QED BY <1>1, <1>7, <2>1, Sizes, CoinWritten
<1> QED BY <1>1, <1>2, <1>3, <1>4, <1>5, <1>6, <1>7, PartNames DEF PartSet

-----------------------------------------------------------------------------
(* The encoding as its fields one after the other. *)

\* Joining is associative.
LEMMA Assoc == \A u, v, w \in Seq(Nat) : (u \o v) \o w = u \o (v \o w)
BY ConcatAssociative

\* Sequences that are joined, as an operator of its own.
Join(u, v) == u \o v

\* What it is a sequence of, and that it is associative.
LEMMA JoinAssoc ==
  \A u, v, w \in Seq(Nat) : Join(u, v) \in Seq(Nat) /\ Join(Join(u, v), w) = Join(u, Join(v, w))
<1> TAKE u \in Seq(Nat), v \in Seq(Nat), w \in Seq(Nat)
<1>1. u \o v \in Seq(Nat)
  BY ConcatNat
<1>2. (u \o v) \o w = u \o (v \o w)
  BY Assoc
<1> QED BY <1>1, <1>2 DEF Join

\* Behind a piece that is joined stands what stood behind it before.
LEMMA JoinThen ==
  \A x, s, r \in Seq(Nat) : \A u, w, y :
    y = Join(x, s) /\ u = Join(s, r) /\ Join(x, u) = w => y \in Seq(Nat) /\ Join(y, r) = w
BY JoinAssoc

\* A text with its length.
LEMMA WithLengthJoins ==
  ASSUME NEW v \in Seq(Nat), NEW w \in Seq(Nat)
  PROVE  /\ WithLength(v) \in Seq(Nat)
         /\ WithLength(v) \o w = Uleb[Len(v)] \o (v \o w)
<1>1. Len(v) \in Nat
  BY ConcatNat
<1>2. Uleb[Len(v)] \in Seq(Nat)
  BY <1>1, UlebType
<1> QED BY <1>2, Assoc, ConcatNat DEF WithLength

\* The footer.
LEMMA FooterIs ==
  ASSUME NEW t \in Transactions
  PROVE  EncodeFooter(t) = AtFooter(t) /\ Len(AtFooter(t)) = TX_FOOTER_LEN
<1> DEFINE a == t.max_gas_amount
           b == t.gas_unit_price
           c == t.expiration_timestamp_secs
           d == t.chain_id
<1>1. a \in Seq(Nat) /\ b \in Seq(Nat) /\ c \in Seq(Nat) /\ d \in Seq(Nat)
  BY FieldsPresent, FieldBytes DEF CallFields
<1>2. EncodeFooter(t) = ((a \o b) \o c) \o d /\ AtFooter(t) = a \o (b \o (c \o (d \o << >>)))
  BY DEF EncodeFooter, AtFooter, AtGasPrice, AtExpiration, AtChain, AtEnd
<1>3. Len(a) = U64_LEN /\ Len(b) = U64_LEN /\ Len(c) = U64_LEN /\ Len(d) = 1
  <2>1. /\ "footer" \in Parts /\ 1 \in 1..Len(Fields["footer"]) /\ 2 \in 1..Len(Fields["footer"])
        /\ 3 \in 1..Len(Fields["footer"]) /\ 4 \in 1..Len(Fields["footer"])
    BY Sizes, PartNames DEF PartSet
  <2>2. /\ Fields["footer"][1].kind = "bytes" /\ Fields["footer"][1].name = "max_gas_amount"
        /\ Fields["footer"][2].kind = "bytes" /\ Fields["footer"][2].name = "gas_unit_price"
        /\ Fields["footer"][3].kind = "bytes" /\ Fields["footer"][3].name = "expiration_timestamp_secs"
        /\ Fields["footer"][4].kind = "bytes" /\ Fields["footer"][4].name = "chain_id"
        /\ Fields["footer"][1].len = U64_LEN /\ Fields["footer"][2].len = U64_LEN
        /\ Fields["footer"][3].len = U64_LEN /\ Fields["footer"][4].len = 1
    BY FieldsOf DEF Footer, Bytes
  <2>3. {"max_gas_amount", "gas_unit_price", "expiration_timestamp_secs", "chain_id"} \subseteq DOMAIN t
    BY FieldsPresent DEF CallFields
  <2> QED BY <2>1, <2>2, <2>3, FixedLength
<1> HIDE DEF a, b, c, d
<1>4. a \o b \in Seq(Nat) /\ c \o d \in Seq(Nat) /\ b \o (c \o d) \in Seq(Nat)
  BY <1>1, ConcatNat
<1>5. d \o << >> = d
  BY <1>1, ConcatEmptySeq
<1>6. ((a \o b) \o c) \o d = (a \o b) \o (c \o d)
  <2> DEFINE e == a \o b
  <2>1. e \in Seq(Nat)
    BY <1>4
  <2> HIDE DEF e
  <2>2. (e \o c) \o d = e \o (c \o d)
    BY <1>1, <2>1, Assoc
  <2> QED BY <2>2 DEF e
<1>7. (a \o b) \o (c \o d) = a \o (b \o (c \o d))
  <2> DEFINE e == c \o d
  <2>1. e \in Seq(Nat)
    BY <1>4
  <2> HIDE DEF e
  <2>2. (a \o b) \o e = a \o (b \o e)
    BY <1>1, <2>1, Assoc
  <2> QED BY <2>2 DEF e
<1>8. Len(a \o (b \o (c \o d))) = U64_LEN + (U64_LEN + (U64_LEN + 1))
  <2>1. Len(c \o d) = U64_LEN + 1
    <3>1. Len(c \o d) = Len(c) + Len(d)
      BY <1>1, ConcatNat
    <3> QED BY <1>3, <3>1
  <2> DEFINE e == c \o d
  <2>2. e \in Seq(Nat) /\ b \o e \in Seq(Nat)
    BY <1>4
  <2>3. Len(b \o e) = U64_LEN + Len(e)
    <3> HIDE DEF e
    <3>1. Len(b \o e) = Len(b) + Len(e)
      BY <1>1, <2>2, ConcatNat
    <3> QED BY <1>3, <3>1
  <2> DEFINE g == b \o e
  <2>4. Len(a \o g) = U64_LEN + Len(g)
    <3>1. g \in Seq(Nat)
      BY <2>2
    <3> HIDE DEF g
    <3>2. Len(a \o g) = Len(a) + Len(g)
      BY <1>1, <3>1, ConcatNat
    <3> QED BY <1>3, <3>2
  <2> QED BY <2>1, <2>3, <2>4
<1>9. U64_LEN + (U64_LEN + (U64_LEN + 1)) = TX_FOOTER_LEN
  BY ParserAssumption DEF TX_FOOTER_LEN
<1> QED BY <1>2, <1>5, <1>6, <1>7, <1>8, <1>9

\* The arguments and what follows them.
LEMMA ArgumentsIs ==
  ASSUME NEW t \in Transactions, t.kind # "call"
  PROVE  EncodeArguments(t) \in Seq(Nat) /\ EncodeArguments(t) \o AtFooter(t) = AtArguments(t)
<1> DEFINE u == Uleb[2]
           r == WithLength(t.receiver)
           a == WithLength(t.amount)
           f == AtFooter(t)
<1>1. EncodeArguments(t) = (u \o r) \o a
  BY DEF EncodeArguments
<1>2. r \in Seq(Nat) /\ a \in Seq(Nat) /\ f \in Seq(Nat) /\ u \in Seq(Nat)
  BY ArgumentRests, FooterRests, WithLengthJoins, UlebType
<1>3. a \o f = AtAmountLen(t)
  BY <1>2, ArgumentRests, WithLengthJoins DEF AtAmountLen, AtAmount
<1>4. r \o AtAmountLen(t) = AtReceiverLen(t)
  BY ArgumentRests, WithLengthJoins DEF AtReceiverLen, AtReceiver
<1>5. u \o AtReceiverLen(t) = AtArguments(t) /\ AtAmountLen(t) \in Seq(Nat)
  BY ArgumentRests DEF AtArguments
<1> HIDE DEF u, r, a, f
<1>6. (u \o r) \o a \in Seq(Nat) /\ u \o r \in Seq(Nat)
  BY <1>2, ConcatNat
<1>7. ((u \o r) \o a) \o f = (u \o r) \o (a \o f)
  <2> DEFINE e == u \o r
  <2>1. e \in Seq(Nat)
    BY <1>6
  <2> HIDE DEF e
  <2>2. (e \o a) \o f = e \o (a \o f)
    BY <1>2, <2>1, Assoc
  <2> QED BY <2>2 DEF e
<1>8. (u \o r) \o AtAmountLen(t) = u \o (r \o AtAmountLen(t))
  BY <1>2, <1>5, Assoc
<1>9. ((u \o r) \o a) \o f = AtArguments(t)
  BY <1>3, <1>4, <1>5, <1>7, <1>8
<1> QED BY <1>1, <1>6, <1>9 DEF f

\* The call and what follows it.
LEMMA CallIs ==
  ASSUME NEW t \in Transactions
  PROVE  EncodeCall(t) \in Seq(Nat) /\ EncodeCall(t) \o AtFooter(t) = AtCall(t)
<1> DEFINE f == AtFooter(t)
           e == EncodeArguments(t)
<1>1. f \in Seq(Nat)
  BY FooterRests
<1>2. CASE t.kind = "call"
  <2>1. t.call \in Seq(Nat) /\ EncodeCall(t) = t.call /\ AtCall(t) = t.call \o AtFooter(t)
    BY <1>2, FieldsPresent, FieldBytes DEF EncodeCall, AtCall
  <2> QED BY <2>1
<1>3. CASE t.kind = "account"
  <2>1. /\ EncodeCall(t) = Uleb[0] \o e /\ AtCall(t) = Uleb[0] \o AtArguments(t)
    BY <1>3 DEF EncodeCall, AtCall
  <2>2. e \in Seq(Nat) /\ e \o f = AtArguments(t) /\ Uleb[0] \in Seq(Nat)
    BY <1>3, ArgumentsIs, UlebType
  <2> HIDE DEF e, f
  <2>3. (Uleb[0] \o e) \o f = Uleb[0] \o (e \o f) /\ Uleb[0] \o e \in Seq(Nat)
    BY <1>1, <2>2, Assoc, ConcatNat
  <2> QED BY <2>1, <2>2, <2>3 DEF f
<1>4. CASE t.kind = "coin"
  <2> DEFINE k == Uleb[1]
             y == Uleb[TYPE_TAG_STRUCT]
             a == t.coin_address
             m == WithLength(t.coin_module)
             n == WithLength(t.coin_name)
             z == Uleb[0]
  <2>1. EncodeCall(t) = Join(Join(Join(Join(Join(Join(k, y), a), m), n), z), e)
    BY <1>4 DEF EncodeCall, Join
  <2>2. e \in Seq(Nat) /\ AtArguments(t) = Join(e, f)
    BY <1>4, ArgumentsIs DEF Join
  <2>3. k \in Seq(Nat) /\ y \in Seq(Nat) /\ a \in Seq(Nat) /\ m \in Seq(Nat) /\ n \in Seq(Nat) /\ z \in Seq(Nat)
    BY <1>4, CoinRests, WithLengthJoins, UlebType DEF TYPE_TAG_STRUCT
  <2>4. /\ Join(k, AtCoinType(t)) = AtCall(t) /\ AtCoinType(t) = Join(y, AtCoinAddress(t))
        /\ AtCoinAddress(t) = Join(a, AtCoinModuleLen(t)) /\ AtCoinTypeArgs(t) = Join(z, AtArguments(t))
    BY <1>4 DEF AtCall, AtCoinType, AtCoinAddress, AtCoinTypeArgs, Join
  <2>5. AtCoinModuleLen(t) = Join(m, AtCoinNameLen(t)) /\ AtCoinNameLen(t) = Join(n, AtCoinTypeArgs(t))
    BY <1>4, CoinRests, WithLengthJoins
    DEF AtCoinModuleLen, AtCoinModule, AtCoinNameLen, AtCoinName, Join
  <2>6. /\ AtCoinModuleLen(t) \in Seq(Nat) /\ AtCoinNameLen(t) \in Seq(Nat) /\ AtCoinTypeArgs(t) \in Seq(Nat)
        /\ AtCoinAddress(t) \in Seq(Nat) /\ AtArguments(t) \in Seq(Nat)
    BY <1>4, CoinRests, ArgumentRests
  <2> HIDE DEF k, y, a, m, n, z, e, f
  <2> DEFINE k1 == Join(k, y)
             k2 == Join(k1, a)
             k3 == Join(k2, m)
             k4 == Join(k3, n)
             k5 == Join(k4, z)
             k6 == Join(k5, e)
  <2>7. /\ k1 = Join(k, y) /\ k2 = Join(k1, a) /\ k3 = Join(k2, m) /\ k4 = Join(k3, n)
        /\ k5 = Join(k4, z) /\ k6 = Join(k5, e)
    OBVIOUS
  <2> HIDE DEF k1, k2, k3, k4, k5, k6
  <2>8. k1 \in Seq(Nat) /\ Join(k1, AtCoinAddress(t)) = AtCall(t)
    BY <2>3, <2>4, <2>5, <2>6, <2>7, JoinThen
  <2>9. k2 \in Seq(Nat) /\ Join(k2, AtCoinModuleLen(t)) = AtCall(t)
    BY <2>3, <2>4, <2>5, <2>6, <2>7, <2>8, JoinThen
  <2>10. k3 \in Seq(Nat) /\ Join(k3, AtCoinNameLen(t)) = AtCall(t)
    BY <2>3, <2>4, <2>5, <2>6, <2>7, <2>9, JoinThen
  <2>11. k4 \in Seq(Nat) /\ Join(k4, AtCoinTypeArgs(t)) = AtCall(t)
    BY <2>3, <2>4, <2>5, <2>6, <2>7, <2>10, JoinThen
  <2>12. k5 \in Seq(Nat) /\ Join(k5, AtArguments(t)) = AtCall(t)
    BY <2>3, <2>4, <2>5, <2>6, <2>7, <2>11, JoinThen
  <2>13. k6 \in Seq(Nat) /\ Join(k6, f) = AtCall(t)
    BY <1>1, <2>2, <2>7, <2>12, JoinThen
  <2>14. EncodeCall(t) = k6
    BY <2>1, <2>7
  <2> QED BY <2>13, <2>14 DEF Join, f
<1> QED BY <1>2, <1>3, <1>4, FieldsPresent

\* The whole.
LEMMA EncodeIs ==
  ASSUME NEW t \in Transactions
  PROVE  /\ Encode(t) = PREFIX_RAW_TX_HASHED \o AtSender(t)
         /\ EncodeFront(t) \in Seq(Nat) /\ Encode(t) = EncodeFront(t) \o AtFooter(t)
         /\ FromFunctionName(t) = AtFunctionName(t) /\ FromModuleName(t) = AtModuleName(t)
         /\ PREFIX_RAW_TX_HASHED \in Seq(Nat)
<1> DEFINE x == PREFIX_RAW_TX_HASHED
           s == t.sender
           q == t.sequence
           v == Uleb[PAYLOAD_ENTRY_FUNCTION]
           a == t.module_address
           m == WithLength(t.module_name)
           n == WithLength(t.function_name)
           c == EncodeCall(t)
           f == AtFooter(t)
<1>1. EncodeFront(t) = Join(Join(Join(Join(Join(Join(Join(x, s), q), v), a), m), n), c)
  BY DEF EncodeFront, Join
<1>2. Encode(t) = EncodeFront(t) \o f
  BY FooterIs DEF Encode
<1>3. c \in Seq(Nat) /\ f \in Seq(Nat) /\ c \o f = AtCall(t) /\ AtCall(t) = Join(c, f)
  BY CallIs, FooterRests DEF Join
<1>4. s \in Seq(Nat) /\ q \in Seq(Nat) /\ v \in Seq(Nat) /\ a \in Seq(Nat) /\ m \in Seq(Nat) /\ n \in Seq(Nat)
  BY FrontRests, WithLengthJoins, UlebType DEF PAYLOAD_ENTRY_FUNCTION
<1>5. x \in Seq(Nat)
  <2> DEFINE B == Byte
  <2>1. x \in Seq(B) /\ B \subseteq Nat
    BY EncoderAssumption, RadixIs DEF Byte
  <2> HIDE DEF B, x
  <2> QED BY <2>1, SeqMonotonic
<1>6. /\ AtSender(t) = Join(s, AtSequence(t)) /\ AtSequence(t) = Join(q, AtPayload(t))
      /\ AtPayload(t) = Join(v, AtModuleAddress(t)) /\ AtModuleAddress(t) = Join(a, AtModuleLen(t))
  BY DEF AtSender, AtSequence, AtPayload, AtModuleAddress, Join
<1>7. AtModuleLen(t) = Join(m, AtFunctionLen(t)) /\ AtFunctionLen(t) = Join(n, AtCall(t))
  BY FrontRests, WithLengthJoins DEF AtModuleLen, AtModuleName, AtFunctionLen, AtFunctionName, Join
<1>8. /\ AtCall(t) \in Seq(Nat) /\ AtFunctionLen(t) \in Seq(Nat) /\ AtModuleLen(t) \in Seq(Nat)
      /\ AtModuleAddress(t) \in Seq(Nat) /\ AtPayload(t) \in Seq(Nat) /\ AtSequence(t) \in Seq(Nat)
  BY FrontRests
<1>9. FromFunctionName(t) = AtFunctionName(t)
  <2> DEFINE w == t.function_name
  <2>1. FromFunctionName(t) = (w \o c) \o f /\ AtFunctionName(t) = w \o AtCall(t) /\ w \in Seq(Nat)
    BY FooterIs, FrontRests DEF FromFunctionName, AtFunctionName
  <2> HIDE DEF w, c, f
  <2>2. (w \o c) \o f = w \o (c \o f)
    BY <1>3, <2>1, Assoc
  <2> QED BY <1>3, <2>1, <2>2
<1>10. FromModuleName(t) = AtModuleName(t)
  <2> DEFINE w == t.module_name
             y == Uleb[Len(t.function_name)]
  <2>1. FromModuleName(t) = (w \o y) \o AtFunctionName(t) /\ AtModuleName(t) = w \o (y \o AtFunctionName(t))
    BY <1>9 DEF FromModuleName, AtModuleName, AtFunctionLen
  <2>2. w \in Seq(Nat) /\ y \in Seq(Nat) /\ AtFunctionName(t) \in Seq(Nat)
    BY FrontRests
  <2> HIDE DEF w, y
  <2> QED BY <2>1, <2>2, Assoc
<1> HIDE DEF x, s, q, v, a, m, n, c, f
<1> DEFINE x1 == Join(x, s)
           x2 == Join(x1, q)
           x3 == Join(x2, v)
           x4 == Join(x3, a)
           x5 == Join(x4, m)
           x6 == Join(x5, n)
           x7 == Join(x6, c)
           W == Join(x, AtSender(t))
<1>11. /\ x1 = Join(x, s) /\ x2 = Join(x1, q) /\ x3 = Join(x2, v) /\ x4 = Join(x3, a)
       /\ x5 = Join(x4, m) /\ x6 = Join(x5, n) /\ x7 = Join(x6, c) /\ W = Join(x, AtSender(t))
  OBVIOUS
<1> HIDE DEF x1, x2, x3, x4, x5, x6, x7, W
<1>12. x1 \in Seq(Nat) /\ Join(x1, AtSequence(t)) = W
  BY <1>4, <1>5, <1>6, <1>7, <1>8, <1>11, JoinThen
<1>13. x2 \in Seq(Nat) /\ Join(x2, AtPayload(t)) = W
  BY <1>4, <1>5, <1>6, <1>7, <1>8, <1>11, <1>12, JoinThen
<1>14. x3 \in Seq(Nat) /\ Join(x3, AtModuleAddress(t)) = W
  BY <1>4, <1>5, <1>6, <1>7, <1>8, <1>11, <1>13, JoinThen
<1>15. x4 \in Seq(Nat) /\ Join(x4, AtModuleLen(t)) = W
  BY <1>4, <1>5, <1>6, <1>7, <1>8, <1>11, <1>14, JoinThen
<1>16. x5 \in Seq(Nat) /\ Join(x5, AtFunctionLen(t)) = W
  BY <1>4, <1>5, <1>6, <1>7, <1>8, <1>11, <1>15, JoinThen
<1>17. x6 \in Seq(Nat) /\ Join(x6, AtCall(t)) = W
  BY <1>4, <1>5, <1>6, <1>7, <1>8, <1>11, <1>16, JoinThen
<1>18. x7 \in Seq(Nat) /\ Join(x7, f) = W
  BY <1>3, <1>11, <1>17, JoinThen
<1>19. EncodeFront(t) = x7
  BY <1>1, <1>11
<1>20. x7 \o f = x \o AtSender(t)
  BY <1>11, <1>18 DEF Join
<1> QED BY <1>2, <1>5, <1>9, <1>10, <1>18, <1>19, <1>20 DEF x, f

-----------------------------------------------------------------------------
(* What is read of an encoding. *)

\* The field was read from the bytes that were written for it.
Accepts(t, p, i) ==
  LET f == Fields[p][i].name
      s == tx[f]
  IN  /\ Ends(s.from, Rest(t, p, i))
      /\ s.to = s.from + Len(Written(t, f))
      /\ f \in Numbers => NumberIn(s) = NumberFor(t, f)

\* What EncodingsAccepted says of one transaction.
AcceptedAs(t) ==
  /\ status = "PARSING_OK"
  /\ Kind[known_type] = t.kind
  /\ \A f \in DOMAIN t \cap FieldNames : SliceBytes(tx[f]) = t[f]

\* The parts that are read are those that were written, what is read next is what
\* was written next, in the front also while the footer is read, what was read is
\* what was written, and in the end it is accepted.
AsWritten(t) ==
  /\ at \in Parts => at \in PartsFor(t) /\ Ends(Cursor.offset, Rest(t, at, next))
  /\ at = "footer" => Ends(buf.offset, AtPayload(t))
  /\ \A p \in Parts : \A i \in 1..Len(Fields[p]) : Passed(p, i) => Accepts(t, p, i)
  /\ Done => AcceptedAs(t)

\* So it is for every transaction whose encoding is read.
AcceptInv == \A t \in Transactions : raw = Encode(t) /\ ~LooksKnown(t) => AsWritten(t)

\* A read of what is in the buffer is allowed.
LEMMA CanRead ==
  ASSUME NEW b \in buffer_t, NEW n \in Nat, b.offset + n <= b.size
  PROVE  buffer_can_read(b, n)
BY SizeModAssumption DEF buffer_can_read, Minus, buffer_t, SizeT

\* What is read of a field, and what stands behind it.
LEMMA FieldAt ==
  ASSUME ParserInv, NEW t \in Transactions, NEW p \in PartsFor(t), NEW i \in 1..Len(Fields[p]),
         NEW o, Ends(o, Rest(t, p, i)), NEW w, w = Written(t, Fields[p][i].name)
  PROVE  /\ o \in Nat /\ Len(w) \in Nat /\ o + Len(w) <= Len(raw)
         /\ Begins(o, w) /\ Piece(o, o + Len(w)) = w
         /\ Ends(o + Len(w), Rest(t, p, i + 1))
<1>1. IsWritten(t, p, i)
  BY AllWritten
<1>2. /\ w \in Seq(Nat) /\ Rest(t, p, i + 1) \in Seq(Nat)
      /\ Rest(t, p, i) = w \o Rest(t, p, i + 1)
  BY <1>1 DEF IsWritten
<1>3. raw \in Seq(Byte)
  BY DEF ParserInv
<1>4. Begins(o, w) /\ Ends(o + Len(w), Rest(t, p, i + 1))
  BY <1>2, <1>3, EndsSplit
<1>5. o \in Nat /\ Len(w) \in Nat /\ o + Len(w) <= Len(raw)
  BY <1>2, <1>4, LenProperties DEF Ends, Begins
<1>6. Piece(o, o + Len(w)) = w
  BY <1>2, <1>3, <1>4, <1>5, BeginsIsPiece
<1> QED BY <1>4, <1>5, <1>6

\* What was read of a field is what was written.
LEMMA AcceptsBytes ==
  ASSUME ParserInv, NEW t \in Transactions, NEW p \in PartsFor(t), NEW i \in 1..Len(Fields[p]),
         Accepts(t, p, i)
  PROVE  SliceBytes(tx[Fields[p][i].name]) = Written(t, Fields[p][i].name)
<1> DEFINE f == Fields[p][i].name
           s == tx[f]
           w == Written(t, f)
<1>1. Ends(s.from, Rest(t, p, i)) /\ s.to = s.from + Len(w)
  BY DEF Accepts
<1>2. Piece(s.from, s.from + Len(w)) = w
  BY <1>1, FieldAt
<1> QED BY <1>1, <1>2 DEF SliceBytes, Piece

\* It stays so while the field does.
LEMMA AcceptsKept ==
  ASSUME NEW t \in Transactions, NEW p \in Parts, NEW i \in 1..Len(Fields[p]), Accepts(t, p, i),
         raw' = raw, tx'[Fields[p][i].name] = tx[Fields[p][i].name]
  PROVE  Accepts(t, p, i)'
<1>1. \A o, k : ValueAt(o, k)' = ValueAt(o, k)
  BY NumbersKept
<1>2. NumberIn(tx[Fields[p][i].name])' = NumberIn(tx[Fields[p][i].name])
  BY <1>1 DEF NumberIn
<1> QED BY <1>2 DEF Accepts, Ends

\* Taking what was written for a field.
LEMMA TookWritten ==
  ASSUME ParserInv, NEW t \in Transactions, AsWritten(t), Reading, NEW n \in Nat,
         n = Len(Written(t, Field.name)), Took(n), NextField, raw' = raw,
         Field.kind = "number" => ValueAt(Cursor.offset, n) = NumberFor(t, Field.name)
  PROVE  AsWritten(t)'
<1> DEFINE o == Cursor.offset
           f == Field.name
           z == PlaceIn(at, next)
<1>1. at \in PartsFor(t) /\ at \in Parts /\ next \in 1..Len(Fields[at]) /\ at # "done"
  BY PartNames DEF Reading, ParserInv, PartSet, AsWritten
<1>2. Ends(o, Rest(t, at, next)) /\ Field = Fields[at][next]
  BY <1>1 DEF AsWritten, Field
<1>3. /\ o \in Nat /\ o + n <= Len(raw)
      /\ Ends(o + n, Rest(t, at, next + 1))
  BY <1>1, <1>2, FieldAt
<1>4. at' = at /\ next' = next + 1
  BY DEF NextField
<1>5. \A g \in FieldNames : Place[g] < z => tx'[g] = tx[g]
  BY <1>3, TookKeeps
<1>6. /\ at = "footer" => buf' = buf
      /\ at # "footer" => buf'.offset = buf.offset + n
      /\ f \in FieldNames
      /\ tx' = [tx EXCEPT ![f] = Slice(o, o + n)]
  BY <1>3, TookMoves
<1>7. at = "footer" => buf_footer'.offset = buf_footer.offset + n
  <2> SUFFICES ASSUME at = "footer" PROVE buf_footer'.offset = buf_footer.offset + n
    OBVIOUS
  <2>1. buf_footer \in buffer_t /\ buf_footer.offset + n <= buf_footer.size
    BY <1>3 DEF Cursor, ParserInv, OverRaw
  <2>2. buf_footer' = buffer_seek_cur(buf_footer, n)
    BY DEF Took
  <2>3. buf_footer' = [buf_footer EXCEPT !.offset = buf_footer.offset + n]
    BY <2>1, <2>2, SeekCurMoves
  <2> QED BY <2>1, <2>3 DEF buffer_t
<1>8. Cursor.offset' = o + n
  BY <1>4, <1>6, <1>7 DEF Cursor
<1>9. Ends(Cursor.offset, Rest(t, at, next))'
  <2>1. Rest(t, at, next)' = Rest(t, at, next + 1)
    BY <1>4 DEF Rest, Rests
  <2> QED BY <1>3, <1>8, <2>1 DEF Ends
<1>10. (at = "footer")' => Ends(buf.offset, AtPayload(t))'
  BY <1>4, <1>6 DEF AsWritten, Ends
<1>11. ASSUME NEW p \in Parts, NEW i \in 1..Len(Fields[p]), Passed(p, i)
       PROVE  Accepts(t, p, i)'
  <2>1. Accepts(t, p, i)
    BY <1>11 DEF AsWritten
  <2>2. PlaceIn(p, i) < z
    BY <1>11, PassedBefore
  <2>3. Fields[p][i].name \in FieldNames /\ Place[Fields[p][i].name] < z
    BY <2>2, FieldIs, Places
  <2>4. tx'[Fields[p][i].name] = tx[Fields[p][i].name]
    BY <1>5, <2>3
  <2> QED BY <2>1, <2>4, AcceptsKept
<1>12. ASSUME NEW p \in Parts, NEW i \in 1..Len(Fields[p]), p = at, i = next
       PROVE  Accepts(t, p, i)'
  <2> DEFINE g == Fields[p][i].name
  <2>1. g = f /\ Field = Fields[p][i]
    BY <1>2, <1>12
  <2>2. tx'[g].from = o /\ tx'[g].to = o + n
    BY <1>6, <2>1 DEF ParserInv, Slice
  <2>3. NumberIn(tx[g])' = ValueAt(o, n)
    <3>1. \A u, k : ValueAt(u, k)' = ValueAt(u, k)
      BY NumbersKept
    <3>2. tx'[g].to - tx'[g].from = n
      BY <1>3, <2>2
    <3>3. NumberIn(tx[g])' = ValueAt(tx'[g].from, tx'[g].to - tx'[g].from)
      BY <3>1 DEF NumberIn
    <3> QED BY <2>2, <3>2, <3>3
  <2>4. g \in Numbers => NumberIn(tx[g])' = NumberFor(t, g)
    <3>1. g \in Numbers => Field.kind = "number"
      BY <2>1, FieldIs
    <3> QED BY <2>1, <2>3, <3>1
  <2>5. tx'[g].to = tx'[g].from + Len(Written(t, g))
    BY <2>1, <2>2
  <2>6. Ends(tx[g].from, Rest(t, p, i))'
    <3>1. Ends(o, Rest(t, p, i))
      BY <1>2, <1>12
    <3> QED BY <2>2, <3>1 DEF Ends
  <2> QED BY <2>4, <2>5, <2>6 DEF Accepts
<1>13. ASSUME NEW p \in Parts, NEW i \in 1..Len(Fields[p]), Passed(p, i)'
       PROVE  Accepts(t, p, i)'
  <2>1. Passed(p, i) \/ (p = at /\ i = next)
    BY <1>1, <1>4, <1>13 DEF Passed
  <2> QED BY <1>11, <1>12, <2>1
<1> QED BY <1>1, <1>4, <1>9, <1>10, <1>13 DEF AsWritten, Done

-----------------------------------------------------------------------------
(* The steps that read a field. *)

\* What is known of the encoding when a field is read.
LEMMA ReadingWritten ==
  ASSUME ParserInv, NEW t \in Transactions, AsWritten(t), Reading
  PROVE  LET w == Written(t, Field.name) IN
         /\ at \in PartsFor(t) /\ next \in 1..Len(Fields[at])
         /\ IsWritten(t, at, next) /\ Field = Fields[at][next]
         /\ Ends(Cursor.offset, Rest(t, at, next))
         /\ Cursor.offset \in Nat /\ Len(w) \in Nat /\ Cursor.offset + Len(w) <= Len(raw)
         /\ Begins(Cursor.offset, w)
<1> DEFINE w == Written(t, Field.name)
<1>1. at \in PartsFor(t) /\ next \in 1..Len(Fields[at])
  BY DEF Reading, ParserInv, AsWritten
<1>2. Ends(Cursor.offset, Rest(t, at, next)) /\ Field = Fields[at][next]
  BY DEF Reading, AsWritten, Field
<1>3. IsWritten(t, at, next)
  BY <1>1, AllWritten
<1>4. /\ Cursor.offset \in Nat /\ Len(w) \in Nat /\ Cursor.offset + Len(w) <= Len(raw)
      /\ Begins(Cursor.offset, w)
  BY <1>1, <1>2, FieldAt
<1> QED BY <1>1, <1>2, <1>3, <1>4

\* read_bytes reads as many bytes as were written.
LEMMA ReadBytesWritten ==
  ASSUME ParserInv, NEW t \in Transactions, AsWritten(t), read_bytes
  PROVE  AsWritten(t)'
<1> DEFINE w == Written(t, Field.name)
           n == Len(w)
<1>1. Reading /\ Field.kind \in {"bytes", "text"} /\ raw' = raw
  BY DEF read_bytes
<1>2. /\ at \in PartsFor(t) /\ at \in Parts /\ next \in 1..Len(Fields[at])
      /\ IsWritten(t, at, next) /\ Field = Fields[at][next]
      /\ Cursor.offset \in Nat /\ n \in Nat /\ Cursor.offset + n <= Len(raw)
  BY <1>1, ReadingWritten DEF Reading
<1>3. FieldLen = n
  <2>1. CASE Field.kind = "bytes"
    BY <1>2, <2>1 DEF FieldLen, IsWritten
  <2>2. CASE Field.kind = "text"
    <3>1. n = NumberFor(t, Field.of) /\ FieldLen = NumberIn(tx[Field.of])
      BY <1>2, <2>2 DEF FieldLen, IsWritten
    <3>2. next > 1 /\ Field.of = Fields[at][next - 1].name
      BY <1>2, <2>2, LengthBefore
    <3>3. next - 1 \in 1..Len(Fields[at])
      BY <1>2, <3>2
    <3>4. Passed(at, next - 1)
      BY <1>2, <3>2 DEF Passed
    <3>5. Accepts(t, at, next - 1)
      BY <1>2, <3>3, <3>4 DEF AsWritten
    <3>6. Field.of \in Numbers
      BY <1>2, <2>2 DEF IsWritten
    <3> QED BY <3>1, <3>2, <3>5, <3>6 DEF Accepts
  <2> QED BY <1>1, <2>1, <2>2
<1>4. Fits(n)
  <2>1. OverRaw(Cursor)
    BY DEF Cursor, ParserInv
  <2> QED BY <1>2, <2>1, CanRead DEF Fits, OverRaw
<1>5. Took(n) /\ NextField
  BY <1>3, <1>4 DEF read_bytes
<1>6. Field.kind # "number"
  BY <1>1
<1> QED BY <1>1, <1>2, <1>5, <1>6, TookWritten

\* read_number reads the number that was written.
LEMMA ReadNumberWritten ==
  ASSUME ParserInv, NEW t \in Transactions, AsWritten(t), read_number
  PROVE  AsWritten(t)'
<1> DEFINE w == Written(t, Field.name)
           n == Len(w)
           o == Cursor.offset
           m == NumberFor(t, Field.name)
<1>1. Reading /\ Field.kind = "number" /\ raw' = raw
  BY DEF read_number
<1>2. /\ at \in PartsFor(t) /\ next \in 1..Len(Fields[at])
      /\ IsWritten(t, at, next) /\ Field = Fields[at][next]
      /\ o \in Nat /\ n \in Nat /\ Begins(o, w)
  BY <1>1, ReadingWritten
<1>3. m \in 0..UINT32_MAX /\ m \in Field.values /\ w = Uleb[m]
  BY <1>1, <1>2 DEF IsWritten
<1>4. raw \in Seq(Byte)
  BY DEF ParserInv
<1>5. /\ n \in 1..MaxGroups /\ IsNumber(o, n) /\ ValueAt(o, n) = m
      /\ \A j \in 1..MaxGroups : IsNumber(o, j) => j = n
  BY <1>2, <1>3, <1>4, UlebRead
<1> HIDE DEF n, w, o, m
<1>6. Took(n) /\ NextField
  <2>1. PICK k \in 1..MaxGroups :
          /\ IsNumber(o, k) /\ Took(k)
          /\ IF ValueAt(o, k) \in Field.values THEN NextField ELSE Return(Field.unexpected)
    BY <1>5 DEF read_number, o
  <2>2. k = n
    BY <1>5, <2>1
  <2> QED BY <1>3, <1>5, <2>1, <2>2
<1>7. n \in Nat /\ n = Len(Written(t, Field.name))
      /\ ValueAt(Cursor.offset, n) = NumberFor(t, Field.name)
  BY <1>2, <1>5 DEF n, w, o, m
<1> QED BY <1>1, <1>6, <1>7, TookWritten

\* What a transaction's fields are not.
LEMMA NotFields == "kind" \notin FieldNames /\ "call" \notin FieldNames
<1> SUFFICES ASSUME NEW p \in Parts, NEW i \in DOMAIN Fields[p]
             PROVE  Fields[p][i].name \notin {"kind", "call"}
  BY DEF FieldNames, NamesOf
<1>1. TableOK(Fields[p], Names[p])
  BY Tables
<1>2. i \in 1..Len(Fields[p]) /\ Fields[p][i].name = Names[p][i]
  BY <1>1 DEF TableOK, FieldOK
<1>3. CASE p = "raw"
  BY <1>2, <1>3, Sizes DEF Names
<1>4. CASE p = "footer"
  BY <1>2, <1>4, Sizes DEF Names
<1>5. CASE p = "payload"
  BY <1>2, <1>5, Sizes DEF Names
<1>6. CASE p = "entry_function"
  BY <1>2, <1>6, Sizes DEF Names
<1>7. CASE p = "account_transfer"
  BY <1>2, <1>7, Sizes DEF Names
<1>8. CASE p = "coin_transfer"
  BY <1>2, <1>8, Sizes DEF Names
<1> QED BY <1>3, <1>4, <1>5, <1>6, <1>7, <1>8, PartNames DEF PartSet

\* Where each field of a transaction is read.
LEMMA FieldHome ==
  ASSUME NEW t \in Transactions, NEW f \in DOMAIN t \ {"kind", "call"}
  PROVE  \E p \in PartsFor(t) : \E i \in 1..Len(Fields[p]) :
           Fields[p][i].name = f /\ Written(t, f) = t[f]
<1>1. /\ Fields["raw"][1].name = "sender" /\ Fields["raw"][2].name = "sequence"
      /\ Fields["footer"][1].name = "max_gas_amount" /\ Fields["footer"][2].name = "gas_unit_price"
      /\ Fields["footer"][3].name = "expiration_timestamp_secs"
      /\ Fields["footer"][4].name = "chain_id"
      /\ Fields["entry_function"][1].name = "module_address"
      /\ Fields["entry_function"][3].name = "module_name"
      /\ Fields["entry_function"][5].name = "function_name"
  BY FieldsOf DEF Raw, Footer, EntryFunction, Bytes, Text
<1>2. Arguments[3].name = "receiver" /\ Arguments[5].name = "amount"
  BY DEF Arguments, Bytes
<1>3. Fields["account_transfer"][4].name = "receiver" /\ Fields["account_transfer"][6].name = "amount"
  BY <1>2, FieldsOf, AccountFields
<1>4. /\ Fields["coin_transfer"][11].name = "receiver" /\ Fields["coin_transfer"][13].name = "amount"
  BY <1>2, FieldsOf, CoinFields
<1>5. /\ Fields["coin_transfer"][3].name = "coin_address"
      /\ Fields["coin_transfer"][5].name = "coin_module" /\ Fields["coin_transfer"][7].name = "coin_name"
  <2>1. /\ Fields["coin_transfer"][3] = CoinType[3] /\ Fields["coin_transfer"][5] = CoinType[5]
        /\ Fields["coin_transfer"][7] = CoinType[7]
    BY FieldsOf, CoinFields
  <2> QED BY <2>1 DEF CoinType, Bytes, Text
<1>6. /\ {"raw", "footer", "entry_function"} \subseteq PartsFor(t)
      /\ t.kind = "account" => "account_transfer" \in PartsFor(t)
      /\ t.kind = "coin" => "coin_transfer" \in PartsFor(t)
  BY DEF PartsFor
<1>7. CASE f \in CallFields
  <2>1. Written(t, f) = t[f]
    BY <1>7 DEF CallFields, Written, Numbers
  <2>2. CASE f \in {"sender", "sequence"}
    BY <1>1, <1>6, <2>1, <2>2, Sizes
  <2>3. CASE f \in {"max_gas_amount", "gas_unit_price", "expiration_timestamp_secs", "chain_id"}
    BY <1>1, <1>6, <2>1, <2>3, Sizes
  <2>4. CASE f \in {"module_address", "module_name", "function_name"}
    BY <1>1, <1>6, <2>1, <2>4, Sizes
  <2> QED BY <1>7, <2>2, <2>3, <2>4 DEF CallFields
<1>8. CASE f \notin CallFields /\ t.kind = "account"
  <2>1. f \in {"receiver", "amount"}
    BY <1>8, FieldsPresent
  <2>2. Written(t, f) = t[f]
    BY <2>1 DEF Written, Numbers
  <2> QED BY <1>3, <1>6, <1>8, <2>1, <2>2, Sizes
<1>9. CASE f \notin CallFields /\ t.kind = "coin"
  <2>1. f \in {"coin_address", "coin_module", "coin_name", "receiver", "amount"}
    BY <1>9, FieldsPresent
  <2>2. Written(t, f) = t[f]
    BY <2>1 DEF Written, Numbers
  <2>3. CASE f \in {"receiver", "amount"}
    BY <1>4, <1>6, <1>9, <2>2, <2>3, Sizes
  <2>4. CASE f \in {"coin_address", "coin_module", "coin_name"}
    BY <1>5, <1>6, <1>9, <2>2, <2>4, Sizes
  <2> QED BY <2>1, <2>3, <2>4
<1>10. f \notin CallFields => t.kind # "call"
  BY FieldsPresent
<1> QED BY <1>7, <1>8, <1>9, <1>10, FieldsPresent

\* A transaction of which all parts were read has been read.
LEMMA FieldsAccepted ==
  ASSUME ParserInv, NEW t \in Transactions,
         \A p \in PartsFor(t) : \A i \in 1..Len(Fields[p]) : Accepts(t, p, i)
  PROVE  \A f \in DOMAIN t \cap FieldNames : SliceBytes(tx[f]) = t[f]
<1> SUFFICES ASSUME NEW f \in DOMAIN t \cap FieldNames PROVE SliceBytes(tx[f]) = t[f]
  OBVIOUS
<1>1. f \in DOMAIN t \ {"kind", "call"}
  BY NotFields
<1>2. PICK p \in PartsFor(t) : \E i \in 1..Len(Fields[p]) :
        Fields[p][i].name = f /\ Written(t, f) = t[f]
  BY <1>1, FieldHome
<1>3. PICK i \in 1..Len(Fields[p]) : Fields[p][i].name = f /\ Written(t, f) = t[f]
  BY <1>2
<1> QED BY <1>3, AcceptsBytes

\* The parsing ends with the last part.
LEMMA EndWritten ==
  ASSUME ParserInv, NEW t \in Transactions, AsWritten(t), at \in Parts, End(at),
         \A p \in PartsFor(t) \ {at} : Rank[p] < Rank[at],
         UNCHANGED <<raw, tx>>, Return("PARSING_OK"), Kind[known_type'] = t.kind
  PROVE  AsWritten(t)'
<1>1. at' = "done" /\ "done" \notin Parts /\ status' = "PARSING_OK"
  BY PartNames DEF Return, PartSet
<1>2. ASSUME NEW p \in PartsFor(t), NEW i \in 1..Len(Fields[p])
      PROVE  Accepts(t, p, i)
  <2>1. p \in Parts
    BY AllWritten
  <2>2. p = at => i < next
    BY DEF End, ParserInv
  <2>3. Passed(p, i)
    BY <1>2, <2>2 DEF Passed
  <2> QED BY <2>1, <2>3 DEF AsWritten
<1>3. \A f \in DOMAIN t \cap FieldNames : SliceBytes(tx[f]) = t[f]
  BY <1>2, FieldsAccepted
<1>4. \A f : SliceBytes(tx[f])' = SliceBytes(tx[f])
  BY DEF SliceBytes
<1>5. AcceptedAs(t)'
  BY <1>1, <1>3, <1>4 DEF AcceptedAs
<1>6. at' \notin Parts /\ at' # "footer"
  BY <1>1
<1> QED BY <1>5, <1>6 DEF AsWritten, Passed

\* The next part begins with what is written for it.
LEMMA EnterWritten ==
  ASSUME ParserInv, NEW t \in Transactions, AsWritten(t), at \in Parts, End(at),
         NEW q \in PartsFor(t), Rank[q] = Rank[at] + 1, Enter(q), raw' = raw,
         NEW z \in {8, 13}, z = 8 => at = "payload",
         \A f \in FieldNames : Place[f] < z => tx'[f] = tx[f],
         Ends(Cursor.offset', Rest(t, q, 1)),
         q = "footer" => Ends(buf'.offset, AtPayload(t))
  PROVE  AsWritten(t)'
<1>1. at' = q /\ next' = 1 /\ q # "done" /\ q \in Parts
  BY PartNames DEF Enter, PartsFor, PartSet
<1>2. ASSUME NEW p \in Parts, NEW i \in 1..Len(Fields[p]), Passed(p, i)'
      PROVE  Accepts(t, p, i)'
  <2>1. Passed(p, i) /\ PlaceIn(p, i) < z
    BY <1>1, <1>2, EnterPassed
  <2>2. Accepts(t, p, i)
    BY <2>1 DEF AsWritten
  <2>3. Fields[p][i].name \in FieldNames /\ Place[Fields[p][i].name] < z
    BY <2>1, FieldIs, Places
  <2> QED BY <2>2, <2>3, AcceptsKept
<1>3. Ends(Cursor.offset, Rest(t, at, next))'
  <2>1. Rest(t, at, next)' = Rest(t, q, 1)
    BY <1>1 DEF Rest, Rests
  <2> QED BY <2>1 DEF Ends
<1>4. q = "footer" => Ends(buf.offset, AtPayload(t))'
  BY DEF Ends
<1> QED BY <1>1, <1>2, <1>3, <1>4 DEF AsWritten, Done

\* What is read at the end of a part.
LEMMA EndsAt ==
  ASSUME ParserInv, NEW t \in Transactions, AsWritten(t), NEW p \in Parts, End(p)
  PROVE  /\ at = p /\ p \in PartsFor(t) /\ next = Len(Fields[p]) + 1
         /\ Ends(Cursor.offset, Rest(t, p, next))
BY Sizes, PartNames DEF End, ParserInv, AsWritten, PartSet

-----------------------------------------------------------------------------
(* The steps from one part to the next. *)

\* An encoding is no longer than what is parsed, and begins with the prefix.
LEMMA EncodingBegins ==
  ASSUME ParserInv, NEW t \in Transactions, raw = Encode(t)
  PROVE  /\ Len(raw) <= MAX_TX_LEN /\ TX_HASHED_PREFIX_LEN <= Len(raw)
         /\ SubSeq(raw, 1, TX_HASHED_PREFIX_LEN) = PREFIX_RAW_TX_HASHED
         /\ Ends(TX_HASHED_PREFIX_LEN, AtSender(t))
<1> DEFINE x == PREFIX_RAW_TX_HASHED
           n == Len(x)
<1>1. x \in Seq(Nat) /\ raw = x \o AtSender(t) /\ AtSender(t) \in Seq(Nat)
  BY EncodeIs, FrontRests
<1>2. raw \in Seq(Byte) /\ n \in Nat /\ n = TX_HASHED_PREFIX_LEN /\ Len(raw) \in Nat
  BY <1>1, EncoderAssumption, ParserAssumption DEF ParserInv, SizeT
<1>3. Ends(0, raw)
  BY <1>2 DEF Ends
<1>4. Begins(0, x) /\ Ends(0 + n, AtSender(t))
  <2> HIDE DEF x
  <2> QED BY <1>1, <1>2, <1>3, EndsSplit DEF n
<1>5. Piece(0, 0 + n) = x /\ 0 + n = TX_HASHED_PREFIX_LEN
  BY <1>1, <1>2, <1>4, BeginsIsPiece
<1>6. 0 + n <= Len(raw)
  BY <1>4 DEF Begins
<1>7. Len(Encode(t)) <= MAX_TX_LEN
  BY TransactionsAssumption DEF WellFormed
<1>8. Piece(0, 0 + n) = SubSeq(raw, 1, TX_HASHED_PREFIX_LEN)
  BY <1>5 DEF Piece
<1> QED BY <1>4, <1>5, <1>6, <1>7, <1>8

\* It ends with the footer.
LEMMA EncodingEnds ==
  ASSUME ParserInv, NEW t \in Transactions, raw = Encode(t)
  PROVE  TX_FOOTER_LEN \in Nat /\ Ends(Len(raw) - TX_FOOTER_LEN, AtFooter(t))
<1> DEFINE x == EncodeFront(t)
           f == AtFooter(t)
<1>1. x \in Seq(Nat) /\ raw = x \o f /\ f \in Seq(Nat) /\ Len(f) = TX_FOOTER_LEN
  BY EncodeIs, FooterRests, FooterIs
<1>2. raw \in Seq(Byte) /\ Len(raw) \in Nat
  BY DEF ParserInv, SizeT
<1>3. Ends(0, raw)
  BY <1>2 DEF Ends
<1> HIDE DEF x, f
<1>4. Ends(0 + Len(x), f) /\ Len(x) \in Nat /\ Len(f) \in Nat
  BY <1>1, <1>2, <1>3, EndsSplit, LenProperties
<1>5. 0 + Len(x) = Len(raw) - TX_FOOTER_LEN
  BY <1>1, <1>2, <1>4 DEF Ends
<1> QED BY <1>1, <1>4, <1>5 DEF f

\* transaction_deserialize enters the front of an encoding.
LEMMA DeserializeWritten ==
  ASSUME ParserInv, NEW t \in Transactions, raw = Encode(t), transaction_deserialize
  PROVE  AsWritten(t)'
<1> DEFINE n == TX_HASHED_PREFIX_LEN
<1>1. /\ at = "start" /\ raw' = raw /\ buf.offset = 0 /\ OverRaw(buf)
  BY DEF transaction_deserialize, ParserInv
<1>2. /\ Len(raw) <= MAX_TX_LEN /\ n <= Len(raw) /\ SubSeq(raw, 1, n) = PREFIX_RAW_TX_HASHED
      /\ Ends(n, AtSender(t))
  BY EncodingBegins
<1>3. n \in Nat /\ buf \in buffer_t /\ buf.offset <= buf.size /\ buf.offset + n <= buf.size
  BY <1>1, <1>2, ParserAssumption DEF OverRaw, SizeT
<1>4. buffer_can_read(buf, n)
  BY <1>3, CanRead
<1>5. StartsWith(PREFIX_RAW_TX_HASHED) /\ ~StartsWith(PREFIX_RAW_TX_WITH_DATA_HASHED)
  BY <1>2, <1>4, EncoderAssumption DEF StartsWith
<1>6. ~(Len(raw) > MAX_TX_LEN)
  BY <1>2, ParserAssumption DEF ParserInv, SizeT
<1>7. Enter("raw") /\ buf' = buffer_seek_cur(buf, n)
  BY <1>5, <1>6 DEF transaction_deserialize
<1>8. buf'.offset = n
  BY <1>1, <1>3, <1>7, SeekCurMoves DEF buffer_t
<1>9. at' = "raw" /\ next' = 1 /\ "raw" \in PartsFor(t)
  BY <1>7 DEF Enter, PartsFor
<1>10. Ends(Cursor.offset, Rest(t, at, next))'
  <2>1. Rest(t, at, next)' = AtSender(t)
    BY <1>9 DEF Rest, Rests
  <2>2. Cursor.offset' = n
    BY <1>8, <1>9 DEF Cursor
  <2> QED BY <1>1, <1>2, <2>1, <2>2 DEF Ends
<1>11. \A p \in Parts : \A i \in 1..Len(Fields[p]) : ~Passed(p, i)'
  <2> SUFFICES ASSUME NEW p \in Parts, NEW i \in 1..Len(Fields[p]) PROVE ~Passed(p, i)'
    OBVIOUS
  <2>1. ~(Rank[p] < Rank["raw"])
    BY PartNames DEF PartSet, Rank
  <2> QED BY <1>9, <2>1 DEF Passed
<1> QED BY <1>9, <1>10, <1>11 DEF AsWritten, Done

\* The footer of an encoding begins where the other cursor is put.
LEMMA EndRawWritten ==
  ASSUME ParserInv, NEW t \in Transactions, raw = Encode(t), AsWritten(t), end_raw
  PROVE  AsWritten(t)'
<1>1. /\ End("raw") /\ at = "raw" /\ "raw" \in Parts /\ Enter("footer")
      /\ UNCHANGED <<raw, buf, tx, variant, known_type>>
  BY PartNames DEF end_raw, End, PartSet
<1>2. "footer" \in PartsFor(t) /\ Rank["footer"] = Rank[at] + 1 /\ at' = "footer"
  BY <1>1 DEF PartsFor, Rank, Enter
<1>3. Ends(buf.offset, AtPayload(t))
  <2>1. Ends(Cursor.offset, Rest(t, "raw", next)) /\ next = 3
    <3>1. Ends(Cursor.offset, Rest(t, "raw", next)) /\ next = Len(Fields["raw"]) + 1
      BY <1>1, EndsAt
    <3> QED BY <3>1, Sizes
  <2>2. Rest(t, "raw", 3) = AtPayload(t)
    BY DEF Rest, Rests
  <2> QED BY <1>1, <2>1, <2>2 DEF Cursor
<1>4. Ends(Cursor.offset', Rest(t, "footer", 1))
  <2>1. buf_footer' = [buf EXCEPT !.offset = FooterBegin] /\ FooterBegin = Len(raw) - TX_FOOTER_LEN
    BY <1>1, FooterBeginInBuffer DEF end_raw
  <2>2. buf \in buffer_t
    BY DEF ParserInv, OverRaw
  <2>3. Cursor.offset' = Len(raw) - TX_FOOTER_LEN
    BY <1>2, <2>1, <2>2 DEF Cursor, buffer_t
  <2>4. Rest(t, "footer", 1) = AtFooter(t)
    BY DEF Rest, Rests
  <2> QED BY <2>3, <2>4, EncodingEnds
<1>5. Ends(buf'.offset, AtPayload(t))
  BY <1>1, <1>3
<1> QED BY <1>1, <1>2, <1>4, <1>5, EnterWritten

\* The payload is what was written behind the sequence number.
LEMMA EndFooterWritten ==
  ASSUME ParserInv, NEW t \in Transactions, AsWritten(t), end_footer
  PROVE  AsWritten(t)'
<1>1. /\ End("footer") /\ at = "footer" /\ at \in Parts /\ Enter("payload")
      /\ UNCHANGED <<raw, buf, buf_footer, tx, variant, known_type>>
  BY PartNames DEF end_footer, End, PartSet
<1>2. "payload" \in PartsFor(t) /\ Rank["payload"] = Rank[at] + 1 /\ at' = "payload"
  BY <1>1 DEF PartsFor, Rank, Enter
<1>3. Ends(Cursor.offset', Rest(t, "payload", 1))
  <2>1. Rest(t, "payload", 1) = AtPayload(t) /\ Cursor.offset' = buf.offset
    BY <1>1, <1>2 DEF Rest, Rests, Cursor
  <2> QED BY <1>1, <2>1 DEF AsWritten
<1> QED BY <1>1, <1>2, <1>3, EnterWritten

\* The payload is an entry function, which is read next.
LEMMA EndPayloadWritten ==
  ASSUME ParserInv, NEW t \in Transactions, AsWritten(t), end_payload
  PROVE  AsWritten(t)'
<1>1. /\ End("payload") /\ at = "payload" /\ at \in Parts
      /\ UNCHANGED <<raw, buf, buf_footer, variant>>
  BY PartNames DEF end_payload, End, PartSet
<1>2. next = 2 /\ Ends(Cursor.offset, Rest(t, "payload", 2)) /\ 1 \in 1..Len(Fields["payload"])
  <2>1. Ends(Cursor.offset, Rest(t, "payload", next)) /\ next = Len(Fields["payload"]) + 1
    BY <1>1, EndsAt
  <2> QED BY <2>1, Sizes
<1>3. Accepts(t, "payload", 1)
  <2>1. Passed("payload", 1)
    BY <1>1, <1>2 DEF Passed
  <2> QED BY <1>1, <1>2, <2>1 DEF AsWritten
<1>4. NumberIn(tx["payload_variant"]) = PAYLOAD_ENTRY_FUNCTION
  <2>1. Fields["payload"][1].name = "payload_variant"
    BY FieldsOf DEF Payload, Number
  <2>2. "payload_variant" \in Numbers /\ NumberFor(t, "payload_variant") = PAYLOAD_ENTRY_FUNCTION
    BY DEF Numbers, NumberFor
  <2> QED BY <1>3, <2>1, <2>2 DEF Accepts
<1>5. Enter("entry_function") /\ tx' = entry_function_payload_init
  BY <1>4 DEF end_payload
<1>6. \A f \in FieldNames : Place[f] < 8 => tx'[f] = tx[f]
  BY <1>5, EntryReset
<1>7. "entry_function" \in PartsFor(t) /\ Rank["entry_function"] = Rank[at] + 1
      /\ at' = "entry_function"
  BY <1>1, <1>5 DEF PartsFor, Rank, Enter
<1>8. Ends(Cursor.offset', Rest(t, "entry_function", 1))
  <2>1. Rest(t, "entry_function", 1) = Rest(t, "payload", 2)
    BY DEF Rest, Rests
  <2>2. Cursor.offset' = Cursor.offset
    BY <1>1, <1>7 DEF Cursor
  <2> QED BY <1>2, <2>1, <2>2
<1> QED BY <1>1, <1>5, <1>6, <1>7, <1>8, EnterWritten

\* What is compared with a known name are the bytes from where the name was read on.
LEMMA SameIsPrefix ==
  ASSUME raw \in Seq(Byte), NEW s, NEW w \in Seq(Nat), NEW name \in Seq(Byte), Ends(s.from, w)
  PROVE  SameBytes(s, name) <=> IsPrefix(name, w)
<1> DEFINE n == Len(name)
<1>1. /\ s.from \in Nat /\ n \in Nat /\ Len(w) \in Nat /\ Len(raw) \in Nat
      /\ s.from + Len(w) = Len(raw) /\ \A j \in 1..Len(w) : raw[s.from + j] = w[j]
  BY LenProperties DEF Ends
<1>2. s.from + n <= Len(raw) <=> n <= Len(w)
  BY <1>1
<1>3. ASSUME n <= Len(w) PROVE SubSeq(raw, s.from + 1, s.from + n) = SubSeq(w, 1, n)
  <2> DEFINE a == SubSeq(raw, s.from + 1, s.from + n)
             b == SubSeq(w, 1, n)
  <2>1. a \in Seq(Byte) /\ Len(a) = n /\ \A j \in 1..n : a[j] = raw[s.from + j]
    <3>1. \A i \in (s.from + 1)..(s.from + n) : raw[i] \in Byte
      BY <1>1, <1>3
    <3>2. s.from + 1 \in Int /\ s.from + n \in Int
      BY <1>1
    <3>3. /\ a \in Seq(Byte)
          /\ Len(a) = IF s.from + 1 <= s.from + n THEN (s.from + n) - (s.from + 1) + 1 ELSE 0
          /\ \A i \in 1..((s.from + n) - (s.from + 1) + 1) : a[i] = raw[(s.from + 1) + i - 1]
      BY <3>1, <3>2, SubSeqProperties
    <3> DEFINE o == s.from
    <3>4. o \in Nat /\ n \in Nat
      BY <1>1
    <3>5. /\ Len(a) = IF o + 1 <= o + n THEN (o + n) - (o + 1) + 1 ELSE 0
          /\ \A i \in 1..((o + n) - (o + 1) + 1) : a[i] = raw[(o + 1) + i - 1]
      BY <3>3
    <3> HIDE DEF a, o, n
    <3>6. Len(a) = n
      BY <3>4, <3>5
    <3>7. \A j \in 1..n : a[j] = raw[o + j]
      <4> TAKE j \in 1..n
      <4>1. (o + n) - (o + 1) + 1 = n /\ (o + 1) + j - 1 = o + j
        BY <3>4
      <4> QED BY <3>5, <4>1
    <3> QED BY <3>3, <3>6, <3>7 DEF o
  <2>2. b \in Seq(Nat) /\ Len(b) = n /\ \A j \in 1..n : b[j] = w[j]
    <3>1. \A i \in 1..n : w[i] \in Nat
      BY <1>1, <1>3
    <3>2. 1 \in Int /\ n \in Int
      BY <1>1
    <3>3. /\ b \in Seq(Nat) /\ Len(b) = IF 1 <= n THEN n - 1 + 1 ELSE 0
          /\ \A i \in 1..(n - 1 + 1) : b[i] = w[1 + i - 1]
      BY <3>1, <3>2, SubSeqProperties
    <3> HIDE DEF b
    <3> QED BY <1>1, <3>3
  <2>3. \A j \in 1..n : a[j] = b[j]
    <3> HIDE DEF a, b
    <3> QED BY <1>1, <1>3, <2>1, <2>2
  <2> HIDE DEF a, b
  <2>4. Len(a) = Len(b) /\ \A j \in 1..Len(a) : a[j] = b[j]
    BY <2>1, <2>2, <2>3
  <2>5. a \in Seq(Nat)
    <3>1. Byte \subseteq Nat
      BY RadixIs DEF Byte
    <3> QED BY <2>1, <3>1, SeqMonotonic
  <2>6. a = b
    BY <2>2, <2>4, <2>5, SeqEqual
  <2> QED BY <2>6 DEF a, b
<1>4. SubSeq(name, 1, n) = name
  BY SubSeqFull
<1> QED BY <1>2, <1>3, <1>4 DEF SameBytes, IsPrefix

\* A sequence is a prefix of what it begins, and of it only.
LEMMA PrefixOfJoin ==
  ASSUME NEW v \in Seq(Nat), NEW w \in Seq(Nat), NEW u \in Seq(Nat)
  PROVE  /\ IsPrefix(v, v \o w)
         /\ u # << >> /\ v # << >> /\ u[1] # v[1] => ~IsPrefix(u, v \o w)
<1>1. /\ Len(v) \in Nat /\ Len(w) \in Nat /\ Len(u) \in Nat /\ v \o w \in Seq(Nat)
      /\ Len(v \o w) = Len(v) + Len(w)
      /\ \A i \in 1..(Len(v) + Len(w)) : (v \o w)[i] = IF i <= Len(v) THEN v[i] ELSE w[i - Len(v)]
  BY ConcatNat, LenProperties
<1> DEFINE x == v \o w
<1>2. x \in Seq(Nat) /\ Len(x) = Len(v) + Len(w)
      /\ \A i \in 1..(Len(v) + Len(w)) : x[i] = IF i <= Len(v) THEN v[i] ELSE w[i - Len(v)]
  BY <1>1
<1> HIDE DEF x
<1>3. \A n \in Nat : n <= Len(x) => /\ SubSeq(x, 1, n) \in Seq(Nat) /\ Len(SubSeq(x, 1, n)) = n
                                    /\ \A i \in 1..n : SubSeq(x, 1, n)[i] = x[i]
  <2> SUFFICES ASSUME NEW n \in Nat, n <= Len(x)
               PROVE  /\ SubSeq(x, 1, n) \in Seq(Nat) /\ Len(SubSeq(x, 1, n)) = n
                      /\ \A i \in 1..n : SubSeq(x, 1, n)[i] = x[i]
    OBVIOUS
  <2> DEFINE b == SubSeq(x, 1, n)
  <2>1. \A i \in 1..n : x[i] \in Nat
    BY <1>2
  <2>2. 1 \in Int /\ n \in Int
    OBVIOUS
  <2>3. /\ b \in Seq(Nat) /\ Len(b) = IF 1 <= n THEN n - 1 + 1 ELSE 0
        /\ \A i \in 1..(n - 1 + 1) : b[i] = x[1 + i - 1]
    BY <2>1, <2>2, SubSeqProperties
  <2> HIDE DEF b
  <2>4. Len(b) = n /\ \A i \in 1..n : b[i] = x[i]
    BY <2>3
  <2> QED BY <2>3, <2>4 DEF b
<1>4. SubSeq(v, 1, Len(v)) = v /\ SubSeq(u, 1, Len(u)) = u
  BY SubSeqFull
<1>5. SubSeq(x, 1, Len(v)) = v
  <2>1. /\ SubSeq(x, 1, Len(v)) \in Seq(Nat) /\ Len(SubSeq(x, 1, Len(v))) = Len(v)
        /\ \A i \in 1..Len(v) : SubSeq(x, 1, Len(v))[i] = v[i]
    BY <1>1, <1>2, <1>3
  <2> QED BY <2>1, SeqEqual
<1>6. IsPrefix(v, x)
  BY <1>1, <1>2, <1>4, <1>5 DEF IsPrefix
<1>7. ASSUME u # << >>, v # << >>, u[1] # v[1], IsPrefix(u, x) PROVE FALSE
  <2>1. Len(u) >= 1 /\ Len(v) >= 1
    BY <1>1, <1>7, EmptySeq
  <2>2. Len(u) <= Len(x) /\ u = SubSeq(x, 1, Len(u))
    BY <1>4, <1>7 DEF IsPrefix
  <2>3. 1 \in 1..Len(u)
    BY <1>1, <2>1
  <2>4. SubSeq(x, 1, Len(u))[1] = x[1]
    BY <1>1, <1>3, <2>2, <2>3
  <2>5. x[1] = v[1]
    BY <1>1, <1>2, <2>1
  <2> QED BY <1>7, <2>2, <2>4, <2>5
<1> QED BY <1>6, <1>7 DEF x

\* The known names, as sequences of numbers that begin differently.
LEMMA KnownNames ==
  /\ AptosAccount \in Seq(Byte) /\ Coin \in Seq(Byte) /\ Transfer \in Seq(Byte)
  /\ AptosAccount \in Seq(Nat) /\ Coin \in Seq(Nat)
  /\ AptosAccount # << >> /\ Coin # << >> /\ AptosAccount[1] # Coin[1]
<1>1. /\ AptosAccount \in Seq(Byte) /\ Coin \in Seq(Byte) /\ Transfer \in Seq(Byte)
      /\ AptosAccount # << >> /\ Coin # << >> /\ AptosAccount[1] # Coin[1]
  BY EncoderAssumption
<1>2. AptosAccount \in Seq(Nat) /\ Coin \in Seq(Nat)
  <2> DEFINE B == Byte
             a == AptosAccount
             c == Coin
  <2>1. a \in Seq(B) /\ c \in Seq(B) /\ B \subseteq Nat
    BY <1>1, RadixIs DEF Byte
  <2> HIDE DEF B, a, c
  <2>2. a \in Seq(Nat) /\ c \in Seq(Nat)
    BY <2>1, SeqMonotonic
  <2> QED BY <2>2 DEF a, c
<1> QED BY <1>1, <1>2

\* The function that is called is known for what it is.
LEMMA FunctionKnown ==
  ASSUME ParserInv, NEW t \in Transactions, ~LooksKnown(t), AsWritten(t), End("entry_function")
  PROVE  /\ t.kind = "call" => determine_function_type = "FUNC_UNKNOWN"
         /\ t.kind = "account" => determine_function_type = "FUNC_APTOS_ACCOUNT_TRANSFER"
         /\ t.kind = "coin" => determine_function_type = "FUNC_COIN_TRANSFER"
<1> DEFINE p == "entry_function"
           s == tx["function_name"]
           m == tx["module_name"]
           a == tx["module_address"]
           w == t.module_address
           function == AtFunctionName(t)
           module == AtModuleName(t)
<1>1. /\ at = p /\ p \in PartsFor(t) /\ p \in Parts /\ next = 6
      /\ 1 \in 1..Len(Fields[p]) /\ 3 \in 1..Len(Fields[p]) /\ 5 \in 1..Len(Fields[p])
  <2>1. p \in Parts
    BY PartNames DEF PartSet
  <2>2. at = p /\ p \in PartsFor(t) /\ next = Len(Fields[p]) + 1
    BY <2>1, EndsAt
  <2> QED BY <2>1, <2>2, Sizes
<1>2. /\ Fields[p][1].name = "module_address" /\ Fields[p][3].name = "module_name"
      /\ Fields[p][5].name = "function_name"
      /\ Fields[p][1].kind = "bytes" /\ Fields[p][1].len = ADDRESS_LEN
  BY FieldsOf DEF EntryFunction, Bytes, Text
<1>3. Accepts(t, p, 1) /\ Accepts(t, p, 3) /\ Accepts(t, p, 5)
  <2>1. Passed(p, 1) /\ Passed(p, 3) /\ Passed(p, 5)
    BY <1>1 DEF Passed
  <2> QED BY <1>1, <2>1 DEF AsWritten
<1>4. Rest(t, p, 1) = AtModuleAddress(t) /\ Rest(t, p, 3) = module /\ Rest(t, p, 5) = function
  BY DEF Rest, Rests
<1>5. Ends(a.from, Rest(t, p, 1)) /\ Ends(m.from, module) /\ Ends(s.from, function)
  BY <1>2, <1>3, <1>4 DEF Accepts
<1>6. raw \in Seq(Byte) /\ module \in Seq(Nat) /\ function \in Seq(Nat) /\ w \in Seq(Nat)
      /\ t.function_name \in Seq(Nat) /\ AtCall(t) \in Seq(Nat) /\ t.module_name \in Seq(Nat)
      /\ AtFunctionLen(t) \in Seq(Nat)
  BY FrontRests DEF ParserInv
<1>7. raw[a.to] = w[ADDRESS_LEN]
  <2>1. Written(t, "module_address") = w
    BY DEF Written, Numbers
  <2>2. Len(w) = ADDRESS_LEN
    <3>1. "module_address" \in DOMAIN t
      BY FieldsPresent DEF CallFields
    <3> QED BY <1>1, <1>2, <3>1, FixedLength
  <2>3. a.to = a.from + ADDRESS_LEN
    BY <1>2, <1>3, <2>1, <2>2 DEF Accepts
  <2>4. Begins(a.from, w)
    BY <1>1, <1>2, <1>5, <2>1, FieldAt
  <2>5. ADDRESS_LEN \in 1..Len(w)
    BY <2>2, ParserAssumption
  <2> QED BY <2>3, <2>4, <2>5 DEF Begins
<1>8. /\ SameBytes(s, Transfer) <=> IsPrefix(Transfer, function)
      /\ SameBytes(m, AptosAccount) <=> IsPrefix(AptosAccount, module)
      /\ SameBytes(m, Coin) <=> IsPrefix(Coin, module)
  <2> HIDE DEF function, module, s, m
  <2> QED BY <1>5, <1>6, KnownNames, SameIsPrefix
<1>9. function = t.function_name \o AtCall(t) /\ module = t.module_name \o AtFunctionLen(t)
  BY DEF AtFunctionName, AtModuleName
<1>10. CASE t.kind = "call"
  <2>1. FromFunctionName(t) = function /\ FromModuleName(t) = module
    BY EncodeIs
  <2>2. ~(/\ w[ADDRESS_LEN] = 1 /\ IsPrefix(Transfer, function)
          /\ IsPrefix(AptosAccount, module) \/ IsPrefix(Coin, module))
    BY <1>10, <2>1 DEF LooksKnown
  <2> QED BY <1>7, <1>8, <1>10, <2>2 DEF determine_function_type
<1>11. ASSUME t.kind # "call"
       PROVE  /\ raw[a.to] = 1 /\ SameBytes(s, Transfer)
              /\ t.module_name = IF t.kind = "account" THEN AptosAccount ELSE Coin
  <2>1. /\ w[ADDRESS_LEN] = 1 /\ t.function_name = Transfer
        /\ t.module_name = IF t.kind = "account" THEN AptosAccount ELSE Coin
    BY <1>11, TransactionsAssumption DEF WellFormed
  <2>2. IsPrefix(t.function_name, t.function_name \o AtCall(t))
    BY <1>6, PrefixOfJoin
  <2> QED BY <1>7, <1>8, <1>9, <2>1, <2>2
<1>12. CASE t.kind = "account"
  <2>1. t.module_name = AptosAccount /\ IsPrefix(t.module_name, t.module_name \o AtFunctionLen(t))
    BY <1>6, <1>11, <1>12, PrefixOfJoin
  <2>2. SameBytes(m, AptosAccount)
    BY <1>8, <1>9, <2>1
  <2> QED BY <1>11, <1>12, <2>2 DEF determine_function_type
<1>13. CASE t.kind = "coin"
  <2>1. t.module_name = Coin /\ IsPrefix(t.module_name, t.module_name \o AtFunctionLen(t))
    BY <1>6, <1>11, <1>13, PrefixOfJoin
  <2>2. ~IsPrefix(AptosAccount, t.module_name \o AtFunctionLen(t))
    BY <1>6, <2>1, KnownNames, PrefixOfJoin
  <2>3. SameBytes(m, Coin) /\ ~SameBytes(m, AptosAccount)
    BY <1>8, <1>9, <2>1, <2>2
  <2> QED BY <1>11, <1>13, <2>3 DEF determine_function_type
<1> QED BY <1>10, <1>12, <1>13

\* The arguments of a transfer are read next; another call is accepted.
LEMMA EndEntryFunctionWritten ==
  ASSUME ParserInv, NEW t \in Transactions, ~LooksKnown(t), AsWritten(t), end_entry_function
  PROVE  AsWritten(t)'
<1>1. /\ End("entry_function") /\ at = "entry_function" /\ at \in Parts
      /\ UNCHANGED <<raw, buf, buf_footer, tx, variant>> /\ known_type' = determine_function_type
  BY PartNames DEF end_entry_function, End, PartSet
<1>2. next = 6 /\ Ends(buf.offset, AtCall(t))
  <2>1. Ends(Cursor.offset, Rest(t, "entry_function", next)) /\ next = Len(Fields["entry_function"]) + 1
    BY <1>1, EndsAt
  <2>2. next = 6
    BY <2>1, Sizes
  <2>3. Rest(t, "entry_function", 6) = AtCall(t) /\ Cursor = buf
    BY <1>1 DEF Rest, Rests, Cursor
  <2> QED BY <2>1, <2>2, <2>3
<1>3. ASSUME NEW q \in {"account_transfer", "coin_transfer"}, q \in PartsFor(t), Enter(q)
      PROVE  AsWritten(t)'
  <2>1. at' = q /\ Rank[q] = Rank[at] + 1 /\ q # "footer"
    BY <1>1, <1>3 DEF Rank, Enter
  <2>2. Ends(Cursor.offset', Rest(t, q, 1))
    <3>1. Rest(t, q, 1) = AtCall(t)
      BY DEF Rest, Rests
    <3>2. Cursor.offset' = buf.offset
      BY <1>1, <2>1 DEF Cursor
    <3> QED BY <1>2, <3>1, <3>2
  <2>3. \A f \in FieldNames : Place[f] < 13 => tx'[f] = tx[f]
    BY <1>1
  <2> QED BY <1>1, <1>3, <2>1, <2>2, <2>3, EnterWritten
<1>4. CASE t.kind = "call"
  <2>1. known_type' = "FUNC_UNKNOWN"
    BY <1>1, <1>4, FunctionKnown
  <2>2. Return("PARSING_OK") /\ Kind[known_type'] = t.kind
    BY <1>4, <2>1 DEF end_entry_function, Kind
  <2>3. \A r \in PartsFor(t) \ {at} : Rank[r] < Rank[at]
    BY <1>1, <1>4 DEF PartsFor, Rank
  <2> QED BY <1>1, <2>2, <2>3, EndWritten
<1>5. CASE t.kind = "account"
  <2>1. known_type' = "FUNC_APTOS_ACCOUNT_TRANSFER"
    BY <1>1, <1>5, FunctionKnown
  <2>2. Enter("account_transfer") /\ "account_transfer" \in PartsFor(t)
    BY <1>5, <2>1 DEF end_entry_function, PartsFor
  <2> QED BY <1>3, <2>2
<1>6. CASE t.kind = "coin"
  <2>1. known_type' = "FUNC_COIN_TRANSFER"
    BY <1>1, <1>6, FunctionKnown
  <2>2. Enter("coin_transfer") /\ "coin_transfer" \in PartsFor(t)
    BY <1>6, <2>1 DEF end_entry_function, PartsFor
  <2> QED BY <1>3, <2>2
<1> QED BY <1>4, <1>5, <1>6, FieldsPresent

\* The arguments end where the footer begins.
LEMMA EndTransferWritten ==
  ASSUME ParserInv, ChainInv, NEW t \in Transactions, raw = Encode(t), AsWritten(t),
         end_account_transfer \/ end_coin_transfer
  PROVE  AsWritten(t)'
<1>1. /\ at \in {"account_transfer", "coin_transfer"} /\ End(at) /\ at \in Parts
      /\ UNCHANGED <<raw, buf, tx, known_type>>
  BY PartNames DEF end_account_transfer, end_coin_transfer, End, PartSet
<1>2. /\ at = "account_transfer" => known_type = "FUNC_APTOS_ACCOUNT_TRANSFER"
      /\ at = "coin_transfer" => known_type = "FUNC_COIN_TRANSFER"
  BY DEF ChainInv, KnownAt
<1>3. at \in PartsFor(t) /\ next = Len(Fields[at]) + 1 /\ Ends(Cursor.offset, Rest(t, at, next))
  BY <1>1, EndsAt
<1>4. /\ at = "account_transfer" => t.kind = "account"
      /\ at = "coin_transfer" => t.kind = "coin"
  BY <1>3 DEF PartsFor
<1>5. Kind[known_type'] = t.kind
  BY <1>1, <1>2, <1>4 DEF Kind
<1>6. \A p \in PartsFor(t) \ {at} : Rank[p] < Rank[at]
  BY <1>1, <1>4 DEF PartsFor, Rank
<1>7. Return("PARSING_OK")
  <2>1. CASE end_coin_transfer
    BY <2>1 DEF end_coin_transfer
  <2>2. CASE end_account_transfer
    <3>1. at = "account_transfer" /\ Cursor = buf
      BY <2>2 DEF end_account_transfer, End, Cursor
    <3>2. next = 7
      BY <1>3, <3>1, Sizes
    <3>3. Rest(t, "account_transfer", 7) = AtFooter(t)
      BY DEF Rest, Rests
    <3>4. Ends(buf.offset, AtFooter(t))
      BY <1>3, <3>1, <3>2, <3>3
    <3>5. Len(AtFooter(t)) = TX_FOOTER_LEN /\ TX_FOOTER_LEN \in Nat
      BY FooterIs, EncodingEnds
    <3>6. buf.offset \in Nat /\ buf.offset + TX_FOOTER_LEN = buf.size /\ buf.size \in Nat
      BY <3>4, <3>5 DEF Ends, ParserInv, OverRaw, buffer_t, SizeT
    <3>7. AccountTransferLength
      BY <3>5, <3>6 DEF AccountTransferLength, FooterBegin, Minus
    <3> QED BY <2>2, <3>7 DEF end_account_transfer
  <2> QED BY <2>1, <2>2
<1> QED BY <1>1, <1>5, <1>6, <1>7, EndWritten

\* Nothing was read yet.
LEMMA AcceptInit == Init => AcceptInv
<1> SUFFICES ASSUME Init PROVE AcceptInv
  OBVIOUS
<1>1. at = "start" /\ "start" \notin Parts
  BY PartNames DEF Init, PartSet
<1> QED BY <1>1 DEF AcceptInv, AsWritten, Passed, Done

\* Every step reads what was written.
LEMMA AcceptNext ==
  ASSUME ParserInv, ChainInv, AcceptInv, [Next]_vars
  PROVE  AcceptInv'
<1> SUFFICES ASSUME NEW t \in Transactions, raw' = Encode(t), ~LooksKnown(t)
             PROVE  AsWritten(t)'
  BY DEF AcceptInv
<1>1. raw' = raw
  BY DEF Next, vars, transaction_deserialize, read_bytes, read_number, end_raw, end_footer,
         end_payload, end_entry_function, end_account_transfer, end_coin_transfer
<1>2. raw = Encode(t) /\ AsWritten(t)
  BY <1>1 DEF AcceptInv
<1>3. CASE transaction_deserialize
  BY <1>2, <1>3, DeserializeWritten
<1>4. CASE read_bytes
  BY <1>2, <1>4, ReadBytesWritten
<1>5. CASE read_number
  BY <1>2, <1>5, ReadNumberWritten
<1>6. CASE end_raw
  BY <1>2, <1>6, EndRawWritten
<1>7. CASE end_footer
  BY <1>2, <1>7, EndFooterWritten
<1>8. CASE end_payload
  BY <1>2, <1>8, EndPayloadWritten
<1>9. CASE end_entry_function
  BY <1>2, <1>9, EndEntryFunctionWritten
<1>10. CASE end_account_transfer \/ end_coin_transfer
  BY <1>2, <1>10, EndTransferWritten
<1>11. CASE UNCHANGED vars
  <2>1. UNCHANGED <<raw, buf, buf_footer, at, next, tx, known_type, status>>
    BY <1>11 DEF vars
  <2>2. \A o, k : ValueAt(o, k)' = ValueAt(o, k)
    BY <1>1, NumbersKept
  <2>3. \A f : NumberIn(tx[f])' = NumberIn(tx[f]) /\ SliceBytes(tx[f])' = SliceBytes(tx[f])
    BY <2>1, <2>2 DEF NumberIn, SliceBytes
  <2>4. Cursor' = Cursor /\ Rest(t, at, next)' = Rest(t, at, next)
    BY <2>1 DEF Cursor, Rest, Rests
  <2>5. \A p \in Parts : \A i \in 1..Len(Fields[p]) : Accepts(t, p, i) => Accepts(t, p, i)'
    BY <2>1, AcceptsKept
  <2>6. AcceptedAs(t) => AcceptedAs(t)'
    BY <2>1, <2>3 DEF AcceptedAs
  <2> QED BY <1>2, <2>1, <2>4, <2>5, <2>6 DEF AsWritten, Passed, Done, Ends
<1> QED BY <1>3, <1>4, <1>5, <1>6, <1>7, <1>8, <1>9, <1>10, <1>11 DEF Next

\* The encoding of any transaction that can be written and does not look like a
\* transfer it is not is accepted, as the kind it is, with the fields it was written
\* from: the parser refuses nothing it should take and no field is read from the
\* bytes of another (deserialize.c:24-171, 173-316).
THEOREM EncodingsAreAccepted == Spec => []EncodingsAccepted
<1>1. AcceptInv => EncodingsAccepted
  BY DEF AcceptInv, AsWritten, AcceptedAs, EncodingsAccepted
<1>2. Init => ParserInv /\ ChainInv /\ AcceptInv
  BY ParserInit, InitChain, AcceptInit
<1>3. ParserInv /\ ChainInv /\ AcceptInv /\ [Next]_vars => (ParserInv /\ ChainInv /\ AcceptInv)'
  BY NextKeeps, ChainNext, AcceptNext
<1> QED BY <1>1, <1>2, <1>3, PTL DEF Spec

=============================================================================
