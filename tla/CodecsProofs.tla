----------------------------- MODULE CodecsProofs -----------------------------
(***************************************************************************)
(* The properties of Codecs for every input.                               *)
(***************************************************************************)
EXTENDS Codecs, FormatProofs

-----------------------------------------------------------------------------
(* Words: the digits of a number in base ByteRange. *)

\* Dividing twice is dividing by the product.
LEMMA DividedTwice ==
  ASSUME NEW r \in Nat \ {0}, NEW s \in Nat \ {0}, NEW v \in Nat
  PROVE  r * s \in Nat \ {0} /\ (v \div r) \div s = v \div (r * s)
<1> DEFINE q == v \div r
           d == v % r
           m == q \div s
           e == q % s
<1>1. q \in Nat /\ d \in 0..(r - 1) /\ v = d + r * q
  BY Division, DivisionSum
<1>2. m \in Nat /\ e \in 0..(s - 1) /\ q = e + s * m
  <2> HIDE DEF q
  <2> QED BY <1>1, Division, DivisionSum
<1> HIDE DEF q, d, m, e
<1>3. r * e \in Nat /\ r * s \in Nat \ {0} /\ d + r * e \in 0..(r * s - 1)
  <2>1. r * (e + 1) <= r * s
    <3>1. e + 1 <= s
      BY <1>2
    <3> QED BY <1>2, <3>1
  <2>2. r * (e + 1) = r * e + r
    BY <1>2
  <2>3. r * e \in Nat /\ r * s \in Nat /\ r * s >= r
    BY <1>2
  <2> QED BY <1>1, <2>1, <2>2, <2>3
<1>4. v = (d + r * e) + (r * s) * m
  <2>1. r * (e + s * m) = r * e + r * (s * m)
    BY <1>2
  <2>2. r * (s * m) = (r * s) * m
    BY <1>2
  <2> QED BY <1>1, <1>2, <1>3, <2>1, <2>2
<1>5. v \div (r * s) = m
  <2> DEFINE f == d + r * e
             R == r * s
  <2> HIDE DEF f, R
  <2>1. R \in Nat \ {0} /\ f \in 0..(R - 1) /\ v = f + R * m
    BY <1>3, <1>4 DEF f, R
  <2> QED BY <1>2, <2>1, DivisionIs DEF R
<1> QED BY <1>3, <1>5 DEF q, m

\* Powers of the number of values of a byte.
LEMMA PowersAre ==
  /\ ByteRange \in Nat \ {0, 1}
  /\ Power(ByteRange, 0) = 1
  /\ \A k \in Nat : /\ Power(ByteRange, k) \in Nat \ {0}
                    /\ Power(ByteRange, k + 1) = ByteRange * Power(ByteRange, k)
<1>1. ByteRange \in Nat \ {0, 1}
  BY WordsAssumption
<1> DEFINE S == {k \in Nat : Power(ByteRange, k) # 0}
<1>2. 0 \in S
  BY <1>1, PowerZero
<1>3. ASSUME NEW k \in Nat, k \in S PROVE k + 1 \in S
  <2>1. Power(ByteRange, k) \in Nat \ {0} /\ Power(ByteRange, k + 1) = ByteRange * Power(ByteRange, k)
    BY <1>1, <1>3, PowerStep, PowerType
  <2> DEFINE p == Power(ByteRange, k)
  <2>2. p \in Nat \ {0}
    BY <2>1
  <2> HIDE DEF p
  <2>3. ByteRange * p # 0
    BY <1>1, <2>2
  <2> QED BY <2>1, <2>3 DEF p
<1> HIDE DEF S
<1>4. \A k \in Nat : k \in S
  BY <1>2, <1>3, SetInduction
<1> QED BY <1>1, <1>4, PowerZero, PowerStep, PowerType DEF S

\* What is left of a value without its k low bytes, and byte k of it.
High(v, k) == v \div Power(ByteRange, k)
ByteOf(v, k) == High(v, k) % ByteRange

\* One byte more.
LEMMA HighIs ==
  ASSUME NEW v \in Nat, NEW k \in Nat
  PROVE  /\ High(v, k) \in Nat /\ High(v, k + 1) \in Nat
         /\ ByteOf(v, k) \in Nat /\ ByteOf(v, k) \in 0..(ByteRange - 1)
         /\ High(v, k) = ByteRange * High(v, k + 1) + ByteOf(v, k)
<1> DEFINE p == Power(ByteRange, k)
<1>1. p \in Nat \ {0} /\ ByteRange \in Nat \ {0} /\ Power(ByteRange, k + 1) = ByteRange * p
  BY PowersAre
<1> HIDE DEF p
<1>2. p * ByteRange = ByteRange * p
  BY <1>1
<1>3. (v \div p) \div ByteRange = v \div (ByteRange * p)
  BY <1>1, <1>2, DividedTwice
<1>4. v \div p \in Nat
  BY <1>1, Division
<1> DEFINE h == v \div p
<1> HIDE DEF h
<1>5. h \in Nat /\ h % ByteRange \in 0..(ByteRange - 1) /\ h \div ByteRange \in Nat
  BY <1>1, <1>4, Division DEF h
<1>6. h = (h % ByteRange) + ByteRange * (h \div ByteRange)
  BY <1>1, <1>5, DivisionSum
<1>7. High(v, k) = h /\ High(v, k + 1) = h \div ByteRange /\ ByteOf(v, k) = h % ByteRange
  BY <1>1, <1>3 DEF High, ByteOf, h, p
<1> DEFINE g == h \div ByteRange
           e == h % ByteRange
<1> HIDE DEF g, e
<1>8. g \in Nat /\ e \in 0..(ByteRange - 1) /\ h = e + ByteRange * g
  BY <1>5, <1>6 DEF g, e
<1>9. h = ByteRange * g + e
  <2>1. ByteRange * g \in Nat
    BY <1>1, <1>8
  <2> QED BY <1>8, <2>1
<1> QED BY <1>5, <1>7, <1>8, <1>9 DEF g, e

\* All of a value, and nothing beyond its width.
LEMMA HighEnds ==
  ASSUME NEW n \in Nat, NEW v \in UINT(n)
  PROVE  v \in Nat /\ High(v, 0) = v /\ High(v, n) = 0
<1> DEFINE p == Power(ByteRange, n)
<1>1. p \in Nat \ {0} /\ Power(ByteRange, 0) = 1
  BY PowersAre
<1> HIDE DEF p
<1>2. v \in 0..(p - 1)
  BY DEF UINT, p
<1>3. v \div 1 = v
  BY <1>1, <1>2
<1>4. v \div p = 0
  <2>1. v = v + p * 0
    BY <1>1, <1>2
  <2> QED BY <1>1, <1>2, <2>1, DivisionIs
<1> QED BY <1>1, <1>2, <1>3, <1>4 DEF High, p

\* The bytes of a value, the high one first, denote it.
LEMMA BytesDenote ==
  ASSUME NEW n \in Nat, NEW v \in UINT(n), NEW s \in Seq(Nat), Len(s) = n,
         \A i \in 1..n : s[i] = ByteOf(v, n - i)
  PROVE  Denoted(s, ByteRange) = v
<1> DEFINE p == Partials(s, Len(s), ByteRange)
           S == {i \in Nat : i <= n => p[i] = High(v, n - i)}
<1>1. p[0] = 0 /\ \A i \in 1..n : p[i] = ByteRange * p[i - 1] + s[i]
  BY PowersAre, NumbersOfSeq
<1>2. Denoted(s, ByteRange) = p[n]
  BY DenotedIsOfAll
<1>3. v \in Nat /\ High(v, 0) = v /\ High(v, n) = 0
  BY HighEnds
<1> HIDE DEF p
<1>4. 0 \in S
  BY <1>1, <1>3
<1>5. ASSUME NEW i \in Nat, i \in S PROVE i + 1 \in S
  <2> SUFFICES ASSUME i + 1 <= n PROVE p[i + 1] = High(v, n - (i + 1))
    OBVIOUS
  <2> DEFINE k == n - (i + 1)
  <2>1. k \in Nat /\ k + 1 = n - i /\ i + 1 \in 1..n /\ (i + 1) - 1 = i
    OBVIOUS
  <2> HIDE DEF k
  <2>2. p[i] = High(v, k + 1)
    BY <1>5, <2>1
  <2>3. p[i + 1] = ByteRange * p[i] + ByteOf(v, k)
    BY <1>1, <2>1 DEF k
  <2>4. High(v, k) = ByteRange * High(v, k + 1) + ByteOf(v, k)
    BY <1>3, <2>1, HighIs
  <2> QED BY <2>2, <2>3, <2>4 DEF k
<1> HIDE DEF S
<1>6. n \in S
  BY <1>4, <1>5, SetInduction
<1>7. p[n] = High(v, n - n)
  BY <1>6 DEF S
<1> QED BY <1>2, <1>3, <1>7

\* The bytes of a value times their places sum up to it, from the low byte on.
LEMMA LowBytesSum ==
  ASSUME NEW n \in Nat, NEW v \in UINT(n), NEW w,
         \A i \in 1..n : w[i] = ByteOf(v, i - 1) * Power(ByteRange, i - 1)
  PROVE  RunningSum(w, n) = v
<1> DEFINE S == {i \in Nat : i <= n => RunningSum(w, i) + High(v, i) * Power(ByteRange, i) = v}
<1>1. v \in Nat /\ High(v, 0) = v /\ High(v, n) = 0
  BY HighEnds
<1>2. \A i \in 1..n : w[i] \in Nat
  <2> TAKE i \in 1..n
  <2>1. i - 1 \in Nat /\ ByteRange \in Nat
    BY PowersAre
  <2>2. ByteOf(v, i - 1) \in Nat /\ Power(ByteRange, i - 1) \in Nat
    BY <1>1, <2>1, HighIs, PowersAre
  <2> DEFINE a == ByteOf(v, i - 1)
             b == Power(ByteRange, i - 1)
  <2> HIDE DEF a, b
  <2>3. a \in Nat /\ b \in Nat /\ w[i] = a * b
    BY <2>2 DEF a, b
  <2>4. a * b \in Nat
    BY <2>3
  <2> QED BY <2>3, <2>4
<1>3. 0 \in S
  <2>1. RunningSum(w, 0) = 0 /\ Power(ByteRange, 0) = 1
    BY SumOfNone, PowersAre
  <2> QED BY <1>1, <2>1
<1>4. ASSUME NEW i \in Nat, i \in S PROVE i + 1 \in S
  <2> SUFFICES ASSUME i + 1 <= n
               PROVE  RunningSum(w, i + 1) + High(v, i + 1) * Power(ByteRange, i + 1) = v
    OBVIOUS
  <2> DEFINE a == ByteOf(v, i)
             b == Power(ByteRange, i)
             h == High(v, i + 1)
             r == RunningSum(w, i)
  <2>1. i + 1 \in 1..n /\ (i + 1) - 1 = i /\ \A j \in 1..i : j \in 1..n
    OBVIOUS
  <2>2. r \in Nat /\ RunningSum(w, i + 1) = r + w[i + 1]
    <3>1. \A j \in 1..i : w[j] \in Nat
      BY <1>2, <2>1
    <3>2. w[i + 1] \in Nat
      BY <1>2, <2>1
    <3> QED BY <3>1, <3>2, SumStep, SumType
  <2>3. w[i + 1] = a * b
    BY <2>1
  <2>4. r + High(v, i) * b = v
    BY <1>4, <2>1
  <2>5. a \in Nat /\ h \in Nat /\ High(v, i) = ByteRange * h + a
    BY <1>1, HighIs, PowersAre
  <2>6. b \in Nat /\ Power(ByteRange, i + 1) = ByteRange * b /\ ByteRange \in Nat
    BY PowersAre
  <2> HIDE DEF a, b, h, r
  <2>7. (ByteRange * h + a) * b = h * (ByteRange * b) + a * b
    BY <2>5, <2>6
  <2>8. h * (ByteRange * b) \in Nat /\ a * b \in Nat
    BY <2>5, <2>6
  <2>9. r + (ByteRange * h + a) * b = v
    BY <2>4, <2>5
  <2> QED BY <2>2, <2>3, <2>5, <2>6, <2>7, <2>8, <2>9 DEF h
<1> HIDE DEF S
<1>5. n \in S
  BY <1>3, <1>4, SetInduction
<1>6. RunningSum(w, n) + High(v, n) * Power(ByteRange, n) = v
  BY <1>5 DEF S
<1>7. RunningSum(w, n) \in Nat /\ 0 * Power(ByteRange, n) = 0
  BY <1>2, SumType, PowersAre
<1> QED BY <1>1, <1>6, <1>7

\* And from the high byte on.
LEMMA HighBytesSum ==
  ASSUME NEW n \in Nat, NEW v \in UINT(n), NEW w,
         \A i \in 1..n : w[i] = ByteOf(v, n - i) * Power(ByteRange, n - i)
  PROVE  RunningSum(w, n) = v
<1> DEFINE S == {i \in Nat : i <= n => RunningSum(w, i) = High(v, n - i) * Power(ByteRange, n - i)}
<1>1. v \in Nat /\ High(v, 0) = v /\ High(v, n) = 0
  BY HighEnds
<1>2. \A i \in 1..n : w[i] \in Nat
  <2> TAKE i \in 1..n
  <2>1. n - i \in Nat /\ ByteRange \in Nat
    BY PowersAre
  <2>2. ByteOf(v, n - i) \in Nat /\ Power(ByteRange, n - i) \in Nat
    BY <1>1, <2>1, HighIs, PowersAre
  <2> DEFINE a == ByteOf(v, n - i)
             b == Power(ByteRange, n - i)
  <2> HIDE DEF a, b
  <2>3. a \in Nat /\ b \in Nat /\ w[i] = a * b
    BY <2>2 DEF a, b
  <2>4. a * b \in Nat
    BY <2>3
  <2> QED BY <2>3, <2>4
<1>3. 0 \in S
  <2>1. RunningSum(w, 0) = 0 /\ Power(ByteRange, n) \in Nat
    BY SumOfNone, PowersAre
  <2>2. 0 * Power(ByteRange, n) = 0
    BY <2>1
  <2> QED BY <1>1, <2>1, <2>2
<1>4. ASSUME NEW i \in Nat, i \in S PROVE i + 1 \in S
  <2> SUFFICES ASSUME i + 1 <= n
               PROVE  RunningSum(w, i + 1) = High(v, n - (i + 1)) * Power(ByteRange, n - (i + 1))
    OBVIOUS
  <2> DEFINE k == n - (i + 1)
             a == ByteOf(v, k)
             b == Power(ByteRange, k)
             h == High(v, k + 1)
             r == RunningSum(w, i)
  <2>1. i + 1 \in 1..n /\ k \in Nat /\ n - i = k + 1 /\ \A j \in 1..i : j \in 1..n
    OBVIOUS
  <2>2. r \in Nat /\ RunningSum(w, i + 1) = r + w[i + 1]
    <3>1. \A j \in 1..i : w[j] \in Nat
      BY <1>2, <2>1
    <3>2. w[i + 1] \in Nat
      BY <1>2, <2>1
    <3> QED BY <3>1, <3>2, SumStep, SumType
  <2>3. w[i + 1] = a * b
    BY <2>1
  <2> HIDE DEF k
  <2>4. r = h * Power(ByteRange, k + 1)
    BY <1>4, <2>1
  <2>5. a \in Nat /\ h \in Nat /\ High(v, k) = ByteRange * h + a
    BY <1>1, <2>1, HighIs, PowersAre
  <2>6. b \in Nat /\ Power(ByteRange, k + 1) = ByteRange * b /\ ByteRange \in Nat
    BY <2>1, PowersAre
  <2> HIDE DEF a, b, h, r
  <2>7. (ByteRange * h + a) * b = h * (ByteRange * b) + a * b
    BY <2>5, <2>6
  <2>8. RunningSum(w, i + 1) = High(v, k) * b
    BY <2>2, <2>3, <2>4, <2>5, <2>6, <2>7
  <2> QED BY <2>8 DEF k, b
<1> HIDE DEF S
<1>5. n \in S
  BY <1>3, <1>4, SetInduction
<1>6. RunningSum(w, n) = High(v, n - n) * Power(ByteRange, n - n)
  BY <1>5 DEF S
<1>7. n - n = 0 /\ Power(ByteRange, 0) = 1
  BY PowersAre
<1> QED BY <1>1, <1>6, <1>7

\* Memory is bytes.
LEMMA MemoryIs ==
  ASSUME NEW n \in Nat
  PROVE  /\ Memory(n) \in Seq({Fill}) /\ Len(Memory(n)) = n /\ DOMAIN Memory(n) = 1..n
         /\ \A i \in 1..n : Memory(n)[i] = Fill
<1> DEFINE m == [i \in 1..n |-> Fill]
<1>1. m \in Seq({Fill}) /\ Len(m) = n /\ \A i \in 1..n : m[i] = Fill
  OBVIOUS
<1> HIDE DEF m
<1>2. <<>> \o m = m
  BY <1>1, ConcatEmptySeq
<1>3. Memory(n) = m
  BY <1>2 DEF Memory, m
<1> QED BY <1>1, <1>3

\* What follows the first of a sequence.
LEMMA RestIs ==
  ASSUME NEW S, NEW s \in Seq(S), NEW k \in Nat, k + 1 <= Len(s), NEW u, u = SubSeq(s, 2, k + 1)
  PROVE  u \in Seq(S) /\ Len(u) = k /\ \A i \in 1..k : u[i] = s[1 + i]
OBVIOUS

\* Memory with words in it.
Word == Nat \cup {Fill}

\* A word that is written.
LEMMA WriteIs ==
  ASSUME NEW ptr \in Seq(Word), NEW n \in Nat, NEW o \in Nat, o + n <= Len(ptr),
         NEW order \in {"BE", "LE"}, NEW v \in UINT(n), NEW out, out = write_word(ptr, o, n, order, v)
  PROVE  /\ out \in Seq(Word) /\ Len(out) = Len(ptr)
         /\ \A i \in 1..n : out[o + i] = ByteOf(v, IF order = "BE" THEN n - i ELSE i - 1)
         /\ \A i \in 1..Len(ptr) : i <= o \/ i > o + n => out[i] = ptr[i]
<1> DEFINE m == Len(ptr)
           byte(i) == (v \div Power(ByteRange, ByteShift(order, n, i - o - 1))) % ByteRange
           w == [i \in 1..m |-> IF i \in (o + 1)..(o + n) THEN byte(i) ELSE ptr[i]]
<1>0. m \in Nat /\ DOMAIN ptr = 1..m /\ \A i \in 1..m : ptr[i] \in Word
  OBVIOUS
<1>1. out = w
  BY <1>0 DEF write_word
<1>2. \A i \in 1..n : byte(o + i) = ByteOf(v, IF order = "BE" THEN n - i ELSE i - 1)
  <2> TAKE i \in 1..n
  <2>1. /\ o + i - o - 1 = i - 1 /\ n - 1 - (i - 1) = n - i
    OBVIOUS
  <2>2. ByteShift(order, n, o + i - o - 1) = IF order = "BE" THEN n - i ELSE i - 1
    BY <2>1 DEF ByteShift
  <2> QED BY <2>2 DEF ByteOf, High
<1> HIDE DEF byte, m
<1>3. \A i \in 1..n : o + i \in 1..m /\ o + i \in (o + 1)..(o + n)
  BY <1>0 DEF m
<1>4. \A i \in (o + 1)..(o + n) : byte(i) \in Nat
  <2> TAKE i \in (o + 1)..(o + n)
  <2>1. i - o \in 1..n /\ o + (i - o) = i /\ n - (i - o) \in Nat /\ (i - o) - 1 \in Nat
    OBVIOUS
  <2>2. v \in Nat
    BY HighEnds
  <2>3. byte(i) = ByteOf(v, IF order = "BE" THEN n - (i - o) ELSE (i - o) - 1)
    BY <1>2, <2>1
  <2> QED BY <2>1, <2>2, <2>3, HighIs
<1>5. \A i \in 1..m : w[i] \in Word
  BY <1>0, <1>4 DEF Word
<1>6. w \in Seq(Word) /\ Len(w) = m
  <2>1. w \in [1..m -> Word]
    BY <1>5
  <2> HIDE DEF w
  <2> QED BY <1>0, <2>1
<1>7. \A i \in 1..n : w[o + i] = ByteOf(v, IF order = "BE" THEN n - i ELSE i - 1)
  BY <1>2, <1>3
<1>8. \A i \in 1..m : i <= o \/ i > o + n => w[i] = ptr[i]
  OBVIOUS
<1> HIDE DEF w
<1> QED BY <1>1, <1>6, <1>7, <1>8 DEF m

\* A word is read as it was written.
LEMMA ReadIs ==
  ASSUME NEW n \in Nat, NEW o \in Nat, NEW order \in {"BE", "LE"}, NEW v \in UINT(n), NEW ptr,
         \A i \in 1..n : ptr[o + i] = ByteOf(v, IF order = "BE" THEN n - i ELSE i - 1)
  PROVE  read_word(ptr, o, n, order) = v
<1> DEFINE w == [k \in 1..n |-> ptr[o + k] * Power(ByteRange, ByteShift(order, n, k - 1))]
<1>1. read_word(ptr, o, n, order) = RunningSum(w, n)
  BY DEF read_word
<1>2. \A i \in 1..n : n - 1 - (i - 1) = n - i
  OBVIOUS
<1>3. CASE order = "BE"
  <2>1. \A i \in 1..n : w[i] = ByteOf(v, n - i) * Power(ByteRange, n - i)
    BY <1>2, <1>3 DEF ByteShift
  <2> HIDE DEF w
  <2> QED BY <1>1, <2>1, HighBytesSum
<1>4. CASE order = "LE"
  <2>1. \A i \in 1..n : w[i] = ByteOf(v, i - 1) * Power(ByteRange, i - 1)
    BY <1>4 DEF ByteShift
  <2> HIDE DEF w
  <2> QED BY <1>1, <2>1, LowBytesSum
<1> QED BY <1>3, <1>4

-----------------------------------------------------------------------------
(* The state: what was made of a call, and what was made back of it. *)

ConvertedTo(c, m) ==
  /\ c.codec = "word" => m = write_word(Memory(c.width + 2), 1, c.width, c.order, c.value)
  /\ c.codec = "varint" => m = varint_write(Memory(11), 1, c.value)
  /\ c.codec = "bytes" => m = base58_encode(c.in, c.out_len)
  /\ c.codec = "text" => m = base58_decode(c.in, c.out_len)
  /\ c.codec = "utf8" => m = try_utf8_to_ascii(c.in, c.out_len)
  /\ c.codec = "u64" => m = format_u64(Memory(c.out_len), c.value)
  /\ c.codec = "i64" => m = format_i64(Memory(c.out_len), c.value)
  /\ c.codec = "hex" => m = format_hex(c.in, Memory(c.out_len))

ConvertedBack(c, m, b) ==
  /\ c.codec = "word" => b = read_word(m, 1, c.width, c.order)
  /\ c.codec = "varint" => b = varint_read(SubSeq(m.out, 2, c.in_len + 1))
  /\ c.codec = "bytes" => b = base58_decode(m.out, Len(c.in))
  /\ c.codec = "text" => b = base58_encode(m.out, Len(c.in))

\* What was returned is what the conversion returns, of this call and no other.
Converted ==
  /\ call \in Calls /\ step \in 0..2
  /\ step >= 1 => ConvertedTo(call, made)
  /\ step = 2 => ConvertedBack(call, made, back)

\* What is returned of a call of one codec.
LEMMA OneCodec ==
  ASSUME NEW c, NEW m, NEW b
  PROVE  /\ c.codec = "word" /\ m = write_word(Memory(c.width + 2), 1, c.width, c.order, c.value)
              => ConvertedTo(c, m)
         /\ c.codec = "varint" /\ m = varint_write(Memory(11), 1, c.value) => ConvertedTo(c, m)
         /\ c.codec = "bytes" /\ m = base58_encode(c.in, c.out_len) => ConvertedTo(c, m)
         /\ c.codec = "text" /\ m = base58_decode(c.in, c.out_len) => ConvertedTo(c, m)
         /\ c.codec = "utf8" /\ m = try_utf8_to_ascii(c.in, c.out_len) => ConvertedTo(c, m)
         /\ c.codec = "u64" /\ m = format_u64(Memory(c.out_len), c.value) => ConvertedTo(c, m)
         /\ c.codec = "i64" /\ m = format_i64(Memory(c.out_len), c.value) => ConvertedTo(c, m)
         /\ c.codec = "hex" /\ m = format_hex(c.in, Memory(c.out_len)) => ConvertedTo(c, m)
         /\ c.codec = "word" /\ b = read_word(m, 1, c.width, c.order) => ConvertedBack(c, m, b)
         /\ c.codec = "varint" /\ b = varint_read(SubSeq(m.out, 2, c.in_len + 1))
              => ConvertedBack(c, m, b)
         /\ c.codec = "bytes" /\ b = base58_decode(m.out, Len(c.in)) => ConvertedBack(c, m, b)
         /\ c.codec = "text" /\ b = base58_encode(m.out, Len(c.in)) => ConvertedBack(c, m, b)
BY DEF ConvertedTo, ConvertedBack

\* A call keeps what it returned.
LEMMA ConvertedAlways == Spec => []Converted
<1>1. Init => Converted
  BY DEF Init, Converted
<1>2. Converted /\ [Next]_vars => Converted'
  <2> SUFFICES ASSUME Converted, [Next]_vars PROVE Converted'
    OBVIOUS
  <2> USE DEF Converted
  <2>1. CASE WriteWord
    BY <2>1, OneCodec DEF WriteWord, First
  <2>2. CASE ReadWord
    BY <2>2, OneCodec DEF ReadWord, Second
  <2>3. CASE WriteVarint
    BY <2>3, OneCodec DEF WriteVarint, First
  <2>4. CASE ReadVarint
    BY <2>4, OneCodec DEF ReadVarint, Second
  <2>5. CASE Encode58
    BY <2>5, OneCodec DEF Encode58, First
  <2>6. CASE Decode58
    BY <2>6, OneCodec DEF Decode58, Second
  <2>7. CASE DecodeText
    BY <2>7, OneCodec DEF DecodeText, First
  <2>8. CASE EncodeText
    BY <2>8, OneCodec DEF EncodeText, Second
  <2>9. CASE Utf8ToAscii
    BY <2>9, OneCodec DEF Utf8ToAscii, First
  <2>10. CASE FormatUnsigned
    BY <2>10, OneCodec DEF FormatUnsigned, First
  <2>11. CASE FormatSigned
    BY <2>11, OneCodec DEF FormatSigned, First
  <2>12. CASE FormatHex
    BY <2>12, OneCodec DEF FormatHex, First
  <2>13. CASE UNCHANGED vars
    BY <2>13 DEF vars
  <2> QED
    BY <2>1, <2>2, <2>3, <2>4, <2>5, <2>6, <2>7, <2>8, <2>9, <2>10, <2>11, <2>12, <2>13 DEF Next
<1> QED BY <1>1, <1>2, PTL DEF Spec

\* The arguments of a call.
LEMMA CallIs ==
  ASSUME Converted, NEW codec, call.codec = codec
  PROVE  /\ codec \in DOMAIN CallOf /\ call \in CallOf[codec]
         /\ codec = "word" => call.value \in UINT(call.width)
BY CallsAssumption DEF Converted

\* The bytes of a word as a sequence.
LEMMA WordsAre == Converted => WordsKept
<1> SUFFICES ASSUME Converted, Made("word") PROVE WordsKept
  BY DEF WordsKept, Made, Back
<1> DEFINE n == call.width
           v == call.value
           order == call.order
           bytes == SubSeq(made, 2, n + 1)
           high == IF order = "BE" THEN bytes ELSE Reverse(bytes)
<1>1. n \in Nat /\ order \in {"BE", "LE"} /\ v \in UINT(n)
  <2>1. call \in CallOf["word"] /\ v \in UINT(n)
    BY CallIs DEF Made
  <2>2. CallOf["word"] = [codec : {"word"}, width : Widths, order : {"BE", "LE"}, value : Nat]
    BY DEF CallOf
  <2> QED BY <2>1, <2>2 DEF Widths
<1>2. made = write_word(Memory(n + 2), 1, n, order, v)
  BY DEF Converted, Made, ConvertedTo
<1> HIDE DEF n, v, order
<1>3. /\ made \in Seq(Word) /\ Len(made) = n + 2
      /\ \A i \in 1..n : made[1 + i] = ByteOf(v, IF order = "BE" THEN n - i ELSE i - 1)
      /\ made[1] = Fill /\ made[n + 2] = Fill
  <2> DEFINE ptr == Memory(n + 2)
  <2>1. /\ n + 2 \in Nat /\ 1 + n <= n + 2 /\ 1 \in 1..(n + 2) /\ n + 2 \in 1..(n + 2)
        /\ 1 <= 1 /\ n + 2 > 1 + n
    BY <1>1
  <2>2. ptr \in Seq({Fill}) /\ Len(ptr) = n + 2 /\ \A i \in 1..(n + 2) : ptr[i] = Fill
    BY <2>1, MemoryIs
  <2> HIDE DEF ptr
  <2>3. ptr \in Seq(Word)
    BY <2>2 DEF Word
  <2>4. made = write_word(ptr, 1, n, order, v)
    BY <1>2 DEF ptr
  <2>5. /\ made \in Seq(Word) /\ Len(made) = Len(ptr)
        /\ \A i \in 1..n : made[1 + i] = ByteOf(v, IF order = "BE" THEN n - i ELSE i - 1)
        /\ \A i \in 1..Len(ptr) : i <= 1 \/ i > 1 + n => made[i] = ptr[i]
    <3>1. 1 \in Nat /\ 1 + n <= Len(ptr)
      BY <1>1, <2>2
    <3> QED BY <1>1, <2>3, <2>4, <3>1, WriteIs
  <2> QED BY <2>1, <2>2, <2>5
<1>4. \A i \in 1..n : /\ ByteOf(v, n - i) \in Nat /\ ByteOf(v, i - 1) \in Nat
                      /\ n - i \in Nat /\ i - 1 \in Nat /\ n - i + 1 \in 1..n
                      /\ n - (n - i + 1) = i - 1 /\ (n - i + 1) - 1 = n - i
  <2> TAKE i \in 1..n
  <2>1. /\ n - i \in Nat /\ i - 1 \in Nat /\ n - i + 1 \in 1..n
        /\ n - (n - i + 1) = i - 1 /\ (n - i + 1) - 1 = n - i
    BY <1>1
  <2>2. v \in Nat
    BY <1>1, HighEnds
  <2> QED BY <2>1, <2>2, HighIs
<1>5. /\ bytes \in Seq(Nat) /\ Len(bytes) = n
      /\ \A i \in 1..n : bytes[i] = ByteOf(v, IF order = "BE" THEN n - i ELSE i - 1)
  <2>1. n + 1 <= Len(made)
    BY <1>1, <1>3
  <2> HIDE DEF bytes
  <2>2. /\ bytes \in Seq(Word) /\ Len(bytes) = n
        /\ \A i \in 1..n : bytes[i] = made[1 + i]
    BY <1>1, <1>3, <2>1, RestIs DEF bytes
  <2>3. \A i \in 1..n : bytes[i] = ByteOf(v, IF order = "BE" THEN n - i ELSE i - 1)
    BY <1>3, <2>2
  <2>4. \A i \in 1..Len(bytes) : bytes[i] \in Nat
    BY <1>4, <2>2, <2>3
  <2> QED BY <2>2, <2>3, <2>4
<1> HIDE DEF bytes
<1>6. high \in Seq(Nat) /\ Len(high) = n /\ \A i \in 1..n : high[i] = ByteOf(v, n - i)
  <2>1. CASE order = "BE"
    BY <1>5, <2>1
  <2>2. CASE order = "LE"
    <3> DEFINE r == [i \in 1..n |-> bytes[n - i + 1]]
    <3>1. high = r
      BY <1>5, <2>2 DEF Reverse
    <3>2. \A i \in 1..n : r[i] = ByteOf(v, n - i) /\ r[i] \in Nat
      BY <1>4, <1>5, <2>2
    <3> HIDE DEF high
    <3>3. r \in [1..n -> Nat]
      BY <3>2
    <3> HIDE DEF r
    <3>4. r \in Seq(Nat) /\ Len(r) = n
      BY <1>1, <3>3
    <3> QED BY <3>1, <3>2, <3>4
  <2> QED BY <1>1, <2>1, <2>2
<1>7. Denoted(high, ByteRange) = v
  <2> HIDE DEF high
  <2> QED BY <1>1, <1>6, BytesDenote
<1>8. Back("word") => back = v
  <2> SUFFICES ASSUME Back("word") PROVE back = v
    OBVIOUS
  <2>1. back = read_word(made, 1, n, order)
    BY DEF Converted, Back, ConvertedBack, n, order
  <2>2. read_word(made, 1, n, order) = v
    BY <1>1, <1>3, ReadIs, 1 \in Nat
  <2> QED BY <2>1, <2>2
<1> QED BY <1>3, <1>7, <1>8 DEF WordsKept, n, v, order, bytes

\* A word of two, four or eight bytes is read as it was written, in either
\* order, changes nothing beside it, and has its high byte where its order says:
\* for every value of its width (read.c, write.c).
THEOREM WordsAreKept == Spec => []WordsKept
BY ConvertedAlways, WordsAre, PTL

-----------------------------------------------------------------------------
(* Varints. *)

\* The prefixes are bytes, no two the same, and larger than any value of one byte.
LEMMA PrefixIs ==
  /\ Prefix(2) = ByteRange - 3 /\ Prefix(4) = ByteRange - 2 /\ Prefix(8) = ByteRange - 1
  /\ Prefix(2) \in Nat /\ Prefix(4) \in Nat /\ Prefix(8) \in Nat
BY WordsAssumption DEF Prefix

\* The powers that bound the values of a word.
LEMMA WidthsGrow ==
  /\ Power(ByteRange, 2) \in Nat /\ Power(ByteRange, 4) \in Nat /\ Power(ByteRange, 8) \in Nat
  /\ ByteRange <= Power(ByteRange, 2) /\ Power(ByteRange, 2) <= Power(ByteRange, 4)
  /\ Power(ByteRange, 4) <= Power(ByteRange, 8)
<1> DEFINE p(k) == Power(ByteRange, k)
<1>1. p(0) = 1 /\ ByteRange \in Nat \ {0, 1}
  BY PowersAre
<1>2. \A k \in Nat : p(k) \in Nat \ {0} /\ p(k + 1) = ByteRange * p(k)
  BY PowersAre
<1> HIDE DEF p
<1>3. \A k \in Nat : p(k) \in Nat /\ p(k) <= p(k + 1)
  <2> TAKE k \in Nat
  <2> DEFINE q == p(k)
  <2>1. q \in Nat /\ p(k + 1) = ByteRange * q
    BY <1>2
  <2> HIDE DEF q
  <2>2. q <= ByteRange * q
    BY <1>1, <2>1
  <2> QED BY <2>1, <2>2 DEF q
<1>4. p(1) = ByteRange
  <2>1. p(0 + 1) = ByteRange * p(0)
    BY <1>2
  <2> QED BY <1>1, <2>1
<1>5. /\ p(1) <= p(2) /\ p(2) <= p(3) /\ p(3) <= p(4) /\ p(4) <= p(5)
      /\ p(5) <= p(6) /\ p(6) <= p(7) /\ p(7) <= p(8)
  BY <1>3, 1 + 1 = 2, 2 + 1 = 3, 3 + 1 = 4, 4 + 1 = 5, 5 + 1 = 6, 6 + 1 = 7, 7 + 1 = 8
<1>6. p(2) \in Nat /\ p(3) \in Nat /\ p(4) \in Nat /\ p(5) \in Nat /\ p(6) \in Nat /\ p(7) \in Nat /\ p(8) \in Nat
  BY <1>3
<1> QED BY <1>1, <1>4, <1>5, <1>6 DEF p

\* How many bytes a value takes.
LEMMA SizeIs ==
  ASSUME NEW v \in UINT(8), NEW n, n = varint_size(v)
  PROVE  /\ v \in Nat
         /\ \/ n = 1 /\ v < Prefix(2)
            \/ n = 3 /\ v >= Prefix(2) /\ v \in UINT(2)
            \/ n = 5 /\ v >= Power(ByteRange, 2) /\ v \in UINT(4)
            \/ n = 9 /\ v >= Power(ByteRange, 4) /\ v \in UINT(8)
<1> DEFINE a == Power(ByteRange, 2)
           b == Power(ByteRange, 4)
           c == Power(ByteRange, 8)
           f == Prefix(2)
<1>1. /\ a \in Nat /\ b \in Nat /\ c \in Nat /\ a <= b /\ b <= c
      /\ f \in Nat /\ f < a
  BY WidthsGrow, PrefixIs, WordsAssumption
<1>2. UINT(2) = 0..(a - 1) /\ UINT(4) = 0..(b - 1) /\ UINT(8) = 0..(c - 1)
  BY DEF UINT
<1> HIDE DEF a, b, c, f
<1>3. v \in 0..(c - 1)
  BY <1>2
<1>4. n = CASE v < f -> 1
            [] v >= f /\ v \in 0..(a - 1) -> 3
            [] v \in (0..(b - 1)) \ (0..(a - 1)) -> 5
            [] v \in (0..(c - 1)) \ (0..(b - 1)) -> 9
  BY <1>2 DEF varint_size, f
<1>5. CASE v < f
  <2>1. n = 1
    BY <1>1, <1>3, <1>4, <1>5
  <2> QED BY <1>3, <1>5, <2>1, <1>1 DEF f
<1>6. CASE v >= f /\ v < a
  <2>1. n = 3
    BY <1>1, <1>3, <1>4, <1>6
  <2> QED BY <1>2, <1>3, <1>6, <2>1, <1>1 DEF f
<1>7. CASE v >= a /\ v < b
  <2>1. n = 5
    BY <1>1, <1>3, <1>4, <1>7
  <2> QED BY <1>2, <1>3, <1>7, <2>1, <1>1 DEF a
<1>8. CASE v >= b
  <2>1. n = 9
    BY <1>1, <1>3, <1>4, <1>8
  <2> QED BY <1>2, <1>3, <1>8, <2>1, <1>1 DEF b
<1> QED BY <1>1, <1>3, <1>5, <1>6, <1>7, <1>8

\* A word behind its prefix, the low byte first, as it is written and as it is read.
LEMMA WriteLow ==
  ASSUME NEW ptr \in Seq(Word), NEW n \in Nat, 2 + n <= Len(ptr), NEW v \in UINT(n),
         NEW out, out = write_word(ptr, 2, n, "LE", v)
  PROVE  /\ out \in Seq(Word) /\ Len(out) = Len(ptr) /\ out[2] = ptr[2]
         /\ \A i \in 1..n : out[2 + i] = ByteOf(v, i - 1)
<1> DEFINE at == 2
           order == "LE"
<1>1. at \in Nat /\ at = 2 /\ order \in {"BE", "LE"} /\ order # "BE"
  OBVIOUS
<1>2. at + n <= Len(ptr) /\ out = write_word(ptr, at, n, order, v)
  OBVIOUS
<1> HIDE DEF at, order
<1>3. out \in Seq(Word) /\ Len(out) = Len(ptr)
  BY <1>1, <1>2, WriteIs
<1>4. \A i \in 1..n : out[at + i] = ByteOf(v, IF order = "BE" THEN n - i ELSE i - 1)
  BY <1>1, <1>2, WriteIs
<1>5. \A i \in 1..Len(ptr) : i <= at \/ i > at + n => out[i] = ptr[i]
  BY <1>1, <1>2, WriteIs
<1>6. out[2] = ptr[2]
  <2>1. 2 \in 1..Len(ptr)
    OBVIOUS
  <2> QED BY <1>1, <1>5, <2>1
<1> QED BY <1>1, <1>3, <1>4, <1>6

LEMMA ReadLow ==
  ASSUME NEW n \in Nat, NEW v \in UINT(n), NEW in, \A i \in 1..n : in[1 + i] = ByteOf(v, i - 1)
  PROVE  read_word(in, 1, n, "LE") = v
<1>1. \A at \in Nat, order \in {"BE", "LE"} :
        (\A i \in 1..n : in[at + i] = ByteOf(v, IF order = "BE" THEN n - i ELSE i - 1))
          => read_word(in, at, n, order) = v
  BY ReadIs
<1>2. \A i \in 1..n : in[1 + i] = ByteOf(v, IF "LE" = "BE" THEN n - i ELSE i - 1)
  OBVIOUS
<1> QED BY <1>1, <1>2, 1 \in Nat, "LE" \in {"BE", "LE"}, Zenon

\* A cell that is written.
LEMMA CellIs ==
  ASSUME NEW s \in Seq(Word), NEW i \in 1..Len(s), NEW x \in Word, NEW t, t = [s EXCEPT ![i] = x]
  PROVE  t \in Seq(Word) /\ Len(t) = Len(s) /\ t[i] = x
OBVIOUS

\* What is written of a value: itself, or its prefix and its word.
LEMMA VarintIs ==
  ASSUME NEW v \in UINT(8), NEW o, o = varint_write(Memory(11), 1, v)
  PROVE  /\ o.len = varint_size(v)
         /\ o.out \in Seq(Word) /\ Len(o.out) = 11
         /\ o.len = 1 => o.out[2] = v
         /\ o.len # 1 => /\ o.out[2] = Prefix(o.len - 1)
                         /\ \A i \in 1..(o.len - 1) : o.out[2 + i] = ByteOf(v, i - 1)
<1> DEFINE n == varint_size(v)
           m == Memory(11)
<1>1. m \in Seq({Fill}) /\ Len(m) = 11
  BY MemoryIs, 11 \in Nat
<1> HIDE DEF n, m
<1>2. m \in Seq(Word)
  BY <1>1 DEF Word
<1>3. /\ o.len = n
      /\ o.out = IF n = 1 THEN [m EXCEPT ![2] = v]
                 ELSE write_word([m EXCEPT ![2] = Prefix(n - 1)], 2, n - 1, "LE", v)
  BY DEF varint_write, n, m
<1>4. /\ v \in Nat /\ n \in {1, 3, 5, 9}
      /\ n = 3 => v \in UINT(2)
      /\ n = 5 => v \in UINT(4)
      /\ n = 9 => v \in UINT(8)
  BY SizeIs, PrefixIs, WidthsGrow DEF n
<1>5. CASE n = 1
  <2>1. 2 \in 1..Len(m) /\ v \in Word
    BY <1>1, <1>4 DEF Word
  <2>2. o.out \in Seq(Word) /\ Len(o.out) = Len(m) /\ o.out[2] = v
    BY <1>2, <1>3, <1>5, <2>1, CellIs
  <2> QED BY <1>1, <1>3, <1>5, <2>2 DEF n
<1>6. CASE n # 1
  <2> DEFINE w == n - 1
             p == [m EXCEPT ![2] = Prefix(w)]
  <2>1. w \in Widths /\ v \in UINT(w) /\ w \in Nat /\ 2 + w <= 11 /\ Prefix(w) \in Nat
    BY <1>4, <1>6, PrefixIs DEF Widths
  <2>2. p \in Seq(Word) /\ Len(p) = 11 /\ p[2] = Prefix(w)
    <3>1. 2 \in 1..Len(m) /\ Prefix(w) \in Word
      BY <1>1, <2>1 DEF Word
    <3> DEFINE x == Prefix(w)
    <3> HIDE DEF w, x
    <3>2. 2 \in 1..Len(m) /\ x \in Word /\ p = [m EXCEPT ![2] = x]
      BY <3>1 DEF x
    <3> HIDE DEF p
    <3>3. p \in Seq(Word) /\ Len(p) = Len(m) /\ p[2] = x
      BY <1>2, <3>2, CellIs
    <3> QED BY <1>1, <3>3 DEF x
  <2>3. o.out = write_word(p, 2, w, "LE", v)
    BY <1>3, <1>6
  <2> HIDE DEF p, w
  <2> DEFINE out == o.out
  <2>4. out = write_word(p, 2, w, "LE", v) /\ 2 + w <= Len(p)
    BY <2>1, <2>2, <2>3
  <2> HIDE DEF out
  <2>5. /\ out \in Seq(Word) /\ Len(out) = Len(p) /\ out[2] = p[2]
        /\ \A i \in 1..w : out[2 + i] = ByteOf(v, i - 1)
    <3>0. p \in Seq(Word) /\ w \in Nat /\ v \in UINT(w)
      BY <2>1, <2>2
    <3>1. out \in Seq(Word)
      BY <2>4, <3>0, WriteLow
    <3>2. Len(out) = Len(p)
      BY <2>4, <3>0, WriteLow
    <3>3. out[2] = p[2]
      BY <2>4, <3>0, WriteLow
    <3>4. \A i \in 1..w : out[2 + i] = ByteOf(v, i - 1)
      BY <2>4, <3>0, WriteLow
    <3> QED BY <3>1, <3>2, <3>3, <3>4
  <2> QED BY <1>3, <1>6, <2>2, <2>5 DEF n, w, out
<1> QED BY <1>5, <1>6

\* What is read of a beginning of what was written.
LEMMA VarintReadIs ==
  ASSUME NEW v \in UINT(8), NEW o, o = varint_write(Memory(11), 1, v), NEW k \in 0..9,
         NEW in, in = SubSeq(o.out, 2, k + 1)
  PROVE  varint_read(in) = IF k >= o.len THEN [len |-> o.len, value |-> {v}]
                                         ELSE [len |-> -1, value |-> {}]
<1> DEFINE n == o.len
<1>1. /\ n = varint_size(v) /\ o.out \in Seq(Word) /\ Len(o.out) = 11
      /\ n = 1 => o.out[2] = v
      /\ n # 1 => /\ o.out[2] = Prefix(n - 1)
                  /\ \A i \in 1..(n - 1) : o.out[2 + i] = ByteOf(v, i - 1)
  BY VarintIs
<1>2. /\ v \in Nat /\ n \in {1, 3, 5, 9}
      /\ n = 1 => v < Prefix(2)
      /\ n = 3 => v \in UINT(2)
      /\ n = 5 => v \in UINT(4)
      /\ n = 9 => v \in UINT(8)
  BY <1>1, SizeIs
<1> DEFINE out == o.out
<1>3. Len(in) = k /\ \A i \in 1..k : in[i] = out[1 + i]
  <2>1. k \in Nat /\ k + 1 <= 11
    OBVIOUS
  <2>2. out \in Seq(Word) /\ Len(out) = 11 /\ in = SubSeq(out, 2, k + 1)
    BY <1>1
  <2> HIDE DEF out
  <2>3. k + 1 <= Len(out)
    BY <2>1, <2>2
  <2>4. Len(in) = k
    BY <2>1, <2>2, <2>3, RestIs
  <2>5. \A i \in 1..k : in[i] = out[1 + i]
    BY <2>1, <2>2, <2>3, RestIs
  <2> QED BY <2>4, <2>5
<1> HIDE DEF n, out
<1> DEFINE widths == {w \in {2, 4, 8} : Len(in) >= 1 /\ in[1] = Prefix(w)}
           length == IF widths = {} THEN 1 ELSE 1 + CHOOSE w \in widths : TRUE
<1>4. varint_read(in) =
        IF Len(in) < length THEN [len |-> -1, value |-> {}]
        ELSE [len |-> length,
              value |-> {IF length = 1 THEN in[1] ELSE read_word(in, 1, length - 1, "LE")}]
  BY DEF varint_read
<1>5. CASE k = 0
  <2>1. widths = {}
    BY <1>3, <1>5
  <2> HIDE DEF widths
  <2>2. length = 1 /\ Len(in) < length
    BY <1>3, <1>5, <2>1
  <2> QED BY <1>2, <1>4, <1>5, <2>2 DEF n
<1>6. CASE k >= 1 /\ n = 1
  <2>1. in[1] = v /\ v < ByteRange - 3
    BY <1>1, <1>2, <1>3, <1>6, PrefixIs DEF n, out
  <2>2. widths = {}
    BY <1>2, <2>1, PrefixIs, WordsAssumption
  <2> HIDE DEF widths
  <2>3. length = 1
    BY <2>2
  <2> HIDE DEF length
  <2>4. ~(Len(in) < length)
    BY <1>3, <1>6, <2>3
  <2>5. varint_read(in) = [len |-> 1, value |-> {v}]
    BY <1>4, <2>1, <2>3, <2>4
  <2> QED BY <1>6, <2>5 DEF n
<1>7. CASE k >= 1 /\ n # 1
  <2> DEFINE w == n - 1
  <2>1. w \in {2, 4, 8} /\ n = 1 + w /\ w \in Nat /\ v \in UINT(w)
    BY <1>2, <1>7
  <2>2. in[1] = Prefix(w)
    BY <1>1, <1>3, <1>7 DEF n, out
  <2> HIDE DEF w
  <2>3. \A u \in {2, 4, 8} : Prefix(u) = Prefix(w) <=> u = w
    BY <2>1, PrefixIs, WordsAssumption
  <2>4. widths = {w}
    BY <1>3, <1>7, <2>1, <2>2, <2>3
  <2> HIDE DEF widths
  <2>5. length = n
    BY <2>1, <2>4
  <2>6. CASE k < n
    BY <1>2, <1>3, <1>4, <2>5, <2>6 DEF n
  <2>7. CASE k >= n
    <3>1. \A i \in 1..w : in[1 + i] = ByteOf(v, i - 1)
      <4> TAKE i \in 1..w
      <4>1. 1 + i \in 1..k /\ 1 + (1 + i) = 2 + i /\ i \in 1..(n - 1)
        BY <2>1, <2>7
      <4> QED BY <1>1, <1>3, <1>7, <4>1 DEF n, out
    <3>5. read_word(in, 1, w, "LE") = v
      <4> HIDE DEF length
      <4> QED BY <2>1, <3>1, ReadLow
    <3>6. ~(Len(in) < length) /\ length # 1
      BY <1>2, <1>3, <1>7, <2>5, <2>7
    <3> HIDE DEF length
    <3> QED BY <1>4, <2>5, <2>7, <3>5, <3>6 DEF n, w
  <2> QED BY <1>2, <2>6, <2>7
<1> QED BY <1>2, <1>5, <1>6, <1>7

\* A varint takes as few bytes as it may, and is read back from them alone.
LEMMA VarintsAre == Converted => VarintKept
<1> SUFFICES ASSUME Converted, Made("varint") PROVE VarintKept
  BY DEF VarintKept, Made, Back
<1> DEFINE v == call.value
           n == made.len
<1>1. v \in UINT(8) /\ call.in_len \in 0..9
  <2>1. call \in CallOf["varint"]
    BY CallIs DEF Made
  <2>2. CallOf["varint"] = [codec : {"varint"}, value : UINT(8), in_len : 0..9]
    BY DEF CallOf
  <2> QED BY <2>1, <2>2
<1>2. made = varint_write(Memory(11), 1, v)
  BY DEF Converted, Made, ConvertedTo
<1>3. n = varint_size(v)
  BY <1>1, <1>2, VarintIs
<1> HIDE DEF v, n
<1>4. /\ v \in Nat
      /\ \/ n = 1 /\ v < Prefix(2)
         \/ n = 3 /\ v >= Prefix(2) /\ v < Power(ByteRange, 2)
         \/ n = 5 /\ v >= Power(ByteRange, 2) /\ v < Power(ByteRange, 4)
         \/ n = 9 /\ v >= Power(ByteRange, 4) /\ v < Power(ByteRange, 8)
  <2>1. \A k \in {2, 4, 8} : v \in UINT(k) => v < Power(ByteRange, k)
    BY WidthsGrow DEF UINT
  <2> QED BY <1>1, <1>3, <2>1, SizeIs
<1>5. /\ n = 1 => v < ByteRange - 3
      /\ n > 1 => v < Power(ByteRange, n - 1)
      /\ n > 3 => v >= Power(ByteRange, (n - 1) \div 2)
      /\ n = 3 => v >= ByteRange - 3
  <2>1. 3 - 1 = 2 /\ 5 - 1 = 4 /\ 9 - 1 = 8 /\ 4 \div 2 = 2 /\ 8 \div 2 = 4
    OBVIOUS
  <2> QED BY <1>4, <2>1, PrefixIs
<1>6. Back("varint") =>
        back = IF call.in_len >= n THEN [len |-> n, value |-> {v}] ELSE [len |-> -1, value |-> {}]
  <2> SUFFICES ASSUME Back("varint") 
               PROVE  back = IF call.in_len >= n THEN [len |-> n, value |-> {v}] ELSE [len |-> -1, value |-> {}]
    OBVIOUS
  <2>1. back = varint_read(SubSeq(made.out, 2, call.in_len + 1))
    BY DEF Converted, Back, ConvertedBack
  <2> QED BY <1>1, <1>2, <2>1, VarintReadIs DEF n
<1> QED BY <1>5, <1>6 DEF VarintKept, n, v

\* A varint is written in as few bytes as its value allows, is read back as it
\* was written when all of them are there, and is refused when one is missing:
\* for every value of 64 bits (varint.c:25-101).
THEOREM VarintsAreKept == Spec => []VarintKept
BY ConvertedAlways, VarintsAre, PTL

-----------------------------------------------------------------------------
(* Numbers. *)

\* What an array of characters is made of.
Chars == HexChars \cup {"-", NUL, Fill}

\* The memory of a conversion.
LEMMA CharsAre ==
  /\ DigitChars \cup {NUL} \subseteq Chars /\ HexChars \cup {"-", NUL} \subseteq Chars
  /\ \A c \in DigitChars \cup HexChars \cup {"-"} : c # NUL
  /\ \A n \in Nat : Memory(n) \in Seq(Chars) /\ Len(Memory(n)) = n
<1>1. \A c \in HexChars \cup {"-"} : c # NUL
  BY NulAssumption DEF HexChars
<1>2. DigitChars \subseteq HexChars
  <2>1. \A i \in 1..16 : HexDigit[i] \in HexChars
    BY HexDigitIs DEF HexChars, ToSet
  <2>2. /\ 1 \in 1..16 /\ 2 \in 1..16 /\ 3 \in 1..16 /\ 4 \in 1..16 /\ 5 \in 1..16
        /\ 6 \in 1..16 /\ 7 \in 1..16 /\ 8 \in 1..16 /\ 9 \in 1..16 /\ 10 \in 1..16
    OBVIOUS
  <2> QED BY <2>1, <2>2, HexDigitIs DEF DigitChars
<1>3. \A n \in Nat : Memory(n) \in Seq(Chars) /\ Len(Memory(n)) = n
  <2> TAKE n \in Nat
  <2>1. Memory(n) \in Seq({Fill}) /\ Len(Memory(n)) = n
    BY MemoryIs
  <2>2. {Fill} \subseteq Chars
    BY DEF Chars
  <2> HIDE DEF Chars
  <2> QED BY <2>1, <2>2
<1> QED BY <1>1, <1>2, <1>3 DEF Chars

\* The number that a text was formatted from, and the room that it needs.
Room(v) == 2 + Cardinality({k \in 1..MaxDigits : (IF v < 0 THEN -v ELSE v) >= Power(10, k)})
             + (IF v < 0 THEN 1 ELSE 0)
Shown(text, v) ==
  /\ Len(text) = Room(v) - 1
  /\ v < 0 => text[1] = "-"
  /\ Denoted(DigitValues(SubSeq(text, IF v < 0 THEN 2 ELSE 1, Len(text))), 10) = IF v < 0 THEN -v ELSE v

\* The digits of a number are as many as it has powers of ten.
LEMMA DigitsShow ==
  ASSUME NEW v \in 0..UINT64_MAX
  PROVE  /\ Digits[v] \in Seq(DigitChars) /\ Len(Digits[v]) \in Nat /\ Len(Digits[v]) >= 1
         /\ Room(v) = Len(Digits[v]) + 1
         /\ Shown(Digits[v], v)
<1> DEFINE d == Digits[v]
<1>1. d \in Seq(DigitChars) /\ Len(d) \in Nat /\ Len(d) >= 1 /\ Denoted(DigitValues(d), 10) = v
  BY DigitsAreText DEF IsTextOf
<1>2. v \in Nat /\ ~(v < 0) /\ (IF v < 0 THEN -v ELSE v) = v
  BY MaxIs
<1>3. Cardinality({k \in 1..MaxDigits : v >= Power(10, k)}) = Len(d) - 1
  BY DigitsCount
<1>4. Room(v) = 2 + Cardinality({k \in 1..MaxDigits : v >= Power(10, k)}) + 0
  BY <1>2 DEF Room
<1> HIDE DEF d
<1>5. Room(v) = Len(d) + 1
  BY <1>1, <1>3, <1>4
<1>6. SubSeq(d, 1, Len(d)) = d
  BY <1>1
<1>7. Len(d) = Room(v) - 1
  BY <1>1, <1>5
<1>8. Shown(d, v)
  BY <1>1, <1>2, <1>6, <1>7 DEF Shown
<1> QED BY <1>1, <1>5, <1>8 DEF d

\* And with a minus before them.
LEMMA MinusShow ==
  ASSUME NEW n \in 1..UINT64_MAX, NEW text, text = <<"-">> \o Digits[n]
  PROVE  /\ text \in Seq(Chars) /\ Len(text) = Len(Digits[n]) + 1 /\ \A i \in 1..Len(text) : text[i] # NUL
         /\ Room(-n) = Len(text) + 1
         /\ Shown(text, -n)
<1> DEFINE d == Digits[n]
           v == -n
<1>1. /\ d \in Seq(DigitChars) /\ Len(d) \in Nat /\ Len(d) >= 1 /\ Room(n) = Len(d) + 1
      /\ Shown(d, n)
  BY DigitsShow, MaxIs
<1>2. v < 0 /\ -v = n /\ n \in Nat /\ ~(n < 0)
  BY MaxIs
<1>3. Denoted(DigitValues(d), 10) = n
  BY DigitsAreText, MaxIs DEF IsTextOf
<1>4. Room(v) = Room(n) + 1
  <2> DEFINE c == Cardinality({k \in 1..MaxDigits : n >= Power(10, k)})
  <2>1. c = Len(d) - 1
    BY DigitsCount, MaxIs
  <2>2. Room(v) = 2 + c + 1 /\ Room(n) = 2 + c + 0
    BY <1>2 DEF Room
  <2> HIDE DEF c, d
  <2> QED BY <1>1, <2>1, <2>2
<1> HIDE DEF d, v
<1>5. d \in Seq(Chars) /\ \A i \in 1..Len(d) : d[i] # NUL
  <2>1. d \in Seq(Chars)
    BY <1>1, CharsAre
  <2>2. \A i \in 1..Len(d) : d[i] \in DigitChars
    BY <1>1
  <2> QED BY <2>1, <2>2, CharsAre
<1>6. /\ text \in Seq(Chars) /\ Len(text) = Len(d) + 1 /\ text[1] = "-"
      /\ \A i \in 1..Len(d) : text[1 + i] = d[i]
  <2> DEFINE sign == <<"-">>
  <2>1. text = sign \o d /\ sign \in Seq(Chars) /\ Len(sign) = 1 /\ sign[1] = "-"
    <3>1. "-" \in Chars
      BY CharsAre
    <3> HIDE DEF Chars
    <3> QED BY <3>1 DEF d
  <2> HIDE DEF sign
  <2>2. /\ text \in Seq(Chars) /\ Len(text) = Len(sign) + Len(d)
        /\ \A i \in 1..(Len(sign) + Len(d)) : text[i] = IF i <= Len(sign) THEN sign[i] ELSE d[i - Len(sign)]
    <3>1. /\ sign \o d \in Seq(Chars) /\ Len(sign \o d) = Len(sign) + Len(d)
      BY <1>5, <2>1, ConcatProperties
    <3>2. \A i \in 1..(Len(sign) + Len(d)) :
            (sign \o d)[i] = IF i <= Len(sign) THEN sign[i] ELSE d[i - Len(sign)]
      BY <1>5, <2>1, ConcatProperties
    <3> QED BY <2>1, <3>1, <3>2
  <2>3. \A i \in 1..Len(d) : 1 + i \in 1..(1 + Len(d)) /\ ~(1 + i <= 1) /\ (1 + i) - 1 = i
    BY <1>1
  <2>4. 1 \in 1..(1 + Len(d))
    BY <1>1
  <2> QED BY <1>1, <2>1, <2>2, <2>3, <2>4
<1>7. \A i \in 1..Len(text) : text[i] # NUL
  <2> TAKE i \in 1..Len(text)
  <2>1. i = 1 \/ (i - 1 \in 1..Len(d) /\ 1 + (i - 1) = i)
    BY <1>1, <1>6
  <2> QED BY <1>5, <1>6, <2>1, CharsAre
<1>8. SubSeq(text, 2, Len(text)) = d
  <2> DEFINE u == SubSeq(text, 2, Len(d) + 1)
  <2>1. u \in Seq(Chars) /\ Len(u) = Len(d) /\ \A i \in 1..Len(d) : u[i] = text[1 + i]
    BY <1>1, <1>6, RestIs
  <2> HIDE DEF u
  <2>2. u = d
    BY <1>5, <1>6, <2>1, SeqEqual
  <2> QED BY <1>6, <2>2 DEF u
<1>9. Shown(text, v)
  <2>1. Len(text) = Room(v) - 1
    BY <1>1, <1>4, <1>6
  <2> QED BY <1>2, <1>3, <1>6, <1>8, <2>1 DEF Shown
<1> QED BY <1>1, <1>4, <1>6, <1>7, <1>9 DEF d, v

\* An unsigned number in an array of n characters.
LEMMA UnsignedIs ==
  ASSUME NEW v \in 0..UINT64_MAX, NEW n \in Nat, NEW b, b = format_u64(Memory(n), v), ~(n = 1 /\ v < 10)
  PROVE  /\ b.ok <=> n >= Room(v)
         /\ b.ok => Shown(CString(b.out, 0), v)
<1> DEFINE d == Digits[v]
           cells == Memory(n)
<1>1. Len(d) \in Nat /\ Len(d) >= 1 /\ Room(v) = Len(d) + 1 /\ Shown(d, v)
  BY DigitsShow
<1>2. cells \in Seq(Chars) /\ Len(cells) = n /\ DigitChars \cup {NUL} \subseteq Chars
  BY CharsAre
<1>3. b = format_u64(cells, v)
  OBVIOUS
<1>4. n = 1 => Len(d) >= 2
  <2> SUFFICES ASSUME n = 1 PROVE Len(d) >= 2
    OBVIOUS
  <2>1. Power(10, 1) = 10
    BY PowerZero, PowerStep, 0 + 1 = 1, 0 \in Nat, 10 \in Nat
  <2>2. v >= Power(10, 1)
    BY <2>1, MaxIs
  <2> QED BY <2>2, DigitsReach, 1 \in Nat, 1 + 1 = 2
<1> HIDE DEF d, cells
<1>5. b.ok <=> Len(cells) # 0 /\ (Len(d) = 1 \/ Len(d) < Len(cells))
  BY <1>2, <1>3, FormatUnsignedIs DEF d
<1>6. Len(d) < Len(cells) => CString(b.out, 0) = d
  BY <1>2, <1>3, FormatUnsignedIs DEF d
<1>7. b.ok <=> Len(d) < n
  <2> DEFINE ok == b.ok
             k == Len(d)
  <2>1. k \in Nat /\ k >= 1 /\ (n = 1 => k >= 2) /\ (ok <=> n # 0 /\ (k = 1 \/ k < n))
    BY <1>1, <1>2, <1>4, <1>5
  <2> HIDE DEF ok, k
  <2>2. ok <=> k < n
    BY <2>1
  <2> QED BY <2>2 DEF ok, k
<1>8. n >= Room(v) <=> Len(d) < n
  BY <1>1
<1> QED BY <1>1, <1>2, <1>6, <1>7, <1>8

\* A text with a terminator, where there is room for both.
LEMMA SignedTextIs ==
  ASSUME NEW text \in Seq(Chars), \A i \in 1..Len(text) : text[i] # NUL, NEW v \in Int, NEW n \in Nat,
         Room(v) = Len(text) + 1, Shown(text, v), NEW b,
         b = IF n < Len(text) + 1 THEN [ok |-> FALSE, out |-> Memory(n)]
             ELSE [ok |-> TRUE, out |-> Written(Memory(n), 0, text \o <<NUL>>)]
  PROVE  /\ b.ok <=> n >= Room(v)
         /\ b.ok => Shown(CString(b.out, 0), v)
<1>1. Memory(n) \in Seq(Chars) /\ Len(Memory(n)) = n /\ NUL \in Chars /\ Len(text) \in Nat
  BY CharsAre
<1>2. b.ok <=> n >= Room(v)
  BY <1>1
<1>3. ASSUME b.ok PROVE CString(b.out, 0) = text
  <2>1. Len(text) < n
    BY <1>1, <1>3
  <2>2. b.out = Written(Memory(n), 0, text \o <<NUL>>)
    BY <1>1, <2>1
  <2> HIDE DEF Chars
  <2> QED BY <1>1, <2>1, <2>2, StringIs
<1> QED BY <1>2, <1>3

\* A signed number.
LEMMA SignedIs ==
  ASSUME NEW v \in (-UINT64_MAX)..UINT64_MAX, NEW n \in Nat, NEW b, b = format_i64(Memory(n), v)
  PROVE  /\ b.ok <=> n >= Room(v)
         /\ b.ok => Shown(CString(b.out, 0), v)
<1> DEFINE text == CASE v < 0 -> <<"-">> \o SignedDigits[v]
                     [] v = 0 -> <<"0">>
                     [] v > 0 -> SignedDigits[v]
           good(t) == /\ t \in Seq(Chars) /\ \A i \in 1..Len(t) : t[i] # NUL
                      /\ Room(v) = Len(t) + 1 /\ Shown(t, v)
<1>0. v \in Int
  BY MaxIs
<1>1. good(text)
  <2>1. CASE v < 0
    <3> DEFINE m == -v
    <3>1. m \in 1..UINT64_MAX /\ -m = v
      BY <2>1, MaxIs
    <3> HIDE DEF m
    <3>2. text = <<"-">> \o SignedDigits[v]
      BY <2>1, MaxIs
    <3>3. SignedDigits[v] = Digits[m]
      BY <3>1, SignedDigitsAre
    <3> HIDE DEF text
    <3> QED BY <3>1, <3>2, <3>3, MinusShow
  <2>2. CASE v >= 0
    <3>1. v \in 0..UINT64_MAX
      BY <2>2, MaxIs
    <3>2. text = Digits[v]
      <4>1. CASE v = 0
        <5>1. Digits[v] = DigitsRhs(Digits, v) /\ v <= 9 /\ v + 1 = 1
          BY <3>1, <4>1, DigitsRecursion
        <5>2. Digits[v] = <<Digit[1]>>
          BY <5>1 DEF DigitsRhs
        <5> QED BY <4>1, <5>2 DEF Digit
      <4>2. CASE v > 0
        <5>1. v \in 1..UINT64_MAX
          BY <3>1, <4>2, MaxIs
        <5>2. text = SignedDigits[v]
          BY <4>2, MaxIs
        <5> HIDE DEF text
        <5> QED BY <5>1, <5>2, SignedDigitsAre
      <4> QED BY <2>2, <4>1, <4>2, MaxIs
    <3> DEFINE d == Digits[v]
    <3>3. /\ d \in Seq(DigitChars) /\ Len(d) \in Nat /\ Room(v) = Len(d) + 1 /\ Shown(d, v)
      BY <3>1, DigitsShow
    <3> HIDE DEF d, text
    <3>4. d \in Seq(Chars)
      BY <3>3, CharsAre
    <3>5. \A i \in 1..Len(d) : d[i] # NUL
      <4>1. \A i \in 1..Len(d) : d[i] \in DigitChars
        BY <3>3
      <4> QED BY <4>1, CharsAre
    <3>6. good(d)
      BY <3>3, <3>4, <3>5
    <3> QED BY <3>2, <3>6 DEF d
  <2> QED BY <1>0, <2>1, <2>2
<1> DEFINE cells == Memory(n)
<1>2. Len(cells) = n
  BY CharsAre
<1>3. b = IF n < Len(text) + 1 THEN [ok |-> FALSE, out |-> Memory(n)]
          ELSE [ok |-> TRUE, out |-> Written(Memory(n), 0, text \o <<NUL>>)]
  <2>1. b = IF Len(cells) < Distance(text)
              THEN [ok |-> FALSE, out |-> cells]
              ELSE [ok |-> TRUE, out |-> Written(cells, 0, text \o <<NUL>>)]
    BY DEF format_i64
  <2> HIDE DEF text
  <2> QED BY <1>2, <2>1 DEF Distance
<1> HIDE DEF text
<1>4. /\ text \in Seq(Chars) /\ \A i \in 1..Len(text) : text[i] # NUL
      /\ Room(v) = Len(text) + 1 /\ Shown(text, v)
  BY <1>1
<1>5. b.ok <=> n >= Room(v)
  BY <1>0, <1>3, <1>4, SignedTextIs
<1>6. b.ok => Shown(CString(b.out, 0), v)
  BY <1>0, <1>3, <1>4, SignedTextIs
<1> QED BY <1>5, <1>6

\* Bytes in hexadecimal.
LEMMA BytesShow ==
  ASSUME NEW in \in Seq(Bytes), NEW n \in Nat, NEW b, b = format_hex(in, Memory(n))
  PROVE  /\ b.len = IF n > 2 * Len(in) THEN 2 * Len(in) + 1 ELSE -1
         /\ b.len > 0 =>
              /\ Len(CString(b.out, 0)) = 2 * Len(in)
              /\ \A i \in 1..Len(in) :
                   Denoted(DigitValues(SubSeq(CString(b.out, 0), 2 * i - 1, 2 * i)), 16) = in[i]
<1> DEFINE hex == Hex(in)
           m == Len(in)
<1>1. m \in Nat /\ \A i \in 1..m : in[i] \in 0..255
  <2>1. \A i \in 1..m : in[i] \in Bytes
    OBVIOUS
  <2> QED BY <2>1 DEF Bytes
<1>2. /\ hex \in Seq(HexChars) /\ Len(hex) = 2 * m
      /\ \A i \in 1..m : /\ hex[2 * i - 1] = HexDigit[in[i] \div 16 + 1]
                         /\ hex[2 * i] = HexDigit[(in[i] % 16) + 1]
  <2>1. Bytes \subseteq 0..255
    BY DEF Bytes
  <2> QED BY <2>1, HexIs
<1>3. Memory(n) \in Seq(Chars) /\ Len(Memory(n)) = n /\ NUL \in Chars
  BY CharsAre
<1>4. b = IF n < 2 * m + 1 THEN [len |-> -1, out |-> Memory(n)]
          ELSE [len |-> 2 * m + 1, out |-> Written(Memory(n), 0, hex \o <<NUL>>)]
  BY <1>3 DEF format_hex
<1> HIDE DEF hex, m
<1>5. b.len = IF n > 2 * m THEN 2 * m + 1 ELSE -1
  BY <1>1, <1>4
<1>6. ASSUME b.len > 0
      PROVE  CString(b.out, 0) = hex
  <2>1. 2 * m < n /\ b.out = Written(Memory(n), 0, hex \o <<NUL>>)
    BY <1>1, <1>4, <1>6
  <2>2. hex \in Seq(Chars)
    BY <1>2, CharsAre
  <2>3. \A i \in 1..Len(hex) : hex[i] # NUL
    <3>1. \A i \in 1..Len(hex) : hex[i] \in HexChars
      BY <1>2
    <3> QED BY <3>1, CharsAre
  <2>4. Len(hex) < Len(Memory(n))
    BY <1>2, <1>3, <2>1
  <2> HIDE DEF Chars
  <2> QED BY <1>3, <2>1, <2>2, <2>3, <2>4, StringIs
<1>7. \A i \in 1..m : Denoted(DigitValues(SubSeq(hex, 2 * i - 1, 2 * i)), 16) = in[i]
  <2> TAKE i \in 1..m
  <2> DEFINE u == SubSeq(hex, 2 * i - 1, 2 * i)
  <2>1. /\ u \in Seq(HexChars) /\ Len(u) = 2 /\ u[1] = hex[2 * i - 1] /\ u[2] = hex[2 * i]
    <3>1. 2 * i - 1 \in Nat /\ 2 * i - 1 >= 1 /\ 2 * i <= Len(hex) /\ 2 * i - (2 * i - 1) + 1 = 2
      BY <1>1, <1>2
    <3>2. 1 \in 1..2 /\ 2 \in 1..2 /\ (2 * i - 1) + 1 - 1 = 2 * i - 1 /\ (2 * i - 1) + 2 - 1 = 2 * i
      BY <1>1
    <3> QED BY <1>2, <3>1, <3>2
  <2> HIDE DEF u
  <2>2. u[1] = HexDigit[in[i] \div 16 + 1] /\ u[2] = HexDigit[(in[i] % 16) + 1] /\ in[i] \in 0..255
    BY <1>1, <1>2, <2>1
  <2>3. Denoted(DigitValues(u), 16) = in[i]
    BY <2>1, <2>2, HexPairDenotes
  <2> QED BY <2>3 DEF u
<1>8. b.len > 0 => /\ Len(CString(b.out, 0)) = 2 * m
                   /\ \A i \in 1..m :
                        Denoted(DigitValues(SubSeq(CString(b.out, 0), 2 * i - 1, 2 * i)), 16) = in[i]
  BY <1>2, <1>6, <1>7
<1> QED BY <1>5, <1>8 DEF m

\* The conversions of numbers.
LEMMA NumbersAre == Converted => NumberFormatted
<1> SUFFICES ASSUME Converted PROVE NumberFormatted
  OBVIOUS
<1>1. ASSUME NEW v, NEW text, NEW ok, NEW n, v \in Int, ok <=> n >= Room(v), ok => Shown(text, v)
      PROVE  LET magnitude == SubSeq(text, IF v < 0 THEN 2 ELSE 1, Len(text))
                 sign == IF v < 0 THEN -1 ELSE 1
                 needed == 2 + Cardinality({k \in 1..MaxDigits : v * sign >= Power(10, k)})
                             + (IF sign = -1 THEN 1 ELSE 0)
             IN  /\ ok <=> n >= needed
                 /\ ok => /\ Len(text) = needed - 1
                          /\ v < 0 => text[1] = "-"
                          /\ Denoted(DigitValues(magnitude), 10) = v * sign
  <2> DEFINE sign == IF v < 0 THEN -1 ELSE 1
             needed == 2 + Cardinality({k \in 1..MaxDigits : v * sign >= Power(10, k)})
                         + (IF sign = -1 THEN 1 ELSE 0)
  <2>1. v * sign = IF v < 0 THEN -v ELSE v
    BY <1>1
  <2>2. (IF sign = -1 THEN 1 ELSE 0) = IF v < 0 THEN 1 ELSE 0
    BY <1>1
  <2>3. needed = Room(v)
    BY <2>1, <2>2 DEF Room
  <2> HIDE DEF needed
  <2>4. /\ ok <=> n >= needed
        /\ ok => /\ Len(text) = needed - 1
                 /\ v < 0 => text[1] = "-"
                 /\ Denoted(DigitValues(SubSeq(text, IF v < 0 THEN 2 ELSE 1, Len(text))), 10) = v * sign
    BY <1>1, <2>1, <2>3 DEF Shown
  <2> QED BY <2>4 DEF needed
<1>2. ASSUME Made("u64"), ~(call.codec = "u64" /\ call.out_len = 1 /\ call.value < 10)
      PROVE  /\ call.value \in Int
             /\ made.ok <=> call.out_len >= Room(call.value)
             /\ made.ok => Shown(CString(made.out, 0), call.value)
  <2>1. call.codec = "u64" /\ made = format_u64(Memory(call.out_len), call.value)
    BY <1>2 DEF Converted, Made, ConvertedTo
  <2>2. call.value \in 0..UINT64_MAX /\ call.out_len \in Nat
    <3>1. call \in CallOf["u64"]
      BY <2>1, CallIs
    <3>2. CallOf["u64"] = [codec : {"u64"}, value : 0..UINT64_MAX, out_len : Nat]
      BY DEF CallOf
    <3> QED BY <3>1, <3>2
  <2>3. ~(call.out_len = 1 /\ call.value < 10)
    BY <1>2, <2>1
  <2>4. call.value \in Int
    BY <2>2, MaxIs
  <2> QED BY <2>1, <2>2, <2>3, <2>4, UnsignedIs
<1>3. ASSUME Made("i64")
      PROVE  /\ call.value \in Int
             /\ made.ok <=> call.out_len >= Room(call.value)
             /\ made.ok => Shown(CString(made.out, 0), call.value)
  <2>1. call.codec = "i64" /\ made = format_i64(Memory(call.out_len), call.value)
    BY <1>3 DEF Converted, Made, ConvertedTo
  <2>2. call.value \in (-UINT64_MAX)..UINT64_MAX /\ call.out_len \in Nat
    <3>1. call \in CallOf["i64"]
      BY <2>1, CallIs
    <3>2. CallOf["i64"] = [codec : {"i64"}, value : INT64_MIN..(-INT64_MIN - 1), out_len : Nat]
      BY DEF CallOf
    <3>3. INT64_MIN..(-INT64_MIN - 1) \subseteq (-UINT64_MAX)..UINT64_MAX
      BY MaxIs DEF INT64_MIN
    <3> QED BY <3>1, <3>2, <3>3
  <2>3. call.value \in Int
    BY <2>2, MaxIs
  <2> QED BY <2>1, <2>2, <2>3, SignedIs
<1>4. ASSUME Made("hex")
      PROVE  /\ made.len = IF call.out_len > 2 * Len(call.in) THEN 2 * Len(call.in) + 1 ELSE -1
             /\ made.len > 0 =>
                  /\ Len(CString(made.out, 0)) = 2 * Len(call.in)
                  /\ \A i \in DOMAIN call.in :
                       Denoted(DigitValues(SubSeq(CString(made.out, 0), 2 * i - 1, 2 * i)), 16) = call.in[i]
  <2>1. call.codec = "hex" /\ made = format_hex(call.in, Memory(call.out_len))
    BY <1>4 DEF Converted, Made, ConvertedTo
  <2>2. call.in \in Seq(Bytes) /\ call.out_len \in Nat
    <3>1. call \in CallOf["hex"]
      BY <2>1, CallIs
    <3>2. CallOf["hex"] = [codec : {"hex"}, in : Seq(Bytes), out_len : Nat]
      BY DEF CallOf
    <3> QED BY <3>1, <3>2
  <2>3. DOMAIN call.in = 1..Len(call.in)
    BY <2>2
  <2>4. made.len = IF call.out_len > 2 * Len(call.in) THEN 2 * Len(call.in) + 1 ELSE -1
    BY <2>1, <2>2, BytesShow
  <2>5. made.len > 0 => /\ Len(CString(made.out, 0)) = 2 * Len(call.in)
                        /\ \A i \in 1..Len(call.in) :
                             Denoted(DigitValues(SubSeq(CString(made.out, 0), 2 * i - 1, 2 * i)), 16)
                               = call.in[i]
    BY <2>1, <2>2, BytesShow
  <2> QED BY <2>3, <2>4, <2>5
<1>5. CASE Made("u64") \/ Made("i64")
  <2> DEFINE text == CString(made.out, 0)
             magnitude == SubSeq(text, IF call.value < 0 THEN 2 ELSE 1, Len(text))
             sign == IF call.value < 0 THEN -1 ELSE 1
             needed == 2 + Cardinality({k \in 1..MaxDigits : call.value * sign >= Power(10, k)})
                         + (IF sign = -1 THEN 1 ELSE 0)
             agrees == /\ made.ok <=> call.out_len >= needed
                       /\ made.ok =>
                            /\ Len(text) = needed - 1
                            /\ call.value < 0 => text[1] = "-"
                            /\ Denoted(DigitValues(magnitude), 10) = call.value * sign
  <2>1. ~Made("hex")
    BY <1>5 DEF Made
  <2>2. ASSUME ~(call.codec = "u64" /\ call.out_len = 1 /\ call.value < 10)
        PROVE  agrees
    <3>1. /\ call.value \in Int
          /\ made.ok <=> call.out_len >= Room(call.value)
          /\ made.ok => Shown(text, call.value)
      BY <1>2, <1>3, <1>5, <2>2
    <3> QED BY <1>1, <3>1
  <2> HIDE DEF agrees
  <2>3. NumberFormatted <=>
          (~(call.codec = "u64" /\ call.out_len = 1 /\ call.value < 10) => agrees)
    BY <1>5, <2>1 DEF NumberFormatted, agrees
  <2> QED BY <2>2, <2>3
<1>6. CASE ~(Made("u64") \/ Made("i64"))
  BY <1>4, <1>6 DEF NumberFormatted
<1> QED BY <1>5, <1>6

\* An integer is formatted as its digits and its sign, and bytes as their
\* hexadecimal digits, terminated inside the array, and what has no room is
\* refused: for every integer of 64 bits, every sequence of bytes and every room
\* (format.c:24-96, 132-157).
THEOREM NumbersAreFormatted == Spec => []NumberFormatted
  BY ConvertedAlways, NumbersAre, PTL

-----------------------------------------------------------------------------
(* UTF-8: a character is what its bytes are marked as; then the loop. *)

\* What digits in base 64 denote.
LEMMA Denoted64 ==
  ASSUME NEW s \in Seq(Nat)
  PROVE  /\ Len(s) = 2 => Denoted(s, 64) = 64 * s[1] + s[2]
         /\ Len(s) = 3 => Denoted(s, 64) = 4096 * s[1] + 64 * s[2] + s[3]
         /\ Len(s) = 4 => Denoted(s, 64) = 262144 * s[1] + 4096 * s[2] + 64 * s[3] + s[4]
<1>1. \A t \in Seq(Nat) : Len(t) = 2 => Denoted(t, 64) = 64 * t[1] + t[2]
  BY 64 \in Nat, DenotedTwo
<1>2. ASSUME NEW t \in Seq(Nat), Len(t) = 3
      PROVE  Denoted(t, 64) = 4096 * t[1] + 64 * t[2] + t[3]
  <2>1. PICK u : u = SubSeq(t, 1, 2)
    OBVIOUS
  <2>2. 1 \in Int /\ 2 \in Int /\ 1 >= 1 /\ 2 <= Len(t)
    BY <1>2
  <2>3. /\ u \in Seq(Nat) /\ Len(u) = 2 /\ \A i \in 1..2 : u[i] = t[i]
    BY <2>1, <2>2, SubSeqProperties
  <2>4. u[1] = t[1] /\ u[2] = t[2]
    BY <2>3
  <2>5. Len(t) = Len(u) + 1 /\ \A i \in 1..Len(u) : u[i] = t[i]
    BY <1>2, <2>3
  <2>6. Denoted(t, 64) = 64 * Denoted(u, 64) + t[Len(t)]
    BY <2>3, <2>5, 64 \in Nat, DenotedMore
  <2>7. PICK a \in Nat, b \in Nat, d \in Nat : t[1] = a /\ t[2] = b /\ t[3] = d
    <3>1. 1 \in 1..Len(t) /\ 2 \in 1..Len(t) /\ 3 \in 1..Len(t)
      BY <1>2
    <3> QED BY <3>1, DigitsAre
  <2>8. Denoted(u, 64) = 64 * u[1] + u[2]
    BY <1>1, <2>3
  <2>9. Denoted(u, 64) = 64 * a + b
    BY <2>4, <2>7, <2>8
  <2>10. Denoted(t, 64) = 64 * (64 * a + b) + d
    BY <1>2, <2>6, <2>7, <2>9
  <2>11. Denoted(t, 64) = 4096 * a + 64 * b + d
    BY <2>10, SMT
  <2> QED BY <2>7, <2>11
<1>3. ASSUME NEW t \in Seq(Nat), Len(t) = 4
      PROVE  Denoted(t, 64) = 262144 * t[1] + 4096 * t[2] + 64 * t[3] + t[4]
  <2>1. PICK u : u = SubSeq(t, 1, 3)
    OBVIOUS
  <2>2. 1 \in Int /\ 3 \in Int /\ 1 >= 1 /\ 3 <= Len(t)
    BY <1>3
  <2>3. /\ u \in Seq(Nat) /\ Len(u) = 3 /\ \A i \in 1..3 : u[i] = t[i]
    BY <2>1, <2>2, SubSeqProperties
  <2>4. u[1] = t[1] /\ u[2] = t[2] /\ u[3] = t[3]
    BY <2>3
  <2>5. Len(t) = Len(u) + 1 /\ \A i \in 1..Len(u) : u[i] = t[i]
    BY <1>3, <2>3
  <2>6. Denoted(t, 64) = 64 * Denoted(u, 64) + t[Len(t)]
    BY <2>3, <2>5, 64 \in Nat, DenotedMore
  <2>7. PICK a \in Nat, b \in Nat, d \in Nat, e \in Nat : t[1] = a /\ t[2] = b /\ t[3] = d /\ t[4] = e
    <3>1. 1 \in 1..Len(t) /\ 2 \in 1..Len(t) /\ 3 \in 1..Len(t) /\ 4 \in 1..Len(t)
      BY <1>3
    <3> QED BY <3>1, DigitsAre
  <2>8. Denoted(u, 64) = 4096 * u[1] + 64 * u[2] + u[3]
    BY <1>2, <2>3
  <2>9. Denoted(u, 64) = 4096 * a + 64 * b + d
    BY <2>4, <2>7, <2>8
  <2>10. Denoted(t, 64) = 64 * (4096 * a + 64 * b + d) + e
    BY <1>3, <2>6, <2>7, <2>9
  <2>11. Denoted(t, 64) = 262144 * a + 4096 * b + 64 * d + e
    BY <2>10, SMT
  <2> QED BY <2>7, <2>11
<1> QED BY <1>1, <1>2, <1>3

\* The powers of two that the bits of a first byte are taken with.
LEMMA FirstBits == Power(2, 3) = 8 /\ Power(2, 4) = 16 /\ Power(2, 5) = 32
<1>0. 2 \in Nat /\ 0 \in Nat /\ 1 \in Nat /\ 3 \in Nat /\ 4 \in Nat
  OBVIOUS
<1>1. Power(2, 0) = 1
  BY <1>0, PowerZero
<1>2. Power(2, 0 + 1) = 2 * Power(2, 0)
  BY <1>0, PowerStep
<1>3. Power(2, 1 + 1) = 2 * Power(2, 1)
  BY <1>0, PowerStep
<1>4. Power(2, 2 + 1) = 2 * Power(2, 2)
  BY <1>0, PowerStep
<1>5. Power(2, 3 + 1) = 2 * Power(2, 3)
  BY <1>0, PowerStep
<1>6. Power(2, 4 + 1) = 2 * Power(2, 4)
  BY <1>0, PowerStep
<1>7. 0 + 1 = 1 /\ 1 + 1 = 2 /\ 2 + 1 = 3 /\ 3 + 1 = 4 /\ 4 + 1 = 5
  OBVIOUS
<1> QED BY <1>1, <1>2, <1>3, <1>4, <1>5, <1>6, <1>7

\* What the first byte of a character announces, and the others continue.
IsValid(c) ==
  /\ Announced(c[1]) = Len(c)
  /\ \A k \in 2..Len(c) : Continues(c[k])
  /\ Len(c) > 1 => ~Excluded(c)

\* Bytes are numbers.
LEMMA BytesAre == \A s \in Seq(Bytes) : /\ Len(s) \in Nat
                                        /\ \A i \in 1..Len(s) : s[i] \in Nat /\ s[i] <= 255
<1>1. \A s \in Seq(Bytes) : Len(s) \in Nat /\ \A i \in 1..Len(s) : s[i] \in Bytes
  OBVIOUS
<1>2. \A b \in Bytes : b \in Nat /\ b <= 255
  BY DEF Bytes
<1> QED BY <1>1, <1>2

\* The bits of a character, six of each byte behind the first.
Sextets(c, m) == <<c[1] % m>> \o [i \in 1..(Len(c) - 1) |-> c[i + 1] % 64]

\* They are numbers.
LEMMA SextetsAre ==
  ASSUME NEW c \in Seq(Bytes), Len(c) >= 1, NEW m \in {8, 16, 32}
  PROVE  /\ Sextets(c, m) \in Seq(Nat) /\ Len(Sextets(c, m)) = Len(c)
         /\ \A i \in 1..Len(c) : Sextets(c, m)[i] = IF i = 1 THEN c[1] % m ELSE c[i] % 64
<1> DEFINE first == <<c[1] % m>>
           others == [i \in 1..(Len(c) - 1) |-> c[i + 1] % 64]
<1>1. \A i \in 1..Len(c) : c[i] \in Nat
  BY BytesAre
<1>2. \A k \in Nat : k % m \in Nat /\ k % 64 \in Nat
  OBVIOUS
<1>3. first \in Seq(Nat) /\ Len(first) = 1 /\ first[1] = c[1] % m
  BY <1>1, <1>2
<1>4. others \in Seq(Nat) /\ Len(others) = Len(c) - 1
  <2>1. Len(c) - 1 \in Nat /\ \A i \in 1..(Len(c) - 1) : c[i + 1] % 64 \in Nat
    BY <1>1, <1>2
  <2> QED BY <2>1
<1>5. \A i \in 1..(Len(c) - 1) : others[i] = c[i + 1] % 64
  OBVIOUS
<1>6. Sextets(c, m) = first \o others
  BY DEF Sextets
<1> HIDE DEF first, others
<1>7. /\ first \o others \in Seq(Nat) /\ Len(first \o others) = Len(c)
      /\ \A i \in 1..Len(c) : (first \o others)[i] = IF i <= 1 THEN first[i] ELSE others[i - 1]
  <2>1. Len(first) + Len(others) = Len(c)
    BY <1>3, <1>4
  <2>2. /\ first \o others \in Seq(Nat) /\ Len(first \o others) = Len(first) + Len(others)
        /\ \A i \in 1..(Len(first) + Len(others)) :
             (first \o others)[i] = IF i <= Len(first) THEN first[i] ELSE others[i - Len(first)]
    BY <1>3, <1>4, ConcatProperties
  <2> QED BY <1>3, <2>1, <2>2
<1>8. \A i \in 1..Len(c) : (first \o others)[i] = IF i = 1 THEN c[1] % m ELSE c[i] % 64
  <2> TAKE i \in 1..Len(c)
  <2>1. CASE i = 1
    BY <1>3, <1>7, <2>1
  <2>2. CASE i # 1
    <3>1. i - 1 \in 1..(Len(c) - 1) /\ (i - 1) + 1 = i
      BY <2>2
    <3> QED BY <1>5, <1>7, <2>2, <3>1
  <2> QED BY <2>1, <2>2
<1> QED BY <1>6, <1>7, <1>8

\* The code points of characters of one to four bytes.
LEMMA PointOfOne ==
  ASSUME NEW c \in Seq(Bytes), Len(c) = 1
  PROVE  Point(c) = c[1]
BY DEF Point

\* Of two bytes.
LEMMA PointOfTwo ==
  ASSUME NEW c \in Seq(Bytes), Len(c) = 2
  PROVE  Point(c) = 64 * (c[1] % 32) + (c[2] % 64)
<1>1. Len(c) >= 1 /\ 32 \in {8, 16, 32}
  OBVIOUS
<1>2. /\ Sextets(c, 32) \in Seq(Nat) /\ Len(Sextets(c, 32)) = Len(c)
      /\ \A i \in 1..Len(c) : Sextets(c, 32)[i] = IF i = 1 THEN c[1] % 32 ELSE c[i] % 64
  BY <1>1, SextetsAre
<1>3. Point(c) = Denoted(Sextets(c, 32), 64)
  BY FirstBits DEF Point, Sextets
<1>4. 1 \in 1..2 /\ 2 \in 1..2
  OBVIOUS
<1> QED BY <1>2, <1>3, <1>4, Denoted64, SMT

\* Of three.
LEMMA PointOfThree ==
  ASSUME NEW c \in Seq(Bytes), Len(c) = 3
  PROVE  Point(c) = 4096 * (c[1] % 16) + 64 * (c[2] % 64) + (c[3] % 64)
<1>1. Len(c) >= 1 /\ 16 \in {8, 16, 32}
  OBVIOUS
<1>2. /\ Sextets(c, 16) \in Seq(Nat) /\ Len(Sextets(c, 16)) = Len(c)
      /\ \A i \in 1..Len(c) : Sextets(c, 16)[i] = IF i = 1 THEN c[1] % 16 ELSE c[i] % 64
  BY <1>1, SextetsAre
<1>3. Point(c) = Denoted(Sextets(c, 16), 64)
  BY FirstBits DEF Point, Sextets
<1>4. 1 \in 1..3 /\ 2 \in 1..3 /\ 3 \in 1..3
  OBVIOUS
<1> QED BY <1>2, <1>3, <1>4, Denoted64, SMT

\* Of four.
LEMMA PointOfFour ==
  ASSUME NEW c \in Seq(Bytes), Len(c) = 4
  PROVE  Point(c) = 262144 * (c[1] % 8) + 4096 * (c[2] % 64) + 64 * (c[3] % 64) + (c[4] % 64)
<1>1. Len(c) >= 1 /\ 8 \in {8, 16, 32}
  OBVIOUS
<1>2. /\ Sextets(c, 8) \in Seq(Nat) /\ Len(Sextets(c, 8)) = Len(c)
      /\ \A i \in 1..Len(c) : Sextets(c, 8)[i] = IF i = 1 THEN c[1] % 8 ELSE c[i] % 64
  BY <1>1, SextetsAre
<1>3. Point(c) = Denoted(Sextets(c, 8), 64)
  BY FirstBits DEF Point, Sextets
<1>4. 1 \in 1..4 /\ 2 \in 1..4 /\ 3 \in 1..4 /\ 4 \in 1..4
  OBVIOUS
<1> QED BY <1>2, <1>3, <1>4, Denoted64, SMT

\* A sequence of known elements.
LEMMA Tuples ==
  ASSUME NEW S, NEW c \in Seq(S), NEW a, NEW b, NEW d, NEW e
  PROVE  /\ c = <<a>> <=> Len(c) = 1 /\ c[1] = a
         /\ c = <<a, b>> <=> Len(c) = 2 /\ c[1] = a /\ c[2] = b
         /\ c = <<a, b, d>> <=> Len(c) = 3 /\ c[1] = a /\ c[2] = b /\ c[3] = d
         /\ c = <<a, b, d, e>> <=> Len(c) = 4 /\ c[1] = a /\ c[2] = b /\ c[3] = d /\ c[4] = e
<1>1. c = <<a>> <=> Len(c) = 1 /\ c[1] = a
  OBVIOUS
<1>2. c = <<a, b>> <=> Len(c) = 2 /\ c[1] = a /\ c[2] = b
  OBVIOUS
<1>3. c = <<a, b, d>> <=> Len(c) = 3 /\ c[1] = a /\ c[2] = b /\ c[3] = d
  OBVIOUS
<1>4. c = <<a, b, d, e>> <=> Len(c) = 4 /\ c[1] = a /\ c[2] = b /\ c[3] = d /\ c[4] = e
  OBVIOUS
<1> QED BY <1>1, <1>2, <1>3, <1>4

\* The encodings of code points.
LEMMA EncodedInOne ==
  ASSUME NEW p \in Nat, p < 128
  PROVE  Encoded(p) = <<p>>
BY SMT DEF Encoded

\* In two bytes.
LEMMA EncodedInTwo ==
  ASSUME NEW p \in Nat, p >= 128, p < 2048
  PROVE  Encoded(p) = <<192 + p \div 64, 128 + (p % 64)>>
BY SMT DEF Encoded

\* In three.
LEMMA EncodedInThree ==
  ASSUME NEW p \in Nat, p >= 2048, p < 65536
  PROVE  Encoded(p) = <<224 + p \div 4096, 128 + ((p \div 64) % 64), 128 + (p % 64)>>
BY SMT DEF Encoded

\* In four.
LEMMA EncodedInFour ==
  ASSUME NEW p \in Nat, p >= 65536, p <= 1114111
  PROVE  Encoded(p) = <<240 + p \div 262144, 128 + ((p \div 4096) % 64),
                        128 + ((p \div 64) % 64), 128 + (p % 64)>>
BY SMT DEF Encoded

\* An encoding has as many bytes as its code point needs.
LEMMA EncodedLen ==
  ASSUME NEW p \in Nat, p <= 1114111
  PROVE  /\ Len(Encoded(p)) = 1 <=> p < 128
         /\ Len(Encoded(p)) = 2 <=> p >= 128 /\ p < 2048
         /\ Len(Encoded(p)) = 3 <=> p >= 2048 /\ p < 65536
         /\ Len(Encoded(p)) = 4 <=> p >= 65536
<1>1. ASSUME p < 128 PROVE Len(Encoded(p)) = 1
  <2>1. Encoded(p) = <<p>>
    BY <1>1, EncodedInOne, SMT
  <2> QED BY <2>1, SMT
<1>2. ASSUME p >= 128, p < 2048 PROVE Len(Encoded(p)) = 2
  <2>1. Encoded(p) = <<192 + p \div 64, 128 + (p % 64)>>
    BY <1>2, EncodedInTwo, SMT
  <2> QED BY <2>1, SMT
<1>3. ASSUME p >= 2048, p < 65536 PROVE Len(Encoded(p)) = 3
  <2>1. Encoded(p) = <<224 + p \div 4096, 128 + ((p \div 64) % 64), 128 + (p % 64)>>
    BY <1>3, EncodedInThree, SMT
  <2> QED BY <2>1, SMT
<1>4. ASSUME p >= 65536, p <= 1114111 PROVE Len(Encoded(p)) = 4
  <2>1. Encoded(p) = <<240 + p \div 262144, 128 + ((p \div 4096) % 64),
                       128 + ((p \div 64) % 64), 128 + (p % 64)>>
    BY <1>4, EncodedInFour, SMT
  <2> QED BY <2>1, SMT
<1> QED BY <1>1, <1>2, <1>3, <1>4, SMT

\* A byte is the encoding of a code point exactly when it is that.
LEMMA EncodesOne ==
  ASSUME NEW c \in Seq(Bytes), Len(c) = 1, NEW p \in Nat, p <= 1114111
  PROVE  Encoded(p) = c <=> /\ p < 128
                            /\ c[1] = p
<1>1. CASE p < 128
  <2>1. Encoded(p) = <<p>>
    BY <1>1, EncodedInOne, SMT
  <2> DEFINE a == p
  <2>2. Encoded(p) = <<a>>
    BY <2>1, SMT
  <2> HIDE DEF a
  <2>3. c = <<a>> <=> c[1] = a
    BY Tuples
  <2>4. Encoded(p) = c <=> c[1] = a
    BY <2>2, <2>3
  <2> QED BY <1>1, <2>4, SMT DEF a
<1>2. CASE ~(p < 128)
  <2>1. Len(Encoded(p)) # 1
    BY <1>2, EncodedLen, SMT
  <2> QED BY <1>2, <2>1, SMT
<1> QED BY <1>1, <1>2, SMT

\* Two bytes are, when they hold its bits and no fewer bytes could.
LEMMA EncodesTwo ==
  ASSUME NEW c \in Seq(Bytes), Len(c) = 2, NEW p \in Nat, p <= 1114111
  PROVE  Encoded(p) = c <=> /\ p >= 128 /\ p < 2048
                            /\ c[1] = 192 + p \div 64 /\ c[2] = 128 + (p % 64)
<1>1. CASE p >= 128 /\ p < 2048
  <2>1. Encoded(p) = <<192 + p \div 64, 128 + (p % 64)>>
    BY <1>1, EncodedInTwo, SMT
  <2> DEFINE a == 192 + p \div 64
             b == 128 + (p % 64)
  <2>2. Encoded(p) = <<a, b>>
    BY <2>1, SMT
  <2> HIDE DEF a, b
  <2>3. c = <<a, b>> <=> c[1] = a /\ c[2] = b
    BY Tuples
  <2>4. Encoded(p) = c <=> c[1] = a /\ c[2] = b
    BY <2>2, <2>3
  <2> QED BY <1>1, <2>4, SMT DEF a, b
<1>2. CASE ~(p >= 128 /\ p < 2048)
  <2>1. Len(Encoded(p)) # 2
    BY <1>2, EncodedLen, SMT
  <2> QED BY <1>2, <2>1, SMT
<1> QED BY <1>1, <1>2, SMT

\* Three bytes are.
LEMMA EncodesThree ==
  ASSUME NEW c \in Seq(Bytes), Len(c) = 3, NEW p \in Nat, p <= 1114111
  PROVE  Encoded(p) = c <=> /\ p >= 2048 /\ p < 65536
                            /\ c[1] = 224 + p \div 4096 /\ c[2] = 128 + ((p \div 64) % 64)
                            /\ c[3] = 128 + (p % 64)
<1>1. CASE p >= 2048 /\ p < 65536
  <2>1. Encoded(p) = <<224 + p \div 4096, 128 + ((p \div 64) % 64), 128 + (p % 64)>>
    BY <1>1, EncodedInThree, SMT
  <2> DEFINE a == 224 + p \div 4096
             b == 128 + ((p \div 64) % 64)
             d == 128 + (p % 64)
  <2>2. Encoded(p) = <<a, b, d>>
    BY <2>1, SMT
  <2> HIDE DEF a, b, d
  <2>3. c = <<a, b, d>> <=> c[1] = a /\ c[2] = b /\ c[3] = d
    BY Tuples
  <2>4. Encoded(p) = c <=> c[1] = a /\ c[2] = b /\ c[3] = d
    BY <2>2, <2>3
  <2> QED BY <1>1, <2>4, SMT DEF a, b, d
<1>2. CASE ~(p >= 2048 /\ p < 65536)
  <2>1. Len(Encoded(p)) # 3
    BY <1>2, EncodedLen, SMT
  <2> QED BY <1>2, <2>1, SMT
<1> QED BY <1>1, <1>2, SMT

\* Four bytes are.
LEMMA EncodesFour ==
  ASSUME NEW c \in Seq(Bytes), Len(c) = 4, NEW p \in Nat, p <= 1114111
  PROVE  Encoded(p) = c <=> /\ p >= 65536
                            /\ c[1] = 240 + p \div 262144 /\ c[2] = 128 + ((p \div 4096) % 64)
                            /\ c[3] = 128 + ((p \div 64) % 64) /\ c[4] = 128 + (p % 64)
<1>1. CASE p >= 65536
  <2>1. Encoded(p) = <<240 + p \div 262144, 128 + ((p \div 4096) % 64),
                       128 + ((p \div 64) % 64), 128 + (p % 64)>>
    BY <1>1, EncodedInFour, SMT
  <2> DEFINE a == 240 + p \div 262144
             b == 128 + ((p \div 4096) % 64)
             d == 128 + ((p \div 64) % 64)
             e == 128 + (p % 64)
  <2>2. Encoded(p) = <<a, b, d, e>>
    BY <2>1, SMT
  <2> HIDE DEF a, b, d, e
  <2>3. c = <<a, b, d, e>> <=> c[1] = a /\ c[2] = b /\ c[3] = d /\ c[4] = e
    BY Tuples
  <2>4. Encoded(p) = c <=> c[1] = a /\ c[2] = b /\ c[3] = d /\ c[4] = e
    BY <2>2, <2>3
  <2> QED BY <1>1, <2>4, SMT DEF a, b, d, e
<1>2. CASE ~(p >= 65536)
  <2>1. Len(Encoded(p)) # 4
    BY <1>2, EncodedLen, SMT
  <2> QED BY <1>2, <2>1, SMT
<1> QED BY <1>1, <1>2, SMT

\* A byte is a character when it has no mark.
LEMMA OneByte ==
  ASSUME NEW c \in Seq(Bytes), Len(c) = 1
  PROVE  IsCharacter(c) <=> IsValid(c)
<1>1. c[1] \in Nat /\ c[1] <= 255
  BY BytesAre, 1 \in 1..Len(c)
<1>2. PICK p \in Nat : p = c[1]
  BY <1>1
<1>3. Point(c) = p
  BY <1>2, PointOfOne
<1>4. p <= 1114111 /\ ~(55296 <= p /\ p <= 57343) /\ p # 65534 /\ p # 65535
  BY <1>1, <1>2, SMT
<1>5. Encoded(p) = c <=> p < 128
  BY <1>2, <1>4, EncodesOne, SMT
<1>6. IsCharacter(c) <=> p < 128
  BY <1>3, <1>4, <1>5, SMT DEF IsCharacter
<1>7. Announced(p) = 1 <=> p < 128
  BY <1>1, <1>2, SMT DEF Announced, Within
<1>8. \A k \in 2..Len(c) : Continues(c[k])
  BY SMT
<1>9. IsValid(c) <=> p < 128
  BY <1>2, <1>7, <1>8, SMT DEF IsValid
<1> QED BY <1>6, <1>9

\* Two bytes are one when they are marked as one.
LEMMA TwoBytes ==
  ASSUME NEW c \in Seq(Bytes), Len(c) = 2
  PROVE  IsCharacter(c) <=> IsValid(c)
<1>1. c[1] \in Nat /\ c[1] <= 255 /\ c[2] \in Nat /\ c[2] <= 255
  <2>1. \A i \in 1..Len(c) : c[i] \in Nat /\ c[i] <= 255
    BY BytesAre
  <2>2. 1 \in 1..Len(c) /\ 2 \in 1..Len(c)
    OBVIOUS
  <2> QED BY <2>1, <2>2
<1>2. PICK a \in Nat, b \in Nat : a = c[1] /\ b = c[2]
  BY <1>1
<1>3. a <= 255 /\ b <= 255
  BY <1>1, <1>2
<1>4. PICK p : p = 64 * (a % 32) + (b % 64)
  OBVIOUS
<1>5. Point(c) = p
  <2>1. Point(c) = 64 * (c[1] % 32) + (c[2] % 64)
    BY PointOfTwo, SMT
  <2> QED BY <1>2, <1>4, <2>1, SMT
<1>6. p \in Nat /\ p < 2048
  BY <1>3, <1>4, SMT
<1>7. p <= 1114111 => (Encoded(p) = c <=> p >= 128 /\ p < 2048
                                       /\ a = 192 + p \div 64 /\ b = 128 + (p % 64))
  BY <1>2, <1>6, EncodesTwo, SMT
<1>8. IsCharacter(c) <=>
        /\ p <= 1114111 /\ ~(55296 <= p /\ p <= 57343) /\ p # 65534 /\ p # 65535
        /\ p >= 128 /\ p < 2048 /\ a = 192 + p \div 64 /\ b = 128 + (p % 64)
  BY <1>5, <1>7, SMT DEF IsCharacter
<1>9. Announced(a) = 2 <=> 192 <= a /\ a <= 223
  BY <1>3, SMT DEF Announced, Within
<1>10. (\A k \in 2..Len(c) : Continues(c[k])) <=> 128 <= b /\ b <= 191
  <2>1. \A k : k \in 2..Len(c) <=> k = 2
    OBVIOUS
  <2> QED BY <1>2, <2>1, SMT DEF Continues, Within
<1>11. ASSUME 192 <= a, a <= 223
       PROVE  Excluded(c) <=> a = 192 \/ a = 193
  <2>1. Excluded(c) <=>
          \/ a = 192 \/ a = 193
          \/ a = 224 /\ Within(b, 128, 159)
          \/ a = 237 /\ Within(b, 160, 191)
          \/ a = 239 /\ b = 191 /\ (c[3] = 190 \/ c[3] = 191)
          \/ a = 240 /\ Within(b, 128, 143)
          \/ a = 244 /\ b > 143
          \/ a > 244
    BY <1>2 DEF Excluded
  <2> QED BY <1>2, <1>3, <1>11, <2>1, SMT DEF Within
<1>12. IsValid(c) <=> Announced(a) = 2 /\ (\A k \in 2..Len(c) : Continues(c[k])) /\ ~Excluded(c)
  BY <1>2, SMT DEF IsValid
<1>13. p >= 128 /\ a = 192 + p \div 64 /\ b = 128 + (p % 64) <=>
         194 <= a /\ a <= 223 /\ 128 <= b /\ b <= 191
  BY <1>3, <1>4, SMTT(30)
<1>14. IsValid(c) <=>
       /\ 192 <= a /\ a <= 223 /\ 128 <= b /\ b <= 191
       /\ ~(a = 192 \/ a = 193)
  BY <1>9, <1>10, <1>11, <1>12
<1>15. IsCharacter(c) <=>
       /\ p >= 128 /\ a = 192 + p \div 64 /\ b = 128 + (p % 64)
  BY <1>6, <1>8, SMT
<1>16. IsValid(c) <=>
       /\ 194 <= a /\ a <= 223 /\ 128 <= b /\ b <= 191
  BY <1>3, <1>14, SMT
<1> QED BY <1>13, <1>15, <1>16, SMT

\* Three bytes are.
LEMMA ThreeBytes ==
  ASSUME NEW c \in Seq(Bytes), Len(c) = 3
  PROVE  IsCharacter(c) <=> IsValid(c)
<1>1. c[1] \in Nat /\ c[1] <= 255 /\ c[2] \in Nat /\ c[2] <= 255 /\ c[3] \in Nat /\ c[3] <= 255
  <2>1. \A i \in 1..Len(c) : c[i] \in Nat /\ c[i] <= 255
    BY BytesAre
  <2>2. 1 \in 1..Len(c) /\ 2 \in 1..Len(c) /\ 3 \in 1..Len(c)
    OBVIOUS
  <2> QED BY <2>1, <2>2
<1>2. PICK a \in Nat, b \in Nat, d \in Nat : a = c[1] /\ b = c[2] /\ d = c[3]
  BY <1>1
<1>3. a <= 255 /\ b <= 255 /\ d <= 255
  BY <1>1, <1>2
<1>4. PICK p : p = 4096 * (a % 16) + 64 * (b % 64) + (d % 64)
  OBVIOUS
<1>5. Point(c) = p
  <2>1. Point(c) = 4096 * (c[1] % 16) + 64 * (c[2] % 64) + (c[3] % 64)
    BY PointOfThree, SMT
  <2> QED BY <1>2, <1>4, <2>1, SMT
<1>6. p \in Nat /\ p < 65536
  BY <1>3, <1>4, SMT
<1>7. p <= 1114111 => (Encoded(p) = c <=> p >= 2048 /\ p < 65536
                                       /\ a = 224 + p \div 4096 /\ b = 128 + ((p \div 64) % 64) /\ d = 128 + (p % 64))
  BY <1>2, <1>6, EncodesThree, SMT
<1>8. IsCharacter(c) <=>
        /\ p <= 1114111 /\ ~(55296 <= p /\ p <= 57343) /\ p # 65534 /\ p # 65535
        /\ p >= 2048 /\ p < 65536
        /\ a = 224 + p \div 4096 /\ b = 128 + ((p \div 64) % 64) /\ d = 128 + (p % 64)
  BY <1>5, <1>7, SMT DEF IsCharacter
<1>9. Announced(a) = 3 <=> 224 <= a /\ a <= 239
  BY <1>3, SMT DEF Announced, Within
<1>10. (\A k \in 2..Len(c) : Continues(c[k])) <=> 128 <= b /\ b <= 191 /\ 128 <= d /\ d <= 191
  <2>1. \A k : k \in 2..Len(c) <=> k = 2 \/ k = 3
    OBVIOUS
  <2> QED BY <1>2, <2>1, SMT DEF Continues, Within
<1>11. ASSUME 224 <= a, a <= 239
       PROVE  Excluded(c) <=>
                \/ a = 224 /\ 128 <= b /\ b <= 159
                \/ a = 237 /\ 160 <= b /\ b <= 191
                \/ a = 239 /\ b = 191 /\ (d = 190 \/ d = 191)
  <2>1. Excluded(c) <=>
          \/ a = 192 \/ a = 193
          \/ a = 224 /\ Within(b, 128, 159)
          \/ a = 237 /\ Within(b, 160, 191)
          \/ a = 239 /\ b = 191 /\ (d = 190 \/ d = 191)
          \/ a = 240 /\ Within(b, 128, 143)
          \/ a = 244 /\ b > 143
          \/ a > 244
    BY <1>2 DEF Excluded
  <2> QED BY <1>2, <1>3, <1>11, <2>1, SMT DEF Within
<1>12. IsValid(c) <=> Announced(a) = 3 /\ (\A k \in 2..Len(c) : Continues(c[k])) /\ ~Excluded(c)
  BY <1>2, SMT DEF IsValid
<1>13. /\ p >= 2048 /\ ~(55296 <= p /\ p <= 57343) /\ p # 65534 /\ p # 65535
       /\ a = 224 + p \div 4096 /\ b = 128 + ((p \div 64) % 64) /\ d = 128 + (p % 64)
       <=>
       /\ 224 <= a /\ a <= 239 /\ 128 <= b /\ b <= 191 /\ 128 <= d /\ d <= 191
       /\ ~(a = 224 /\ b <= 159) /\ ~(a = 237 /\ 160 <= b)
       /\ ~(a = 239 /\ b = 191 /\ (d = 190 \/ d = 191))
  BY <1>3, <1>4, SMTT(30)
<1>14. IsValid(c) <=>
       /\ 224 <= a /\ a <= 239 /\ 128 <= b /\ b <= 191 /\ 128 <= d /\ d <= 191
       /\ ~(\/ a = 224 /\ 128 <= b /\ b <= 159
            \/ a = 237 /\ 160 <= b /\ b <= 191
            \/ a = 239 /\ b = 191 /\ (d = 190 \/ d = 191))
  BY <1>9, <1>10, <1>11, <1>12
<1>15. IsCharacter(c) <=>
       /\ p >= 2048 /\ ~(55296 <= p /\ p <= 57343) /\ p # 65534 /\ p # 65535
       /\ a = 224 + p \div 4096 /\ b = 128 + ((p \div 64) % 64) /\ d = 128 + (p % 64)
  BY <1>6, <1>8, SMT
<1>16. IsValid(c) <=>
       /\ 224 <= a /\ a <= 239 /\ 128 <= b /\ b <= 191 /\ 128 <= d /\ d <= 191
       /\ ~(a = 224 /\ b <= 159) /\ ~(a = 237 /\ 160 <= b)
       /\ ~(a = 239 /\ b = 191 /\ (d = 190 \/ d = 191))
  BY <1>3, <1>14, SMT
<1> QED BY <1>13, <1>15, <1>16, SMT

\* Four bytes are.
LEMMA FourBytes ==
  ASSUME NEW c \in Seq(Bytes), Len(c) = 4
  PROVE  IsCharacter(c) <=> IsValid(c)
<1>1. c[1] \in Nat /\ c[1] <= 255 /\ c[2] \in Nat /\ c[2] <= 255 /\ c[3] \in Nat /\ c[3] <= 255 /\ c[4] \in Nat /\ c[4] <= 255
  <2>1. \A i \in 1..Len(c) : c[i] \in Nat /\ c[i] <= 255
    BY BytesAre
  <2>2. 1 \in 1..Len(c) /\ 2 \in 1..Len(c) /\ 3 \in 1..Len(c) /\ 4 \in 1..Len(c)
    OBVIOUS
  <2> QED BY <2>1, <2>2
<1>2. PICK a \in Nat, b \in Nat, d \in Nat, e \in Nat : a = c[1] /\ b = c[2] /\ d = c[3] /\ e = c[4]
  BY <1>1
<1>3. a <= 255 /\ b <= 255 /\ d <= 255 /\ e <= 255
  BY <1>1, <1>2
<1>4. PICK p : p = 262144 * (a % 8) + 4096 * (b % 64) + 64 * (d % 64) + (e % 64)
  OBVIOUS
<1>5. Point(c) = p
  <2>1. Point(c) = 262144 * (c[1] % 8) + 4096 * (c[2] % 64) + 64 * (c[3] % 64) + (c[4] % 64)
    BY PointOfFour, SMT
  <2> QED BY <1>2, <1>4, <2>1, SMT
<1>6. p \in Nat
  BY <1>3, <1>4, SMT
<1>7. p <= 1114111 => (Encoded(p) = c <=> p >= 65536
                                       /\ a = 240 + p \div 262144 /\ b = 128 + ((p \div 4096) % 64) /\ d = 128 + ((p \div 64) % 64) /\ e = 128 + (p % 64))
  BY <1>2, <1>6, EncodesFour, SMT
<1>8. IsCharacter(c) <=>
        /\ p <= 1114111 /\ ~(55296 <= p /\ p <= 57343) /\ p # 65534 /\ p # 65535
        /\ p >= 65536
        /\ a = 240 + p \div 262144 /\ b = 128 + ((p \div 4096) % 64) /\ d = 128 + ((p \div 64) % 64) /\ e = 128 + (p % 64)
  BY <1>5, <1>7, SMT DEF IsCharacter
<1>9. Announced(a) = 4 <=> 240 <= a /\ a <= 247
  BY <1>3, SMT DEF Announced, Within
<1>10. (\A k \in 2..Len(c) : Continues(c[k])) <=> 128 <= b /\ b <= 191 /\ 128 <= d /\ d <= 191 /\ 128 <= e /\ e <= 191
  <2>1. \A k : k \in 2..Len(c) <=> k = 2 \/ k = 3 \/ k = 4
    OBVIOUS
  <2> QED BY <1>2, <2>1, SMT DEF Continues, Within
<1>11. ASSUME 240 <= a, a <= 247
       PROVE  Excluded(c) <=>
                \/ a = 240 /\ 128 <= b /\ b <= 143
                \/ a = 244 /\ b > 143
                \/ a > 244
  <2>1. Excluded(c) <=>
          \/ a = 192 \/ a = 193
          \/ a = 224 /\ Within(b, 128, 159)
          \/ a = 237 /\ Within(b, 160, 191)
          \/ a = 239 /\ b = 191 /\ (d = 190 \/ d = 191)
          \/ a = 240 /\ Within(b, 128, 143)
          \/ a = 244 /\ b > 143
          \/ a > 244
    BY <1>2 DEF Excluded
  <2> QED BY <1>2, <1>3, <1>11, <2>1, SMT DEF Within
<1>12. IsValid(c) <=> Announced(a) = 4 /\ (\A k \in 2..Len(c) : Continues(c[k])) /\ ~Excluded(c)
  BY <1>2, SMT DEF IsValid
<1>13. /\ p >= 65536 /\ p <= 1114111
       /\ a = 240 + p \div 262144 /\ b = 128 + ((p \div 4096) % 64)
       /\ d = 128 + ((p \div 64) % 64) /\ e = 128 + (p % 64)
       <=>
       /\ 240 <= a /\ a <= 244 /\ 128 <= b /\ b <= 191 /\ 128 <= d /\ d <= 191
       /\ 128 <= e /\ e <= 191 /\ ~(a = 240 /\ b <= 143) /\ ~(a = 244 /\ b > 143)
  BY <1>3, <1>4, SMTT(30)
<1>14. IsValid(c) <=>
       /\ 240 <= a /\ a <= 247 /\ 128 <= b /\ b <= 191 /\ 128 <= d /\ d <= 191 /\ 128 <= e /\ e <= 191
       /\ ~(\/ a = 240 /\ 128 <= b /\ b <= 143
            \/ a = 244 /\ b > 143
            \/ a > 244)
  BY <1>9, <1>10, <1>11, <1>12
<1>15. IsCharacter(c) <=>
       /\ p >= 65536 /\ p <= 1114111
       /\ a = 240 + p \div 262144 /\ b = 128 + ((p \div 4096) % 64)
       /\ d = 128 + ((p \div 64) % 64) /\ e = 128 + (p % 64)
  BY <1>6, <1>8, SMT
<1>16. IsValid(c) <=>
       /\ 240 <= a /\ a <= 244 /\ 128 <= b /\ b <= 191 /\ 128 <= d /\ d <= 191
       /\ 128 <= e /\ e <= 191 /\ ~(a = 240 /\ b <= 143) /\ ~(a = 244 /\ b > 143)
  BY <1>3, <1>14, SMT
<1> QED BY <1>13, <1>15, <1>16, SMT

\* What is marked as a character is one.
LEMMA CharacterIsValid ==
  ASSUME NEW c \in Seq(Bytes), Len(c) \in 1..4
  PROVE  IsCharacter(c) <=> IsValid(c)
<1>1. Len(c) = 1 \/ Len(c) = 2 \/ Len(c) = 3 \/ Len(c) = 4
  OBVIOUS
<1> QED BY <1>1, OneByte, TwoBytes, ThreeBytes, FourBytes

\* A first byte announces up to four bytes, or none.
LEMMA AnnouncedType ==
  ASSUME NEW b \in Nat
  PROVE  Announced(b) \in 0..4
BY DEF Announced

\* The bytes of a text between two places.
LEMMA PieceIs ==
  ASSUME NEW in \in Seq(Bytes), NEW i \in Nat, NEW j \in Nat, i < j, j <= Len(in)
  PROVE  /\ SubSeq(in, i + 1, j) \in Seq(Bytes) /\ Len(SubSeq(in, i + 1, j)) = j - i
         /\ \A k \in 1..(j - i) : SubSeq(in, i + 1, j)[k] = in[i + k]
<1>1. i + 1 \in Int /\ j \in Int /\ i + 1 >= 1 /\ j <= Len(in) /\ j - (i + 1) + 1 = j - i
  OBVIOUS
<1>2. \A k \in 1..(j - i) : (i + 1) + k - 1 = i + k
  OBVIOUS
<1>3. /\ SubSeq(in, i + 1, j) \in Seq(Bytes)
      /\ Len(SubSeq(in, i + 1, j)) = IF i + 1 <= j THEN j - (i + 1) + 1 ELSE 0
      /\ \A k \in 1..(j - (i + 1) + 1) : SubSeq(in, i + 1, j)[k] = in[(i + 1) + k - 1]
  BY <1>1, SubSeqProperties
<1> QED BY <1>1, <1>2, <1>3

\* The characters that begin behind i: the one that is announced there, or none.
Ends(in, i) == {j \in (i + 1)..Len(in) : j <= i + 4 /\ IsCharacter(SubSeq(in, i + 1, j))}

\* There is the one that the first byte announces, when all its bytes are there.
LEMMA EndsAre ==
  ASSUME NEW in \in Seq(Bytes), NEW i \in Nat, i < Len(in)
  PROVE  /\ in[i + 1] \in Nat /\ in[i + 1] \in Bytes
         /\ Ends(in, i) = IF ValidAt(in, i) THEN {i + Announced(in[i + 1])} ELSE {}
<1>1. in[i + 1] \in Nat /\ in[i + 1] \in Bytes /\ Len(in) \in Nat
  <2>1. i + 1 \in 1..Len(in)
    OBVIOUS
  <2>2. in[i + 1] \in Bytes
    BY <2>1
  <2> QED BY <2>1, <2>2, BytesAre
<1> DEFINE n == Announced(in[i + 1])
<1>2. n \in 0..4
  BY <1>1, AnnouncedType
<1> HIDE DEF n
<1>3. ASSUME NEW j \in (i + 1)..Len(in), j <= i + 4
      PROVE  IsCharacter(SubSeq(in, i + 1, j)) <=> j = i + n /\ ValidAt(in, i)
  <2> DEFINE c == SubSeq(in, i + 1, j)
  <2>1. j \in Nat /\ i < j /\ j <= Len(in) /\ j - i \in 1..4 /\ 1 \in 1..(j - i)
    BY <1>1, <1>3
  <2>2. c \in Seq(Bytes) /\ Len(c) = j - i /\ \A k \in 1..(j - i) : c[k] = in[i + k]
    BY <2>1, PieceIs
  <2> HIDE DEF c
  <2>3. IsCharacter(c) <=> IsValid(c)
    BY <2>1, <2>2, CharacterIsValid
  <2>4. c[1] = in[i + 1] /\ \A k \in 2..(j - i) : c[k] = in[i + k]
    <3>1. \A k \in 2..(j - i) : k \in 1..(j - i)
      BY <2>1
    <3> QED BY <2>1, <2>2, <3>1
  <2>5. IsValid(c) <=> /\ n = j - i /\ \A k \in 2..(j - i) : Continues(in[i + k])
                       /\ j - i > 1 => ~Excluded(c)
    <3>1. Announced(c[1]) = Len(c) <=> n = j - i
      BY <2>2, <2>4 DEF n
    <3>2. (\A k \in 2..Len(c) : Continues(c[k])) <=> \A k \in 2..(j - i) : Continues(in[i + k])
      BY <2>2, <2>4
    <3> QED BY <2>2, <3>1, <3>2 DEF IsValid
  <2>6. ASSUME j = i + n
        PROVE  ValidAt(in, i) <=> /\ n = j - i /\ \A k \in 2..(j - i) : Continues(in[i + k])
                                  /\ j - i > 1 => ~Excluded(c)
    <3>1. n > 0 /\ i + n <= Len(in) /\ n = j - i
      BY <1>2, <2>1, <2>6
    <3>2. c = SubSeq(in, i + 1, i + n)
      BY <2>6 DEF c
    <3>3. ValidAt(in, i) <=> /\ n > 0 /\ i + n <= Len(in)
                             /\ \A k \in 2..n : Continues(in[i + k])
                             /\ n > 1 => ~Excluded(SubSeq(in, i + 1, i + n))
      BY DEF ValidAt, n
    <3> QED BY <3>1, <3>2, <3>3
  <2>7. IsCharacter(c) <=> j = i + n /\ ValidAt(in, i)
    <3>1. n = j - i <=> j = i + n
      BY <1>2, <2>1
    <3> QED BY <2>3, <2>5, <2>6, <3>1
  <2> QED BY <2>7 DEF c
<1>4. CASE ValidAt(in, i)
  <2>1. i + n \in (i + 1)..Len(in) /\ i + n <= i + 4
    <3>1. n > 0 /\ i + n <= Len(in)
      BY <1>4 DEF ValidAt, n
    <3> QED BY <1>1, <1>2, <3>1
  <2>2. \A j : j \in Ends(in, i) <=> j = i + n
    BY <1>3, <1>4, <2>1 DEF Ends
  <2> QED BY <1>1, <1>4, <2>2 DEF n
<1>5. CASE ~ValidAt(in, i)
  <2>1. \A j : j \notin Ends(in, i)
    BY <1>3, <1>5 DEF Ends
  <2> QED BY <1>1, <1>5, <2>1
<1> QED BY <1>4, <1>5

\* What the characters behind i are, from those behind the first of them: by the
\* definition, and by the bytes that the first announces.
FromEnds(in, u, i) ==
  IF Ends(in, i) = {} THEN [all |-> i = Len(in), text |-> <<>>]
  ELSE LET j == CHOOSE k \in Ends(in, i) : TRUE
       IN  [all |-> u[j].all, text |-> <<Ascii(SubSeq(in, i + 1, j))>> \o u[j].text]
From(in) == CHOOSE u : u = [i \in 0..Len(in) |-> FromEnds(in, u, i)]

Copied(b) == IF Announced(b) = 1 THEN b ELSE unknown_char
FromNext(in, u, i) ==
  IF i < Len(in) /\ ValidAt(in, i)
  THEN [all |-> u[i + Announced(in[i + 1])].all,
        text |-> <<Copied(in[i + 1])>> \o u[i + Announced(in[i + 1])].text]
  ELSE [all |-> i = Len(in), text |-> <<>>]

\* The text of the characters is taken of the first place.
LEMMA CharactersFrom == \A in : Characters(in) = From(in)[0]
BY DEF Characters, From, FromEnds, Ends

\* A character that is announced ends inside the text.
LEMMA ValidInside ==
  ASSUME NEW in \in Seq(Bytes), NEW i \in Nat, i < Len(in), ValidAt(in, i)
  PROVE  /\ Announced(in[i + 1]) \in 1..4 /\ Len(in) \in Nat
         /\ i + Announced(in[i + 1]) \in (i + 1)..Len(in)
<1>1. Announced(in[i + 1]) \in 0..4 /\ Len(in) \in Nat
  BY EndsAre, AnnouncedType
<1>2. Announced(in[i + 1]) > 0 /\ i + Announced(in[i + 1]) <= Len(in)
  BY DEF ValidAt
<1> QED BY <1>1, <1>2

\* The two are the same.
LEMMA FromSame ==
  ASSUME NEW in \in Seq(Bytes), NEW u, NEW i \in 0..Len(in)
  PROVE  FromEnds(in, u, i) = FromNext(in, u, i)
<1>0. i \in Nat /\ Len(in) \in Nat /\ (i < Len(in) \/ i = Len(in))
  OBVIOUS
<1>1. CASE i < Len(in) /\ ValidAt(in, i)
  <2> DEFINE n == Announced(in[i + 1])
             j == i + n
             c == SubSeq(in, i + 1, j)
  <2>1. Ends(in, i) = {j}
    BY <1>0, <1>1, EndsAre
  <2>2. n \in 1..4 /\ j \in (i + 1)..Len(in)
    BY <1>0, <1>1, ValidInside
  <2>3. (CHOOSE k \in Ends(in, i) : TRUE) = j /\ Ends(in, i) # {}
    BY <2>1
  <2>4. Len(c) = n /\ c[1] = in[i + 1]
    <3>1. j \in Nat /\ i < j /\ j <= Len(in) /\ j - i = n /\ 1 \in 1..(j - i)
      BY <1>0, <2>2
    <3>2. Len(c) = j - i /\ \A k \in 1..(j - i) : c[k] = in[i + k]
      BY <1>0, <3>1, PieceIs
    <3> QED BY <3>1, <3>2
  <2>5. Ascii(c) = Copied(in[i + 1])
    <3> HIDE DEF c
    <3> QED BY <2>4 DEF Ascii, Copied, unknown_char
  <2> HIDE DEF j, c
  <2>6. FromEnds(in, u, i) = [all |-> u[j].all, text |-> <<Ascii(c)>> \o u[j].text]
    BY <2>3 DEF FromEnds, c
  <2>7. FromNext(in, u, i) = [all |-> u[j].all, text |-> <<Copied(in[i + 1])>> \o u[j].text]
    BY <1>1 DEF FromNext, j
  <2> QED BY <2>5, <2>6, <2>7
<1>2. CASE ~(i < Len(in) /\ ValidAt(in, i))
  <2>1. Ends(in, i) = {}
    <3>1. CASE i < Len(in)
      BY <1>0, <1>2, <3>1, EndsAre
    <3>2. CASE i = Len(in)
      BY <1>0, <3>2 DEF Ends
    <3> QED BY <1>0, <3>1, <3>2
  <2> QED BY <1>2, <2>1 DEF FromEnds, FromNext
<1> QED BY <1>1, <1>2

\* They exist: from the end of the text back to any place.
LEMMA FromBack ==
  ASSUME NEW in \in Seq(Bytes)
  PROVE  \A m \in Nat : m <= Len(in) =>
           \E u : u = [i \in (Len(in) - m)..Len(in) |-> FromNext(in, u, i)]
<1> DEFINE n == Len(in)
           S == {m \in Nat : m <= n => \E u : u = [i \in (n - m)..n |-> FromNext(in, u, i)]}
<1>0. n \in Nat
  OBVIOUS
<1>1. 0 \in S
  <2> DEFINE u == [i \in (n - 0)..n |-> [all |-> TRUE, text |-> <<>>]]
  <2>1. \A i \in (n - 0)..n : i = n
    BY <1>0
  <2>2. \A i \in (n - 0)..n : FromNext(in, u, i) = [all |-> TRUE, text |-> <<>>]
    <3> TAKE i \in (n - 0)..n
    <3>1. i = Len(in) /\ ~(i < Len(in))
      BY <1>0, <2>1
    <3> QED BY <3>1 DEF FromNext
  <2>3. u = [i \in (n - 0)..n |-> FromNext(in, u, i)]
    <3> HIDE DEF n
    <3> QED BY <2>2
  <2> QED BY <2>3
<1>2. ASSUME NEW m \in Nat, m \in S PROVE m + 1 \in S
  <2>1. SUFFICES ASSUME m + 1 <= n
                 PROVE  \E v : v = [i \in (n - (m + 1))..n |-> FromNext(in, v, i)]
    OBVIOUS
  <2>2. PICK u : u = [i \in (n - m)..n |-> FromNext(in, u, i)]
    BY <1>0, <1>2, <2>1
  <2> HIDE DEF S
  <2> DEFINE v == [i \in (n - (m + 1))..n |-> FromNext(in, u, i)]
  <2>3. \A i \in (n - m)..n : v[i] = u[i]
    <3>1. \A i \in (n - m)..n : i \in (n - (m + 1))..n
      BY <1>0
    <3>2. \A i \in (n - m)..n : u[i] = FromNext(in, u, i)
      BY <2>2
    <3> HIDE DEF n
    <3> QED BY <3>1, <3>2
  <2>4. ASSUME NEW i \in (n - (m + 1))..n
        PROVE  FromNext(in, v, i) = FromNext(in, u, i)
    <3>1. CASE i < n /\ ValidAt(in, i)
      <4> DEFINE j == i + Announced(in[i + 1])
      <4>1. i \in Nat
        BY <1>0, <2>1
      <4>2. j \in (i + 1)..n
        BY <3>1, <4>1, ValidInside
      <4>3. j \in (n - m)..n
        BY <1>0, <4>1, <4>2
      <4> HIDE DEF v, j
      <4>4. v[j] = u[j]
        BY <2>3, <4>3
      <4> QED BY <3>1, <4>4 DEF FromNext, j
    <3>2. CASE ~(i < n /\ ValidAt(in, i))
      BY <3>2 DEF FromNext
    <3> QED BY <3>1, <3>2
  <2>5. v = [i \in (n - (m + 1))..n |-> FromNext(in, v, i)]
    <3> DEFINE w == [i \in (n - (m + 1))..n |-> FromNext(in, v, i)]
    <3> HIDE DEF n
    <3>1. \A i \in (n - (m + 1))..n : w[i] = v[i]
      BY <2>4
    <3>2. w = [i \in (n - (m + 1))..n |-> w[i]] /\ v = [i \in (n - (m + 1))..n |-> v[i]]
      OBVIOUS
    <3> HIDE DEF w, v
    <3>3. w = v
      BY <3>1, <3>2
    <3> QED BY <3>3 DEF w
  <2> QED BY <2>5
<1> HIDE DEF S
<1>3. \A m \in Nat : m \in S
  BY <1>1, <1>2, SetInduction
<1> QED BY <1>3 DEF S

\* From is the function its definition describes.
LEMMA FromRecursion ==
  ASSUME NEW in \in Seq(Bytes)
  PROVE  \A i \in 0..Len(in) : From(in)[i] = FromNext(in, From(in), i)
<1>0. Len(in) \in Nat /\ Len(in) - Len(in) = 0
  OBVIOUS
<1>1. PICK u : u = [i \in 0..Len(in) |-> FromNext(in, u, i)]
  BY <1>0, FromBack
<1>2. u = [i \in 0..Len(in) |-> FromEnds(in, u, i)]
  <2>1. \A i \in 0..Len(in) : FromEnds(in, u, i) = FromNext(in, u, i)
    BY FromSame
  <2> QED BY <1>1, <2>1
<1>3. From(in) = [i \in 0..Len(in) |-> FromEnds(in, From(in), i)]
  BY <1>2 DEF From
<1> QED BY <1>3, FromSame

Texts == [all : BOOLEAN, text : Seq(Bytes)]

\* What is shown for a byte is a byte.
LEMMA CopiedType ==
  ASSUME NEW b \in Bytes
  PROVE  Copied(b) \in Bytes
BY DEF Copied, unknown_char, Bytes

\* The texts are bytes.
LEMMA FromType ==
  ASSUME NEW in \in Seq(Bytes)
  PROVE  \A i \in 0..Len(in) : From(in)[i] \in Texts
<1> DEFINE n == Len(in)
           f == From(in)
           S == {m \in Nat : m <= n => f[n - m] \in Texts}
<1>0. n \in Nat
  OBVIOUS
<1>1. ASSUME NEW m \in Nat, \A k \in 0..(m - 1) : k \in S PROVE m \in S
  <2>1. SUFFICES ASSUME m <= n PROVE f[n - m] \in Texts
    OBVIOUS
  <2> DEFINE i == n - m
  <2>2. i \in 0..n /\ i \in Nat
    BY <1>0, <2>1
  <2>3. f[i] = FromNext(in, f, i)
    BY <2>2, FromRecursion
  <2>4. CASE i < n /\ ValidAt(in, i)
    <3> DEFINE j == i + Announced(in[i + 1])
    <3> HIDE DEF i
    <3>1. j \in (i + 1)..n
      BY <2>2, <2>4, ValidInside
    <3> HIDE DEF j
    <3>2. n - j \in 0..(m - 1) /\ n - (n - j) = j /\ n - j <= n
      BY <1>0, <2>2, <3>1 DEF i
    <3>3. f[j] \in Texts
      BY <1>1, <3>2
    <3>4. in[i + 1] \in Bytes
      BY <2>2, <2>4, EndsAre
    <3>5. Copied(in[i + 1]) \in Bytes
      BY <3>4, CopiedType
    <3> DEFINE x == Copied(in[i + 1])
               t == f[j].text
    <3>6. t \in Seq(Bytes) /\ f[j].all \in BOOLEAN
      BY <3>3 DEF Texts
    <3>7. f[i] = [all |-> f[j].all, text |-> <<x>> \o t]
      BY <2>3, <2>4 DEF FromNext, j
    <3> HIDE DEF x, t
    <3>8. <<x>> \o t \in Seq(Bytes)
      BY <3>5, <3>6 DEF x
    <3>9. f[i] \in Texts
      BY <3>6, <3>7, <3>8 DEF Texts
    <3> QED BY <3>9 DEF i
  <2>5. CASE ~(i < n /\ ValidAt(in, i))
    <3>1. f[i] = [all |-> i = n, text |-> <<>>]
      BY <2>3, <2>5 DEF FromNext
    <3>2. <<>> \in Seq(Bytes) /\ (i = n) \in BOOLEAN
      OBVIOUS
    <3> HIDE DEF i
    <3>3. f[i] \in Texts
      BY <3>1, <3>2 DEF Texts
    <3> QED BY <3>3 DEF i
  <2> QED BY <2>4, <2>5
<1> HIDE DEF S
<1>2. \A m \in Nat : m \in S
  BY <1>1, CourseInduction
<1>3. ASSUME NEW i \in 0..n PROVE f[i] \in Texts
  <2>1. n - i \in Nat /\ n - (n - i) = i /\ n - i <= n
    BY <1>0
  <2>2. n - i \in S
    BY <1>2, <2>1
  <2> QED BY <2>1, <2>2 DEF S
<1> QED BY <1>3

\* The loop of try_utf8_to_ascii.
AfterStep(in, max, u, k) ==
  IF k = 0 THEN [i |-> 0, failed |-> 0, is_utf8 |-> FALSE, out |-> <<>>]
  ELSE IF u[k - 1].i < Len(in) /\ u[k - 1].failed = 0 THEN NextCharacter(u[k - 1], in, max)
       ELSE u[k - 1]
After(in, max) == CHOOSE u : u = [k \in 0..Len(in) |-> AfterStep(in, max, u, k)]

\* What the conversion returns is taken of the last.
LEMMA ConvertsAfter ==
  ASSUME NEW in, NEW max
  PROVE  LET s == After(in, max)[Len(in)]
         IN  try_utf8_to_ascii(in, max) =
               [len |-> IF s.failed = 0 THEN Len(s.out) ELSE s.failed, out |-> s.out, is_utf8 |-> s.is_utf8]
BY DEF try_utf8_to_ascii, After, AfterStep

\* Its states exist.
LEMMA AfterRecursion ==
  ASSUME NEW in, Len(in) \in Nat, NEW max
  PROVE  \A k \in 0..Len(in) : After(in, max)[k] = AfterStep(in, max, After(in, max), k)
<1> DEFINE S == {m \in Nat : \E u : u = [k \in 0..m |-> AfterStep(in, max, u, k)]}
<1>1. 0 \in S
  <2> DEFINE u == [k \in 0..0 |-> [i |-> 0, failed |-> 0, is_utf8 |-> FALSE, out |-> <<>>]]
  <2>1. \A k \in 0..0 : AfterStep(in, max, u, k) = [i |-> 0, failed |-> 0, is_utf8 |-> FALSE, out |-> <<>>]
    BY DEF AfterStep
  <2>2. u = [k \in 0..0 |-> AfterStep(in, max, u, k)]
    BY <2>1
  <2> QED BY <2>2
<1>2. ASSUME NEW m \in Nat, m \in S PROVE m + 1 \in S
  <2>1. PICK u : u = [k \in 0..m |-> AfterStep(in, max, u, k)]
    BY <1>2
  <2> HIDE DEF S
  <2> DEFINE v == [k \in 0..(m + 1) |-> AfterStep(in, max, u, k)]
  <2>2. \A k \in 0..m : v[k] = u[k]
    <3>1. \A k \in 0..m : k \in 0..(m + 1)
      OBVIOUS
    <3>2. \A k \in 0..m : u[k] = AfterStep(in, max, u, k)
      BY <2>1
    <3> QED BY <3>1, <3>2
  <2> HIDE DEF v
  <2>3. ASSUME NEW k \in 0..(m + 1)
        PROVE  AfterStep(in, max, v, k) = AfterStep(in, max, u, k)
    <3>1. CASE k = 0
      BY <3>1 DEF AfterStep
    <3>2. CASE k # 0
      <4>1. k - 1 \in 0..m
        BY <3>2
      <4>2. v[k - 1] = u[k - 1]
        BY <2>2, <4>1
      <4> QED BY <4>2 DEF AfterStep
    <3> QED BY <3>1, <3>2
  <2>4. v = [k \in 0..(m + 1) |-> AfterStep(in, max, v, k)]
    BY <2>3 DEF v
  <2>5. m + 1 \in Nat /\ \E w : w = [k \in 0..(m + 1) |-> AfterStep(in, max, w, k)]
    BY <2>4
  <2> QED BY <2>5 DEF S
<1> HIDE DEF S
<1>3. \A m \in Nat : m \in S
  BY <1>1, <1>2, SetInduction
<1>4. PICK u : u = [k \in 0..Len(in) |-> AfterStep(in, max, u, k)]
  BY <1>3 DEF S
<1>5. After(in, max) = [k \in 0..Len(in) |-> AfterStep(in, max, After(in, max), k)]
  BY <1>4 DEF After
<1> QED BY <1>5

\* What the loop has found of the characters, after k rounds.
States == [i : Nat, failed : {0, -1, -2}, is_utf8 : BOOLEAN, out : Seq(Bytes)]
Found(in, max, s, k) ==
  /\ s \in States /\ s.i <= Len(in) /\ Len(s.out) <= max
  /\ s.failed = 0 => s.i >= k \/ s.i = Len(in)
  /\ From(in)[0].text = s.out \o From(in)[s.i].text
  /\ From(in)[0].all = From(in)[s.i].all
  /\ s.is_utf8 <=> \E b \in 1..s.i : in[b] > 127
  /\ s.failed = -1 => ~From(in)[s.i].all /\ From(in)[s.i].text = <<>>
  /\ s.failed = -2 => Len(s.out) = max /\ From(in)[s.i].text # <<>>

\* An element between two sequences.
LEMMA Moved ==
  \A s, t \in Seq(Bytes) : \A x \in Bytes :
    /\ s \o (<<x>> \o t) = Append(s, x) \o t
    /\ Append(s, x) \in Seq(Bytes) /\ Len(Append(s, x)) = Len(s) + 1
    /\ <<x>> \o t # <<>>
<1> TAKE s, t \in Seq(Bytes)
<1> TAKE x \in Bytes
<1>1. s \o (<<x>> \o t) = (s \o <<x>>) \o t
  BY <<x>> \in Seq(Bytes), ConcatAssociative
<1>2. s \o <<x>> = Append(s, x)
  OBVIOUS
<1>3. Append(s, x) \in Seq(Bytes) /\ Len(Append(s, x)) = Len(s) + 1
  BY AppendProperties
<1>4. <<x>> \o t # <<>>
  OBVIOUS
<1> QED BY <1>1, <1>2, <1>3, <1>4

\* A byte without a mark is ASCII.
LEMMA AsciiAnnounced ==
  ASSUME NEW b \in Nat, Announced(b) \in 1..4
  PROVE  Announced(b) > 1 <=> b > 127
BY DEF Announced, Within

\* A round.
LEMMA RoundFinds ==
  ASSUME NEW in \in Seq(Bytes), NEW max \in Nat, NEW k \in Nat, NEW s, Found(in, max, s, k),
         s.i < Len(in), s.failed = 0
  PROVE  Found(in, max, NextCharacter(s, in, max), k + 1)
<1> DEFINE i == s.i
           f == From(in)
           n == Announced(in[i + 1])
           j == i + n
           x == Copied(in[i + 1])
           r == NextCharacter(s, in, max)
<1>0. i \in Nat /\ Len(in) \in Nat /\ i \in 0..Len(in) /\ s \in States
  BY DEF Found, States
<1>1. in[i + 1] \in Nat /\ in[i + 1] \in Bytes
  <2> HIDE DEF i
  <2>1. i < Len(in)
    BY DEF i
  <2> QED BY <1>0, <2>1, EndsAre
<1>2. f[i] = FromNext(in, f, i)
  BY <1>0, FromRecursion
<1>3. CASE ~ValidAt(in, i)
  <2>1. r = [s EXCEPT !.failed = -1]
    BY <1>3 DEF NextCharacter
  <2> HIDE DEF r
  <2>2. /\ r \in States /\ r.i = s.i /\ r.failed = -1 /\ r.is_utf8 = s.is_utf8 /\ r.out = s.out
    BY <1>0, <2>1 DEF States
  <2>3. f[i] = [all |-> i = Len(in), text |-> <<>>]
    BY <1>2, <1>3 DEF FromNext
  <2>4. ~f[i].all /\ f[i].text = <<>>
    <3>1. i # Len(in)
      BY <1>0
    <3> HIDE DEF f, i
    <3>2. f[i].all = (i = Len(in)) /\ f[i].text = <<>>
      BY <2>3
    <3> QED BY <3>1, <3>2
  <2>5. r.failed # 0 /\ r.failed # -2
    BY <2>2
  <2>6. Found(in, max, r, k + 1)
    BY <2>2, <2>4, <2>5 DEF Found
  <2> QED BY <2>6 DEF r
<1>4. CASE ValidAt(in, i)
  <2>1. n \in 1..4 /\ j \in (i + 1)..Len(in) /\ j \in Nat /\ j \in 0..Len(in)
    <3> HIDE DEF i, n
    <3>1. i < Len(in)
      BY DEF i
    <3>2. n \in 1..4 /\ j \in (i + 1)..Len(in)
      BY <1>0, <1>4, <3>1, ValidInside DEF n
    <3> QED BY <1>0, <3>2
  <2>2. f[i] = [all |-> f[j].all, text |-> <<x>> \o f[j].text]
    BY <1>2, <1>4 DEF FromNext
  <2>3. f[j] \in Texts
    BY <2>1, FromType
  <2> DEFINE t == f[j].text
  <2>4. x \in Bytes /\ t \in Seq(Bytes) /\ s.out \in Seq(Bytes)
    <3>1. t \in Seq(Bytes)
      BY <2>3 DEF Texts
    <3>2. s.out \in Seq(Bytes)
      BY <1>0 DEF States
    <3> QED BY <1>1, <3>1, <3>2, CopiedType
  <2>5. f[i].all = f[j].all /\ f[i].text = <<x>> \o t
    BY <2>2
  <2> HIDE DEF t, x
  <2>6. /\ s.out \o (<<x>> \o t) = Append(s.out, x) \o t
        /\ Append(s.out, x) \in Seq(Bytes) /\ Len(Append(s.out, x)) = Len(s.out) + 1
        /\ <<x>> \o t # <<>>
    <3> DEFINE o == s.out
    <3> HIDE DEF o
    <3>1. o \in Seq(Bytes)
      BY <2>4 DEF o
    <3>2. o \o (<<x>> \o t) = Append(o, x) \o t
      BY <2>4, <3>1, Moved
    <3>3. Append(o, x) \in Seq(Bytes) /\ Len(Append(o, x)) = Len(o) + 1
      BY <2>4, <3>1, Moved
    <3>4. <<x>> \o t # <<>>
      BY <2>4, <3>1, Moved
    <3> QED BY <3>2, <3>3, <3>4 DEF o
  <2>7. CASE ~(Len(s.out) < max)
    <3>1. r = [s EXCEPT !.failed = -2]
      BY <1>4, <2>7 DEF NextCharacter, try_push_char
    <3> HIDE DEF r
    <3>2. /\ r \in States /\ r.i = s.i /\ r.failed = -2 /\ r.is_utf8 = s.is_utf8 /\ r.out = s.out
      BY <1>0, <3>1 DEF States
    <3>3. Len(s.out) = max /\ f[i].text # <<>>
      <4>1. Len(s.out) \in Nat /\ Len(s.out) <= max
        BY <2>4 DEF Found
      <4> QED BY <2>5, <2>6, <2>7, <4>1
    <3>4. r.failed # 0 /\ r.failed # -1
      BY <3>2
    <3>5. Found(in, max, r, k + 1)
      BY <3>2, <3>3, <3>4 DEF Found
    <3> QED BY <3>5 DEF r
  <2>8. CASE Len(s.out) < max
    <3>1. r = [i |-> j, failed |-> 0, is_utf8 |-> s.is_utf8 \/ n > 1, out |-> Append(s.out, x)]
      BY <1>4, <2>8 DEF NextCharacter, try_push_char, Copied, x
    <3> HIDE DEF r
    <3>2. r.i = j /\ r.failed = 0 /\ (r.is_utf8 <=> s.is_utf8 \/ n > 1) /\ r.out = Append(s.out, x)
      BY <3>1
    <3>3. r \in States
      <4>1. (s.is_utf8 \/ n > 1) \in BOOLEAN
        OBVIOUS
      <4> HIDE DEF j, n
      <4> QED BY <2>1, <2>6, <3>1, <4>1 DEF States
    <3>4. Len(r.out) <= max
      BY <2>4, <2>6, <2>8, <3>2
    <3>5. f[0].text = r.out \o f[r.i].text /\ f[0].all = f[r.i].all
      <4>1. f[0].text = s.out \o f[i].text /\ f[0].all = f[i].all
        BY DEF Found
      <4> QED BY <2>5, <2>6, <3>2, <4>1 DEF t
    <3>6. r.is_utf8 <=> \E b \in 1..j : in[b] > 127
      <4>1. s.is_utf8 <=> \E b \in 1..i : in[b] > 127
        BY DEF Found
      <4>2. n > 1 <=> in[i + 1] > 127
        BY <1>1, <2>1, AsciiAnnounced
      <4> HIDE DEF n, i, j
      <4>3. i + 1 \in 1..j /\ \A b \in 1..i : b \in 1..j
        BY <1>0, <2>1
      <4>4. ASSUME ~(n > 1) PROVE \A b \in 1..j : b \in 1..i \/ b = i + 1
        <5>1. j = i + 1
          BY <1>0, <2>1, <4>4 DEF j
        <5> QED BY <1>0, <5>1
      <4>5. r.is_utf8 <=> s.is_utf8 \/ n > 1
        BY <3>2
      <4> QED BY <4>1, <4>2, <4>3, <4>4, <4>5
    <3>7. r.i >= k + 1 \/ r.i = Len(in)
      <4>1. i >= k
        BY DEF Found
      <4> QED BY <1>0, <2>1, <3>2, <4>1
    <3>8. r.i <= Len(in) /\ r.failed # -1 /\ r.failed # -2
      BY <1>0, <2>1, <3>2
    <3>9. Found(in, max, r, k + 1)
      <4> HIDE DEF j
      <4> QED BY <3>2, <3>3, <3>4, <3>5, <3>6, <3>7, <3>8 DEF Found
    <3> QED BY <3>9 DEF r
  <2> QED BY <2>7, <2>8
<1> QED BY <1>3, <1>4

\* After every round.
LEMMA LoopFinds ==
  ASSUME NEW in \in Seq(Bytes), NEW max \in Nat
  PROVE  Found(in, max, After(in, max)[Len(in)], Len(in))
<1> DEFINE n == Len(in)
           a == After(in, max)
           S == {k \in Nat : k <= n => Found(in, max, a[k], k)}
<1>0. n \in Nat
  OBVIOUS
<1>1. 0 \in S
  <2>1. a[0] = AfterStep(in, max, a, 0)
    BY <1>0, AfterRecursion, 0 \in 0..n
  <2> DEFINE s == a[0]
  <2>2. s = [i |-> 0, failed |-> 0, is_utf8 |-> FALSE, out |-> <<>>]
    BY <2>1 DEF AfterStep
  <2> HIDE DEF s
  <2>3. s \in States /\ s.i = 0 /\ s.failed = 0 /\ ~s.is_utf8 /\ s.out = <<>>
    BY <2>2 DEF States
  <2>4. From(in)[0] \in Texts
    BY <1>0, FromType, 0 \in 0..n
  <2>5. From(in)[0].text \in Seq(Bytes)
    BY <2>4 DEF Texts
  <2>6. From(in)[0].text = <<>> \o From(in)[0].text
    BY <2>5
  <2>7. ~\E b \in 1..0 : in[b] > 127
    OBVIOUS
  <2>8. Len(<<>>) = 0 /\ 0 <= max /\ 0 <= n /\ s.i >= 0
    BY <1>0, <2>3
  <2>9. Found(in, max, s, 0)
    BY <2>3, <2>6, <2>7, <2>8 DEF Found
  <2> QED BY <2>9 DEF s
<1>2. ASSUME NEW k \in Nat, k \in S PROVE k + 1 \in S
  <2>1. SUFFICES ASSUME k + 1 <= n PROVE Found(in, max, a[k + 1], k + 1)
    OBVIOUS
  <2>2. Found(in, max, a[k], k)
    BY <1>0, <1>2, <2>1
  <2> HIDE DEF S
  <2>3. a[k + 1] = AfterStep(in, max, a, k + 1)
    BY <1>0, <2>1, AfterRecursion, k + 1 \in 0..n
  <2>4. k + 1 # 0 /\ (k + 1) - 1 = k
    OBVIOUS
  <2> DEFINE s == a[k]
  <2>5. a[k + 1] = IF s.i < n /\ s.failed = 0 THEN NextCharacter(s, in, max) ELSE s
    BY <2>3, <2>4 DEF AfterStep
  <2> HIDE DEF s
  <2>6. CASE s.i < n /\ s.failed = 0
    <3>1. Found(in, max, NextCharacter(s, in, max), k + 1)
      BY <2>2, <2>6, RoundFinds DEF s
    <3> QED BY <2>5, <2>6, <3>1
  <2>7. CASE ~(s.i < n /\ s.failed = 0)
    <3>1. Found(in, max, s, k)
      BY <2>2 DEF s
    <3>2. s.i \in Nat /\ s.i <= n
      BY <3>1 DEF Found, States
    <3>3. s.failed = 0 => s.i >= k + 1 \/ s.i = n
      BY <1>0, <2>7, <3>2
    <3>4. Found(in, max, s, k + 1)
      BY <3>1, <3>3 DEF Found
    <3> QED BY <2>5, <2>7, <3>4
  <2> QED BY <2>6, <2>7
<1> HIDE DEF S
<1>3. \A k \in Nat : k \in S
  BY <1>1, <1>2, SetInduction
<1> QED BY <1>0, <1>3 DEF S

\* What the conversion returns.
LEMMA Utf8Is ==
  ASSUME NEW in \in Seq(Bytes), NEW max \in Nat
  PROVE  LET r == try_utf8_to_ascii(in, max)
             all == Characters(in).all
             text == Characters(in).text
         IN  /\ r.len = IF Len(text) > max THEN -2 ELSE IF all THEN Len(text) ELSE -1
             /\ r.out = Cut(text, max)
             /\ r.len >= 0 => (r.is_utf8 <=> \E i \in DOMAIN in : in[i] > 127)
<1> DEFINE n == Len(in)
           f == From(in)
           s == After(in, max)[n]
           r == try_utf8_to_ascii(in, max)
           text == f[0].text
           all == f[0].all
<1>0. n \in Nat /\ DOMAIN in = 1..n
  OBVIOUS
<1>1. Found(in, max, s, n)
  BY LoopFinds
<1>2. r.len = (IF s.failed = 0 THEN Len(s.out) ELSE s.failed) /\ r.out = s.out /\ r.is_utf8 = s.is_utf8
  <2>1. r = [len |-> IF s.failed = 0 THEN Len(s.out) ELSE s.failed, out |-> s.out, is_utf8 |-> s.is_utf8]
    BY ConvertsAfter
  <2> HIDE DEF r, s
  <2> QED BY <2>1
<1>3. Characters(in) = f[0]
  BY CharactersFrom
<1> HIDE DEF s, r
<1>4. /\ s.i \in Nat /\ s.i <= n /\ s.failed \in {0, -1, -2} /\ s.out \in Seq(Bytes)
      /\ Len(s.out) \in Nat /\ Len(s.out) <= max /\ s.i \in 0..n
  <2>1. s \in States /\ s.i <= n /\ Len(s.out) <= max
    BY <1>1 DEF Found
  <2>2. s.i \in Nat /\ s.failed \in {0, -1, -2} /\ s.out \in Seq(Bytes)
    BY <2>1 DEF States
  <2> QED BY <1>0, <2>1, <2>2
<1> DEFINE rest == f[s.i].text
<1>5. text = s.out \o rest /\ all = f[s.i].all
  BY <1>1 DEF Found
<1>6. rest \in Seq(Bytes)
  <2>1. f[s.i] \in Texts
    BY <1>4, FromType
  <2> QED BY <2>1 DEF Texts
<1> HIDE DEF rest, f
<1>7. /\ text \in Seq(Bytes) /\ Len(text) = Len(s.out) + Len(rest)
      /\ \A i \in 1..Len(s.out) : text[i] = s.out[i]
  BY <1>4, <1>5, <1>6, ConcatProperties
<1>8. rest = <<>> => text = s.out
  BY <1>4, <1>5
<1> HIDE DEF text, all
<1>9. CASE s.failed = 0
  <2>1. s.i = n
    BY <1>0, <1>1, <1>4, <1>9 DEF Found
  <2>2. f[n] = [all |-> n = n, text |-> <<>>]
    <3>1. f[n] = FromNext(in, f, n)
      BY <1>0, FromRecursion, n \in 0..n DEF f
    <3> QED BY <1>0, <3>1 DEF FromNext
  <2>3. all /\ rest = <<>>
    <3>1. f[n].all /\ f[n].text = <<>>
      <4> HIDE DEF n
      <4>1. f[n].all = (n = n) /\ f[n].text = <<>>
        BY <2>2
      <4> QED BY <4>1
    <3>2. f[s.i].all /\ f[s.i].text = <<>>
      BY <2>1, <3>1
    <3> QED BY <1>5, <3>2 DEF rest
  <2>4. text = s.out /\ ~(Len(text) > max)
    BY <1>4, <1>8, <2>3
  <2>5. Cut(text, max) = s.out
    BY <1>4, <2>4 DEF Cut
  <2>6. r.is_utf8 <=> \E i \in DOMAIN in : in[i] > 127
    BY <1>0, <1>1, <1>2, <2>1 DEF Found
  <2>7. r.len = Len(text)
    BY <1>2, <1>9, <2>4
  <2> QED BY <1>2, <1>3, <2>3, <2>4, <2>5, <2>6, <2>7 DEF text, all, r
<1>10. CASE s.failed = -1
  <2>1. ~all /\ rest = <<>>
    BY <1>1, <1>5, <1>10 DEF Found, rest, f
  <2>2. text = s.out /\ ~(Len(text) > max)
    BY <1>4, <1>8, <2>1
  <2>3. Cut(text, max) = s.out
    BY <1>4, <2>2 DEF Cut
  <2>4. r.len = -1 /\ ~(r.len >= 0)
    BY <1>2, <1>10
  <2> QED BY <1>2, <1>3, <2>1, <2>2, <2>3, <2>4 DEF text, all, r
<1>11. CASE s.failed = -2
  <2>1. Len(s.out) = max /\ rest # <<>>
    BY <1>1, <1>11 DEF Found, rest, f
  <2>2. Len(rest) > 0
    BY <1>6, <2>1
  <2>3. Len(text) > max
    BY <1>4, <1>6, <1>7, <2>1, <2>2
  <2>4. Cut(text, max) = s.out
    <3> DEFINE c == Cut(text, max)
    <3>1. c \in Seq(Bytes) /\ Len(c) = max /\ \A i \in 1..max : c[i] = text[i]
      BY <1>7, <2>3, CutIs
    <3> HIDE DEF c
    <3>2. \A i \in 1..max : c[i] = s.out[i]
      BY <1>7, <2>1, <3>1
    <3> QED BY <1>4, <2>1, <3>1, <3>2, SeqEqual DEF c
  <2>5. r.len = -2 /\ ~(r.len >= 0)
    BY <1>2, <1>11
  <2> QED BY <1>2, <1>3, <2>3, <2>4, <2>5 DEF text, all, r
<1> QED BY <1>4, <1>9, <1>10, <1>11

\* The conversion of the call is this one.
LEMMA Utf8Holds == Converted => Utf8Accepted
<1> SUFFICES ASSUME Converted, Made("utf8") PROVE Utf8Accepted
  BY DEF Utf8Accepted
<1>1. call.in \in Seq(Bytes) /\ call.out_len \in Nat
  <2>1. call \in CallOf["utf8"]
    BY CallIs DEF Made
  <2>2. CallOf["utf8"] = [codec : {"utf8"}, in : Seq(Bytes), out_len : Nat]
    BY DEF CallOf
  <2> QED BY <2>1, <2>2
<1>2. made = try_utf8_to_ascii(call.in, call.out_len)
  BY DEF Converted, Made, ConvertedTo
<1> QED BY <1>1, <1>2, Utf8Is DEF Utf8Accepted

\* Of any bytes and any room, a text is accepted exactly when it is UTF-8 and has
\* no more characters than there is room for, and no more than the room is
\* written (utf8.c:19-88).
THEOREM Utf8IsAccepted == Spec => []Utf8Accepted
BY ConvertedAlways, Utf8Holds, PTL

=============================================================================
