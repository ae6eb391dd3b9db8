---------------------------- MODULE ArithmeticProofs ----------------------------
(***************************************************************************)
(* Induction over the naturals for the proofs about sums, values and        *)
(* encodings.  It is stated over sets of numbers: the library's induction   *)
(* theorems take an operator, its theorem of the least element (WFMin) does *)
(* not, and the others follow from it.                                     *)
(***************************************************************************)
EXTENDS Arithmetic, SequenceTheorems, WellFoundedInduction, TLAPS

\* The order of the naturals is well founded, as a set of pairs.
LEMMA LessIsWellFounded == IsWellFoundedOn({ss \in Nat \X Nat : ss[1] < ss[2]}, Nat)
BY NatLessThanWellFounded DEF OpToRel

\* Every set of naturals that has an element has a least one.
LEMMA LeastNumber ==
  ASSUME NEW T, T \subseteq Nat, T # {}
  PROVE  \E x \in T : \A y \in T : x <= y
<1> DEFINE R == {ss \in Nat \X Nat : ss[1] < ss[2]}
<1>1. IsWellFoundedOn(R, Nat)
  BY LessIsWellFounded
<1>2. \A x, y \in Nat : <<y, x>> \in R <=> y < x
  OBVIOUS
<1> HIDE DEF R
<1>3. PICK x \in T : \A y \in T : ~ (<<y, x>> \in R)
  BY <1>1, WFMin
<1>4. \A y \in T : x <= y
  <2> TAKE y \in T
  <2>1. x \in Nat /\ y \in Nat /\ ~(y < x)
    BY <1>2, <1>3
  <2> QED BY <2>1
<1> QED BY <1>4

\* Induction: the set of the numbers a fact holds of is all of them.
LEMMA SetInduction ==
  ASSUME NEW S, 0 \in S, \A n \in Nat : n \in S => n + 1 \in S
  PROVE  \A n \in Nat : n \in S
<1> SUFFICES ASSUME Nat \ S # {} PROVE FALSE
  OBVIOUS
<1>1. PICK x \in Nat \ S : \A y \in Nat \ S : x <= y
  BY LeastNumber
<1>2. x # 0 /\ x - 1 \in Nat
  BY <1>1
<1>3. x - 1 \in S
  BY <1>1, <1>2
<1>4. (x - 1) + 1 \in S
  BY <1>2, <1>3
<1> QED BY <1>1, <1>4

\* The same with all smaller numbers as the hypothesis.
LEMMA CourseInduction ==
  ASSUME NEW S, \A n \in Nat : (\A m \in 0..(n-1) : m \in S) => n \in S
  PROVE  \A n \in Nat : n \in S
<1> SUFFICES ASSUME Nat \ S # {} PROVE FALSE
  OBVIOUS
<1>1. PICK x \in Nat \ S : \A y \in Nat \ S : x <= y
  BY LeastNumber
<1>2. \A m \in 0..(x-1) : m \in S
  BY <1>1
<1> QED BY <1>1, <1>2

\* A function can be defined by its first value and a step from each value to the
\* next: what makes a recursive function definition, which is a CHOOSE, mean one.
LEMMA PrimRec ==
  ASSUME NEW V, NEW c \in V, NEW n \in Nat, NEW h \in [1..n -> [V -> V]]
  PROVE  \E g \in [0..n -> V] : g[0] = c /\ \A i \in 1..n : g[i] = h[i][g[i-1]]
<1> DEFINE Rec(g, m) == g \in [0..m -> V] /\ g[0] = c /\ \A i \in 1..m : g[i] = h[i][g[i-1]]
           S == {m \in Nat : m <= n => \E g : Rec(g, m)}
<1>1. 0 \in S
  <2>1. Rec([i \in 0..0 |-> c], 0)
    OBVIOUS
  <2> QED BY <2>1
<1>2. ASSUME NEW m \in Nat, m \in S PROVE m + 1 \in S
  <2>1. SUFFICES ASSUME m + 1 <= n PROVE \E g : Rec(g, m + 1)
     OBVIOUS
  <2>2. PICK g : Rec(g, m)
    BY <1>2, <2>1
  <2>3. m + 1 \in 1..n /\ g[m] \in V
    BY <2>1, <2>2
  <2>4. h[m+1][g[m]] \in V
    BY <2>3
  <2> DEFINE f == [i \in 0..(m+1) |-> IF i = m + 1 THEN h[m+1][g[m]] ELSE g[i]]
  <2>5. f \in [0..(m+1) -> V]
    BY <2>2, <2>4
  <2>6. f[0] = c /\ \A i \in 1..(m+1) : f[i] = h[i][f[i-1]]
    BY <2>2
  <2> HIDE DEF f
  <2>7. Rec(f, m + 1)
    BY <2>5, <2>6
  <2> QED BY <2>7
<1> HIDE DEF Rec
<1>3. n \in S
  <2> HIDE DEF S
  <2> QED BY <1>1, <1>2, SetInduction
<1> QED BY <1>3 DEF Rec

-----------------------------------------------------------------------------
(* Sums. *)

\* The function that RunningSum takes its value of.
Partial(w, n) == CHOOSE sum : sum = [i \in 0..n |-> IF i = 0 THEN 0 ELSE sum[i - 1] + w[i]]

\* The running sum is the last of the partial sums.
LEMMA SumIsPartial == \A w, n : RunningSum(w, n) = Partial(w, n)[n]
BY DEF RunningSum, Partial

\* It exists: its values are the sums of the first terms.
LEMMA PartialSums ==
  ASSUME NEW n \in Nat, NEW w, \A i \in 1..n : w[i] \in Nat
  PROVE  /\ Partial(w, n) \in [0..n -> Nat]
         /\ Partial(w, n)[0] = 0
         /\ \A i \in 1..n : Partial(w, n)[i] = Partial(w, n)[i - 1] + w[i]
<1> DEFINE h == [i \in 1..n |-> [x \in Nat |-> x + w[i]]]
<1>1. h \in [1..n -> [Nat -> Nat]]
  OBVIOUS
<1>2. PICK g \in [0..n -> Nat] : g[0] = 0 /\ \A i \in 1..n : g[i] = h[i][g[i-1]]
  <2> DEFINE V == Nat
  <2>1. 0 \in V /\ h \in [1..n -> [V -> V]]
    OBVIOUS
  <2> HIDE DEF h, V
  <2>2. \E g \in [0..n -> V] : g[0] = 0 /\ \A i \in 1..n : g[i] = h[i][g[i-1]]
    BY <2>1, PrimRec
  <2> QED BY <2>2 DEF V
<1>3. \A i \in 1..n : g[i] = g[i-1] + w[i]
  <2> TAKE i \in 1..n
  <2>1. g[i - 1] \in Nat
    BY i - 1 \in 0..n
  <2>2. h[i][g[i-1]] = g[i-1] + w[i]
    BY <2>1
  <2> HIDE DEF h
  <2> QED BY <1>2, <2>2
<1>4. g = [i \in 0..n |-> IF i = 0 THEN 0 ELSE g[i - 1] + w[i]]
  BY <1>2, <1>3
<1>5. Partial(w, n) = [i \in 0..n |-> IF i = 0 THEN 0 ELSE Partial(w, n)[i - 1] + w[i]]
  BY <1>4 DEF Partial
<1> DEFINE p == Partial(w, n)
<1>6. p[0] = 0 /\ \A i \in 1..n : p[i] = p[i-1] + w[i]
  BY <1>5
<1>7. \A m \in Nat : m \in {k \in Nat : k <= n => p[k] \in Nat}
  <2> DEFINE S == {k \in Nat : k <= n => p[k] \in Nat}
  <2> HIDE DEF p
  <2>1. 0 \in S
    BY <1>6
  <2>2. ASSUME NEW m \in Nat, m \in S PROVE m + 1 \in S
    <3>1. SUFFICES ASSUME m + 1 <= n PROVE p[m + 1] \in Nat
      OBVIOUS
    <3>2. p[m + 1] = p[(m + 1) - 1] + w[m + 1] /\ w[m + 1] \in Nat
      BY <1>6, <3>1
    <3> QED BY <2>2, <3>1, <3>2
  <2> HIDE DEF S
  <2>3. \A m \in Nat : m \in S
    BY <2>1, <2>2, SetInduction
  <2> QED BY <2>3 DEF S
<1>8. p \in [0..n -> Nat]
  BY <1>5, <1>7
<1> QED BY <1>6, <1>8

\* The sum of no term.
LEMMA SumOfNone == \A w : RunningSum(w, 0) = 0
<1> TAKE w
<1>1. Partial(w, 0)[0] = 0
  BY PartialSums
<1> QED BY <1>1, SumIsPartial

\* A sum of naturals is a natural.
LEMMA SumType ==
  ASSUME NEW n \in Nat, NEW w, \A i \in 1..n : w[i] \in Nat
  PROVE  RunningSum(w, n) \in Nat
BY PartialSums, SumIsPartial

\* A sum is determined by its terms.
LEMMA SumsAgree ==
  ASSUME NEW n \in Nat, NEW v, NEW w, \A i \in 1..n : v[i] \in Nat,
         \A i \in 1..n : w[i] = v[i]
  PROVE  RunningSum(w, n) = RunningSum(v, n)
<1> DEFINE p == Partial(v, n)
           q == Partial(w, n)
           S == {k \in Nat : k <= n => p[k] = q[k]}
<1>2. /\ p[0] = 0 /\ q[0] = 0
      /\ \A i \in 1..n : p[i] = p[i - 1] + v[i] /\ q[i] = q[i - 1] + v[i]
  BY PartialSums
<1> HIDE DEF p, q
<1>3. 0 \in S
  BY <1>2
<1>4. \A m \in Nat : m \in S => m + 1 \in S
  BY <1>2
<1> HIDE DEF S
<1>5. n \in S
  BY <1>3, <1>4, SetInduction
<1> QED BY <1>5, SumIsPartial DEF S, p, q

\* One term more adds that term.
LEMMA SumStep ==
  ASSUME NEW n \in Nat, NEW v, NEW w, \A i \in 1..n : v[i] \in Nat,
         \A i \in 1..n : w[i] = v[i], w[n + 1] \in Nat
  PROVE  RunningSum(w, n + 1) = RunningSum(v, n) + w[n + 1]
<1> DEFINE p == Partial(v, n)
           q == Partial(w, n + 1)
           S == {k \in Nat : k <= n => p[k] = q[k]}
<1>2. /\ p[0] = 0 /\ q[0] = 0 /\ q[n + 1] = q[n] + w[n + 1]
      /\ \A i \in 1..n : p[i] = p[i - 1] + v[i] /\ q[i] = q[i - 1] + v[i]
  <2>1. \A i \in 1..(n + 1) : w[i] \in Nat
    OBVIOUS
  <2>2. /\ q[0] = 0 /\ \A i \in 1..(n + 1) : q[i] = q[i - 1] + w[i]
    BY <2>1, PartialSums, n + 1 \in Nat
  <2>3. /\ p[0] = 0 /\ \A i \in 1..n : p[i] = p[i - 1] + v[i]
    BY PartialSums
  <2> HIDE DEF p, q
  <2> QED BY <2>2, <2>3
<1> HIDE DEF p, q
<1>3. 0 \in S
  BY <1>2
<1>4. \A m \in Nat : m \in S => m + 1 \in S
  BY <1>2
<1> HIDE DEF S
<1>5. n \in S
  BY <1>3, <1>4, SetInduction
<1>6. q[n] = p[n]
  BY <1>5 DEF S
<1> QED BY <1>2, <1>6, SumIsPartial DEF p, q

-----------------------------------------------------------------------------
(* Powers. *)

\* The function that Power takes its value of.
Powers(b, n) == CHOOSE power : power = [i \in 0..n |-> IF i = 0 THEN 1 ELSE b * power[i - 1]]

\* A power is the last of the powers up to it.
LEMMA PowerIsOneOfPowers == \A b, n : Power(b, n) = Powers(b, n)[n]
BY DEF Power, Powers

\* It exists: each of its values is the one before multiplied by b.
LEMMA PowersExist ==
  ASSUME NEW n \in Nat, NEW b \in Nat
  PROVE  /\ Powers(b, n) \in [0..n -> Nat]
         /\ Powers(b, n)[0] = 1
         /\ \A i \in 1..n : Powers(b, n)[i] = b * Powers(b, n)[i - 1]
<1>0. \A x \in Nat : b * x \in Nat
  OBVIOUS
<1> DEFINE h == [i \in 1..n |-> [x \in Nat |-> b * x]]
<1>1. h \in [1..n -> [Nat -> Nat]]
  BY <1>0
<1>2. PICK g \in [0..n -> Nat] : g[0] = 1 /\ \A i \in 1..n : g[i] = h[i][g[i-1]]
  <2> DEFINE V == Nat
  <2>1. 1 \in V /\ h \in [1..n -> [V -> V]]
    BY <1>1
  <2> HIDE DEF h, V
  <2>2. \E g \in [0..n -> V] : g[0] = 1 /\ \A i \in 1..n : g[i] = h[i][g[i-1]]
    BY <2>1, PrimRec
  <2> QED BY <2>2 DEF V
<1>3. \A i \in 1..n : g[i] = b * g[i-1]
  <2> TAKE i \in 1..n
  <2>1. g[i - 1] \in Nat
    BY i - 1 \in 0..n
  <2>2. h[i][g[i-1]] = b * g[i-1]
    BY <2>1
  <2> HIDE DEF h
  <2> QED BY <1>2, <2>2
<1> DEFINE p == Powers(b, n)
<1>4. g = [i \in 0..n |-> IF i = 0 THEN 1 ELSE b * g[i - 1]]
  BY <1>2, <1>3
<1>5. p = [i \in 0..n |-> IF i = 0 THEN 1 ELSE b * p[i - 1]]
  BY <1>4 DEF Powers
<1>6. p[0] = 1 /\ \A i \in 1..n : p[i] = b * p[i-1]
  BY <1>5
<1> HIDE DEF p
<1> DEFINE S == {k \in Nat : k <= n => p[k] \in Nat}
<1>7. 0 \in S
  BY <1>6
<1>8. ASSUME NEW m \in Nat, m \in S PROVE m + 1 \in S
  <2>1. SUFFICES ASSUME m + 1 <= n PROVE p[m + 1] \in Nat
    OBVIOUS
  <2>2. p[m + 1] = b * p[(m + 1) - 1]
    BY <1>6, <2>1
  <2> QED BY <1>0, <1>8, <2>1, <2>2
<1> HIDE DEF S
<1>9. \A m \in Nat : m \in S
  BY <1>7, <1>8, SetInduction
<1>10. p \in [0..n -> Nat]
  <2>1. \A k \in 0..n : p[k] \in Nat
    BY <1>9 DEF S
  <2>2. p = [k \in 0..n |-> p[k]]
    BY <1>5
  <2> QED BY <2>1, <2>2
<1> QED BY <1>6, <1>10 DEF p

\* A power of a natural is one.
LEMMA PowerType == \A b, n \in Nat : Power(b, n) \in Nat
<1> TAKE b, n \in Nat
<1>1. Powers(b, n) \in [0..n -> Nat]
  BY PowersExist
<1>2. Powers(b, n)[n] \in Nat
  BY <1>1
<1> QED BY <1>2, PowerIsOneOfPowers

\* The power of zero, and the step from one exponent to the next.
LEMMA PowerZero == \A b \in Nat : Power(b, 0) = 1
BY PowersExist, PowerIsOneOfPowers

\* The recursion of the powers.
LEMMA PowerStep ==
  ASSUME NEW b \in Nat, NEW n \in Nat
  PROVE  Power(b, n + 1) = b * Power(b, n)
<1> DEFINE p == Powers(b, n)
           q == Powers(b, n + 1)
           S == {k \in Nat : k <= n => p[k] = q[k]}
<1>1. /\ p[0] = 1 /\ q[0] = 1 /\ q[n + 1] = b * q[n]
      /\ \A i \in 1..n : p[i] = b * p[i - 1] /\ q[i] = b * q[i - 1]
  <2>1. /\ q[0] = 1 /\ \A i \in 1..(n + 1) : q[i] = b * q[i - 1]
    BY PowersExist, n + 1 \in Nat
  <2>2. /\ p[0] = 1 /\ \A i \in 1..n : p[i] = b * p[i - 1]
    BY PowersExist
  <2> HIDE DEF p, q
  <2> QED BY <2>1, <2>2
<1> HIDE DEF p, q
<1>2. 0 \in S
  BY <1>1
<1>3. \A m \in Nat : m \in S => m + 1 \in S
  BY <1>1
<1> HIDE DEF S
<1>4. n \in S
  BY <1>2, <1>3, SetInduction
<1>5. q[n] = p[n]
  BY <1>4 DEF S
<1> QED BY <1>1, <1>5, PowerIsOneOfPowers DEF p, q

-----------------------------------------------------------------------------
\* The quotient and the remainder of a natural.
LEMMA Division ==
  ASSUME NEW r \in Nat \ {0}, NEW n \in Nat
  PROVE  n % r \in 0..(r - 1) /\ n \div r \in Nat
<1>1. n % r \in 0..(r - 1)
  OBVIOUS
<1>2. n \div r \in Nat
  OBVIOUS
<1> QED BY <1>1, <1>2

\* A remainder and a quotient are what they were composed from.
LEMMA DivisionIs ==
  ASSUME NEW r \in Nat \ {0}, NEW m \in Nat, NEW d \in 0..(r - 1)
  PROVE  (d + r * m) % r = d /\ (d + r * m) \div r = m
OBVIOUS

\* A natural is composed of its remainder and its quotient.
LEMMA DivisionSum ==
  ASSUME NEW r \in Nat \ {0}, NEW n \in Nat
  PROVE  n = (n % r) + r * (n \div r)
OBVIOUS

\* Dividing by more than one makes smaller.
LEMMA QuotientIsSmaller ==
  ASSUME NEW r \in Nat \ {0, 1}, NEW n \in Nat, n >= r
  PROVE n \div r < n
OBVIOUS

\* A product distributes over a sum.
LEMMA Distributes == \A a, b, r \in Nat : r * (a + b) = r * a + r * b /\ r * a \in Nat
OBVIOUS


\* A sum whose terms after the first are multiples of r.
LEMMA SumShift ==
  ASSUME NEW n \in Nat, NEW r \in Nat, NEW w, NEW v,
         \A i \in 1..(n + 1) : w[i] \in Nat,
         \A i \in 1..n : v[i] \in Nat /\ w[i + 1] = r * v[i]
  PROVE  RunningSum(w, n + 1) = w[1] + r * RunningSum(v, n)
<1> DEFINE S == {k \in Nat : k <= n => RunningSum(w, k + 1) = w[1] + r * RunningSum(v, k)}
<1>0. w[1] \in Nat
  OBVIOUS
<1>1. 0 \in S
  <2>1. RunningSum(w, 0) = 0 /\ RunningSum(v, 0) = 0
    BY SumOfNone
  <2>2. RunningSum(w, 0 + 1) = RunningSum(w, 0) + w[0 + 1]
    BY <1>0, SumStep
  <2> QED BY <1>0, <2>1, <2>2
<1>2. ASSUME NEW k \in Nat, k \in S PROVE k + 1 \in S
  <2> SUFFICES ASSUME k + 1 <= n
               PROVE  RunningSum(w, (k + 1) + 1) = w[1] + r * RunningSum(v, k + 1)
    OBVIOUS
  <2>1. RunningSum(w, k + 1) = w[1] + r * RunningSum(v, k)
    BY <1>2
  <2>2. /\ k + 1 \in Nat /\ w[(k + 1) + 1] \in Nat /\ \A i \in 1..(k + 1) : w[i] \in Nat
        /\ v[k + 1] \in Nat /\ \A i \in 1..k : v[i] \in Nat
        /\ w[(k + 1) + 1] = r * v[k + 1]
    <3>1. /\ (k + 1) + 1 \in 1..(n + 1) /\ k + 1 \in 1..n
          /\ \A i \in 1..k : i \in 1..n
          /\ \A i \in 1..(k + 1) : i \in 1..(n + 1)
      OBVIOUS
    <3> QED BY <3>1
  <2>3. RunningSum(w, (k + 1) + 1) = RunningSum(w, k + 1) + w[(k + 1) + 1]
    <3> DEFINE m == k + 1
    <3>1. m \in Nat /\ w[m + 1] \in Nat /\ \A i \in 1..m : w[i] \in Nat
      BY <2>2
    <3> HIDE DEF m
    <3>2. RunningSum(w, m + 1) = RunningSum(w, m) + w[m + 1]
      BY <3>1, SumStep
    <3> QED BY <3>2 DEF m
  <2>4. RunningSum(v, k + 1) = RunningSum(v, k) + v[k + 1] /\ RunningSum(v, k) \in Nat
    BY <2>2, SumStep, SumType
  <2>5. r * RunningSum(v, k + 1) = r * RunningSum(v, k) + r * v[k + 1]
        /\ r * RunningSum(v, k) \in Nat /\ r * v[k + 1] \in Nat
    BY <2>2, <2>4, Distributes
  <2> QED BY <1>0, <2>1, <2>2, <2>3, <2>5
<1> HIDE DEF S
<1>3. \A k \in Nat : k \in S
  BY <1>1, <1>2, SetInduction
<1> QED BY <1>3 DEF S

-----------------------------------------------------------------------------
(* What digits denote. *)

\* The function that Denoted takes its value of.
Partials(d, n, base) ==
  CHOOSE number : number = [i \in 0..n |-> IF i = 0 THEN 0 ELSE base * number[i - 1] + d[i]]

\* The number denoted is that of all the digits.
LEMMA DenotedIsOfAll ==
  \A digits, base : Denoted(digits, base) = Partials(digits, Len(digits), base)[Len(digits)]
BY DEF Denoted, Partials

\* Arithmetic stays in the naturals.
LEMMA HornerType == \A base, x, d \in Nat : base * x + d \in Nat
OBVIOUS

\* It exists: one more digit makes the number before it that of the next place.
LEMMA NumbersExist ==
  ASSUME NEW base \in Nat, NEW n \in Nat, NEW d, \A i \in 1..n : d[i] \in Nat
  PROVE  /\ Partials(d, n, base) \in [0..n -> Nat]
         /\ Partials(d, n, base)[0] = 0
         /\ \A i \in 1..n : Partials(d, n, base)[i] = base * Partials(d, n, base)[i - 1] + d[i]
<1> DEFINE h == [i \in 1..n |-> [x \in Nat |-> base * x + d[i]]]
<1>1. h \in [1..n -> [Nat -> Nat]]
  BY HornerType
<1>2. PICK g \in [0..n -> Nat] : g[0] = 0 /\ \A i \in 1..n : g[i] = h[i][g[i-1]]
  <2> DEFINE V == Nat
  <2>1. 0 \in V /\ h \in [1..n -> [V -> V]]
    BY <1>1
  <2> HIDE DEF h, V
  <2>2. \E g \in [0..n -> V] : g[0] = 0 /\ \A i \in 1..n : g[i] = h[i][g[i-1]]
    BY <2>1, PrimRec
  <2> QED BY <2>2 DEF V
<1>3. \A i \in 1..n : g[i] = base * g[i-1] + d[i]
  <2> TAKE i \in 1..n
  <2>1. g[i - 1] \in Nat
    BY i - 1 \in 0..n
  <2>2. h[i][g[i-1]] = base * g[i-1] + d[i]
    BY <2>1
  <2> HIDE DEF h
  <2> QED BY <1>2, <2>2
<1>4. g = [i \in 0..n |-> IF i = 0 THEN 0 ELSE base * g[i - 1] + d[i]]
  BY <1>2, <1>3
<1> DEFINE p == Partials(d, n, base)
<1>5. p = [i \in 0..n |-> IF i = 0 THEN 0 ELSE base * p[i - 1] + d[i]]
  BY <1>4 DEF Partials
<1>6. p[0] = 0 /\ \A i \in 1..n : p[i] = base * p[i-1] + d[i]
  BY <1>5
<1> HIDE DEF p
<1> DEFINE S == {k \in Nat : k <= n => p[k] \in Nat}
<1>7. 0 \in S
  BY <1>6
<1>8. ASSUME NEW m \in Nat, m \in S PROVE m + 1 \in S
  <2>1. SUFFICES ASSUME m + 1 <= n PROVE p[m + 1] \in Nat
    OBVIOUS
  <2>2. m + 1 \in 1..n /\ (m + 1) - 1 = m
    BY <2>1
  <2>3. p[m + 1] = base * p[m] + d[m + 1] /\ d[m + 1] \in Nat
    BY <1>6, <2>2
  <2>4. p[m] \in Nat
    BY <1>8, <2>1
  <2>5. base * p[m] \in Nat
    BY <2>4
  <2> QED BY <2>3, <2>5
<1> HIDE DEF S
<1>9. \A m \in Nat : m \in S
  BY <1>7, <1>8, SetInduction
<1>10. p \in [0..n -> Nat]
  <2>1. \A k \in 0..n : p[k] \in Nat
    BY <1>9 DEF S
  <2>2. p = [k \in 0..n |-> p[k]]
    BY <1>5
  <2> QED BY <2>1, <2>2
<1> QED BY <1>6, <1>10 DEF p

\* The digits of a sequence are numbers.
LEMMA DigitsAre == \A s \in Seq(Nat) : Len(s) \in Nat /\ \A i \in 1..Len(s) : s[i] \in Nat
OBVIOUS

\* The recursion over the digits of a sequence.
LEMMA NumbersOfSeq ==
  ASSUME NEW base \in Nat, NEW s \in Seq(Nat)
  PROVE  /\ Partials(s, Len(s), base)[0] = 0
         /\ \A i \in 1..Len(s) :
              Partials(s, Len(s), base)[i] = base * Partials(s, Len(s), base)[i - 1] + s[i]
BY DigitsAre, NumbersExist

\* A number is a natural, and the one of no digit zero.
LEMMA DenotedType ==
  ASSUME NEW base \in Nat, NEW digits \in Seq(Nat)
  PROVE  Denoted(digits, base) \in Nat
<1>1. Len(digits) \in 0..Len(digits)
  BY DigitsAre
<1> QED BY <1>1, DigitsAre, NumbersExist, DenotedIsOfAll

\* No digits denote zero.
LEMMA DenotedOfNone ==
  ASSUME NEW base \in Nat, NEW digits \in Seq(Nat), Len(digits) = 0
  PROVE  Denoted(digits, base) = 0
BY DigitsAre, NumbersExist, DenotedIsOfAll

\* What digits denote depends on these digits only: the recursion over a
\* longer sequence is the same on its beginning.
LEMMA NumbersAgree ==
  ASSUME NEW base \in Nat, NEW s \in Seq(Nat), NEW t \in Seq(Nat), Len(s) <= Len(t),
         \A i \in 1..Len(s) : s[i] = t[i]
  PROVE  Partials(t, Len(t), base)[Len(s)] = Denoted(s, base)
<1> DEFINE p == Partials(s, Len(s), base)
           q == Partials(t, Len(t), base)
           n == Len(s)
           S == {k \in Nat : k <= n => p[k] = q[k]}
<1>1. /\ n \in Nat
      /\ p[0] = 0 /\ q[0] = 0
      /\ \A i \in 1..n : p[i] = base * p[i - 1] + s[i] /\ q[i] = base * q[i - 1] + s[i]
  <2>1. Len(s) \in Nat /\ Len(t) \in Nat
    OBVIOUS
  <2>2. p[0] = 0 /\ \A i \in 1..n : p[i] = base * p[i - 1] + s[i]
    BY NumbersOfSeq
  <2>3. q[0] = 0 /\ \A i \in 1..Len(t) : q[i] = base * q[i - 1] + t[i]
    BY NumbersOfSeq
  <2> HIDE DEF p, q
  <2> QED BY <2>1, <2>2, <2>3
<1> HIDE DEF p, q, n
<1>2. 0 \in S
  BY <1>1
<1>3. \A m \in Nat : m \in S => m + 1 \in S
  <2> SUFFICES ASSUME NEW m \in Nat, m \in S, m + 1 <= n PROVE p[m + 1] = q[m + 1]
    OBVIOUS
  <2>1. m + 1 \in 1..n /\ (m + 1) - 1 = m /\ p[m] = q[m]
    BY <1>1
  <2> QED BY <1>1, <2>1
<1> HIDE DEF S
<1>4. n \in S
  BY <1>1, <1>2, <1>3, SetInduction
<1>5. q[n] = p[n]
  BY <1>1, <1>4 DEF S
<1> QED BY <1>5, DenotedIsOfAll DEF p, q, n

\* One more digit.
LEMMA DenotedMore ==
  ASSUME NEW base \in Nat, NEW s \in Seq(Nat), NEW t \in Seq(Nat), Len(t) = Len(s) + 1,
         \A i \in 1..Len(s) : s[i] = t[i]
  PROVE  Denoted(t, base) = base * Denoted(s, base) + t[Len(t)]
<1>1. Len(s) \in Nat /\ Len(t) \in 1..Len(t) /\ Len(t) - 1 = Len(s)
  OBVIOUS
<1>2. Partials(t, Len(t), base)[Len(t)] = base * Partials(t, Len(t), base)[Len(s)] + t[Len(t)]
  <2>1. \A i \in 1..Len(t) : Partials(t, Len(t), base)[i] = base * Partials(t, Len(t), base)[i - 1] + t[i]
    BY NumbersOfSeq
  <2> DEFINE f == Partials(t, Len(t), base)
             k == Len(t)
  <2> HIDE DEF f, k
  <2>2. k \in 1..k /\ k - 1 = Len(s)
    BY <1>1 DEF k
  <2>3. f[k] = base * f[k - 1] + t[k]
    BY <2>1, <2>2 DEF f, k
  <2>4. f[k] = base * f[Len(s)] + t[k]
    BY <2>2, <2>3
  <2> QED BY <2>4 DEF f, k
<1>3. Partials(t, Len(t), base)[Len(s)] = Denoted(s, base)
  <2>1. Len(s) <= Len(t)
    BY <1>1
  <2> QED BY <2>1, NumbersAgree
<1> QED BY <1>2, <1>3, DenotedIsOfAll

\* Two digits.
LEMMA DenotedTwo ==
  ASSUME NEW base \in Nat, NEW s \in Seq(Nat), Len(s) = 2
  PROVE  Denoted(s, base) = base * s[1] + s[2]
<1> DEFINE none == <<>>
           one == <<s[1]>>
<1>0. s[1] \in Nat /\ s[2] \in Nat
  BY 1 \in 1..Len(s), 2 \in 1..Len(s), ElementOfSeq
<1>1. none \in Seq(Nat) /\ one \in Seq(Nat) /\ Len(none) = 0 /\ Len(one) = 1 /\ one[1] = s[1]
  BY <1>0
<1> HIDE DEF none, one
<1>2. Denoted(none, base) = 0
  BY <1>1, DenotedOfNone
<1>3. Denoted(one, base) = base * Denoted(none, base) + one[Len(one)]
  <2>1. Len(one) = Len(none) + 1 /\ \A i \in 1..Len(none) : none[i] = one[i]
    BY <1>1
  <2> QED BY <1>1, <2>1, DenotedMore
<1>4. Denoted(s, base) = base * Denoted(one, base) + s[Len(s)]
  <2>1. Len(s) = Len(one) + 1 /\ \A i \in 1..Len(one) : one[i] = s[i]
    BY <1>1
  <2> QED BY <1>1, <2>1, DenotedMore
<1>5. base * 0 = 0
  OBVIOUS
<1> QED BY <1>0, <1>1, <1>2, <1>3, <1>4, <1>5

\* Zeros in front denote nothing.
LEMMA DenotedZerosFirst ==
  ASSUME NEW base \in Nat, NEW z \in Nat, NEW t \in Seq(Nat), z <= Len(t),
         \A i \in 1..z : t[i] = 0
  PROVE  Denoted(t, base) = Denoted(SubSeq(t, z + 1, Len(t)), base)
<1> DEFINE F(s, n) == Denoted(s, base) = Denoted(SubSeq(s, z + 1, Len(s)), base)
           S == {n \in Nat : \A s \in Seq(Nat) :
                   Len(s) = z + n /\ (\A i \in 1..z : s[i] = 0) => F(s, n)}
           Z == {n \in Nat : \A s \in Seq(Nat) :
                   Len(s) = n /\ (\A i \in 1..n : s[i] = 0) => Denoted(s, base) = 0}
<1>1. 0 \in Z
  BY DenotedOfNone
<1>2. ASSUME NEW n \in Nat, n \in Z PROVE n + 1 \in Z
  <2> SUFFICES ASSUME NEW s \in Seq(Nat), Len(s) = n + 1, \A i \in 1..(n + 1) : s[i] = 0
               PROVE  Denoted(s, base) = 0
    OBVIOUS
  <2> DEFINE r == SubSeq(s, 1, n)
  <2>1. r \in Seq(Nat) /\ Len(r) = n /\ \A i \in 1..n : r[i] = s[i] /\ r[i] = 0
    OBVIOUS
  <2> HIDE DEF r
  <2>2. Denoted(r, base) = 0
    BY <1>2, <2>1
  <2>3. Denoted(s, base) = base * Denoted(r, base) + s[Len(s)]
    BY <2>1, DenotedMore
  <2>4. s[Len(s)] = 0 /\ base * 0 = 0
    OBVIOUS
  <2> QED BY <2>2, <2>3, <2>4
<1> HIDE DEF Z
<1>3. z \in Z
  BY <1>1, <1>2, SetInduction
<1>4. 0 \in S
  <2> SUFFICES ASSUME NEW s \in Seq(Nat), Len(s) = z, \A i \in 1..z : s[i] = 0
               PROVE  F(s, 0)
    OBVIOUS
  <2>1. Denoted(s, base) = 0
    BY <1>3 DEF Z
  <2>2. SubSeq(s, z + 1, Len(s)) \in Seq(Nat) /\ Len(SubSeq(s, z + 1, Len(s))) = 0
    OBVIOUS
  <2> QED BY <2>1, <2>2, DenotedOfNone
<1>5. ASSUME NEW n \in Nat, n \in S PROVE n + 1 \in S
  <2> SUFFICES ASSUME NEW s \in Seq(Nat), Len(s) = z + (n + 1), \A i \in 1..z : s[i] = 0
               PROVE  F(s, n + 1)
    OBVIOUS
  <2> DEFINE r == SubSeq(s, 1, z + n)
             a == SubSeq(s, z + 1, Len(s))
             b == SubSeq(r, z + 1, Len(r))
  <2>1. r \in Seq(Nat) /\ Len(r) = z + n /\ \A i \in 1..(z + n) : r[i] = s[i]
    OBVIOUS
  <2>2. a \in Seq(Nat) /\ Len(a) = n + 1 /\ \A i \in 1..(n + 1) : a[i] = s[z + i]
    <3>1. z + 1 \in 1..(Len(s) + 1) /\ Len(s) \in (z + 1 - 1)..Len(s) /\ Len(s) - (z + 1) + 1 = n + 1
      OBVIOUS
    <3>2. a \in Seq(Nat) /\ Len(a) = n + 1
      BY <3>1, SubSeqProperties
    <3>3. \A i \in 1..(n + 1) : a[i] = s[z + 1 + i - 1]
      BY <3>1, SubSeqProperties
    <3> QED BY <3>2, <3>3
  <2> HIDE DEF r, a
  <2>3. b \in Seq(Nat) /\ Len(b) = n /\ \A i \in 1..n : b[i] = r[z + i]
    BY <2>1
  <2>4. Denoted(r, base) = Denoted(b, base)
    <3>1. \A i \in 1..z : r[i] = 0
      BY <2>1
    <3> QED BY <1>5, <2>1, <3>1
  <2> HIDE DEF b
  <2>5. Denoted(s, base) = base * Denoted(r, base) + s[Len(s)]
    <3>1. Len(s) = Len(r) + 1 /\ \A i \in 1..Len(r) : r[i] = s[i]
      BY <2>1
    <3> QED BY <2>1, <3>1, DenotedMore
  <2>6. Denoted(a, base) = base * Denoted(b, base) + a[Len(a)]
    <3>1. Len(a) = Len(b) + 1 /\ \A i \in 1..Len(b) : b[i] = a[i]
      <4>1. \A i \in 1..n : z + i \in 1..(z + n) /\ i \in 1..(n + 1)
        OBVIOUS
      <4> QED BY <2>1, <2>2, <2>3, <4>1
    <3> QED BY <2>2, <2>3, <3>1, DenotedMore
  <2>7. a[Len(a)] = s[Len(s)]
    BY <2>2
  <2> QED BY <2>4, <2>5, <2>6, <2>7 DEF a
<1> HIDE DEF S
<1>6. \A n \in Nat : n \in S
  BY <1>4, <1>5, SetInduction
<1>7. Len(t) - z \in Nat /\ z + (Len(t) - z) = Len(t)
  OBVIOUS
<1> QED BY <1>6, <1>7 DEF S

=============================================================================
