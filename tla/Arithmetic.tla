----------------------------- MODULE Arithmetic -----------------------------
(***************************************************************************)
(* Sums and powers as recursive functions, which can be reasoned about: the *)
(* provers know neither the folds of the community modules nor ^.          *)
(***************************************************************************)
EXTENDS Integers, Sequences

\* w[1] + ... + w[n].
RunningSum(w, n) ==
  LET sum[i \in 0..n] == IF i = 0 THEN 0 ELSE sum[i - 1] + w[i]
  IN  sum[n]

\* b to the power of n.
Power(b, n) ==
  LET power[i \in 0..n] == IF i = 0 THEN 1 ELSE b * power[i - 1]
  IN  power[n]

\* The number that digits in a base denote, the high one first.
Denoted(digits, base) ==
  LET number[i \in 0..Len(digits)] == IF i = 0 THEN 0 ELSE base * number[i - 1] + digits[i]
  IN  number[Len(digits)]

=============================================================================
