------------------------------ MODULE Base58 ------------------------------
(***************************************************************************)
(* common/base58.c: a number in base 256 written in base 58 and back, with  *)
(* its leading zero bytes as leading ones.  Characters are their codes.     *)
(***************************************************************************)
EXTENDS Integers, SequencesExt

CONSTANTS MAX_DEC_INPUT_SIZE, MAX_ENC_INPUT_SIZE

ASSUME Base58Assumption == MAX_DEC_INPUT_SIZE \in Nat /\ MAX_ENC_INPUT_SIZE \in Nat

Zeros(n) == <<>> \o [i \in 1..n |-> 0]
Codes(from, to) == [i \in 1..(to - from + 1) |-> from + i - 1]

\* 1-9, A-H, J-N, P-Z, a-k, m-z.
BASE58_ALPHABET ==
  Codes(49, 57) \o Codes(65, 72) \o Codes(74, 78) \o Codes(80, 90) \o Codes(97, 107) \o Codes(109, 122)

Invalid == 255
BASE58_TABLE[c \in 0..131] ==
  CASE c \in 49..57 -> c - 49
    [] c \in 65..72 -> c - 56
    [] c \in 74..78 -> c - 57
    [] c \in 80..90 -> c - 58
    [] c \in 97..107 -> c - 64
    [] c \in 109..122 -> c - 65
    [] OTHER -> Invalid

LeadingZeros(s) ==
  LET first == SelectInSeq(s, LAMBDA d : d # 0)
  IN  IF first = 0 THEN Len(s) ELSE first - 1
WithoutZeros(s) == SubSeq(s, LeadingZeros(s) + 1, Len(s))

Refused == [len |-> -1, out |-> <<>>]

Returned(out, out_len) == IF out_len < Len(out) THEN Refused ELSE [len |-> Len(out), out |-> out]

-----------------------------------------------------------------------------
(* Decoding *)

\* The digits from start on divided by 256, and what remains.
DivideBy256(tmp, start) ==
  FoldLeft(LAMBDA s, i :
             LET dividend == s.remainder * 58 + s.tmp[i]
             IN  [tmp |-> [s.tmp EXCEPT ![i] = dividend \div 256], remainder |-> dividend % 256],
           [tmp |-> tmp, remainder |-> 0], [i \in 1..(Len(tmp) - start) |-> start + i])

\* One byte of the result, the last one first.
NextByte(s) ==
  LET quotient == DivideBy256(s.tmp, s.start)
  IN  [tmp |-> quotient.tmp,
       start |-> IF quotient.tmp[s.start + 1] = 0 THEN s.start + 1 ELSE s.start,
       buffer |-> <<quotient.remainder>> \o s.buffer]

base58_decode(in, out_len) ==
  LET known == \A i \in DOMAIN in : in[i] \in DOMAIN BASE58_TABLE /\ BASE58_TABLE[in[i]] # Invalid
      tmp == [i \in DOMAIN in |-> BASE58_TABLE[in[i]]]
      zero_count == LeadingZeros(tmp)
      bytes == FoldLeft(LAMBDA s, i : IF s.start < Len(in) THEN NextByte(s) ELSE s,
                        [tmp |-> tmp, start |-> zero_count, buffer |-> <<>>], in)
  IN  IF Len(in) > MAX_DEC_INPUT_SIZE \/ Len(in) < 2 \/ ~known THEN Refused
      ELSE Returned(Zeros(zero_count) \o WithoutZeros(bytes.buffer), out_len)

-----------------------------------------------------------------------------
(* Encoding *)

\* Variant: the inner loop ends as soon as nothing is carried (base58.c:131).
EndsEarly_NoCarry(j, stop_at) == TRUE

\* j <= stop_at - 1, which wraps around; -1 is where the loop ran through.
EndsEarly(j, stop_at) == stop_at <= 0 \/ j <= stop_at - 1

\* The buffer times 256 plus a byte: one digit.
CarryInto(s, j, stop_at) ==
  LET total == s.carry + 256 * s.buffer[j + 1]
      ends == EndsEarly(j, stop_at) /\ total < 58
  IN  [buffer |-> [s.buffer EXCEPT ![j + 1] = total % 58], carry |-> total \div 58,
       at |-> IF ends THEN j ELSE j - 1, done |-> ends]

\* All its digits from the last to the first, up to where the loop ends.
PushByte(s, byte) ==
  LET size == Len(s.buffer)
      carried == FoldLeft(LAMBDA t, i : IF t.done THEN t ELSE CarryInto(t, size - i, s.stop_at),
                          [buffer |-> s.buffer, carry |-> byte, at |-> size - 1, done |-> FALSE],
                          [i \in 1..size |-> i])
  IN  [buffer |-> carried.buffer, stop_at |-> carried.at]

base58_encode(in, out_len) ==
  LET zero_count == LeadingZeros(in)
      output_size == ((Len(in) - zero_count) * 138) \div 100 + 1
      pushed == FoldLeft(PushByte, [buffer |-> Zeros(output_size), stop_at |-> output_size - 1],
                         WithoutZeros(in))
      digits == Zeros(zero_count) \o WithoutZeros(pushed.buffer)
  IN  IF Len(in) > MAX_ENC_INPUT_SIZE THEN Refused
      ELSE Returned([i \in DOMAIN digits |-> BASE58_ALPHABET[digits[i] + 1]], out_len)

=============================================================================
