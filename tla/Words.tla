------------------------------- MODULE Words -------------------------------
(***************************************************************************)
(* common/read.c, common/write.c and common/varint.c: integers of 2, 4 and  *)
(* 8 bytes in memory, in both byte orders, and the variable-length ones.    *)
(* Memory is a sequence of bytes; a byte has ByteRange values, fewer than   *)
(* 256 so that eight bytes stay within the integers of the checker.         *)
(***************************************************************************)
EXTENDS Arithmetic, SequencesExt

CONSTANT ByteRange

ASSUME WordsAssumption == ByteRange \in Nat /\ ByteRange >= 4

UINT(width) == 0..(Power(ByteRange, width) - 1)

\* The byte k of a word is shifted by so many bytes.
ByteShift(order, width, k) == IF order = "BE" THEN width - 1 - k ELSE k

\* Variant: the high byte of a little-endian word is written first.
write_word_BE(ptr, offset, width, order, value) ==
  [i \in DOMAIN ptr |->
     IF i \in (offset + 1)..(offset + width)
       THEN (value \div Power(ByteRange, offset + width - i)) % ByteRange
       ELSE ptr[i]]

\* write_u16_be to write_u64_le.
write_word(ptr, offset, width, order, value) ==
  [i \in DOMAIN ptr |->
     IF i \in (offset + 1)..(offset + width)
       THEN (value \div Power(ByteRange, ByteShift(order, width, i - offset - 1))) % ByteRange
       ELSE ptr[i]]

\* read_u16_be to read_u64_le.
read_word(ptr, offset, width, order) ==
  RunningSum([k \in 1..width |-> ptr[offset + k] * Power(ByteRange, ByteShift(order, width, k - 1))],
             width)

-----------------------------------------------------------------------------
(* Varints: one byte, or a prefix 0xFD, 0xFE or 0xFF before a word. *)

Prefix(width) == ByteRange - (CASE width = 2 -> 3 [] width = 4 -> 2 [] width = 8 -> 1)

\* Variant: 0xFD is taken for a number of its own (varint.c:26).
varint_size_Prefix(value) ==
  CASE value <= Prefix(2) -> 1
    [] value > Prefix(2) /\ value \in UINT(2) -> 3
    [] value \in UINT(4) \ UINT(2) -> 5
    [] value \in UINT(8) \ UINT(4) -> 9

varint_size(value) ==
  CASE value < Prefix(2) -> 1
    [] value >= Prefix(2) /\ value \in UINT(2) -> 3
    [] value \in UINT(4) \ UINT(2) -> 5
    [] value \in UINT(8) \ UINT(4) -> 9

\* What is returned and the value that is read, none when it is -1.
varint_read(in) ==
  LET widths == {w \in {2, 4, 8} : Len(in) >= 1 /\ in[1] = Prefix(w)}
      length == IF widths = {} THEN 1 ELSE 1 + CHOOSE w \in widths : TRUE
  IN  IF Len(in) < length THEN [len |-> -1, value |-> {}]
      ELSE [len |-> length,
            value |-> {IF length = 1 THEN in[1] ELSE read_word(in, 1, length - 1, "LE")}]

varint_write(out, offset, value) ==
  LET length == varint_size(value)
  IN  [len |-> length,
       out |-> IF length = 1
                 THEN [out EXCEPT ![offset + 1] = value]
                 ELSE write_word([out EXCEPT ![offset + 1] = Prefix(length - 1)],
                                 offset + 1, length - 1, "LE", value)]

=============================================================================
