-------------------------------- MODULE Utf8 --------------------------------
(***************************************************************************)
(* bcs/utf8.c: bytes are checked to be UTF-8 and copied, with a '?' for     *)
(* every character that is not ASCII.                                      *)
(***************************************************************************)
EXTENDS Integers, Sequences

unknown_char == 63

Within(b, low, high) == low <= b /\ b <= high
Continues(b) == Within(b, 128, 191)

\* The length that the first byte of a character announces; 0 is none.
Announced(b) ==
  CASE b < 128 -> 1
    [] Within(b, 192, 223) -> 2
    [] Within(b, 224, 239) -> 3
    [] Within(b, 240, 247) -> 4
    [] OTHER -> 0

\* Variant: U+FFFE and U+FFFF accepted (utf8.c:53-54).
Excluded_NoFFFE(c) ==
  \/ c[1] \in {192, 193}
  \/ c[1] = 224 /\ Within(c[2], 128, 159)
  \/ c[1] = 237 /\ Within(c[2], 160, 191)
  \/ c[1] = 240 /\ Within(c[2], 128, 143)
  \/ c[1] = 244 /\ c[2] > 143
  \/ c[1] > 244

\* Overlong, a surrogate, U+FFFE or U+FFFF, above U+10FFFF.
Excluded(c) ==
  \/ c[1] \in {192, 193}
  \/ c[1] = 224 /\ Within(c[2], 128, 159)
  \/ c[1] = 237 /\ Within(c[2], 160, 191)
  \/ c[1] = 239 /\ c[2] = 191 /\ c[3] \in {190, 191}
  \/ c[1] = 240 /\ Within(c[2], 128, 143)
  \/ c[1] = 244 /\ c[2] > 143
  \/ c[1] > 244

ValidAt(in, i) ==
  LET n == Announced(in[i + 1]) IN
  /\ n > 0 /\ i + n <= Len(in)
  /\ \A k \in 2..n : Continues(in[i + k])
  /\ n > 1 => ~Excluded(SubSeq(in, i + 1, i + n))

try_push_char(out, max_len) == Len(out) < max_len

\* One character: -1 when it is not one, -2 when it finds no room.
NextCharacter(s, in, max_out_len) ==
  LET n == Announced(in[s.i + 1]) IN
  IF ~ValidAt(in, s.i) THEN [s EXCEPT !.failed = -1]
  ELSE IF ~try_push_char(s.out, max_out_len) THEN [s EXCEPT !.failed = -2]
  ELSE [i |-> s.i + n, failed |-> 0, is_utf8 |-> s.is_utf8 \/ n > 1,
        out |-> Append(s.out, IF n = 1 THEN in[s.i + 1] ELSE unknown_char)]

\* After k rounds of the loop, the first of which find a character each.
try_utf8_to_ascii(in, max_out_len) ==
  LET after[k \in 0..Len(in)] ==
        IF k = 0 THEN [i |-> 0, failed |-> 0, is_utf8 |-> FALSE, out |-> <<>>]
        ELSE LET s == after[k - 1]
             IN  IF s.i < Len(in) /\ s.failed = 0 THEN NextCharacter(s, in, max_out_len) ELSE s
      s == after[Len(in)]
  IN  [len |-> IF s.failed = 0 THEN Len(s.out) ELSE s.failed, out |-> s.out, is_utf8 |-> s.is_utf8]

=============================================================================
