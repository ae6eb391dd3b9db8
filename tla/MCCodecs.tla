------------------------------ MODULE MCCodecs ------------------------------
(***************************************************************************)
(* Words have bytes of 4 values, so that all the 65536 of eight bytes can   *)
(* be written; texts have real bytes, those around every limit of the code. *)
(***************************************************************************)
EXTENDS Codecs

WordCalls ==
  {[codec |-> "word", width |-> 2, order |-> o, value |-> v] : o \in {"BE", "LE"}, v \in UINT(2)}
  \cup {[codec |-> "word", width |-> 4, order |-> o, value |-> v] : o \in {"BE", "LE"}, v \in UINT(4)}
  \cup {[codec |-> "word", width |-> 8, order |-> o, value |-> v]
        : o \in {"BE", "LE"}, v \in {0, 1, 255, 256, 4660, 43981, 65535}}
VarintCalls ==
  {[codec |-> "varint", value |-> v, in_len |-> n]
   : v \in 0..20 \cup 250..260 \cup {65535}, n \in 0..9}

\* Up to three bytes behind up to two zeros; the numbers around powers of 58.
Tails == BoundedSeq({0, 1, 57, 58, 255}, 3) \cup {<<13, 36>>, <<13, 35>>, <<2, 250, 72>>, <<2, 250, 71>>}
BytesCalls ==
  {[codec |-> "bytes", in |-> Zeros(z) \o t, out_len |-> n] : z \in 0..2, t \in Tails, n \in 0..8}
  \cup {[codec |-> "bytes", in |-> Zeros(z), out_len |-> n] : z \in 7..9, n \in 7..9}
TextCalls ==
  {[codec |-> "text", in |-> t, out_len |-> n]
   : t \in BoundedSeq({48, 49, 50, 73, 90, 108, 122, 131, 132, 255}, 3)
       \cup BoundedSeq({49, 65, 122}, 4), n \in {0, 2, 3}}
  \cup {[codec |-> "text", in |-> [i \in 1..k |-> 49], out_len |-> n] : k \in 8..10, n \in 8..10}

Starts == {65, 193, 194, 223, 224, 237, 239, 240, 244, 245, 248}
Others == {65, 127, 128, 143, 144, 159, 160, 190, 191, 192}
Utf8Calls ==
  {[codec |-> "utf8", in |-> <<s>> \o t, out_len |-> n]
   : s \in Starts, t \in BoundedSeq(Others, 2), n \in {0, 1, 3}}
  \cup {[codec |-> "utf8", in |-> <<s, t, u, v>>, out_len |-> 4]
        : s \in Starts, t \in Others, u \in {65, 128, 191, 192}, v \in {65, 128, 191, 192}}
  \cup {[codec |-> "utf8", in |-> <<>>, out_len |-> n] : n \in {0, 1}}
  \cup {[codec |-> "utf8", in |-> <<195, 169, 226, 130, 172, 240, 159, 152, 128, 65>>, out_len |-> n]
        : n \in 0..5}

NumberCalls ==
  {[codec |-> "u64", value |-> v, out_len |-> n]
   : v \in {0, 9, 10, 99, 100, 9999, 10000, 65535}, n \in 0..7}
  \cup {[codec |-> "i64", value |-> v, out_len |-> n]
        : v \in {-32768, -32767, -100, -10, -9, -1, 0, 1, 9, 10, 32767}, n \in 0..8}
HexCalls ==
  {[codec |-> "hex", in |-> s, out_len |-> n]
   : s \in BoundedSeq({0, 9, 10, 15, 16, 171, 255}, 2), n \in 0..6}

MCCalls == WordCalls \cup VarintCalls \cup BytesCalls \cup TextCalls \cup Utf8Calls
             \cup NumberCalls \cup HexCalls

=============================================================================
