------------------------------- MODULE Codecs -------------------------------
(***************************************************************************)
(* The conversions of common/ and bcs/ that hold no state, each called on   *)
(* one input: what a writer made is given to its reader, and the other way  *)
(* around.  The reference definitions they are checked against know neither *)
(* tables, nor buffers, nor bit masks.                                     *)
(***************************************************************************)
EXTENDS Format, Words, Base58, Utf8

CONSTANTS
  Calls,     \* the inputs: records of a codec and its arguments
  Fill       \* what memory held before

\* The widths of a word, and what each codec may be called on.
Widths == {2, 4, 8}
Bytes == 0..255
CallOf ==
  [word |-> [codec : {"word"}, width : Widths, order : {"BE", "LE"}, value : Nat],
   varint |-> [codec : {"varint"}, value : UINT(8), in_len : 0..9],
   bytes |-> [codec : {"bytes"}, in : Seq(Bytes), out_len : Nat],
   text |-> [codec : {"text"}, in : Seq(Bytes), out_len : Nat],
   utf8 |-> [codec : {"utf8"}, in : Seq(Bytes), out_len : Nat],
   u64 |-> [codec : {"u64"}, value : 0..UINT64_MAX, out_len : Nat],
   i64 |-> [codec : {"i64"}, value : INT64_MIN..(-INT64_MIN - 1), out_len : Nat],
   hex |-> [codec : {"hex"}, in : Seq(Bytes), out_len : Nat]]

ASSUME CallsAssumption ==
  \A c \in Calls : /\ c.codec \in DOMAIN CallOf /\ c \in CallOf[c.codec]
                   /\ c.codec = "word" => c.value \in UINT(c.width)

VARIABLES
  call,      \* what is converted
  step,      \* the conversions made of it
  made, back \* what the first and the second returned

vars == <<call, step, made, back>>

First(codec) == step = 0 /\ call.codec = codec /\ step' = 1 /\ UNCHANGED <<call, back>>
Second(codec) == step = 1 /\ call.codec = codec /\ step' = 2 /\ UNCHANGED <<call, made>>
Memory(n) == <<>> \o [i \in 1..n |-> Fill]

WriteWord ==
  /\ First("word")
  /\ made' = write_word(Memory(call.width + 2), 1, call.width, call.order, call.value)
ReadWord ==
  /\ Second("word")
  /\ back' = read_word(made, 1, call.width, call.order)

WriteVarint ==
  /\ First("varint")
  /\ made' = varint_write(Memory(11), 1, call.value)
ReadVarint ==
  /\ Second("varint")
  /\ back' = varint_read(SubSeq(made.out, 2, call.in_len + 1))

Encode58 == First("bytes") /\ made' = base58_encode(call.in, call.out_len)
Decode58 == Second("bytes") /\ back' = base58_decode(made.out, Len(call.in))
DecodeText == First("text") /\ made' = base58_decode(call.in, call.out_len)
EncodeText == Second("text") /\ back' = base58_encode(made.out, Len(call.in))

Utf8ToAscii == First("utf8") /\ made' = try_utf8_to_ascii(call.in, call.out_len)

FormatUnsigned == First("u64") /\ made' = format_u64(Memory(call.out_len), call.value)
FormatSigned == First("i64") /\ made' = format_i64(Memory(call.out_len), call.value)
FormatHex == First("hex") /\ made' = format_hex(call.in, Memory(call.out_len))

Init == call \in Calls /\ step = 0 /\ made = <<>> /\ back = <<>>

Next ==
  \/ WriteWord \/ ReadWord
  \/ WriteVarint \/ ReadVarint
  \/ Encode58 \/ Decode58 \/ DecodeText \/ EncodeText
  \/ Utf8ToAscii
  \/ FormatUnsigned \/ FormatSigned \/ FormatHex

Spec == Init /\ [][Next]_vars

Made(codec) == step >= 1 /\ call.codec = codec
Back(codec) == step = 2 /\ call.codec = codec

-----------------------------------------------------------------------------
(* Properties *)

\* read.c and write.c agree on the place of every byte: a word is read as it
\* was written, touches nothing beside it, has its high byte where its order
\* says, and no value of its width is lost.
WordsKept ==
  /\ Made("word") =>
       /\ made[1] = Fill /\ made[call.width + 2] = Fill
       /\ LET bytes == SubSeq(made, 2, call.width + 1)
          IN  Denoted(IF call.order = "BE" THEN bytes ELSE Reverse(bytes), ByteRange) = call.value
  /\ Back("word") => back = call.value

\* A varint is read back as it was written when all its bytes are there and is
\* refused when one is missing; it takes as few bytes as its value allows, and
\* varint_size says how many (varint.c:25-101).
VarintKept ==
  /\ Made("varint") =>
       /\ made.len = 1 => call.value < ByteRange - 3
       /\ made.len > 1 => call.value < Power(ByteRange, made.len - 1)
       /\ made.len > 3 => call.value >= Power(ByteRange, (made.len - 1) \div 2)
       /\ made.len = 3 => call.value >= ByteRange - 3
  /\ Back("varint") =>
       back = IF call.in_len >= made.len THEN [len |-> made.len, value |-> {call.value}]
                                         ELSE [len |-> -1, value |-> {}]

Leading(s, d) == LET other == SelectInSeq(s, LAMBDA e : e # d)
                 IN  IF other = 0 THEN Len(s) ELSE other - 1
DigitOf(c) == CHOOSE d \in 0..57 : BASE58_ALPHABET[d + 1] = c
Digits58(text) == [i \in DOMAIN text |-> DigitOf(text[i])]

\* The characters that a number of up to three bytes takes: 58^5 is more.
Needed58(n) == Cardinality({k \in 0..4 : n >= 58 ^ k})

\* What is encoded: no more bytes than are taken, whose text fits.
Encodable(in, room) ==
  /\ Len(in) <= MAX_ENC_INPUT_SIZE
  /\ room >= Leading(in, 0) + Needed58(Denoted(in, 256))

\* What is decoded: no fewer than two characters and no more than are taken,
\* all of the alphabet, whose bytes fit.
Decodable(in, room) ==
  /\ Len(in) \in 2..MAX_DEC_INPUT_SIZE
  /\ ToSet(in) \subseteq ToSet(BASE58_ALPHABET)
  /\ LET zeros == Leading(in, BASE58_ALPHABET[1])
     IN  room >= zeros /\ Denoted(Digits58(in), 58) < 256 ^ (room - zeros)

\* Base 58 refuses what it cannot convert and nothing else, and keeps the number
\* and its leading zeros, for every length and every carry of the loops that end
\* early; what was made is converted back to what it was made of, in exactly
\* the room it takes (base58.c:45-155).
Base58Kept ==
  /\ Made("bytes") =>
       /\ made.len >= 0 <=> Encodable(call.in, call.out_len)
       /\ made.len >= 0 => /\ Denoted(Digits58(made.out), 58) = Denoted(call.in, 256)
                           /\ Leading(made.out, BASE58_ALPHABET[1]) = Leading(call.in, 0)
  /\ Back("bytes") /\ Decodable(made.out, Len(call.in)) => back.out = call.in
  /\ Made("text") =>
       /\ made.len >= 0 <=> Decodable(call.in, call.out_len)
       /\ made.len >= 0 => Denoted(made.out, 256) = Denoted(Digits58(call.in), 58)
  /\ Back("text") /\ Encodable(made.out, Len(call.in)) /\ made.len >= 0 => back.out = call.in

\* UTF-8 by its definition: the shortest encoding of a code point that is no
\* surrogate and none of U+FFFE and U+FFFF.
Encoded(point) ==
  CASE point < 128 -> <<point>>
    [] 128 <= point /\ point < 2048 -> <<192 + point \div 64, 128 + (point % 64)>>
    [] 2048 <= point /\ point < 65536 ->
         <<224 + point \div 4096, 128 + ((point \div 64) % 64), 128 + (point % 64)>>
    [] 65536 <= point /\ point <= 1114111 ->
         <<240 + point \div 262144, 128 + ((point \div 4096) % 64),
           128 + ((point \div 64) % 64), 128 + (point % 64)>>
Point(c) ==
  IF Len(c) = 1 THEN c[1]
  ELSE Denoted(<<c[1] % Power(2, 7 - Len(c))>> \o [i \in 1..(Len(c) - 1) |-> c[i + 1] % 64], 64)
IsCharacter(c) ==
  /\ Point(c) <= 1114111
  /\ ~(55296 <= Point(c) /\ Point(c) <= 57343) /\ Point(c) \notin {65534, 65535}
  /\ Encoded(Point(c)) = c

Ascii(c) == IF Len(c) = 1 THEN c[1] ELSE 63

\* The text of the characters that in begins with, and whether they are all of it.
Characters(in) ==
  LET from[i \in 0..Len(in)] ==
        LET ends == {j \in (i + 1)..Len(in) : j <= i + 4 /\ IsCharacter(SubSeq(in, i + 1, j))}
        IN  IF ends = {} THEN [all |-> i = Len(in), text |-> <<>>]
            ELSE LET j == CHOOSE k \in ends : TRUE
                 IN  [all |-> from[j].all,
                      text |-> <<Ascii(SubSeq(in, i + 1, j))>> \o from[j].text]
  IN  from[0]

\* A text is accepted exactly when it is UTF-8 and has no more characters than
\* there is room for; each is copied or shown as '?', and no more than the room
\* is ever written (utf8.c:19-88).
Utf8Accepted ==
  Made("utf8") =>
    LET all == Characters(call.in).all
        text == Characters(call.in).text
    IN  /\ made.len = IF Len(text) > call.out_len THEN -2 ELSE IF all THEN Len(text) ELSE -1
        /\ made.out = Cut(text, call.out_len)
        /\ made.len >= 0 => (made.is_utf8 <=> \E i \in DOMAIN call.in : call.in[i] > 127)

\* An integer is formatted as its digits, its sign included for the smallest
\* one, and bytes in hexadecimal as theirs, terminated inside the array; what has
\* no room is refused.  The exception: one digit in an array of one character,
\* whose terminator is written behind it (format.c:71-81).
NumberFormatted ==
  /\ Made("u64") \/ Made("i64") =>
       LET text == CString(made.out, 0)
           magnitude == SubSeq(text, IF call.value < 0 THEN 2 ELSE 1, Len(text))
           sign == IF call.value < 0 THEN -1 ELSE 1
           needed == 2 + Cardinality({k \in 1..MaxDigits : call.value * sign >= Power(10, k)})
                       + (IF sign = -1 THEN 1 ELSE 0)
       IN  ~(call.codec = "u64" /\ call.out_len = 1 /\ call.value < 10) =>
             /\ made.ok <=> call.out_len >= needed
             /\ made.ok =>
                  /\ Len(text) = needed - 1
                  /\ call.value < 0 => text[1] = "-"
                  /\ Denoted(DigitValues(magnitude), 10) = call.value * sign
  /\ Made("hex") =>
       /\ made.len = IF call.out_len > 2 * Len(call.in) THEN 2 * Len(call.in) + 1 ELSE -1
       /\ made.len > 0 =>
            LET text == CString(made.out, 0)
            IN  /\ Len(text) = 2 * Len(call.in)
                /\ \A i \in DOMAIN call.in :
                     Denoted(DigitValues(SubSeq(text, 2 * i - 1, 2 * i)), 16) = call.in[i]

=============================================================================
