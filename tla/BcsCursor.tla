----------------------------- MODULE BcsCursor -----------------------------
(***************************************************************************)
(* bcs/decoder.c: the readers of BCS values, as clients of the cursor.  As  *)
(* in BufferCursor, a reader is the bytes it accesses, where it leaves the  *)
(* cursor and what it returns; which of its outcomes it has is up to the    *)
(* bytes, which are not here.  A reader that is made of several reads can   *)
(* fail between them.                                                      *)
(***************************************************************************)
EXTENDS BufferCursor, Arithmetic, FiniteSetsExt

CONSTANTS
  Radix, MaxGroups,      \* of uleb128 numbers: 128, and 5 groups
  UINT32_MAX,
  MAX_SEQUENCE_LENGTH,
  ADDRESS_LEN,
  PointerSize,           \* of a pointer: 4 on the device, 8 where the tests run
  Lengths,               \* the lengths the bytes can say
  OutSizes               \* the room that callers give

ASSUME BcsAssumption ==
  /\ Radix \in Nat \ {0, 1} /\ MaxGroups \in Nat \ {0}
  /\ UINT32_MAX \in SizeT
  /\ Power(Radix, MaxGroups - 1) <= UINT32_MAX /\ UINT32_MAX < Power(Radix, MaxGroups)
  /\ MAX_SEQUENCE_LENGTH \in Nat /\ ADDRESS_LEN \in Nat /\ PointerSize \in Nat
  /\ Lengths \subseteq 0..UINT32_MAX /\ OutSizes \subseteq SizeT

\* What the last reader left its caller: where the last byte it wrote ends, from
\* the begin of what it was given to write to; the room there; and the length it
\* told its caller, as *out_len or ty_val->size.  The numbers and the lengths go
\* to variables of their own type and are no bytes written here.
VARIABLE out

bcs_vars == <<buf, last, out>>

NoOutput == [written |-> 0, room |-> 0, told |-> 0]
BcsOperations ==
  {"bool", "integer", "uint128", "not_implemented", "number", "length", "string",
   "fixed_bytes", "ptr_to_fixed_bytes", "dynamic_bytes", "type_tag"}

\* A reader accesses the next bytes and moves over some of them.
Reads(op, bytes, moved, ok) ==
  /\ last' = Call(op, bytes, buf.offset, buf.offset + bytes, ok)
  /\ buf' = buffer_seek_cur(buf, moved)
Writes(written, room, told) == out' = [written |-> written, room |-> room, told |-> told]
Tells(n) == Writes(0, 0, n)
Fits(n) == buffer_can_read(buf, n)

-----------------------------------------------------------------------------
(* Scalars *)

\* The byte is consumed before it is found to be neither 0 nor 1.
bcs_read_bool(op, room) ==
  \/ Fits(1) /\ Reads(op, 1, 1, TRUE) /\ Writes(1, room, 1)
  \/ Fits(1) /\ Reads(op, 1, 1, FALSE) /\ Writes(0, room, 1)
  \/ ~Fits(1) /\ Reads(op, 0, 0, FALSE) /\ Writes(0, room, 1)

\* The integers of 8 to 64 bits.  An unsigned one is cleared when it is refused,
\* all its bytes (buffer.c:62-118); a signed one is left alone.
bcs_read_integer(op, width, cleared, room) ==
  IF Fits(width) THEN Reads(op, width, width, TRUE) /\ Writes(width, room, width)
                 ELSE Reads(op, 0, 0, FALSE) /\ Writes(cleared, room, width)

\* Variant: the cursor is not moved by the low half (decoder.c:43).
bcs_read_u128_Unmoved(op, room) ==
  /\ IF Fits(16) THEN Reads(op, 16, 8, TRUE)
     ELSE IF Fits(8) THEN Reads(op, 8, 8, FALSE)
     ELSE Reads(op, 0, 0, FALSE)
  /\ Writes(16, room, 16)

\* Two integers of 64 bits, the low one first: the second read can fail alone.
\* The low one stands behind the high one (types.h:32-40) and is written or
\* cleared in any case, up to its end.
bcs_read_u128(op, room) ==
  /\ IF Fits(16) THEN Reads(op, 16, 16, TRUE)
     ELSE IF Fits(8) THEN Reads(op, 8, 8, FALSE)
     ELSE Reads(op, 0, 0, FALSE)
  /\ Writes(16, room, 16)

\* Floats and characters.
bcs_not_implemented ==
  /\ Reads("not_implemented", 0, 0, FALSE)
  /\ out' = NoOutput

-----------------------------------------------------------------------------
(* Numbers in uleb128 *)

\* The groups of n's encoding: the only one that is accepted.
Groups(n) == Min({k \in 1..MaxGroups : n < Power(Radix, k)})

\* Groups read when no number is found: all that are left, when each says that
\* another follows; or up to a last group of zero, up to more than 32 bits, or
\* one that says that a sixth group follows.
GroupsFailed ==
  {k \in 0..MaxGroups : k = Remaining /\ k < MaxGroups}
    \cup {k \in 2..MaxGroups : Fits(k)}

\* bcs_read_u32_from_uleb128, also as bcs_read_variant_index.
bcs_read_number ==
  /\ \/ \E k \in 1..MaxGroups : Fits(k) /\ Reads("number", k, k, TRUE)
     \/ \E k \in GroupsFailed : Reads("number", k, k, FALSE)
  /\ out' = NoOutput

\* A length n of k groups that is read and accepted.
LengthRead(n, k) == k = Groups(n) /\ Fits(k) /\ n <= MAX_SEQUENCE_LENGTH

\* No number, or one that is too large for a length, which is consumed.
NumberFailed(op) == \E k \in GroupsFailed : Reads(op, k, k, FALSE)
LengthTooLarge(op, n) ==
  Fits(Groups(n)) /\ n > MAX_SEQUENCE_LENGTH /\ Reads(op, Groups(n), Groups(n), FALSE)

\* The caller is told a length that is too large, too.
bcs_read_length ==
  \/ NumberFailed("length") /\ out' = NoOutput
  \/ \E n \in Lengths :
       /\ Tells(n)
       /\ \/ LengthTooLarge("length", n)
          \/ LengthRead(n, Groups(n)) /\ Reads("length", Groups(n), Groups(n), TRUE)

-----------------------------------------------------------------------------
(* Bytes *)

\* The rest of the buffer, once k bytes of a length are consumed, has n bytes.
FitsBehind(k, n) == buffer_can_read(buffer_seek_cur(buf, k), n)

\* Characters that n bytes of UTF-8 make, up to four of them each: what
\* try_utf8_to_ascii has pushed when it returns, never more than the room.
Characters(n, room) == 0..Min({n, room})

\* n bytes are converted: all of them, or those up to the one that is invalid
\* or finds no room; then the length is consumed and the text is not.
bcs_read_string(room) ==
  \/ NumberFailed("string") /\ out' = NoOutput
  \/ \E n \in Lengths : LengthTooLarge("string", n) /\ out' = NoOutput
  \/ \E n \in Lengths, k \in 1..MaxGroups :
       /\ LengthRead(n, k)
       /\ IF FitsBehind(k, n)
            THEN \E written \in Characters(n, room) :
                   \/ /\ n <= 4 * written
                      /\ Reads("string", k + n, k + n, TRUE)
                      /\ Writes(written, room, written)
                   \/ /\ \E seen \in (written + 1)..n : Reads("string", k + seen, k, FALSE)
                      /\ Writes(written, room, 0)
            ELSE Reads("string", k, k, FALSE) /\ out' = NoOutput

\* As many bytes as the caller asks for.
bcs_read_fixed_bytes(op, size, room) ==
  IF Fits(size) THEN Reads(op, size, size, TRUE) /\ Writes(size, room, size)
                ELSE Reads(op, 0, 0, FALSE) /\ Writes(0, room, size)

\* The bytes are handed out where they are.
bcs_read_ptr_to_fixed_bytes(size) ==
  /\ IF Fits(size) THEN Reads("ptr_to_fixed_bytes", size, size, TRUE)
                   ELSE Reads("ptr_to_fixed_bytes", 0, 0, FALSE)
  /\ out' = NoOutput

\* Variant: the length is not compared with the room (decoder.c:200-202).
DynamicFits_Any(n, room) == TRUE

DynamicFits(n, room) == n <= room

\* The caller is told the length before it is known to be one, to have room and
\* to be followed by as many bytes.
bcs_read_dynamic_bytes(room) ==
  \/ NumberFailed("dynamic_bytes") /\ Writes(0, room, 0)
  \/ \E n \in Lengths : LengthTooLarge("dynamic_bytes", n) /\ Writes(0, room, n)
  \/ \E n \in Lengths, k \in 1..MaxGroups :
       /\ LengthRead(n, k)
       /\ IF DynamicFits(n, room) /\ FitsBehind(k, n)
            THEN Reads("dynamic_bytes", k + n, k + n, TRUE) /\ Writes(n, room, n)
            ELSE Reads("dynamic_bytes", k, k, FALSE) /\ Writes(0, room, n)

\* A value of a type without length; vectors and structs are refused.  It is
\* written from &ty_val->value on, which is a pointer (types.h:59-63): there is
\* room for that, and ty_val->size says how long the value is.
bcs_read_type_tag_fixed(tag) ==
  CASE tag = "bool" -> bcs_read_bool("type_tag", PointerSize)
    [] tag = "u8" -> bcs_read_integer("type_tag", 1, 1, PointerSize)
    [] tag = "u64" -> bcs_read_integer("type_tag", 8, 8, PointerSize)
    [] tag = "u128" -> bcs_read_u128("type_tag", PointerSize)
    [] tag \in {"address", "signer"} -> bcs_read_fixed_bytes("type_tag", ADDRESS_LEN, PointerSize)
    [] tag \in {"vector", "struct"} -> Reads("type_tag", 0, 0, FALSE) /\ out' = NoOutput

-----------------------------------------------------------------------------
BcsInit == Init /\ out = NoOutput

BcsNext ==
  \/ Next /\ out' = NoOutput
  \/ bcs_read_bool("bool", 1)
  \/ \E width \in {1, 2, 4, 8} :
       \E cleared \in {0, width} : bcs_read_integer("integer", width, cleared, width)
  \/ bcs_read_u128("uint128", 16)
  \/ bcs_not_implemented
  \/ bcs_read_number
  \/ bcs_read_length
  \/ \E room \in OutSizes :
       \/ bcs_read_string(room)
       \/ bcs_read_fixed_bytes("fixed_bytes", room, room)
       \/ bcs_read_ptr_to_fixed_bytes(room)
       \/ bcs_read_dynamic_bytes(room)
  \/ \E tag \in {"bool", "u8", "u64", "u128", "address", "signer", "vector", "struct"} :
       bcs_read_type_tag_fixed(tag)

BcsSpec == BcsInit /\ [][BcsNext]_bcs_vars

-----------------------------------------------------------------------------
(* Properties *)

\* Types of the cursor, of the last call and of its output.
TypeOK ==
  /\ buf \in buffer_t
  /\ last \in [op : Operations \cup BcsOperations, asked : Nat, from : SizeT, to : SizeT, ok : BOOLEAN]
  /\ out \in [written : Nat, room : Nat, told : Nat]

\* A text, and bytes that come with their length, are written inside the room
\* their caller gave, whatever length the bytes say, and a reader that succeeds
\* tells as much as it wrote, which is a length that is allowed; what a failed one
\* tells is neither (decoder.c:142-147, 158-204).  The exception: a type tag
\* writes its value over a pointer (decoder.c:206-227), so an address, a number of
\* 128 bits and, where pointers have four bytes, one of 64 run past the member they
\* are put in, up to the length that ty_val->size says and no further.
OutputInRoom ==
  /\ out.written <= out.room \/ (last.op = "type_tag" /\ out.written <= out.told)
  /\ last.ok /\ last.op \in {"string", "dynamic_bytes", "type_tag"} => out.told = out.written
  /\ last.ok /\ last.op \in {"length", "dynamic_bytes"} => out.told <= MAX_SEQUENCE_LENGTH

\* A BCS reader that succeeds consumes all it accessed, and one that fails in
\* the middle has moved forward, and over nothing that it did not access: what
\* is read next neither overlaps what was read nor leaves a gap behind it.
BcsConsumes ==
  [][last'.op \in BcsOperations =>
       /\ last'.from = buf.offset
       /\ buf.offset <= buf'.offset /\ buf'.offset <= last'.to
       /\ last'.ok => buf'.offset = last'.to]_bcs_vars

=============================================================================
