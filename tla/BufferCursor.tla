---------------------------- MODULE BufferCursor ----------------------------
(***************************************************************************)
(* A client that calls the operations of common/buffer.c on one buffer, in  *)
(* any order and with any argument.  buf is its size and offset; last is no *)
(* variable of the code: what the last call was asked for, the bytes that it *)
(* accessed and what it returned.                                           *)
(***************************************************************************)
EXTENDS Buffer

CONSTANTS
  MaxSize,         \* the sizes of the buffer are 0..MaxSize
  Arguments,       \* the sizes and offsets the client passes
  MAX_BIP32_PATH

ASSUME CursorAssumption ==
  /\ MaxSize \in Nat
  /\ Arguments \subseteq SizeT
  /\ MAX_BIP32_PATH \in Nat
  /\ MaxSize + 4 < SizeMod
  /\ 4 * MAX_BIP32_PATH < SizeMod

VARIABLES buf, last

vars == <<buf, last>>

\* Bytes from..to-1 were accessed by a call that was asked for some number of them.
Call(op, asked, from, to, ok) ==
  [op |-> op, asked |-> asked, from |-> from, to |-> to, ok |-> ok]
NoAccess(op, ok) == Call(op, 0, 0, 0, ok)
Operations == {"none", "seek", "read", "read_varint", "read_bip32_path", "copy", "move"}

Remaining == Minus(buf.size, buf.offset)

seek_set(n) ==
  /\ buf' = buffer_seek_set(buf, n)
  /\ last' = NoAccess("seek", CanSeekSet(buf, n))

seek_cur(n) ==
  /\ buf' = buffer_seek_cur(buf, n)
  /\ last' = NoAccess("seek", CanSeekCur(buf, n))

seek_end(n) ==
  /\ buf' = buffer_seek_end(buf, n)
  /\ last' = NoAccess("seek", CanSeekEnd(buf, n))

\* buffer_read_u8, u16, u32, u64.
read(width) ==
  \/ /\ ~buffer_can_read(buf, width)
     /\ last' = NoAccess("read", FALSE)
     /\ UNCHANGED buf
  \/ /\ buffer_can_read(buf, width)
     /\ last' = Call("read", width, buf.offset, buf.offset + width, TRUE)
     /\ buf' = buffer_seek_cur(buf, width)

\* Variant: a varint that does not fit is cut (varint.c:47-69 dropped).
varint_read_Cut(in_len, length) == in_len >= 1

\* length is what the first byte announces: 1, 3, 5 or 9.
varint_read(in_len, length) == in_len >= 1 /\ in_len >= length

read_varint(length) ==
  IF varint_read(Remaining, length)
    THEN /\ last' = Call("read_varint", length, buf.offset, buf.offset + length, TRUE)
         /\ buf' = buffer_seek_cur(buf, length)
    ELSE /\ last' = Call("read_varint", length, buf.offset,
                         buf.offset + IF Remaining >= 1 THEN 1 ELSE 0, FALSE)
         /\ UNCHANGED buf

\* Variant: the check of the bytes that are left dropped (bip32.c:34-36).
WordsRead_Unchecked(in_len, out_len) == out_len

\* Words read before the loop ends or gives up: it reads one more as long as
\* the offset is not past the input, also when it is at its end.
WordsRead(in_len, out_len) ==
  IF 4 * out_len <= in_len + 4 THEN out_len ELSE in_len \div 4 + 1

\* Number of bytes accessed and result.
bip32_path_read(in_len, out_len) ==
  IF out_len = 0 \/ out_len > MAX_BIP32_PATH
    THEN [bytes |-> 0, ok |-> FALSE]
    ELSE LET words == WordsRead(in_len, out_len)
         IN  [bytes |-> 4 * words, ok |-> 4 * (out_len - 1) <= in_len]

\* Variant: seeks over words as if they were bytes (buffer.c:142).
read_bip32_path_Words(out_len) ==
  LET path == bip32_path_read(Remaining, out_len) IN
  /\ last' = Call("read_bip32_path", 4 * out_len, buf.offset, buf.offset + path.bytes, path.ok)
  /\ IF path.ok THEN buf' = buffer_seek_cur(buf, out_len) ELSE UNCHANGED buf

\* The result of buffer_seek_cur is not looked at.
read_bip32_path(out_len) ==
  LET path == bip32_path_read(Remaining, out_len) IN
  /\ last' = Call("read_bip32_path", 4 * out_len, buf.offset, buf.offset + path.bytes, path.ok)
  /\ IF path.ok THEN buf' = buffer_seek_cur(buf, 4 * out_len) ELSE UNCHANGED buf

CanCopy(out_len) == Remaining <= out_len

Copied(op, out_len) ==
  last' = IF CanCopy(out_len) THEN Call(op, out_len, buf.offset, buf.offset + Remaining, TRUE)
                              ELSE NoAccess(op, FALSE)

copy(out_len) == Copied("copy", out_len) /\ UNCHANGED buf

\* Seeks past what it was given room for, not past what it copied, and does not
\* look at the result either.
move(out_len) ==
  /\ Copied("move", out_len)
  /\ IF CanCopy(out_len) THEN buf' = buffer_seek_cur(buf, out_len) ELSE UNCHANGED buf

\* Buffers are made with their offset at 0 or inside (the transaction footer).
Init ==
  /\ buf \in [size : 0..MaxSize, offset : 0..MaxSize]
  /\ buf.offset <= buf.size
  /\ last = NoAccess("none", TRUE)

Next ==
  \/ \E n \in Arguments : seek_set(n) \/ seek_cur(n) \/ seek_end(n)
  \/ \E n \in {1, 2, 4, 8} : read(n)
  \/ \E n \in {1, 3, 5, 9} : read_varint(n)
  \/ \E n \in 0..(MAX_BIP32_PATH + 1) : read_bip32_path(n)
  \/ \E n \in Arguments : copy(n) \/ move(n)

Spec == Init /\ [][Next]_vars

-----------------------------------------------------------------------------
(* Properties *)

\* The offset never passes the size, whatever is sought or read and whatever
\* wraps around: every check of buffer.c that subtracts them relies on it.
CursorInBuffer == buf.offset <= buf.size

\* No operation accesses bytes outside the buffer, except the last word of a
\* path, of which up to four bytes can lie behind its end.
AccessInBuffer ==
  last.to <= IF last.op = "read_bip32_path" THEN buf.size + 4 ELSE buf.size

\* The reads and the copies that are to move the cursor.
Consuming == {"read", "read_varint", "read_bip32_path", "move"}

\* A successful call of these starts at the cursor and moves it past all that it
\* accessed, if it was asked for no more than was left; otherwise it does not move
\* it at all, never to somewhere in between or behind, and the next call meets
\* the same bytes again.  The integers and the varint are never successful in
\* that second way; a path is when it is one word short, a move whenever its room
\* is more than what is left, for both drop the result of buffer_seek_cur
\* (buffer.c:142, 162; "Move bytes from buffer.", says buffer.h:180).  A copy, and any call that fails, leaves the cursor.
ReadsConsume ==
  [][/\ last'.op \in Consuming /\ last'.ok =>
          /\ last'.from = buf.offset
          /\ buf'.offset = IF buf.offset + last'.asked <= buf.size THEN last'.to ELSE buf.offset
     /\ last'.op \in {"read", "read_varint"} /\ last'.ok => buf.offset + last'.asked <= buf.size
     /\ last'.op \in Operations /\ (last'.op = "copy" \/ ~last'.ok) => UNCHANGED buf
     /\ buf'.size = buf.size]_vars

-----------------------------------------------------------------------------
(* What the repository says of these calls and the code does not do. *)

\* unit-tests/test_bip32.c:84 says that a path longer than the buffer is
\* refused: a path read is one whose every byte is in the buffer.
ShortPathRefused ==
  last.op = "read_bip32_path" /\ last.ok => last.to <= buf.size

=============================================================================
