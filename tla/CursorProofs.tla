----------------------------- MODULE CursorProofs -----------------------------
(***************************************************************************)
(* The cursor of common/buffer.c and the readers of bcs/decoder.c for every *)
(* size of the buffer, every width of size_t, every argument, every length  *)
(* the bytes can say and every room the callers give: the cursor stays      *)
(* inside the buffer, and so do the accesses, and where each call leaves it. *)
(***************************************************************************)
EXTENDS BcsCursor, ArithmeticProofs

-----------------------------------------------------------------------------
(* The checks and the seeks, of any buffer. *)

\* A read that is allowed lies in the buffer, provided that the cursor does.
LEMMA CanReadInBuffer ==
  ASSUME NEW b \in buffer_t, b.offset <= b.size, NEW n \in Nat, buffer_can_read(b, n)
  PROVE  b.offset + n <= b.size
BY DEF buffer_can_read, Minus, buffer_t, SizeT

\* Seeking forward by what is in the buffer moves the cursor by as much.
LEMMA SeekCurMoves ==
  ASSUME NEW b \in buffer_t, NEW n \in Nat, b.offset + n <= b.size
  PROVE  /\ CanSeekCur(b, n)
         /\ buffer_seek_cur(b, n) = [b EXCEPT !.offset = b.offset + n]
<1>1. b.offset + n < SizeMod /\ b.offset + n >= b.offset
  BY SizeModAssumption DEF buffer_t, SizeT
<1>2. Plus(b.offset, n) = b.offset + n
  BY <1>1 DEF Plus
<1> QED
  BY <1>1, <1>2 DEF CanSeekCur, buffer_seek_cur

\* Seeking forward by more, wrapped around or not, does not move the cursor.
LEMMA SeekCurStays ==
  ASSUME NEW b \in buffer_t, NEW n \in SizeT, b.offset + n > b.size
  PROVE  buffer_seek_cur(b, n) = b
<1>1. b.offset \in Nat /\ b.offset < SizeMod /\ b.size \in Nat /\ n \in Nat /\ n < SizeMod
  BY SizeModAssumption DEF buffer_t, SizeT
<1>2. CASE b.offset + n < SizeMod
  <2>1. Plus(b.offset, n) = b.offset + n
    BY <1>1, <1>2, SizeModAssumption DEF Plus
  <2> QED
    BY <1>1, <2>1 DEF buffer_seek_cur, CanSeekCur
<1>3. CASE b.offset + n >= SizeMod
  <2>1. Plus(b.offset, n) = b.offset + n - SizeMod
    BY <1>1, <1>3, SizeModAssumption DEF Plus
  <2> QED
    BY <1>1, <2>1, SizeModAssumption DEF buffer_seek_cur, CanSeekCur
<1> QED
  BY <1>1, <1>2, <1>3, SizeModAssumption

\* No seek takes the cursor out of the buffer.
LEMMA SeekStaysInBuffer ==
  ASSUME NEW b \in buffer_t, b.offset <= b.size, NEW n \in SizeT,
         NEW c \in {buffer_seek_set(b, n), buffer_seek_cur(b, n), buffer_seek_end(b, n)}
  PROVE  c \in buffer_t /\ c.size = b.size /\ c.offset <= c.size
<1>1. CASE c = buffer_seek_set(b, n)
  BY <1>1 DEF buffer_seek_set, CanSeekSet, buffer_t, SizeT
<1>2. CASE c = buffer_seek_cur(b, n)
  <2>1. b.offset \in SizeT /\ b.size \in SizeT
    BY DEF buffer_t
  <2>2. Plus(b.offset, n) \in SizeT
    BY <2>1, SizeModAssumption DEF Plus, SizeT
  <2> QED
    BY <1>2, <2>1, <2>2 DEF buffer_seek_cur, CanSeekCur, buffer_t
<1>3. CASE c = buffer_seek_end(b, n)
  <2>1. b.size \in SizeT
    BY DEF buffer_t
  <2>2. n <= b.size => Minus(b.size, n) \in SizeT /\ Minus(b.size, n) <= b.size
    BY <2>1, SizeModAssumption DEF Minus, SizeT
  <2> QED
    BY <1>3, <2>1, <2>2 DEF buffer_seek_end, CanSeekEnd, buffer_t
<1> QED
  BY <1>1, <1>2, <1>3

-----------------------------------------------------------------------------
(* The operations of the cursor. *)

\* The words a path read accesses: never more than one behind the input.
LEMMA PathReadBounds ==
  ASSUME NEW in_len \in Nat, NEW out_len \in Nat
  PROVE  /\ bip32_path_read(in_len, out_len).bytes \in Nat
         /\ bip32_path_read(in_len, out_len).bytes <= in_len + 4
         /\ bip32_path_read(in_len, out_len).ok \in BOOLEAN
         /\ bip32_path_read(in_len, out_len).ok =>
              out_len <= MAX_BIP32_PATH /\ bip32_path_read(in_len, out_len).bytes = 4 * out_len
<1>1. WordsRead(in_len, out_len) \in Nat /\ 4 * WordsRead(in_len, out_len) <= in_len + 4
  <2>1. in_len \div 4 \in Nat /\ 4 * (in_len \div 4) <= in_len
    OBVIOUS
  <2> QED
    BY <2>1 DEF WordsRead
<1>2. CASE out_len = 0 \/ out_len > MAX_BIP32_PATH
  <2>1. bip32_path_read(in_len, out_len) = [bytes |-> 0, ok |-> FALSE]
    BY <1>2 DEF bip32_path_read
  <2> QED
    BY <2>1
<1>3. CASE ~(out_len = 0 \/ out_len > MAX_BIP32_PATH)
  <2>1. bip32_path_read(in_len, out_len)
          = [bytes |-> 4 * WordsRead(in_len, out_len), ok |-> 4 * (out_len - 1) <= in_len]
    BY <1>3 DEF bip32_path_read
  <2>2. 4 * (out_len - 1) <= in_len => WordsRead(in_len, out_len) = out_len
    BY DEF WordsRead
  <2>3. out_len <= MAX_BIP32_PATH
    BY <1>3, CursorAssumption
  <2>4. /\ bip32_path_read(in_len, out_len).bytes = 4 * WordsRead(in_len, out_len)
        /\ bip32_path_read(in_len, out_len).ok = (4 * (out_len - 1) <= in_len)
    BY <2>1
  <2>5. bip32_path_read(in_len, out_len).ok =>
          bip32_path_read(in_len, out_len).bytes = 4 * out_len
    BY <2>2, <2>4
  <2>6. 4 * WordsRead(in_len, out_len) \in Nat
    BY <1>1
  <2> QED
    BY <1>1, <2>3, <2>4, <2>5, <2>6
<1> QED
  BY <1>2, <1>3

-----------------------------------------------------------------------------
\* The inductive invariant: the bound of the sizes keeps the sums exact.
BufInv == buf \in buffer_t /\ buf.size <= MaxSize /\ buf.offset <= buf.size
LastInv ==
  /\ last \in [op : Operations, asked : Nat, from : SizeT, to : SizeT, ok : BOOLEAN]
  /\ last.to <= IF last.op = "read_bip32_path" THEN buf.size + 4 ELSE buf.size
CallInv == BufInv /\ LastInv

\* What a call may do, whatever it is: this is all the properties need.
CallOK ==
  /\ BufInv'
  /\ LastInv'
  /\ buf'.size = buf.size
  /\ last'.op = "copy" \/ ~last'.ok => UNCHANGED buf
  /\ last'.op \in Consuming /\ last'.ok =>
       /\ last'.from = buf.offset
       /\ buf'.offset = IF buf.offset + last'.asked <= buf.size THEN last'.to ELSE buf.offset
  /\ last'.op \in {"read", "read_varint"} /\ last'.ok => buf.offset + last'.asked <= buf.size

\* Nothing was read yet.
LEMMA CallInit == Init => CallInv
BY CursorAssumption, SizeModAssumption
  DEF Init, CallInv, BufInv, LastInv, NoAccess, Call, Operations, buffer_t, SizeT

\* No access is at 0.
LEMMA ZeroSizeT == 0 \in SizeT
BY SizeModAssumption DEF SizeT

\* The numbers every operation is about.
LEMMA BufNumbers ==
  ASSUME BufInv
  PROVE  /\ buf.size \in Nat /\ buf.offset \in Nat
         /\ buf.size < SizeMod /\ buf.size + 4 < SizeMod
         /\ Remaining = buf.size - buf.offset /\ Remaining \in Nat
<1>1. buf.size \in Nat /\ buf.offset \in Nat
  BY DEF BufInv, buffer_t, SizeT
<1>2. buf.size < SizeMod /\ buf.size + 4 < SizeMod
  BY <1>1, CursorAssumption, SizeModAssumption DEF BufInv
<1> QED
  BY <1>1, <1>2 DEF BufInv, Remaining, Minus

\* A call that does not access the buffer and seeks.
LEMMA SeekOK ==
  ASSUME BufInv, NEW n \in SizeT, seek_set(n) \/ seek_cur(n) \/ seek_end(n)
  PROVE  CallOK
<1>1. buf' \in {buffer_seek_set(buf, n), buffer_seek_cur(buf, n), buffer_seek_end(buf, n)}
  BY DEF seek_set, seek_cur, seek_end
<1>2. BufInv' /\ buf'.size = buf.size
  BY <1>1, SeekStaysInBuffer DEF BufInv
<1>3. PICK ok \in BOOLEAN : last' = NoAccess("seek", ok)
  <2>1. /\ CanSeekSet(buf, n) \in BOOLEAN
        /\ CanSeekCur(buf, n) \in BOOLEAN
        /\ CanSeekEnd(buf, n) \in BOOLEAN
    BY DEF CanSeekSet, CanSeekCur, CanSeekEnd
  <2> QED
    BY <2>1 DEF seek_set, seek_cur, seek_end
<1>6. buf'.size \in Nat
  BY <1>2, BufNumbers
<1>4. LastInv'
  BY <1>2, <1>3, <1>6, ZeroSizeT DEF LastInv, NoAccess, Call, Operations
<1>5. ~last'.ok => UNCHANGED buf
  <2>1. CASE seek_set(n)
    BY <2>1 DEF seek_set, NoAccess, Call, buffer_seek_set
  <2>2. CASE seek_cur(n)
    BY <2>2 DEF seek_cur, NoAccess, Call, buffer_seek_cur
  <2>3. CASE seek_end(n)
    BY <2>3 DEF seek_end, NoAccess, Call, buffer_seek_end
  <2> QED
    BY <2>1, <2>2, <2>3
<1> QED
  BY <1>2, <1>3, <1>4, <1>5 DEF CallOK, NoAccess, Call, Consuming

\* A call that accesses the bytes it was asked for, inside the buffer, and moves
\* over them or, when it fails, does not.
LEMMA AccessOK ==
  ASSUME BufInv, NEW op \in {"read", "read_varint"}, NEW asked \in Nat, NEW n \in Nat,
         NEW ok \in BOOLEAN,
         last' = Call(op, asked, buf.offset, buf.offset + n, ok),
         buf.offset + n <= buf.size,
         \/ buf' = buf /\ ~ok
         \/ ok /\ asked = n /\ buf' = buffer_seek_cur(buf, n)
  PROVE  CallOK
<1>0. op \in Operations
  BY DEF Operations
<1>1. BufInv' /\ buf'.size = buf.size
  <2>1. CASE buf' = buf
    BY <2>1 DEF BufInv
  <2>2. CASE buf' = buffer_seek_cur(buf, n)
    <3>1. n \in SizeT
      <4>1. buf.size \in Nat /\ buf.offset \in Nat /\ buf.size < SizeMod
        BY BufNumbers
      <4>2. n < SizeMod
        BY <4>1, SizeModAssumption
      <4> QED
        BY <4>2, SizeModAssumption DEF SizeT
    <3> QED
      BY <2>2, <3>1, SeekStaysInBuffer DEF BufInv
  <2> QED
    BY <2>1, <2>2
<1>2. buf.offset \in SizeT /\ buf.offset + n \in SizeT
  <2>1. buf.size \in Nat /\ buf.offset \in Nat /\ buf.size < SizeMod
    BY BufNumbers
  <2> QED
    BY <2>1, SizeModAssumption DEF SizeT
<1>3. LastInv'
  BY <1>0, <1>1, <1>2, BufNumbers DEF LastInv, Call
<1>4. last'.ok => buf'.offset = last'.to /\ buf.offset + last'.asked <= buf.size
  <2>1. SUFFICES ASSUME ok PROVE buf'.offset = buf.offset + n
    BY DEF Call
  <2>2. buf' = [buf EXCEPT !.offset = buf.offset + n]
    BY <2>1, SeekCurMoves DEF BufInv
  <2> QED
    BY <2>2 DEF BufInv, buffer_t
<1>5. ~last'.ok => UNCHANGED buf
  BY DEF Call
<1> QED
  BY <1>1, <1>3, <1>4, <1>5 DEF CallOK, Call

\* A call that accesses bytes, at most a word behind the end, and tries to move
\* over as many as it was asked for: all of the bytes, or more than are left.
LEMMA DroppedOK ==
  ASSUME BufInv, NEW op \in {"read_bip32_path", "move"}, NEW asked \in SizeT, NEW n \in Nat,
         last' = Call(op, asked, buf.offset, buf.offset + n, TRUE),
         buf.offset + n <= buf.size \/ (op = "read_bip32_path" /\ buf.offset + n <= buf.size + 4),
         buf.offset + asked <= buf.size => asked = n,
         buf' = buffer_seek_cur(buf, asked)
  PROVE  CallOK
<1>1. BufInv' /\ buf'.size = buf.size
  BY SeekStaysInBuffer DEF BufInv
<1>2. buf.offset \in SizeT /\ buf.offset + n \in SizeT /\ asked \in Nat
  <2>1. buf.size \in Nat /\ buf.offset \in Nat /\ buf.size + 4 < SizeMod
    BY BufNumbers
  <2> QED
    BY <2>1, SizeModAssumption DEF SizeT
<1>3. LastInv'
  BY <1>1, <1>2, BufNumbers DEF LastInv, Call, Operations
<1>4. buf'.offset = IF buf.offset + asked <= buf.size THEN buf.offset + n ELSE buf.offset
  <2>1. CASE buf.offset + asked <= buf.size
    <3>1. buf' = [buf EXCEPT !.offset = buf.offset + asked]
      BY <1>2, <2>1, SeekCurMoves DEF BufInv
    <3> QED
      BY <2>1, <3>1 DEF BufInv, buffer_t
  <2>2. CASE ~(buf.offset + asked <= buf.size)
    <3>1. buf.offset + asked > buf.size
      BY <1>2, <2>2, BufNumbers
    <3>2. buf' = buf
      BY <3>1, SeekCurStays DEF BufInv
    <3> QED
      BY <2>2, <3>2
  <2> QED
    BY <2>1, <2>2
<1> QED
  BY <1>1, <1>3, <1>4 DEF CallOK, Call

\* A call that is refused before it accesses anything.
LEMMA RefusedOK ==
  ASSUME BufInv, NEW op \in Operations, last' = NoAccess(op, FALSE), UNCHANGED buf
  PROVE  CallOK
<1>1. LastInv'
  BY BufNumbers, ZeroSizeT DEF LastInv, NoAccess, Call
<1> QED
  BY <1>1 DEF CallOK, NoAccess, Call, BufInv

\* buffer_read_u8, u16, u32 and u64: the room is looked at first.
LEMMA ReadOK ==
  ASSUME BufInv, NEW n \in {1, 2, 4, 8}, read(n)
  PROVE  CallOK
<1>1. CASE ~buffer_can_read(buf, n)
  BY <1>1, RefusedOK DEF read, Operations
<1>2. CASE buffer_can_read(buf, n)
  <2>1. buf.offset + n <= buf.size
    BY <1>2, CanReadInBuffer DEF BufInv
  <2> QED
    BY <1>2, <2>1, AccessOK DEF read
<1> QED
  BY <1>1, <1>2

\* buffer_read_varint: as many bytes as the first one announces.
LEMMA VarintOK ==
  ASSUME BufInv, NEW n \in {1, 3, 5, 9}, read_varint(n)
  PROVE  CallOK
<1>1. CASE varint_read(Remaining, n)
  <2>1. buf.offset + n <= buf.size
    BY <1>1, BufNumbers DEF varint_read
  <2> QED
    BY <1>1, <2>1, AccessOK DEF read_varint
<1>2. CASE ~varint_read(Remaining, n)
  <2> DEFINE k == IF Remaining >= 1 THEN 1 ELSE 0
  <2>1. buf.offset + k <= buf.size /\ k \in Nat
    BY BufNumbers
  <2>2. last' = Call("read_varint", n, buf.offset, buf.offset + k, FALSE) /\ buf' = buf
    BY <1>2 DEF read_varint
  <2> HIDE DEF k
  <2> QED
    BY <2>1, <2>2, AccessOK
<1> QED
  BY <1>1, <1>2

\* buffer_read_bip32_path: at most one word is looked at behind the input, and
\* the cursor is moved when that is not so.
LEMMA PathOK ==
  ASSUME BufInv, NEW n \in Nat, n <= MAX_BIP32_PATH + 1, read_bip32_path(n)
  PROVE  CallOK
<1> DEFINE path == bip32_path_read(Remaining, n)
<1>1. path.bytes \in Nat /\ path.ok \in BOOLEAN /\ buf.offset + path.bytes <= buf.size + 4
  <2>1. path.bytes \in Nat /\ path.ok \in BOOLEAN /\ path.bytes <= Remaining + 4
    BY BufNumbers, PathReadBounds
  <2> HIDE DEF path
  <2>2. /\ buf.size \in Nat /\ buf.offset \in Nat
        /\ Remaining = buf.size - buf.offset
    BY BufNumbers
  <2> QED
    BY <2>1, <2>2
<1>2. last' = Call("read_bip32_path", 4 * n, buf.offset, buf.offset + path.bytes, path.ok)
  BY DEF read_bip32_path
<1>3. CASE path.ok
  <2>1. n <= MAX_BIP32_PATH /\ path.bytes = 4 * n
    BY <1>3, BufNumbers, PathReadBounds
  <2>2. 4 * n \in SizeT
    BY <2>1, CursorAssumption, SizeModAssumption DEF SizeT
  <2>3. buf' = buffer_seek_cur(buf, 4 * n)
    BY <1>3 DEF read_bip32_path
  <2> HIDE DEF path
  <2> QED
    BY <1>1, <1>2, <1>3, <2>1, <2>2, <2>3, DroppedOK
<1>4. CASE ~path.ok
  <2>1. UNCHANGED buf
    BY <1>4 DEF read_bip32_path
  <2> HIDE DEF path
  <2>2. buf.offset \in SizeT /\ buf.offset + path.bytes \in SizeT
    <3>1. /\ buf.size \in Nat /\ buf.offset \in Nat /\ buf.offset <= buf.size
          /\ buf.size + 4 < SizeMod
      BY BufNumbers DEF BufInv
    <3> QED
      BY <1>1, <3>1, SizeModAssumption DEF SizeT
  <2>3. LastInv'
    BY <1>1, <1>2, <2>1, <2>2 DEF LastInv, Call, Operations
  <2> QED
    BY <1>2, <1>4, <2>1, <2>3 DEF CallOK, Call, BufInv
<1> QED
  BY <1>1, <1>3, <1>4

\* buffer_copy and buffer_move copy what both sides have room for.
LEMMA CopyOK ==
  ASSUME BufInv, NEW n \in SizeT, copy(n) \/ move(n)
  PROVE  CallOK
<1>1. PICK op \in {"copy", "move"} : Copied(op, n)
  BY DEF copy, move
<1>2. CASE ~CanCopy(n)
  BY <1>1, <1>2, RefusedOK DEF Copied, copy, move, Operations
<1>3. CASE CanCopy(n)
  <2>1. /\ buf.size \in Nat /\ buf.offset \in Nat /\ buf.offset <= buf.size
        /\ Remaining = buf.size - buf.offset /\ buf.size < SizeMod
        /\ Remaining \in Nat /\ n \in Nat /\ Remaining <= n
    BY <1>3, BufNumbers, SizeModAssumption DEF BufInv, CanCopy, SizeT
  <2>2. CASE move(n)
    <3>1. last' = Call("move", n, buf.offset, buf.offset + Remaining, TRUE)
      BY <1>3, <2>2 DEF move, Copied
    <3>2. buf' = buffer_seek_cur(buf, n)
      BY <1>3, <2>2 DEF move
    <3>3. buf.offset + n <= buf.size => n = Remaining
      BY <2>1
    <3>4. buf.offset + Remaining <= buf.size
      BY <2>1
    <3> QED
      BY <2>1, <3>1, <3>2, <3>3, <3>4, DroppedOK
  <2>3. CASE copy(n)
    <3>1. last' = Call("copy", n, buf.offset, buf.offset + Remaining, TRUE) /\ UNCHANGED buf
      BY <1>3, <2>3 DEF copy, Copied
    <3>2. /\ buf.offset \in SizeT /\ buf.offset + Remaining \in SizeT
          /\ buf.offset + Remaining <= buf.size
      BY <2>1, SizeModAssumption DEF SizeT
    <3>3. LastInv'
      BY <2>1, <3>1, <3>2 DEF LastInv, Call, Operations
    <3> QED
      BY <3>1, <3>3 DEF CallOK, Call, Consuming, BufInv
  <2> QED
    BY <2>2, <2>3
<1> QED
  BY <1>2, <1>3

\* Whichever call it is: the last call does not matter to the next one.
LEMMA CallStep ==
  ASSUME BufInv, Next
  PROVE  CallOK
<1>1. CASE \E n \in Arguments : seek_set(n) \/ seek_cur(n) \/ seek_end(n)
  BY <1>1, SeekOK, CursorAssumption
<1>2. CASE \E n \in {1, 2, 4, 8} : read(n)
  BY <1>2, ReadOK
<1>3. CASE \E n \in {1, 3, 5, 9} : read_varint(n)
  BY <1>3, VarintOK
<1>4. CASE \E n \in 0..(MAX_BIP32_PATH + 1) : read_bip32_path(n)
  BY <1>4, PathOK, CursorAssumption
<1>5. CASE \E n \in Arguments : copy(n) \/ move(n)
  BY <1>5, CopyOK, CursorAssumption
<1> QED
  BY <1>1, <1>2, <1>3, <1>4, <1>5 DEF Next

-----------------------------------------------------------------------------
\* buffer.c:27-60: the offset never passes the size, which is what makes the
\* difference of buffer_can_read the number of bytes that are left.
THEOREM CursorSafe == Spec => []CursorInBuffer
<1>1. Init => CallInv
  BY CallInit
<1>2. CallInv /\ [Next]_vars => CallInv'
  BY CallStep DEF CallInv, CallOK, BufInv, LastInv, vars
<1>3. CallInv => CursorInBuffer
  BY DEF CallInv, BufInv, CursorInBuffer
<1> QED
  BY <1>1, <1>2, <1>3, PTL DEF Spec

\* buffer.c, bip32.c:33-39: nothing outside the buffer is accessed but the last
\* word of a path.
THEOREM AccessSafe == Spec => []AccessInBuffer
<1>1. Init => CallInv
  BY CallInit
<1>2. CallInv /\ [Next]_vars => CallInv'
  BY CallStep DEF CallInv, CallOK, BufInv, LastInv, vars
<1>3. CallInv => AccessInBuffer
  BY DEF CallInv, LastInv, AccessInBuffer
<1> QED
  BY <1>1, <1>2, <1>3, PTL DEF Spec

\* buffer.c:62-165: where each call leaves the cursor, the two calls included that
\* do not look at whether they could move it: what is accessed is consumed unless
\* more was asked for than is left, and then nothing is.
THEOREM ConsumeSafe == Spec => ReadsConsume
<1>1. Init => CallInv
  BY CallInit
<1>2. CallInv /\ [Next]_vars => CallInv'
  BY CallStep DEF CallInv, CallOK, BufInv, LastInv, vars
<1>3. CallInv /\ Next =>
        /\ last'.op \in Consuming /\ last'.ok =>
              /\ last'.from = buf.offset
              /\ buf'.offset = IF buf.offset + last'.asked <= buf.size THEN last'.to ELSE buf.offset
        /\ last'.op \in {"read", "read_varint"} /\ last'.ok => buf.offset + last'.asked <= buf.size
        /\ last'.op \in Operations /\ (last'.op = "copy" \/ ~last'.ok) => UNCHANGED buf
        /\ buf'.size = buf.size
  BY CallStep DEF CallInv, CallOK
<1> QED
  BY <1>1, <1>2, <1>3, PTL DEF Spec, ReadsConsume

-----------------------------------------------------------------------------
(* The readers of BCS values. *)

\* A length up to the maximum of 32 bits has an encoding, in the groups it needs.
LEMMA GroupsType ==
  ASSUME NEW n \in Lengths
  PROVE  Groups(n) \in 1..MaxGroups
<1> DEFINE T == {k \in 1..MaxGroups : n < Power(Radix, k)}
<1>1. n \in Nat /\ n <= UINT32_MAX
  BY BcsAssumption, SizeModAssumption DEF SizeT
<1>2. MaxGroups \in T
  <2>1. Power(Radix, MaxGroups) \in Nat
    BY BcsAssumption, PowerType
  <2>2. UINT32_MAX \in Nat /\ UINT32_MAX < Power(Radix, MaxGroups)
    BY BcsAssumption, SizeModAssumption DEF SizeT
  <2> QED BY <1>1, <2>1, <2>2, BcsAssumption
<1>3. \E x \in T : \A y \in T : x <= y
  <2>1. T \subseteq Nat /\ T # {}
    BY <1>2
  <2> HIDE DEF T
  <2> QED BY <2>1, LeastNumber
<1>4. Groups(n) \in T
  <2> HIDE DEF T
  <2>1. Min(T) \in T
    BY <1>3 DEF Min
  <2> QED BY <2>1 DEF Groups, T
<1> QED BY <1>4

\* The least of two numbers is not more than either.
LEMMA MinOfTwo ==
  ASSUME NEW a \in Nat, NEW b \in Nat
  PROVE  Min({a, b}) \in Nat /\ Min({a, b}) <= a /\ Min({a, b}) <= b
<1>1. \E x \in {a, b} : \A y \in {a, b} : x <= y
  <2>1. a <= b \/ b <= a
    OBVIOUS
  <2> QED BY <2>1
<1>2. Min({a, b}) \in {a, b} /\ \A y \in {a, b} : Min({a, b}) <= y
  BY <1>1 DEF Min
<1> QED BY <1>2

-----------------------------------------------------------------------------
(* The inductive invariant: the cursor, the last call and its output. *)

OutInv == out \in [written : Nat, room : Nat, told : Nat] /\ OutputInRoom
BcsInv ==
  /\ BufInv
  /\ last \in [op : Operations \cup BcsOperations, asked : Nat, from : SizeT, to : SizeT, ok : BOOLEAN]
  /\ AccessInBuffer
  /\ OutInv

\* What a reader does to the cursor, whichever it is.
ReaderOK ==
  /\ BufInv'
  /\ last' \in [op : BcsOperations, asked : Nat, from : SizeT, to : SizeT, ok : BOOLEAN]
  /\ last'.to <= buf.size
  /\ buf'.size = buf.size
  /\ last'.from = buf.offset
  /\ buf.offset <= buf'.offset /\ buf'.offset <= last'.to
  /\ last'.ok => buf'.offset = last'.to

\* A reader that writes and tells nothing is in order.
LEMMA NoOutputOK == out' = NoOutput => OutInv'
BY BcsAssumption DEF NoOutput, OutInv, OutputInRoom

\* A reader that writes what is in the room, or a type tag what it tells, is too.
LEMMA WritesOK ==
  ASSUME NEW op \in BcsOperations, NEW bytes \in Nat, NEW moved \in Nat, NEW ok \in BOOLEAN,
         NEW written \in Nat, NEW room \in Nat, NEW told \in Nat,
         Reads(op, bytes, moved, ok), Writes(written, room, told),
         written <= room \/ (op = "type_tag" /\ written <= told),
         ok /\ op \in {"string", "dynamic_bytes", "type_tag"} => told = written,
         ok /\ op \in {"length", "dynamic_bytes"} => told <= MAX_SEQUENCE_LENGTH
  PROVE  OutInv'
<1>1. last'.op = op /\ last'.ok = ok
  BY DEF Reads, Call
<1>2. /\ out' \in [written : Nat, room : Nat, told : Nat]
      /\ out'.written = written /\ out'.room = room /\ out'.told = told
  BY DEF Writes
<1> QED BY <1>1, <1>2 DEF OutInv, OutputInRoom

\* There are n bytes behind the cursor.
Left(n) == buf.offset + n <= buf.size

\* A reader that accesses bytes of the buffer and moves over those it consumes.
LEMMA ReadsOK ==
  ASSUME BufInv, NEW op \in BcsOperations, NEW bytes \in Nat, NEW moved \in Nat,
         NEW ok \in BOOLEAN, Reads(op, bytes, moved, ok),
         moved <= bytes, Left(bytes), ok => moved = bytes
  PROVE  ReaderOK
<1>1. /\ buf.size \in Nat /\ buf.offset \in Nat /\ buf.size < SizeMod /\ buf \in buffer_t
      /\ buf.size <= MaxSize
  BY BufNumbers DEF BufInv
<1>2. buf' = [buf EXCEPT !.offset = buf.offset + moved]
  BY <1>1, SeekCurMoves DEF Reads, Left
<1>3. buf'.size = buf.size /\ buf'.offset = buf.offset + moved /\ buf'.offset \in SizeT
  <2>1. buf.offset + moved \in SizeT
    BY <1>1, SizeModAssumption DEF SizeT, Left
  <2> QED BY <1>1, <1>2, <2>1 DEF buffer_t
<1>4. BufInv'
  BY <1>1, <1>2, <1>3 DEF BufInv, buffer_t, Left
<1>5. last' = Call(op, bytes, buf.offset, buf.offset + bytes, ok)
  BY DEF Reads
<1>6. buf.offset \in SizeT /\ buf.offset + bytes \in SizeT
  BY <1>1, SizeModAssumption DEF SizeT, Left
<1>7. last' \in [op : BcsOperations, asked : Nat, from : SizeT, to : SizeT, ok : BOOLEAN]
  BY <1>5, <1>6 DEF Call
<1> QED BY <1>1, <1>3, <1>4, <1>5, <1>7 DEF ReaderOK, Call, Left

\* One that consumes all it accesses.
LEMMA ReadsAllOK ==
  ASSUME BufInv, NEW op \in BcsOperations, NEW n \in Nat, NEW ok \in BOOLEAN,
         Reads(op, n, n, ok), Left(n)
  PROVE  ReaderOK
BY ReadsOK

\* Bytes that fit are in the buffer, also behind a length that is consumed.
LEMMA FitsInBuffer ==
  ASSUME BufInv, NEW n \in Nat, Fits(n)
  PROVE  Left(n)
BY CanReadInBuffer DEF Fits, BufInv, Left

\* What follows a length that was read and fits is in the buffer.
LEMMA BehindInBuffer ==
  ASSUME BufInv, NEW k \in Nat, NEW n \in Nat, Fits(k), FitsBehind(k, n)
  PROVE  Left(k + n)
<1>1. buf \in buffer_t /\ buf.offset + k <= buf.size
  BY FitsInBuffer DEF BufInv, Left
<1> DEFINE b == [buf EXCEPT !.offset = buf.offset + k]
<1>2. buffer_seek_cur(buf, k) = b
  BY <1>1, SeekCurMoves
<1>3. buf.size \in Nat /\ buf.offset \in Nat /\ buf.size < SizeMod
  BY BufNumbers
<1>4. b \in buffer_t /\ b.size = buf.size /\ b.offset = buf.offset + k
  BY <1>1, <1>3, SizeModAssumption DEF buffer_t, SizeT
<1>5. b.offset + n <= b.size
  <2> HIDE DEF b
  <2>1. buffer_can_read(b, n)
    BY <1>2 DEF FitsBehind
  <2>2. b.offset <= b.size
    BY <1>1, <1>4
  <2> QED BY <1>4, <2>1, <2>2, CanReadInBuffer
<1> QED BY <1>3, <1>4, <1>5 DEF Left

\* A reader that gives up before it accesses anything.
LEMMA RefusesOK ==
  ASSUME BufInv, NEW op \in BcsOperations, Reads(op, 0, 0, FALSE)
  PROVE  ReaderOK
<1>1. Left(0)
  BY BufNumbers DEF BufInv, Left
<1> QED BY <1>1, ReadsAllOK

-----------------------------------------------------------------------------
(* The readers, one by one. *)

\* Where a scalar may be written: in a variable of its size, or by a type tag.
Target(op, width, room) ==
  /\ op \in {"bool", "integer", "uint128", "fixed_bytes", "type_tag"}
  /\ width <= room \/ op = "type_tag"

\* One that is read whole, and accepted or not.
LEMMA ScalarReadOK ==
  ASSUME BufInv, NEW op, NEW width \in Nat, NEW room \in Nat, Target(op, width, room),
         NEW written \in {0, width}, NEW ok \in BOOLEAN, ok => written = width,
         Fits(width), Reads(op, width, width, ok), Writes(written, room, width)
  PROVE  ReaderOK /\ OutInv'
<1>1. /\ op \in BcsOperations /\ op \notin {"string", "dynamic_bytes", "length"}
      /\ written <= room \/ (op = "type_tag" /\ written <= width)
  BY DEF Target, BcsOperations
<1>2. Left(width) /\ written \in Nat
  BY FitsInBuffer
<1>3. ReaderOK
  BY <1>1, <1>2, ReadsAllOK
<1>4. OutInv'
  BY <1>1, <1>2, WritesOK
<1> QED BY <1>3, <1>4

\* One that is refused before it is read: it leaves no more than its size behind.
LEMMA ScalarRefusedOK ==
  ASSUME BufInv, NEW op, NEW width \in Nat, NEW room \in Nat, Target(op, width, room),
         NEW written \in {0, width}, Reads(op, 0, 0, FALSE), Writes(written, room, width)
  PROVE  ReaderOK /\ OutInv'
<1>1. /\ op \in BcsOperations
      /\ written <= room \/ (op = "type_tag" /\ written <= width)
  BY DEF Target, BcsOperations
<1>2. ReaderOK
  BY <1>1, RefusesOK
<1>3. OutInv'
  BY <1>1, WritesOK
<1> QED BY <1>2, <1>3

\* bcs_read_bool.
LEMMA BoolOK ==
  ASSUME BufInv, NEW op, NEW room \in Nat, Target(op, 1, room), bcs_read_bool(op, room)
  PROVE  ReaderOK /\ OutInv'
<1>1. ASSUME NEW written \in {0, 1}, NEW ok \in BOOLEAN, ok => written = 1,
             Fits(1), Reads(op, 1, 1, ok), Writes(written, room, 1)
      PROVE  ReaderOK /\ OutInv'
  BY <1>1, ScalarReadOK
<1>2. CASE Reads(op, 0, 0, FALSE) /\ Writes(0, room, 1)
  BY <1>2, ScalarRefusedOK
<1> QED BY <1>1, <1>2 DEF bcs_read_bool

\* bcs_read_u8 to bcs_read_u64.
LEMMA IntegerOK ==
  ASSUME BufInv, NEW op, NEW width \in Nat, NEW cleared \in {0, width}, NEW room \in Nat,
         Target(op, width, room), bcs_read_integer(op, width, cleared, room)
  PROVE  ReaderOK /\ OutInv'
<1>1. CASE Fits(width)
  <2>1. Reads(op, width, width, TRUE) /\ Writes(width, room, width)
    BY <1>1 DEF bcs_read_integer
  <2> QED BY <1>1, <2>1, ScalarReadOK
<1>2. CASE ~Fits(width)
  <2>1. Reads(op, 0, 0, FALSE) /\ Writes(cleared, room, width)
    BY <1>2 DEF bcs_read_integer
  <2> QED BY <2>1, ScalarRefusedOK
<1> QED BY <1>1, <1>2

\* bcs_read_u128, in its two halves.
LEMMA U128OK ==
  ASSUME BufInv, NEW op, NEW room \in Nat, Target(op, 16, room), bcs_read_u128(op, room)
  PROVE  ReaderOK /\ OutInv'
<1>0. Writes(16, room, 16) /\ op \in BcsOperations
  BY DEF bcs_read_u128, Target, BcsOperations
<1>1. CASE Fits(16)
  <2>1. Reads(op, 16, 16, TRUE)
    BY <1>1 DEF bcs_read_u128
  <2> QED BY <1>0, <1>1, <2>1, ScalarReadOK
<1>2. CASE ~Fits(16) /\ Fits(8)
  <2>1. Reads(op, 8, 8, FALSE) /\ Left(8)
    BY <1>2, FitsInBuffer DEF bcs_read_u128
  <2>2. 16 <= room \/ (op = "type_tag" /\ 16 <= 16)
    BY DEF Target
  <2> QED BY <1>0, <2>1, <2>2, ReadsAllOK, WritesOK
<1>3. CASE ~Fits(16) /\ ~Fits(8)
  <2>1. Reads(op, 0, 0, FALSE)
    BY <1>3 DEF bcs_read_u128
  <2> QED BY <1>0, <2>1, ScalarRefusedOK
<1> QED BY <1>1, <1>2, <1>3

\* However many groups a failed number was found in, they are in the buffer.
LEMMA GroupsFailedInBuffer ==
  ASSUME BufInv, NEW k \in GroupsFailed
  PROVE  k \in Nat /\ Left(k)
<1>1. k \in Nat
  BY BcsAssumption DEF GroupsFailed
<1>2. CASE k = Remaining
  BY <1>2, BufNumbers DEF Left
<1>3. CASE Fits(k)
  BY <1>1, <1>3, FitsInBuffer
<1> QED BY <1>1, <1>2, <1>3 DEF GroupsFailed

\* bcs_read_u32_from_uleb128.
LEMMA NumberOK ==
  ASSUME BufInv, bcs_read_number
  PROVE  ReaderOK /\ OutInv'
<1>1. "number" \in BcsOperations
  BY DEF BcsOperations
<1>2. CASE \E k \in 1..MaxGroups : Fits(k) /\ Reads("number", k, k, TRUE)
  <2>0. PICK k \in 1..MaxGroups : Fits(k) /\ Reads("number", k, k, TRUE)
    BY <1>2
  <2>1. k \in Nat
    BY <2>0
  <2>2. Left(k)
    BY <2>0, <2>1, FitsInBuffer
  <2> QED BY <1>1, <2>0, <2>1, <2>2, ReadsAllOK, NoOutputOK DEF bcs_read_number
<1>3. CASE \E k \in GroupsFailed : Reads("number", k, k, FALSE)
  BY <1>1, <1>3, GroupsFailedInBuffer, ReadsAllOK, NoOutputOK DEF bcs_read_number
<1> QED BY <1>2, <1>3 DEF bcs_read_number

\* A number that cannot be read.
LEMMA NumberFailedOK ==
  ASSUME BufInv, NEW op \in BcsOperations, NumberFailed(op)
  PROVE  ReaderOK /\ last'.op = op /\ ~last'.ok
<1>1. PICK k \in GroupsFailed : Reads(op, k, k, FALSE)
  BY DEF NumberFailed
<1>2. k \in Nat /\ Left(k)
  BY GroupsFailedInBuffer
<1>3. last'.op = op /\ last'.ok = FALSE
  BY <1>1 DEF Reads, Call
<1> QED BY <1>1, <1>2, <1>3, ReadsAllOK

\* A number that is too large for a length.
LEMMA LengthTooLargeOK ==
  ASSUME BufInv, NEW op \in BcsOperations, NEW n \in Lengths, LengthTooLarge(op, n)
  PROVE  ReaderOK /\ last'.op = op /\ ~last'.ok
<1>1. Fits(Groups(n)) /\ Reads(op, Groups(n), Groups(n), FALSE)
  BY DEF LengthTooLarge
<1>2. Groups(n) \in Nat
  BY GroupsType, BcsAssumption
<1>3. Left(Groups(n))
  BY <1>1, <1>2, FitsInBuffer
<1> QED BY <1>1, <1>2, <1>3, ReadsAllOK DEF Reads, Call

\* What a reader that fails may leave: nothing behind the room.
LEMMA FailedOutput ==
  ASSUME NEW written \in Nat, NEW room \in Nat, NEW told \in Nat,
         ~last'.ok, written <= room, Writes(written, room, told)
  PROVE  OutInv'
BY DEF Writes, OutInv, OutputInRoom

\* A length the bytes can say.
LEMMA LengthType == ASSUME NEW n \in Lengths PROVE n \in SizeT /\ n \in Nat
<1>1. n \in SizeT
  BY BcsAssumption, SizeModAssumption DEF SizeT
<1> QED BY <1>1 DEF SizeT

\* bcs_read_length.
LEMMA LengthOK ==
  ASSUME BufInv, bcs_read_length
  PROVE  ReaderOK /\ OutInv'
<1>1. "length" \in BcsOperations
  BY DEF BcsOperations
<1>2. CASE NumberFailed("length") /\ out' = NoOutput
  BY <1>1, <1>2, NumberFailedOK, NoOutputOK
<1>3. ASSUME NEW n \in Lengths, Writes(0, 0, n), LengthTooLarge("length", n)
      PROVE  ReaderOK /\ OutInv'
  <2>1. ReaderOK /\ ~last'.ok
    BY <1>1, <1>3, LengthTooLargeOK
  <2>2. OutInv'
    BY <1>3, <2>1, LengthType, FailedOutput
  <2> QED BY <2>1, <2>2
<1>4. ASSUME NEW n \in Lengths, Writes(0, 0, n), LengthRead(n, Groups(n)),
             Reads("length", Groups(n), Groups(n), TRUE)
      PROVE  ReaderOK /\ OutInv'
  <2>1. Groups(n) \in Nat /\ n \in Nat
    BY GroupsType, LengthType, BcsAssumption
  <2>2. Left(Groups(n)) /\ n <= MAX_SEQUENCE_LENGTH
    BY <1>4, <2>1, FitsInBuffer DEF LengthRead
  <2>3. ReaderOK
    BY <1>1, <1>4, <2>1, <2>2, ReadsAllOK
  <2>4. OutInv'
    <3>1. last'.op = "length" /\ out' = [written |-> 0, room |-> 0, told |-> n]
      BY <1>4 DEF Reads, Call, Writes
    <3> QED BY <2>1, <2>2, <3>1 DEF OutInv, OutputInRoom
  <2> QED BY <2>3, <2>4
<1> QED BY <1>2, <1>3, <1>4 DEF bcs_read_length, Tells

\* A length that was accepted: its groups are in the buffer.
LEMMA LengthReadInBuffer ==
  ASSUME BufInv, NEW n \in Lengths, NEW k \in 1..MaxGroups, LengthRead(n, k)
  PROVE  n \in SizeT /\ n \in Nat /\ k \in Nat /\ Fits(k) /\ Left(k)
<1>1. n \in SizeT
  BY BcsAssumption, SizeModAssumption DEF SizeT
<1>2. n \in Nat /\ k \in Nat
  BY <1>1, BcsAssumption DEF SizeT
<1> QED BY <1>1, <1>2, FitsInBuffer DEF LengthRead

\* bcs_read_string, into the room its caller has.
LEMMA StringOK ==
  ASSUME BufInv, NEW room \in OutSizes, bcs_read_string(room)
  PROVE  ReaderOK /\ OutInv'
<1>1. "string" \in BcsOperations /\ room \in Nat
  BY BcsAssumption DEF BcsOperations, SizeT
<1>2. CASE NumberFailed("string") /\ out' = NoOutput
  BY <1>1, <1>2, NumberFailedOK, NoOutputOK
<1>3. CASE \E n \in Lengths : LengthTooLarge("string", n) /\ out' = NoOutput
  BY <1>1, <1>3, LengthTooLargeOK, NoOutputOK
<1>4. ASSUME NEW n \in Lengths, NEW k \in 1..MaxGroups, LengthRead(n, k),
             IF FitsBehind(k, n)
               THEN \E written \in Characters(n, room) :
                      \/ /\ n <= 4 * written
                         /\ Reads("string", k + n, k + n, TRUE)
                         /\ Writes(written, room, written)
                      \/ /\ \E seen \in (written + 1)..n : Reads("string", k + seen, k, FALSE)
                         /\ Writes(written, room, 0)
               ELSE Reads("string", k, k, FALSE) /\ out' = NoOutput
      PROVE  ReaderOK /\ OutInv'
  <2>1. n \in Nat /\ k \in Nat /\ Fits(k) /\ Left(k)
    BY <1>4, LengthReadInBuffer
  <2>2. CASE ~FitsBehind(k, n)
    BY <1>1, <1>4, <2>1, <2>2, ReadsAllOK, NoOutputOK
  <2>3. CASE FitsBehind(k, n)
    <3>1. Left(k + n) /\ k + n \in Nat
      BY <2>1, <2>3, BehindInBuffer
    <3>2. PICK written \in Characters(n, room) :
            \/ Reads("string", k + n, k + n, TRUE) /\ Writes(written, room, written)
            \/ /\ \E seen \in (written + 1)..n : Reads("string", k + seen, k, FALSE)
               /\ Writes(written, room, 0)
      BY <1>4, <2>3
    <3>3. written \in Nat /\ written <= room
      <4>1. Min({n, room}) \in Nat /\ Min({n, room}) <= room
        BY <1>1, <2>1, MinOfTwo
      <4> QED BY <1>1, <4>1 DEF Characters
    <3>4. CASE Reads("string", k + n, k + n, TRUE) /\ Writes(written, room, written)
      <4>1. ReaderOK
        BY <1>1, <3>1, <3>4, ReadsAllOK
      <4>2. OutInv'
        BY <1>1, <3>1, <3>3, <3>4, WritesOK
      <4> QED BY <4>1, <4>2
    <3>5. ASSUME NEW seen \in (written + 1)..n, Reads("string", k + seen, k, FALSE),
                 Writes(written, room, 0)
          PROVE  ReaderOK /\ OutInv'
      <4>1. seen \in Nat /\ seen <= n
        BY <2>1, <3>3, <3>5
      <4>2. k + seen \in Nat /\ k <= k + seen /\ Left(k + seen)
        BY <2>1, <3>1, <4>1, BufNumbers DEF Left
      <4>3. ReaderOK
        BY <1>1, <2>1, <3>5, <4>2, ReadsOK
      <4>4. OutInv'
        <5>1. ~last'.ok
          BY <3>5 DEF Reads, Call
        <5> QED BY <1>1, <3>3, <3>5, <5>1, FailedOutput
      <4> QED BY <4>3, <4>4
    <3> QED BY <3>2, <3>4, <3>5
  <2> QED BY <2>2, <2>3
<1> QED BY <1>2, <1>3, <1>4 DEF bcs_read_string

\* bcs_read_fixed_bytes.
LEMMA FixedBytesOK ==
  ASSUME BufInv, NEW op, NEW size \in Nat, NEW room \in Nat, Target(op, size, room),
         bcs_read_fixed_bytes(op, size, room)
  PROVE  ReaderOK /\ OutInv'
<1>1. CASE Fits(size)
  <2>1. Reads(op, size, size, TRUE) /\ Writes(size, room, size)
    BY <1>1 DEF bcs_read_fixed_bytes
  <2> QED BY <1>1, <2>1, ScalarReadOK
<1>2. CASE ~Fits(size)
  <2>1. Reads(op, 0, 0, FALSE) /\ Writes(0, room, size)
    BY <1>2 DEF bcs_read_fixed_bytes
  <2> QED BY <2>1, ScalarRefusedOK
<1> QED BY <1>1, <1>2

\* bcs_read_ptr_to_fixed_bytes.
LEMMA PtrToFixedBytesOK ==
  ASSUME BufInv, NEW size \in Nat, bcs_read_ptr_to_fixed_bytes(size)
  PROVE  ReaderOK /\ OutInv'
<1>1. "ptr_to_fixed_bytes" \in BcsOperations /\ OutInv'
  BY NoOutputOK DEF BcsOperations, bcs_read_ptr_to_fixed_bytes
<1>2. CASE Fits(size)
  BY <1>1, <1>2, FitsInBuffer, ReadsAllOK DEF bcs_read_ptr_to_fixed_bytes
<1>3. CASE ~Fits(size)
  BY <1>1, <1>3, RefusesOK DEF bcs_read_ptr_to_fixed_bytes
<1> QED BY <1>2, <1>3

\* bcs_read_dynamic_bytes, into the room its caller has.
LEMMA DynamicBytesOK ==
  ASSUME BufInv, NEW room \in OutSizes, bcs_read_dynamic_bytes(room)
  PROVE  ReaderOK /\ OutInv'
<1>1. "dynamic_bytes" \in BcsOperations /\ room \in Nat
  BY BcsAssumption DEF BcsOperations, SizeT
<1>2. CASE NumberFailed("dynamic_bytes") /\ Writes(0, room, 0)
  <2>1. ReaderOK /\ ~last'.ok
    BY <1>1, <1>2, NumberFailedOK
  <2> QED BY <1>1, <1>2, <2>1, FailedOutput
<1>3. ASSUME NEW n \in Lengths, LengthTooLarge("dynamic_bytes", n), Writes(0, room, n)
      PROVE  ReaderOK /\ OutInv'
  <2>1. ReaderOK /\ ~last'.ok
    BY <1>1, <1>3, LengthTooLargeOK
  <2> QED BY <1>1, <1>3, <2>1, LengthType, FailedOutput
<1>4. ASSUME NEW n \in Lengths, NEW k \in 1..MaxGroups, LengthRead(n, k),
             IF DynamicFits(n, room) /\ FitsBehind(k, n)
               THEN Reads("dynamic_bytes", k + n, k + n, TRUE) /\ Writes(n, room, n)
               ELSE Reads("dynamic_bytes", k, k, FALSE) /\ Writes(0, room, n)
      PROVE  ReaderOK /\ OutInv'
  <2>1. n \in Nat /\ k \in Nat /\ Fits(k) /\ Left(k)
    BY <1>4, LengthReadInBuffer
  <2>2. CASE ~(DynamicFits(n, room) /\ FitsBehind(k, n))
    <3>1. Reads("dynamic_bytes", k, k, FALSE) /\ Writes(0, room, n)
      BY <1>4, <2>2
    <3>2. ReaderOK
      BY <1>1, <2>1, <3>1, ReadsAllOK
    <3>3. ~last'.ok
      BY <3>1 DEF Reads, Call
    <3> QED BY <1>1, <2>1, <3>1, <3>2, <3>3, FailedOutput
  <2>3. CASE DynamicFits(n, room) /\ FitsBehind(k, n)
    <3>1. Left(k + n) /\ k + n \in Nat
      BY <2>1, <2>3, BehindInBuffer
    <3>2. Reads("dynamic_bytes", k + n, k + n, TRUE) /\ Writes(n, room, n)
      BY <1>4, <2>3
    <3>3. n <= room /\ n <= MAX_SEQUENCE_LENGTH
      BY <1>4, <2>3 DEF DynamicFits, LengthRead
    <3>4. ReaderOK
      BY <1>1, <3>1, <3>2, ReadsAllOK
    <3>5. OutInv'
      BY <1>1, <2>1, <3>1, <3>2, <3>3, WritesOK
    <3> QED BY <3>4, <3>5
  <2> QED BY <2>2, <2>3
<1> QED BY <1>2, <1>3, <1>4 DEF bcs_read_dynamic_bytes

\* bcs_read_type_tag_fixed, one tag at a time.
LEMMA TypeTagOK ==
  ASSUME BufInv,
         NEW tag \in {"bool", "u8", "u64", "u128", "address", "signer", "vector", "struct"},
         bcs_read_type_tag_fixed(tag)
  PROVE  ReaderOK /\ OutInv'
<1>1. /\ "type_tag" \in BcsOperations /\ ADDRESS_LEN \in Nat /\ PointerSize \in Nat
      /\ \A width \in Nat : Target("type_tag", width, PointerSize)
  BY BcsAssumption DEF BcsOperations, Target
<1>2. CASE tag = "bool"
  BY <1>1, <1>2, BoolOK DEF bcs_read_type_tag_fixed
<1>3. CASE tag = "u8"
  BY <1>1, <1>3, IntegerOK DEF bcs_read_type_tag_fixed
<1>4. CASE tag = "u64"
  BY <1>1, <1>4, IntegerOK DEF bcs_read_type_tag_fixed
<1>5. CASE tag = "u128"
  BY <1>1, <1>5, U128OK DEF bcs_read_type_tag_fixed
<1>6. CASE tag \in {"address", "signer"}
  BY <1>1, <1>6, FixedBytesOK DEF bcs_read_type_tag_fixed
<1>7. CASE tag \in {"vector", "struct"}
  BY <1>1, <1>7, RefusesOK, NoOutputOK DEF bcs_read_type_tag_fixed
<1> QED BY <1>2, <1>3, <1>4, <1>5, <1>6, <1>7

-----------------------------------------------------------------------------
\* Every step is a call of buffer.c, a reader or nothing.
LEMMA BcsStep ==
  ASSUME BcsInv, BcsNext
  PROVE  OutInv' /\ ((Next /\ CallOK) \/ ReaderOK)
<1>0. BufInv
  BY DEF BcsInv
<1>1. CASE Next /\ out' = NoOutput
  <2>1. CallOK
    BY <1>0, <1>1, CallStep
  <2> QED BY <1>1, <2>1, NoOutputOK
<1>2. CASE bcs_read_bool("bool", 1)
  BY <1>0, <1>2, BoolOK DEF Target
<1>3. CASE \E width \in {1, 2, 4, 8} :
             \E cleared \in {0, width} : bcs_read_integer("integer", width, cleared, width)
  BY <1>0, <1>3, IntegerOK DEF Target
<1>4. CASE bcs_read_u128("uint128", 16)
  BY <1>0, <1>4, U128OK DEF Target
<1>5. CASE bcs_not_implemented
  BY <1>0, <1>5, RefusesOK, NoOutputOK DEF bcs_not_implemented, BcsOperations
<1>6. CASE bcs_read_number
  BY <1>0, <1>6, NumberOK
<1>7. CASE bcs_read_length
  BY <1>0, <1>7, LengthOK
<1>8. CASE \E room \in OutSizes : bcs_read_string(room)
  BY <1>0, <1>8, StringOK
<1>9. CASE \E room \in OutSizes : bcs_read_fixed_bytes("fixed_bytes", room, room)
  <2>1. PICK room \in Nat : bcs_read_fixed_bytes("fixed_bytes", room, room)
    BY <1>9, BcsAssumption DEF SizeT
  <2>2. Target("fixed_bytes", room, room)
    BY DEF Target
  <2> QED BY <1>0, <2>1, <2>2, FixedBytesOK
<1>10. CASE \E room \in OutSizes : bcs_read_ptr_to_fixed_bytes(room)
  BY <1>0, <1>10, PtrToFixedBytesOK, BcsAssumption DEF SizeT
<1>11. CASE \E room \in OutSizes : bcs_read_dynamic_bytes(room)
  BY <1>0, <1>11, DynamicBytesOK
<1>12. CASE \E tag \in {"bool", "u8", "u64", "u128", "address", "signer", "vector", "struct"} :
              bcs_read_type_tag_fixed(tag)
  BY <1>0, <1>12, TypeTagOK
<1> QED
  BY <1>1, <1>2, <1>3, <1>4, <1>5, <1>6, <1>7, <1>8, <1>9, <1>10, <1>11, <1>12 DEF BcsNext

\* Nothing was read yet.
LEMMA BcsInit_Inv == BcsInit => BcsInv
BY CallInit, BcsAssumption
  DEF BcsInit, BcsInv, CallInv, LastInv, AccessInBuffer, OutInv, OutputInRoom, NoOutput

\* Every reader keeps the invariant.
LEMMA BcsInvStep == BcsInv /\ [BcsNext]_bcs_vars => BcsInv'
<1>1. ASSUME BcsInv, BcsNext PROVE BcsInv'
  <2>1. OutInv' /\ (CallOK \/ ReaderOK)
    BY <1>1, BcsStep
  <2>2. CASE CallOK
    BY <2>1, <2>2 DEF CallOK, LastInv, BcsInv, AccessInBuffer
  <2>3. CASE ReaderOK
    <3>1. BufInv' /\ OutInv'
      BY <2>1, <2>3 DEF ReaderOK
    <3>2. last' \in [op : Operations \cup BcsOperations, asked : Nat, from : SizeT, to : SizeT, ok : BOOLEAN]
      BY <2>3 DEF ReaderOK
    <3>3. AccessInBuffer'
      <4>1. last'.op # "read_bip32_path"
        BY <2>3 DEF ReaderOK, BcsOperations
      <4> QED BY <2>3, <4>1 DEF ReaderOK, AccessInBuffer
    <3> QED BY <3>1, <3>2, <3>3 DEF BcsInv
  <2> QED BY <2>1, <2>2, <2>3
<1>2. ASSUME BcsInv, UNCHANGED bcs_vars PROVE BcsInv'
  BY <1>2 DEF BcsInv, BufInv, AccessInBuffer, OutInv, OutputInRoom, bcs_vars
<1> QED BY <1>1, <1>2

\* The variables keep their types (decoder.c, buffer.c).
THEOREM BcsTypeCorrect == BcsSpec => []TypeOK
<1>1. BcsInv => TypeOK
  BY DEF BcsInv, BufInv, OutInv, TypeOK
<1> QED BY <1>1, BcsInit_Inv, BcsInvStep, PTL DEF BcsSpec

\* The readers of BCS values keep the cursor in the buffer too (decoder.c).
THEOREM BcsCursorSafe == BcsSpec => []CursorInBuffer
<1>1. BcsInv => CursorInBuffer
  BY DEF BcsInv, BufInv, CursorInBuffer
<1> QED BY <1>1, BcsInit_Inv, BcsInvStep, PTL DEF BcsSpec

\* They access nothing outside it (decoder.c:30-204).
THEOREM BcsAccessSafe == BcsSpec => []AccessInBuffer
<1>1. BcsInv => AccessInBuffer
  BY DEF BcsInv
<1> QED BY <1>1, BcsInit_Inv, BcsInvStep, PTL DEF BcsSpec

\* Texts and bytes with a length stay in the room of their caller, whatever length
\* the bytes say, a success tells what was written and a length that is allowed;
\* a type tag writes as far as it tells, which can be past the pointer it writes
\* to (decoder.c:142-147, 158-227, utf8.c:7-13).
THEOREM OutputSafe == BcsSpec => []OutputInRoom
<1>1. BcsInv => OutputInRoom
  BY DEF BcsInv, OutInv
<1> QED BY <1>1, BcsInit_Inv, BcsInvStep, PTL DEF BcsSpec

\* What a reader that succeeds accessed is consumed, and one that fails in the
\* middle leaves the cursor within what it accessed (decoder.c:30-204).
THEOREM BcsConsumeSafe == BcsSpec => BcsConsumes
<1>1. BcsInv /\ [BcsNext]_bcs_vars =>
        [last'.op \in BcsOperations =>
           /\ last'.from = buf.offset
           /\ buf.offset <= buf'.offset /\ buf'.offset <= last'.to
           /\ last'.ok => buf'.offset = last'.to]_bcs_vars
  <2>1. CallOK => last'.op \in Operations
    BY DEF CallOK, LastInv
  <2>2. Operations \cap BcsOperations = {}
    BY DEF Operations, BcsOperations
  <2> QED BY <2>1, <2>2, BcsStep DEF ReaderOK
<1> QED BY <1>1, BcsInit_Inv, BcsInvStep, PTL DEF BcsSpec, BcsConsumes

\* The calls of buffer.c leave the cursor there among the readers of BCS values
\* too, which never change the size: the cut path and the move stay the only ones
\* that succeed and consume nothing.
THEOREM BcsReadsConsume == BcsSpec => ReadsConsume
<1> DEFINE Consumes ==
      /\ last'.op \in Consuming /\ last'.ok =>
            /\ last'.from = buf.offset
            /\ buf'.offset = IF buf.offset + last'.asked <= buf.size THEN last'.to ELSE buf.offset
      /\ last'.op \in {"read", "read_varint"} /\ last'.ok => buf.offset + last'.asked <= buf.size
      /\ last'.op \in Operations /\ (last'.op = "copy" \/ ~last'.ok) => UNCHANGED buf
      /\ buf'.size = buf.size
<1>1. BcsInv /\ [BcsNext]_bcs_vars => [Consumes]_vars
  <2>1. ASSUME CallOK PROVE Consumes
    BY <2>1 DEF CallOK
  <2>2. ASSUME ReaderOK PROVE Consumes
    <3>1. last'.op \notin Operations /\ buf'.size = buf.size
      BY <2>2 DEF ReaderOK, Operations, BcsOperations
    <3>2. Consuming \subseteq Operations /\ {"read", "read_varint"} \subseteq Operations
      BY DEF Operations, Consuming
    <3> QED BY <3>1, <3>2
  <2>3. UNCHANGED bcs_vars => UNCHANGED vars
    BY DEF bcs_vars, vars
  <2> HIDE DEF Consumes
  <2> QED BY <2>1, <2>2, <2>3, BcsStep
<1> QED BY <1>1, BcsInit_Inv, BcsInvStep, PTL DEF BcsSpec, ReadsConsume

=============================================================================
