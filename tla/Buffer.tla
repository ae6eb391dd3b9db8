------------------------------- MODULE Buffer -------------------------------
(***************************************************************************)
(* common/buffer.c: a buffer_t is a pointer, a size and an offset.  Only    *)
(* the two numbers are here, with the wrap-around of size_t: the checks are *)
(* written as differences, and hold what they promise only while the offset *)
(* is not past the size.                                                    *)
(***************************************************************************)
EXTENDS Integers

CONSTANT SizeMod  \* 2^w for a size_t of w bits

ASSUME SizeModAssumption == SizeMod \in Nat \ {0}

SizeT == 0..(SizeMod - 1)
buffer_t == [size : SizeT, offset : SizeT]

\* a - b and a + b of size_t.
Minus(a, b) == IF a >= b THEN a - b ELSE a - b + SizeMod
Plus(a, b) == IF a + b < SizeMod THEN a + b ELSE a + b - SizeMod

\* Variant: the check off by one.
buffer_can_read_OneMore(b, n) == Plus(Minus(b.size, b.offset), 1) >= n

buffer_can_read(b, n) == Minus(b.size, b.offset) >= n

CanSeekSet(b, n) == n <= b.size
buffer_seek_set(b, n) == IF CanSeekSet(b, n) THEN [b EXCEPT !.offset = n] ELSE b

CanSeekCur(b, n) == Plus(b.offset, n) >= b.offset /\ Plus(b.offset, n) <= b.size
buffer_seek_cur(b, n) ==
  IF CanSeekCur(b, n) THEN [b EXCEPT !.offset = Plus(b.offset, n)] ELSE b

\* Variant: the bound of seek_end dropped (buffer.c:53).
buffer_seek_end_Unchecked(b, n) == [b EXCEPT !.offset = Minus(b.size, n)]

CanSeekEnd(b, n) == n <= b.size
buffer_seek_end(b, n) ==
  IF CanSeekEnd(b, n) THEN [b EXCEPT !.offset = Minus(b.size, n)] ELSE b

=============================================================================
