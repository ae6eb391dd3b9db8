---------------------------- MODULE MCBcsCursor ----------------------------
(***************************************************************************)
(* A size_t of 6 bits: sums of two arguments wrap around, a path does not.  *)
(* Numbers have groups of 4 bits, two of which can be over the 6 bits of    *)
(* UINT32_MAX; lengths are around the size of the buffer and the maximum.   *)
(***************************************************************************)
EXTENDS BcsCursor

\* Around 0, around the size and around the wrap-around.
MCArguments == 0..(MaxSize + 1) \cup {SizeMod - MaxSize, SizeMod - 2, SizeMod - 1}
MCLengths == {0, 1, 2, 5, 15, 16, 17, MaxSize, MAX_SEQUENCE_LENGTH, MAX_SEQUENCE_LENGTH + 1, UINT32_MAX}
MCOutSizes == {0, 1, 4, 16}

=============================================================================
