------------------------------ MODULE TxParser ------------------------------
(***************************************************************************)
(* transaction/deserialize.c over bcs/decoder.c: the raw transaction is     *)
(* read field by field through two cursors, one from its front and one over *)
(* its footer, whose place is computed from the end.                        *)
(*                                                                         *)
(* A field of the parsed transaction is the slice of the bytes it was read  *)
(* from; its value is what those bytes say.  The lengths, the names and the *)
(* radix of the uleb128 numbers are constants, so that small ones can be    *)
(* checked; bytes are 0..2*Radix-1.                                         *)
(***************************************************************************)
EXTENDS Buffer, Arithmetic, Sequences

CONSTANTS
  RawTxs,                         \* the raw transactions to parse
  MAX_TX_LEN,
  PREFIX_RAW_TX_HASHED, PREFIX_RAW_TX_WITH_DATA_HASHED,
  TX_HASHED_PREFIX_LEN, ADDRESS_LEN, U64_LEN,
  AptosAccount, Coin, Transfer,   \* the bytes of the known names
  Radix, MaxGroups, UINT32_MAX    \* 128, 5 and 2^32 - 1

Byte == 0..(2 * Radix - 1)
TX_FOOTER_LEN == 3 * U64_LEN + 1

ASSUME ParserAssumption ==
  /\ Radix \in Nat \ {0, 1} /\ MaxGroups \in Nat \ {0} /\ UINT32_MAX \in Nat
  /\ TX_HASHED_PREFIX_LEN \in SizeT /\ ADDRESS_LEN \in Nat \ {0} /\ U64_LEN \in Nat
  /\ MAX_TX_LEN \in Nat /\ MAX_TX_LEN < SizeMod
  /\ RawTxs \subseteq Seq(Byte)
  /\ \A raw \in RawTxs : Len(raw) < SizeMod
\* 32 + 32 + 8 bytes are read before the 25 of the footer.
ASSUME FooterAssumption == TX_FOOTER_LEN <= TX_HASHED_PREFIX_LEN + ADDRESS_LEN + U64_LEN

PAYLOAD_SCRIPT == 0
PAYLOAD_ENTRY_FUNCTION == 2
TYPE_TAG_STRUCT == 7

-----------------------------------------------------------------------------
(* What is read: the fields in their order, with their error codes. *)

\* A field of n bytes, a uleb128 number that must be one of values, and the
\* bytes whose number the field `of' holds.
Bytes(name, n, fail) == [kind |-> "bytes", name |-> name, len |-> n, fail |-> fail]
Number(name, fail, values, unexpected) ==
  [kind |-> "number", name |-> name, fail |-> fail, values |-> values, unexpected |-> unexpected]
Length(name, fail) == Number(name, fail, 0..UINT32_MAX, fail)
Text(name, of, fail) == [kind |-> "text", name |-> name, of |-> of, fail |-> fail]

Raw == << Bytes("sender", ADDRESS_LEN, "SENDER_READ_ERROR"),
          Bytes("sequence", U64_LEN, "SEQUENCE_READ_ERROR") >>
Footer == << Bytes("max_gas_amount", U64_LEN, "MAX_GAS_READ_ERROR"),
             Bytes("gas_unit_price", U64_LEN, "GAS_UNIT_PRICE_READ_ERROR"),
             Bytes("expiration_timestamp_secs", U64_LEN, "EXPIRATION_READ_ERROR"),
             Bytes("chain_id", 1, "CHAIN_ID_READ_ERROR") >>
Payload == << Number("payload_variant", "PAYLOAD_VARIANT_READ_ERROR",
                     {PAYLOAD_SCRIPT, PAYLOAD_ENTRY_FUNCTION}, "PAYLOAD_UNDEFINED_ERROR") >>
EntryFunction ==
  << Bytes("module_address", ADDRESS_LEN, "MODULE_ID_ADDR_READ_ERROR"),
     Length("module_name_len", "MODULE_ID_NAME_LEN_READ_ERROR"),
     Text("module_name", "module_name_len", "MODULE_ID_NAME_BYTES_READ_ERROR"),
     Length("function_name_len", "FUNCTION_NAME_LEN_READ_ERROR"),
     Text("function_name", "function_name_len", "FUNCTION_NAME_BYTES_READ_ERROR") >>

\* Variant: the length of the receiver not compared (deserialize.c:292-294).
Arguments_AnyReceiver ==
  << Number("args_size", "ARGS_SIZE_READ_ERROR", {2}, "ARGS_SIZE_UNEXPECTED_ERROR"),
     Length("receiver_len", "RECEIVER_ADDR_LEN_READ_ERROR"),
     Bytes("receiver", ADDRESS_LEN, "RECEIVER_ADDR_READ_ERROR"),
     Number("amount_len", "AMOUNT_LEN_READ_ERROR", {U64_LEN}, "WRONG_AMOUNT_LEN_ERROR"),
     Bytes("amount", U64_LEN, "AMOUNT_READ_ERROR") >>

\* Both transfers end with the same two arguments.
Arguments ==
  << Number("args_size", "ARGS_SIZE_READ_ERROR", {2}, "ARGS_SIZE_UNEXPECTED_ERROR"),
     Number("receiver_len", "RECEIVER_ADDR_LEN_READ_ERROR", {ADDRESS_LEN}, "WRONG_ADDRESS_LEN_ERROR"),
     Bytes("receiver", ADDRESS_LEN, "RECEIVER_ADDR_READ_ERROR"),
     Number("amount_len", "AMOUNT_LEN_READ_ERROR", {U64_LEN}, "WRONG_AMOUNT_LEN_ERROR"),
     Bytes("amount", U64_LEN, "AMOUNT_READ_ERROR") >>
AccountTransfer ==
  << Number("ty_size", "TYPE_ARGS_SIZE_READ_ERROR", {0}, "TYPE_ARGS_SIZE_UNEXPECTED_ERROR") >>
  \o Arguments
CoinType ==
  << Number("ty_size", "TYPE_ARGS_SIZE_READ_ERROR", {1}, "-TYPE_ARGS_SIZE_UNEXPECTED_ERROR"),
     Number("ty_arg_variant", "TYPE_TAG_READ_ERROR", {TYPE_TAG_STRUCT}, "TYPE_TAG_UNEXPECTED_ERROR"),
     Bytes("coin_address", ADDRESS_LEN, "STRUCT_ADDRESS_READ_ERROR"),
     Length("coin_module_len", "STRUCT_MODULE_LEN_READ_ERROR"),
     Text("coin_module", "coin_module_len", "STRUCT_MODULE_BYTES_READ_ERROR"),
     Length("coin_name_len", "STRUCT_NAME_LEN_READ_ERROR"),
     Text("coin_name", "coin_name_len", "STRUCT_NAME_BYTES_READ_ERROR"),
     Number("coin_type_args_size", "STRUCT_TYPE_ARGS_SIZE_READ_ERROR", {0},
            "STRUCT_TYPE_ARGS_SIZE_UNEXPECTED_ERROR") >>
CoinTransfer == CoinType \o Arguments

Fields == [raw |-> Raw, footer |-> Footer, payload |-> Payload, entry_function |-> EntryFunction,
           account_transfer |-> AccountTransfer, coin_transfer |-> CoinTransfer]
Parts == DOMAIN Fields
NamesOf(part) == {Fields[part][i].name : i \in DOMAIN Fields[part]}
FieldNames == UNION {NamesOf(p) : p \in Parts}

-----------------------------------------------------------------------------
VARIABLES
  raw,         \* the bytes: buf->ptr
  buf,         \* the cursor over them
  buf_footer,  \* the cursor over the footer
  at, next,    \* the part being read and its next field; at = "start", "done"
  tx,          \* the slice each field was read from
  variant,     \* tx_variant
  known_type,
  status       \* what transaction_deserialize returns

vars == <<raw, buf, buf_footer, at, next, tx, variant, known_type, status>>

Slice(from, to) == [from |-> from, to |-> to]
Unread == Slice(0, 0)
SliceBytes(s) == SubSeq(raw, s.from + 1, s.to)

-----------------------------------------------------------------------------
(* bcs/decoder.c: numbers in uleb128. *)

\* The bytes of the number at offset o up to and with its last group.
GroupsAt(o) == {k \in 1..MaxGroups : /\ o + k <= Len(raw) /\ raw[o + k] < Radix
                                     /\ \A j \in 1..(k - 1) : raw[o + j] >= Radix}

\* The value of the first k groups at offset o, the low ones first.
ValueAt(o, k) ==
  RunningSum([j \in 1..k |-> (raw[o + j] % Radix) * Power(Radix, j - 1)], k)

\* Variants: a last group of zero is accepted (decoder.c:121-124 dropped); a
\* number of more than 32 bits is (decoder.c:116-119 dropped).
IsNumber_Padded(o, k) == k \in GroupsAt(o) /\ ValueAt(o, k) <= UINT32_MAX
IsNumber_AnySize(o, k) == k \in GroupsAt(o) /\ (k > 1 => raw[o + k] # 0)

\* bcs_read_u32_from_uleb128 reads k groups at offset o and returns true.  How
\* far a failed read got is left out: no cursor is used after a failure.
IsNumber(o, k) ==
  /\ k \in GroupsAt(o)
  /\ ValueAt(o, k) <= UINT32_MAX
  /\ k > 1 => raw[o + k] # 0

NumberIn(s) == ValueAt(s.from, s.to - s.from)

-----------------------------------------------------------------------------
(* transaction/deserialize.c *)

Return(code) ==
  /\ status' = code
  /\ at' = "done"
  /\ UNCHANGED next

Enter(part) ==
  /\ at' = part
  /\ next' = 1
  /\ UNCHANGED status

StartsWith(bytes) ==
  /\ buffer_can_read(buf, TX_HASHED_PREFIX_LEN)
  /\ SubSeq(raw, 1, TX_HASHED_PREFIX_LEN) = bytes

\* Before anything is read, and when an entry function is; what the arguments of
\* an earlier call were read from stays.
transaction_init ==
  [f \in FieldNames |-> IF f \in NamesOf("raw") \cup NamesOf("footer") \cup NamesOf("payload")
                          THEN Unread ELSE tx[f]]
entry_function_payload_init ==
  [f \in FieldNames |-> IF f \in NamesOf("entry_function") \cup {"ty_size", "args_size"}
                          THEN Unread ELSE tx[f]]

transaction_utils_check_encoding == \A i \in 1..Len(raw) : raw[i] < Radix

\* With tx_variant_deserialize: what begins with no known prefix is a message
\* when it is text.
transaction_deserialize ==
  /\ at = "start"
  /\ \/ /\ Len(raw) > MAX_TX_LEN
        /\ Return("WRONG_LENGTH_ERROR")
        /\ UNCHANGED <<buf, tx, variant>>
     \/ /\ Len(raw) <= MAX_TX_LEN
        /\ StartsWith(PREFIX_RAW_TX_WITH_DATA_HASHED)
        /\ tx' = transaction_init
        /\ variant' = "TX_RAW_WITH_DATA"
        /\ buf' = buffer_seek_cur(buf, TX_HASHED_PREFIX_LEN)
        /\ Return("PARSING_OK")
     \/ /\ Len(raw) <= MAX_TX_LEN
        /\ StartsWith(PREFIX_RAW_TX_HASHED)
        /\ tx' = transaction_init
        /\ variant' = "TX_RAW"
        /\ buf' = buffer_seek_cur(buf, TX_HASHED_PREFIX_LEN)
        /\ Enter("raw")
     \/ /\ Len(raw) <= MAX_TX_LEN
        /\ ~StartsWith(PREFIX_RAW_TX_HASHED) /\ ~StartsWith(PREFIX_RAW_TX_WITH_DATA_HASHED)
        /\ tx' = transaction_init
        /\ IF transaction_utils_check_encoding
             THEN variant' = "TX_MESSAGE" /\ UNCHANGED buf /\ Return("PARSING_OK")
             ELSE /\ buf' = buffer_seek_cur(buf, TX_HASHED_PREFIX_LEN)
                  /\ Return("TX_VARIANT_UNDEFINED_ERROR")
                  /\ variant' = "TX_UNDEFINED"
  /\ UNCHANGED <<raw, buf_footer, known_type>>

Reading == at \in Parts /\ next <= Len(Fields[at])
Field == Fields[at][next]
Cursor == IF at = "footer" THEN buf_footer ELSE buf

\* The field is read from the next n bytes.
Took(n) ==
  /\ tx' = [tx EXCEPT ![Field.name] = Slice(Cursor.offset, Cursor.offset + n)]
  /\ IF at = "footer" THEN buf_footer' = buffer_seek_cur(buf_footer, n) /\ UNCHANGED buf
                      ELSE buf' = buffer_seek_cur(buf, n) /\ UNCHANGED buf_footer

Failed(code) == Return(code) /\ UNCHANGED <<tx, buf, buf_footer>>
NextField == next' = next + 1 /\ UNCHANGED <<at, status>>

FieldLen == IF Field.kind = "text" THEN NumberIn(tx[Field.of]) ELSE Field.len

\* Variant: the room for a name is not looked at (decoder.c:187-189 dropped).
Fits_Text(n) == Field.kind = "text" \/ buffer_can_read(Cursor, n)

Fits(n) == buffer_can_read(Cursor, n)

\* bcs_read_fixed_bytes, bcs_read_ptr_to_fixed_bytes, bcs_read_u64, bcs_read_u8.
read_bytes ==
  /\ Reading
  /\ Field.kind \in {"bytes", "text"}
  /\ IF Fits(FieldLen)
       THEN Took(FieldLen) /\ NextField
       ELSE Failed(Field.fail)
  /\ UNCHANGED <<raw, variant, known_type>>

\* bcs_read_u32_from_uleb128 and the comparison that follows it.
read_number ==
  /\ Reading
  /\ Field.kind = "number"
  /\ \/ /\ \A k \in 1..MaxGroups : ~IsNumber(Cursor.offset, k)
        /\ Failed(Field.fail)
     \/ \E k \in 1..MaxGroups :
          /\ IsNumber(Cursor.offset, k)
          /\ Took(k)
          /\ IF ValueAt(Cursor.offset, k) \in Field.values THEN NextField ELSE Return(Field.unexpected)
  /\ UNCHANGED <<raw, variant, known_type>>

End(part) == at = part /\ next > Len(Fields[part])

\* Variant: the footer is taken to follow what was read (deserialize.c:46-47).
FooterBegin_AtCursor == buf.offset

FooterBegin == Minus(buf.size, TX_FOOTER_LEN)

end_raw ==
  /\ End("raw")
  /\ buf_footer' = [buf EXCEPT !.offset = FooterBegin]
  /\ Enter("footer")
  /\ UNCHANGED <<raw, buf, tx, variant, known_type>>

end_footer ==
  /\ End("footer")
  /\ Enter("payload")
  /\ UNCHANGED <<raw, buf, buf_footer, tx, variant, known_type>>

\* The fields of a script are not parsed.
end_payload ==
  /\ End("payload")
  /\ IF NumberIn(tx["payload_variant"]) = PAYLOAD_ENTRY_FUNCTION
       THEN /\ Enter("entry_function")
            /\ tx' = entry_function_payload_init
            /\ known_type' = "FUNC_UNKNOWN"
       ELSE Return("PARSING_OK") /\ UNCHANGED <<tx, known_type>>
  /\ UNCHANGED <<raw, buf, buf_footer, variant>>

\* memcmp over as many bytes as the known name has, whatever the length that
\* was read.  What lies behind the transaction is zero and matches no letter.
SameBytes(s, name) ==
  /\ s.from + Len(name) <= Len(raw)
  /\ SubSeq(raw, s.from + 1, s.from + Len(name)) = name

\* Only the last byte of the module's address is looked at.
determine_function_type ==
  IF ~(raw[tx["module_address"].to] = 1 /\ SameBytes(tx["function_name"], Transfer))
    THEN "FUNC_UNKNOWN"
  ELSE IF SameBytes(tx["module_name"], AptosAccount) THEN "FUNC_APTOS_ACCOUNT_TRANSFER"
  ELSE IF SameBytes(tx["module_name"], Coin) THEN "FUNC_COIN_TRANSFER"
  ELSE "FUNC_UNKNOWN"

end_entry_function ==
  /\ End("entry_function")
  /\ known_type' = determine_function_type
  /\ CASE known_type' = "FUNC_APTOS_ACCOUNT_TRANSFER" -> Enter("account_transfer")
       [] known_type' = "FUNC_COIN_TRANSFER" -> Enter("coin_transfer")
       [] known_type' = "FUNC_UNKNOWN" -> Return("PARSING_OK")
  /\ UNCHANGED <<raw, buf, buf_footer, tx, variant>>

\* Variant: the transfer may end anywhere (deserialize.c:82-84 dropped).
AccountTransferLength_Any == TRUE

AccountTransferLength == buf.offset = FooterBegin

\* Where the payload ended is compared with the footer here ...
end_account_transfer ==
  /\ End("account_transfer")
  /\ Return(IF AccountTransferLength THEN "PARSING_OK" ELSE "WRONG_LENGTH_ERROR")
  /\ UNCHANGED <<raw, buf, buf_footer, tx, variant, known_type>>

\* ... and is not here.
end_coin_transfer ==
  /\ End("coin_transfer")
  /\ Return("PARSING_OK")
  /\ UNCHANGED <<raw, buf, buf_footer, tx, variant, known_type>>

Init ==
  /\ raw \in RawTxs
  /\ buf = [size |-> Len(raw), offset |-> 0]
  /\ buf_footer = buf
  /\ at = "start"
  /\ next = 1
  /\ tx = [f \in FieldNames |-> Unread]
  /\ variant = "TX_UNDEFINED"
  /\ known_type = "FUNC_UNKNOWN"
  /\ status = "none"

Next ==
  \/ transaction_deserialize
  \/ read_bytes
  \/ read_number
  \/ end_raw
  \/ end_footer
  \/ end_payload
  \/ end_entry_function
  \/ end_account_transfer
  \/ end_coin_transfer

Spec == Init /\ [][Next]_vars

=============================================================================
