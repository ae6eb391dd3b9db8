---------------------------- MODULE TxParserProofs ----------------------------
(***************************************************************************)
(* The parser of transaction/deserialize.c for every transaction, every     *)
(* length of its fields, every radix and every width of size_t: the cursors *)
(* and the fields stay inside the bytes, a number has one encoding, and     *)
(* what is accepted is the encoding of what was parsed from it.             *)
(*                                                                         *)
(* The proofs read the fields through one fact on the tables (Tables), not  *)
(* through the tables.  The encodings of numbers are a recursive function;  *)
(* that it exists is proved by induction, from the fact that a set of       *)
(* natural numbers has a least member (ArithmeticProofs).                   *)
(*                                                                         *)
(* ChainInv says where each field that was read begins and how long it is,  *)
(* so that the fields follow each other without a gap.  The pieces of the   *)
(* bytes that they are then join to the front of the transaction, and, when *)
(* the payload ends where the footer begins, to all of it.                  *)
(***************************************************************************)
EXTENDS TxParserProperties, ArithmeticProofs, SequenceTheorems

-----------------------------------------------------------------------------
(* The checks and the seeks that the parser makes of a buffer. *)

\* A read that is allowed lies in the buffer, provided that the cursor does.
LEMMA CanReadInBuffer ==
  ASSUME NEW b \in buffer_t, b.offset <= b.size, NEW n \in Nat, buffer_can_read(b, n)
  PROVE  b.offset + n <= b.size
BY DEF buffer_can_read, Minus, buffer_t, SizeT

\* Seeking forward by what is in the buffer moves the cursor by as much.
LEMMA SeekCurMoves ==
  ASSUME NEW b \in buffer_t, NEW n \in Nat, b.offset + n <= b.size
  PROVE  /\ CanSeekCur(b, n)
         /\ buffer_seek_cur(b, n) = [b EXCEPT !.offset = b.offset + n]
<1>1. b.offset + n < SizeMod /\ b.offset + n >= b.offset
  BY SizeModAssumption DEF buffer_t, SizeT
<1>2. Plus(b.offset, n) = b.offset + n
  BY <1>1 DEF Plus
<1> QED
  BY <1>1, <1>2 DEF CanSeekCur, buffer_seek_cur

-----------------------------------------------------------------------------
(* The tables of the fields. *)

\* The names of the fields of each part, in their order.
ArgumentNames == <<"args_size", "receiver_len", "receiver", "amount_len", "amount">>
Names == [raw |-> <<"sender", "sequence">>,
          footer |-> <<"max_gas_amount", "gas_unit_price", "expiration_timestamp_secs", "chain_id">>,
          payload |-> <<"payload_variant">>,
          entry_function |-> <<"module_address", "module_name_len", "module_name",
                               "function_name_len", "function_name">>,
          account_transfer |-> <<"ty_size", "args_size", "receiver_len", "receiver",
                                 "amount_len", "amount">>,
          coin_transfer |-> <<"ty_size", "ty_arg_variant", "coin_address", "coin_module_len",
                              "coin_module", "coin_name_len", "coin_name",
                              "coin_type_args_size", "args_size", "receiver_len", "receiver",
                              "amount_len", "amount">>]
\* The fields that are numbers.
Numbers == {"payload_variant", "module_name_len", "function_name_len", "ty_size", "args_size",
            "receiver_len", "amount_len", "ty_arg_variant", "coin_module_len", "coin_name_len",
            "coin_type_args_size"}

\* The parts.
PartSet == {"raw", "footer", "payload", "entry_function", "account_transfer", "coin_transfer"}

\* The parts of a transaction, by name.
LEMMA PartNames == Parts = PartSet
BY DEF Parts, Fields, PartSet

\* The table of each part.
LEMMA FieldsOf ==
  /\ Fields["raw"] = Raw /\ Fields["footer"] = Footer /\ Fields["payload"] = Payload
  /\ Fields["entry_function"] = EntryFunction
  /\ Fields["account_transfer"] = AccountTransfer /\ Fields["coin_transfer"] = CoinTransfer
BY DEF Fields

\* What every field of a table is.
FieldOK(f, name) ==
  /\ f.name = name
  /\ f.kind \in {"bytes", "text", "number"}
  /\ f.kind = "number" <=> name \in Numbers
  /\ f.kind = "bytes" => f.len \in Nat
  /\ f.fail # "PARSING_OK"
  /\ f.kind = "number" => f.unexpected # "PARSING_OK"
TableOK(fields, names) ==
  /\ Len(fields) = Len(names)
  /\ DOMAIN fields = 1..Len(names)
  /\ \A i \in 1..Len(names) : FieldOK(fields[i], names[i])
  /\ \A i \in 1..Len(names) : fields[i].kind = "text" =>
       i > 1 /\ fields[i].of = names[i - 1]

\* The sender and the sequence number (deserialize.c:37-44).
LEMMA RawTable == TableOK(Raw, Names["raw"])
BY ParserAssumption DEF TableOK, FieldOK, Raw, Names, Numbers, Bytes, Number, Text, Length

\* The gas, the expiration and the chain (deserialize.c:46-63).
LEMMA FooterTable == TableOK(Footer, Names["footer"])
BY ParserAssumption DEF TableOK, FieldOK, Footer, Names, Numbers, Bytes, Number, Text, Length

\* The variant of the payload (deserialize.c:65-73).
LEMMA PayloadTable == TableOK(Payload, Names["payload"])
BY ParserAssumption DEF TableOK, FieldOK, Payload, Names, Numbers, Bytes, Number, Text, Length

\* The function that is called, by its module and its name (deserialize.c:134-158).
LEMMA EntryTable == TableOK(EntryFunction, Names["entry_function"])
BY ParserAssumption DEF TableOK, FieldOK, EntryFunction, Names, Numbers, Bytes, Number, Text, Length
\* A table that ends with the arguments.
LEMMA WithArguments ==
  ASSUME NEW head, NEW n \in Nat, DOMAIN head = 1..n, head = [i \in 1..n |-> head[i]]
  PROVE  /\ Len(head \o Arguments) = n + 5 /\ DOMAIN (head \o Arguments) = 1..(n + 5)
         /\ \A i \in 1..n : (head \o Arguments)[i] = head[i]
         /\ \A i \in 1..5 : (head \o Arguments)[n + i] = Arguments[i]
<1> DEFINE S == {head[i] : i \in 1..n} \cup {Arguments[i] : i \in 1..5}
<1>1. head \in Seq(S) /\ Len(head) = n
  OBVIOUS
<1>2. Arguments \in Seq(S) /\ Len(Arguments) = 5
  <2>1. Len(Arguments) = 5 /\ Arguments = [i \in 1..5 |-> Arguments[i]]
    BY DEF Arguments
  <2>2. Arguments \in [1..5 -> S]
    BY <2>1
  <2> QED BY <2>1, <2>2
<1> HIDE DEF S
<1>3. /\ head \o Arguments \in Seq(S)
      /\ Len(head \o Arguments) = Len(head) + Len(Arguments)
      /\ \A i \in 1..(Len(head) + Len(Arguments)) :
           (head \o Arguments)[i] = IF i <= Len(head) THEN head[i] ELSE Arguments[i - Len(head)]
  BY <1>1, <1>2, ConcatProperties
<1>4. /\ Len(head \o Arguments) = n + 5
      /\ DOMAIN (head \o Arguments) = 1..(n + 5)
  BY <1>1, <1>2, <1>3, LenProperties
<1>5. \A i \in 1..5 : n + i \in 1..(n + 5) /\ ~(n + i <= n) /\ (n + i) - n = i
  OBVIOUS
<1>6. \A i \in 1..5 : (head \o Arguments)[n + i] = Arguments[i]
  BY <1>1, <1>2, <1>3, <1>5
<1>7. \A i \in 1..n : i \in 1..(n + 5) /\ i <= n
  OBVIOUS
<1>8. \A i \in 1..n : (head \o Arguments)[i] = head[i]
  BY <1>1, <1>2, <1>3, <1>7
<1> QED BY <1>4, <1>6, <1>8

\* The fields of an account transfer.
LEMMA AccountFields ==
  LET t == AccountTransfer IN
  /\ Len(t) = 6 /\ DOMAIN t = 1..6
  /\ t[1] = Number("ty_size", "TYPE_ARGS_SIZE_READ_ERROR", {0}, "TYPE_ARGS_SIZE_UNEXPECTED_ERROR")
  /\ t[2] = Arguments[1] /\ t[3] = Arguments[2] /\ t[4] = Arguments[3]
  /\ t[5] = Arguments[4] /\ t[6] = Arguments[5]
<1> DEFINE first == Number("ty_size", "TYPE_ARGS_SIZE_READ_ERROR", {0},
                           "TYPE_ARGS_SIZE_UNEXPECTED_ERROR")
           head == <<first>>
           t == AccountTransfer
           n == 1
<1>1. t = head \o Arguments
  BY DEF AccountTransfer
<1>2. n \in Nat /\ DOMAIN head = 1..n /\ head = [i \in 1..n |-> head[i]]
  OBVIOUS
<1>5. head[1] = first
  OBVIOUS
<1> HIDE DEF head, t, n
<1>3. /\ Len(t) = n + 5 /\ DOMAIN t = 1..(n + 5)
      /\ \A i \in 1..n : t[i] = head[i]
      /\ \A i \in 1..5 : t[n + i] = Arguments[i]
  BY <1>1, <1>2, WithArguments
<1>4. /\ Len(t) = 6 /\ DOMAIN t = 1..6 /\ t[1] = first
      /\ t[2] = Arguments[1] /\ t[3] = Arguments[2] /\ t[4] = Arguments[3]
      /\ t[5] = Arguments[4] /\ t[6] = Arguments[5]
  BY <1>3, <1>5 DEF n
<1> QED BY <1>4 DEF t

\* The arguments of an account transfer.
LEMMA AccountTable == TableOK(AccountTransfer, Names["account_transfer"])
<1> DEFINE t == AccountTransfer
<1>3. FieldOK(t[1], "ty_size") /\ t[1].kind = "number"
  BY AccountFields DEF FieldOK, Number, Numbers
<1>4. /\ Len(t) = 6 /\ DOMAIN t = 1..6
      /\ t[2] = Arguments[1] /\ t[3] = Arguments[2] /\ t[4] = Arguments[3]
      /\ t[5] = Arguments[4] /\ t[6] = Arguments[5]
  BY AccountFields
<1> HIDE DEF t
<1>5. /\ \A i \in 1..5 : FieldOK(Arguments[i], ArgumentNames[i]) /\ Arguments[i].kind # "text"
  BY ParserAssumption DEF FieldOK, Arguments, ArgumentNames, Numbers, Bytes, Number
<1>6. /\ FieldOK(t[2], "args_size") /\ FieldOK(t[3], "receiver_len") /\ FieldOK(t[4], "receiver")
      /\ FieldOK(t[5], "amount_len") /\ FieldOK(t[6], "amount")
      /\ \A i \in 1..6 : t[i].kind # "text"
  BY <1>3, <1>4, <1>5 DEF ArgumentNames
<1> QED BY <1>3, <1>4, <1>6 DEF TableOK, Names, t

CoinTypeNames == <<"ty_size", "ty_arg_variant", "coin_address", "coin_module_len", "coin_module",
                   "coin_name_len", "coin_name", "coin_type_args_size">>
\* The fields of a coin transfer.
LEMMA CoinFields ==
  LET t == CoinTransfer IN
  /\ Len(t) = 13 /\ DOMAIN t = 1..13
  /\ \A i \in 1..8 : t[i] = CoinType[i]
  /\ t[9] = Arguments[1] /\ t[10] = Arguments[2] /\ t[11] = Arguments[3]
  /\ t[12] = Arguments[4] /\ t[13] = Arguments[5]
<1> DEFINE t == CoinTransfer
           n == 8
<1>1. t = CoinType \o Arguments
  BY DEF CoinTransfer
<1>2. n \in Nat /\ DOMAIN CoinType = 1..n /\ CoinType = [i \in 1..n |-> CoinType[i]]
  BY DEF CoinType
<1> HIDE DEF t, n
<1>3. /\ Len(t) = n + 5 /\ DOMAIN t = 1..(n + 5)
      /\ \A i \in 1..n : t[i] = CoinType[i]
      /\ \A i \in 1..5 : t[n + i] = Arguments[i]
  BY <1>1, <1>2, WithArguments
<1>4. /\ Len(t) = 13 /\ DOMAIN t = 1..13
      /\ \A i \in 1..8 : t[i] = CoinType[i]
      /\ t[9] = Arguments[1] /\ t[10] = Arguments[2] /\ t[11] = Arguments[3]
      /\ t[12] = Arguments[4] /\ t[13] = Arguments[5]
  BY <1>3 DEF n
<1> QED BY <1>4 DEF t

\* The type and the arguments of a coin transfer.
LEMMA CoinTable == TableOK(CoinTransfer, Names["coin_transfer"])
<1> DEFINE t == CoinTransfer
<1>3. TableOK(CoinType, CoinTypeNames)
  BY ParserAssumption
     DEF TableOK, FieldOK, CoinType, CoinTypeNames, Numbers, Bytes, Number, Text, Length
<1>4. /\ Len(t) = 13 /\ DOMAIN t = 1..13
      /\ \A i \in 1..8 : t[i] = CoinType[i]
      /\ t[9] = Arguments[1] /\ t[10] = Arguments[2] /\ t[11] = Arguments[3]
      /\ t[12] = Arguments[4] /\ t[13] = Arguments[5]
  BY CoinFields
<1> HIDE DEF t
<1>5. /\ \A i \in 1..5 : FieldOK(Arguments[i], ArgumentNames[i]) /\ Arguments[i].kind # "text"
  BY ParserAssumption DEF FieldOK, Arguments, ArgumentNames, Numbers, Bytes, Number
<1>6. /\ FieldOK(t[9], "args_size") /\ FieldOK(t[10], "receiver_len") /\ FieldOK(t[11], "receiver")
      /\ FieldOK(t[12], "amount_len") /\ FieldOK(t[13], "amount")
      /\ \A i \in 9..13 : t[i].kind # "text"
  BY <1>4, <1>5 DEF ArgumentNames
<1>7. \A i \in 1..8 : /\ FieldOK(t[i], CoinTypeNames[i])
                      /\ t[i].kind = "text" => i > 1 /\ t[i].of = CoinTypeNames[i - 1]
  BY <1>3, <1>4 DEF TableOK, CoinTypeNames
<1>8. Len(Names["coin_transfer"]) = 13 /\ Len(t) = 13 /\ DOMAIN t = 1..13
  BY <1>4 DEF Names
<1>9. \A i \in 1..8 : Names["coin_transfer"][i] = CoinTypeNames[i]
  BY DEF Names, CoinTypeNames
<1>10. \A i \in 1..13 : FieldOK(t[i], Names["coin_transfer"][i])
  <2>1. \A i \in 9..13 : FieldOK(t[i], Names["coin_transfer"][i])
    BY <1>6 DEF Names
  <2>2. \A i \in 1..13 : i \in 1..8 \/ i \in 9..13
    OBVIOUS
  <2> QED BY <1>7, <1>9, <2>1, <2>2
<1>11. ASSUME NEW i \in 1..13, t[i].kind = "text"
       PROVE  i > 1 /\ t[i].of = Names["coin_transfer"][i - 1]
  <2>1. i \in 1..8
    BY <1>6, <1>11
  <2>2. i > 1 /\ i - 1 \in 1..8
    BY <1>7, <1>11, <2>1
  <2> QED BY <1>7, <1>9, <1>11, <2>1, <2>2
<1> QED BY <1>8, <1>10, <1>11 DEF TableOK, t

\* Every part is read by a table whose fields are what the proofs need of them:
\* the names in their order, the kinds, and error codes that are none of success.
LEMMA Tables == \A p \in Parts : TableOK(Fields[p], Names[p])
BY PartNames, FieldsOf, RawTable, FooterTable, PayloadTable, EntryTable, AccountTable, CoinTable
   DEF PartSet

-----------------------------------------------------------------------------
(* The inductive invariant. *)

\* A cursor over the whole of the bytes, inside them.
OverRaw(b) == b \in buffer_t /\ b.size = Len(raw) /\ b.offset <= Len(raw)
\* Where the front has been read to, which is far enough for a footer.
RawRead == CASE next = 1 -> TX_HASHED_PREFIX_LEN
             [] next = 2 -> TX_HASHED_PREFIX_LEN + ADDRESS_LEN
             [] OTHER -> TX_HASHED_PREFIX_LEN + ADDRESS_LEN + U64_LEN

\* The cursors are over the bytes, what is read next is a field of its part, the
\* front has been read as far as its next field says (without this the footer's
\* place could wrap), and the fields are slices, of numbers if they are numbers.
ParserInv ==
  /\ raw \in Seq(Byte) /\ Len(raw) \in SizeT
  /\ OverRaw(buf) /\ OverRaw(buf_footer)
  /\ at \in Parts \cup {"start", "done"} /\ next \in Nat
  /\ at \in Parts => next \in 1..(Len(Fields[at]) + 1)
  /\ at = "start" => buf.offset = 0
  /\ at = "raw" => buf.offset = RawRead
  /\ variant \in {"TX_UNDEFINED", "TX_RAW", "TX_RAW_WITH_DATA", "TX_MESSAGE"}
  /\ known_type \in {"FUNC_UNKNOWN", "FUNC_APTOS_ACCOUNT_TRANSFER", "FUNC_COIN_TRANSFER"}
  /\ tx \in [FieldNames -> [from : SizeT, to : SizeT]]
  /\ \A f \in FieldNames : tx[f].from <= tx[f].to /\ tx[f].to <= Len(raw)
  /\ \A f \in FieldNames \cap Numbers : WasRead(f) => IsNumber(tx[f].from, tx[f].to - tx[f].from)

\* The names of the fields that are numbers are those of Numbers.
LEMMA NumberNamesAre == NumberNames \subseteq FieldNames \cap Numbers
<1> SUFFICES ASSUME NEW p \in Parts, NEW i \in DOMAIN Fields[p], Fields[p][i].kind = "number"
             PROVE  Fields[p][i].name \in FieldNames \cap Numbers
  BY DEF NumberNames
<1>1. Fields[p][i].name \in FieldNames
  BY DEF FieldNames, NamesOf
<1>2. Fields[p][i].name \in Numbers
  BY Tables DEF TableOK, FieldOK
<1> QED BY <1>1, <1>2

\* What the tables say of a field.
LEMMA FieldIs ==
  ASSUME NEW p \in Parts, NEW i \in 1..Len(Fields[p])
  PROVE  LET f == Fields[p][i] IN
         /\ f.name \in FieldNames
         /\ f.kind \in {"bytes", "text", "number"}
         /\ f.kind = "number" <=> f.name \in Numbers
         /\ f.kind = "bytes" => f.len \in Nat
         /\ f.kind = "text" => f.of \in FieldNames
         /\ f.fail # "PARSING_OK"
         /\ f.kind = "number" => f.unexpected # "PARSING_OK"
<1>1. TableOK(Fields[p], Names[p])
  BY Tables
<1>2. i \in DOMAIN Fields[p] /\ FieldOK(Fields[p][i], Names[p][i])
  BY <1>1 DEF TableOK
<1>3. Fields[p][i].name \in FieldNames
  BY <1>2 DEF FieldNames, NamesOf
<1>4. Fields[p][i].kind = "text" => Fields[p][i].of \in FieldNames
  <2> SUFFICES ASSUME Fields[p][i].kind = "text" PROVE Fields[p][i].of \in FieldNames
    OBVIOUS
  <2>1. i > 1 /\ Fields[p][i].of = Names[p][i - 1] /\ Len(Fields[p]) = Len(Names[p])
    BY <1>1 DEF TableOK
  <2>2. i - 1 \in 1..Len(Names[p])
    BY <2>1
  <2>3. i - 1 \in DOMAIN Fields[p] /\ Fields[p][i - 1].name = Names[p][i - 1]
    BY <1>1, <2>2 DEF TableOK, FieldOK
  <2> QED BY <2>1, <2>3 DEF FieldNames, NamesOf
<1>5. /\ Fields[p][i].kind \in {"bytes", "text", "number"}
      /\ Fields[p][i].kind = "number" <=> Fields[p][i].name \in Numbers
      /\ Fields[p][i].kind = "bytes" => Fields[p][i].len \in Nat
  BY <1>2 DEF FieldOK
<1>6. /\ Fields[p][i].fail # "PARSING_OK"
      /\ Fields[p][i].kind = "number" => Fields[p][i].unexpected # "PARSING_OK"
  BY <1>2 DEF FieldOK
<1> QED BY <1>3, <1>4, <1>5, <1>6

\* The value of any slice of bytes is a natural.
LEMMA ValueType ==
  ASSUME raw \in Seq(Byte), NEW o \in Nat, NEW k \in Nat, o + k <= Len(raw)
  PROVE  ValueAt(o, k) \in Nat
<1> DEFINE w == [j \in 1..k |-> (raw[o + j] % Radix) * Power(Radix, j - 1)]
<1>1. ASSUME NEW j \in 1..k PROVE w[j] \in Nat
  <2>1. o + j \in 1..Len(raw)
    OBVIOUS
  <2>2. raw[o + j] \in Nat
    BY <2>1, ParserAssumption DEF Byte
  <2>3. raw[o + j] % Radix \in Nat /\ j - 1 \in Nat /\ Radix \in Nat
    BY <2>2, ParserAssumption
  <2>4. Power(Radix, j - 1) \in Nat
    BY <2>3, PowerType
  <2>5. \A a, b \in Nat : a * b \in Nat
    OBVIOUS
  <2> QED BY <2>3, <2>4, <2>5
<1> HIDE DEF w
<1>2. RunningSum(w, k) \in Nat
  BY <1>1, SumType
<1> QED BY <1>2 DEF ValueAt, w

\* The numbers depend on the bytes alone.
LEMMA NumbersKept ==
  ASSUME raw' = raw
  PROVE  \A o, k : (IsNumber(o, k) <=> IsNumber(o, k)') /\ ValueAt(o, k)' = ValueAt(o, k)
<1>1. \A o, k : ValueAt(o, k)' = ValueAt(o, k)
  BY DEF ValueAt
<1>2. \A o, k : (k \in GroupsAt(o))' <=> k \in GroupsAt(o)
  BY DEF GroupsAt
<1> QED BY <1>1, <1>2 DEF IsNumber

\* Nothing was read yet.
LEMMA ParserInit == Init => ParserInv
<1> SUFFICES ASSUME Init PROVE ParserInv
  OBVIOUS
<1>1. raw \in Seq(Byte) /\ Len(raw) \in SizeT /\ 0 \in SizeT
  BY ParserAssumption, SizeModAssumption DEF Init, SizeT
<1>2. OverRaw(buf) /\ OverRaw(buf_footer)
  BY <1>1 DEF Init, OverRaw, buffer_t, SizeT
<1>3. "start" \notin Parts /\ "start" # "raw"
  BY PartNames DEF PartSet
<1>4. Unread \in [from : SizeT, to : SizeT] /\ Unread.from <= Unread.to /\ Unread.to <= Len(raw)
  BY <1>1 DEF Unread, Slice, SizeT
<1> QED BY <1>1, <1>2, <1>3, <1>4 DEF Init, ParserInv, WasRead

\* What taking a field from its cursor does to the cursors and to the slices.
LEMMA TookMoves ==
  ASSUME ParserInv, Reading, NEW n \in Nat, Cursor.offset + n <= Len(raw), Took(n), raw' = raw
  PROVE  /\ OverRaw(buf)' /\ OverRaw(buf_footer)'
         /\ at = "footer" => buf' = buf
         /\ at # "footer" => buf_footer' = buf_footer /\ buf'.offset = buf.offset + n
         /\ Field.name \in FieldNames
         /\ tx' = [tx EXCEPT ![Field.name] = Slice(Cursor.offset, Cursor.offset + n)]
         /\ tx' \in [FieldNames -> [from : SizeT, to : SizeT]]
         /\ \A f \in FieldNames : tx'[f].from <= tx'[f].to /\ tx'[f].to <= Len(raw)
<1>1. Field.name \in FieldNames
  <2>1. at \in Parts /\ next \in 1..Len(Fields[at])
    BY DEF Reading, ParserInv
  <2> QED BY <2>1, FieldIs DEF Field
<1>2. OverRaw(Cursor) /\ Len(raw) \in SizeT
  BY DEF Cursor, ParserInv
<1>3. Cursor \in buffer_t /\ Cursor.size = Len(raw) /\ Cursor.offset \in Nat
  BY <1>2 DEF OverRaw, buffer_t, SizeT
<1>4. buffer_seek_cur(Cursor, n) = [Cursor EXCEPT !.offset = Cursor.offset + n]
  BY <1>3, SeekCurMoves
<1>5. /\ buffer_seek_cur(Cursor, n) \in buffer_t
      /\ buffer_seek_cur(Cursor, n).size = Len(raw)
      /\ buffer_seek_cur(Cursor, n).offset = Cursor.offset + n
  <2>1. Cursor.offset + n \in SizeT
    BY <1>2, <1>3, SizeModAssumption DEF SizeT
  <2> QED BY <1>3, <1>4, <2>1 DEF buffer_t
<1>6. /\ OverRaw(buf)' /\ OverRaw(buf_footer)'
      /\ at = "footer" => buf' = buf
      /\ at # "footer" => buf_footer' = buf_footer /\ buf'.offset = buf.offset + n
  <2>1. CASE at = "footer"
    <3>1. buf_footer' = buffer_seek_cur(Cursor, n) /\ buf' = buf
      BY <2>1 DEF Took, Cursor
    <3> QED BY <1>5, <2>1, <3>1 DEF OverRaw, ParserInv
  <2>2. CASE at # "footer"
    <3>1. buf' = buffer_seek_cur(Cursor, n) /\ buf_footer' = buf_footer /\ Cursor = buf
      BY <2>2 DEF Took, Cursor
    <3> QED BY <1>5, <2>2, <3>1 DEF OverRaw, ParserInv
  <2> QED BY <2>1, <2>2
<1>7. tx' = [tx EXCEPT ![Field.name] = Slice(Cursor.offset, Cursor.offset + n)]
  BY DEF Took
<1>8. LET s == Slice(Cursor.offset, Cursor.offset + n) IN
      s \in [from : SizeT, to : SizeT] /\ s.from <= s.to /\ s.to <= Len(raw)
  BY <1>2, <1>3, SizeModAssumption DEF Slice, SizeT
<1>9. tx \in [FieldNames -> [from : SizeT, to : SizeT]]
  BY DEF ParserInv
<1>10. tx' \in [FieldNames -> [from : SizeT, to : SizeT]]
  BY <1>1, <1>7, <1>8, <1>9
<1>11. \A f \in FieldNames : tx'[f].from <= tx'[f].to /\ tx'[f].to <= Len(raw)
  BY <1>1, <1>7, <1>8, <1>9 DEF ParserInv
<1> QED BY <1>1, <1>6, <1>7, <1>10, <1>11

\* How many bytes a field that is not a number is read from.
LEMMA FieldLenType ==
  ASSUME ParserInv, Reading, Field.kind \in {"bytes", "text"}
  PROVE  FieldLen \in Nat
<1>1. at \in Parts /\ next \in 1..Len(Fields[at])
  BY DEF Reading, ParserInv
<1>2. /\ Field.kind = "bytes" => Field.len \in Nat
      /\ Field.kind = "text" => Field.of \in FieldNames
  BY <1>1, FieldIs DEF Field
<1>3. ASSUME Field.kind = "text" PROVE FieldLen \in Nat
  <2> DEFINE s == tx[Field.of]
  <2>1. /\ s.from \in SizeT /\ s.to \in SizeT /\ s.from <= s.to /\ s.to <= Len(raw)
        /\ raw \in Seq(Byte)
    BY <1>2, <1>3 DEF ParserInv
  <2>2. s.from \in Nat /\ s.to - s.from \in Nat /\ s.from + (s.to - s.from) <= Len(raw)
    BY <2>1 DEF SizeT
  <2> HIDE DEF s
  <2>3. ValueAt(s.from, s.to - s.from) \in Nat
    BY <2>1, <2>2, ValueType
  <2> QED BY <1>3, <2>3 DEF FieldLen, NumberIn, s
<1> QED BY <1>2, <1>3 DEF FieldLen

\* The fields of the first part.
LEMMA RawFields ==
  /\ Len(Fields["raw"]) = 2
  /\ Fields["raw"][1].kind = "bytes" /\ Fields["raw"][1].len = ADDRESS_LEN
  /\ Fields["raw"][2].kind = "bytes" /\ Fields["raw"][2].len = U64_LEN
BY FieldsOf DEF Raw, Bytes

\* bcs_read_fixed_bytes and its kin: the room is looked at before the cursor moves.
LEMMA ReadBytesKeeps ==
  ASSUME ParserInv, read_bytes
  PROVE  ParserInv'
<1>1. Reading /\ Field.kind \in {"bytes", "text"} /\ UNCHANGED <<raw, variant, known_type>>
  BY DEF read_bytes
<1>2. at \in Parts /\ next \in 1..Len(Fields[at]) /\ at # "start" /\ at # "done" /\ Len(Fields[at]) \in Nat
  <2>1. Len(Fields[at]) \in Nat
    BY <1>1, Tables, PartNames DEF Reading, TableOK, Names, PartSet
  <2> QED BY <1>1, <2>1, PartNames DEF Reading, ParserInv, PartSet
<1>3. \A o, k : (IsNumber(o, k) <=> IsNumber(o, k)') /\ ValueAt(o, k)' = ValueAt(o, k)
  BY <1>1, NumbersKept
<1>4. CASE ~Fits(FieldLen)
  <2>1. Failed(Field.fail)
    BY <1>4 DEF read_bytes
  <2>2. at' = "done" /\ UNCHANGED <<raw, variant, known_type, tx, buf, buf_footer, next>>
    BY <1>1, <2>1 DEF Failed, Return
  <2>3. "done" \notin Parts
    BY PartNames DEF PartSet
  <2> QED BY <1>3, <2>2, <2>3 DEF ParserInv, OverRaw, WasRead
<1>5. CASE Fits(FieldLen)
  <2>1. Took(FieldLen) /\ NextField
    BY <1>5 DEF read_bytes
  <2>2. FieldLen \in Nat
    BY <1>1, FieldLenType
  <2>3. OverRaw(Cursor)
    BY DEF Cursor, ParserInv
  <2>4. Cursor.offset + FieldLen <= Len(raw)
    BY <1>5, <2>2, <2>3, CanReadInBuffer DEF Fits, OverRaw
  <2>5. /\ OverRaw(buf)' /\ OverRaw(buf_footer)'
        /\ at # "footer" => buf'.offset = buf.offset + FieldLen
        /\ Field.name \in FieldNames
        /\ tx' = [tx EXCEPT ![Field.name] = Slice(Cursor.offset, Cursor.offset + FieldLen)]
        /\ tx' \in [FieldNames -> [from : SizeT, to : SizeT]]
        /\ \A f \in FieldNames : tx'[f].from <= tx'[f].to /\ tx'[f].to <= Len(raw)
    BY <1>1, <2>1, <2>2, <2>4, TookMoves
  <2>6. at' = at /\ next' = next + 1
    BY <2>1 DEF NextField
  <2>7. next' \in Nat /\ next' \in 1..(Len(Fields[at]) + 1)
    BY <1>2, <2>6
  <2>8. at' = "raw" => buf'.offset = RawRead'
    <3> SUFFICES ASSUME at = "raw" PROVE buf'.offset = RawRead'
      BY <2>6
    <3>1. next \in {1, 2} /\ FieldLen = (IF next = 1 THEN ADDRESS_LEN ELSE U64_LEN)
      BY <1>2, RawFields DEF FieldLen, Field
    <3>2. buf.offset = RawRead /\ buf'.offset = buf.offset + FieldLen
      BY <2>5 DEF ParserInv
    <3> QED BY <2>6, <3>1, <3>2, ParserAssumption DEF RawRead, SizeT
  <2>9. ASSUME NEW f \in FieldNames \cap Numbers, WasRead(f)'
        PROVE  IsNumber(tx[f].from, tx[f].to - tx[f].from)'
    <3>1. f # Field.name
      BY <1>1, <1>2, FieldIs DEF Field
    <3>2. tx'[f] = tx[f]
      BY <2>5, <3>1 DEF ParserInv
    <3> QED BY <1>3, <2>9, <3>2 DEF ParserInv, WasRead
  <2> QED BY <1>1, <1>2, <2>5, <2>6, <2>7, <2>8, <2>9 DEF ParserInv
<1> QED BY <1>4, <1>5

\* bcs_read_u32_from_uleb128: the groups read are in the buffer and the slice
\* keeps being the number it was accepted as.
LEMMA ReadNumberKeeps ==
  ASSUME ParserInv, read_number
  PROVE  ParserInv'
<1>1. Reading /\ Field.kind = "number" /\ UNCHANGED <<raw, variant, known_type>>
  BY DEF read_number
<1>2. at \in Parts /\ next \in 1..Len(Fields[at]) /\ at # "start" /\ at # "done" /\ Len(Fields[at]) \in Nat
  <2>1. Len(Fields[at]) \in Nat
    BY <1>1, Tables, PartNames DEF Reading, TableOK, Names, PartSet
  <2> QED BY <1>1, <2>1, PartNames DEF Reading, ParserInv, PartSet
<1>3. \A o, k : (IsNumber(o, k) <=> IsNumber(o, k)') /\ ValueAt(o, k)' = ValueAt(o, k)
  BY <1>1, NumbersKept
<1>4. "done" \notin Parts /\ at # "raw"
  <2>2. ASSUME at = "raw" PROVE FALSE
    <3>1. Len(Fields[at]) = 2 /\ Fields[at][1].kind = "bytes" /\ Fields[at][2].kind = "bytes"
      BY <2>2, RawFields
    <3>2. next = 1 \/ next = 2
      BY <1>2, <3>1
    <3> QED BY <1>1, <3>1, <3>2 DEF Field
  <2> QED BY <2>2, PartNames DEF PartSet
<1>5. CASE Failed(Field.fail)
  <2>2. at' = "done" /\ UNCHANGED <<raw, variant, known_type, tx, buf, buf_footer, next>>
    BY <1>1, <1>5 DEF Failed, Return
  <2> QED BY <1>3, <1>4, <2>2 DEF ParserInv, OverRaw, WasRead
<1>6. CASE ~Failed(Field.fail)
  <2>1. PICK k \in 1..MaxGroups :
          /\ IsNumber(Cursor.offset, k) /\ Took(k)
          /\ IF ValueAt(Cursor.offset, k) \in Field.values THEN NextField ELSE Return(Field.unexpected)
    BY <1>6 DEF read_number
  <2>2. k \in Nat /\ Cursor.offset + k <= Len(raw)
    BY <2>1 DEF IsNumber, GroupsAt
  <2>5. /\ OverRaw(buf)' /\ OverRaw(buf_footer)'
        /\ Field.name \in FieldNames
        /\ tx' = [tx EXCEPT ![Field.name] = Slice(Cursor.offset, Cursor.offset + k)]
        /\ tx' \in [FieldNames -> [from : SizeT, to : SizeT]]
        /\ \A f \in FieldNames : tx'[f].from <= tx'[f].to /\ tx'[f].to <= Len(raw)
    BY <1>1, <2>1, <2>2, TookMoves
  <2>6. \/ at' = at /\ next' = next + 1
        \/ at' = "done" /\ next' = next
    BY <2>1 DEF NextField, Return
  <2>7. /\ next' \in Nat /\ at' \in Parts \cup {"start", "done"}
        /\ at' \in Parts => next' \in 1..(Len(Fields[at']) + 1)
        /\ at' # "start" /\ at' # "raw"
    BY <1>2, <1>4, <2>6
  <2>9. ASSUME NEW f \in FieldNames \cap Numbers, WasRead(f)'
        PROVE  IsNumber(tx[f].from, tx[f].to - tx[f].from)'
    <3>1. CASE f # Field.name
      <4>2. tx'[f] = tx[f]
        BY <2>5, <3>1 DEF ParserInv
      <4> QED BY <1>3, <2>9, <4>2 DEF ParserInv, WasRead
    <3>2. CASE f = Field.name
      <4>1. tx'[f].from = Cursor.offset /\ tx'[f].to = Cursor.offset + k
        BY <2>5, <3>2 DEF ParserInv, Slice
      <4>2. Cursor.offset \in Nat
        BY DEF Cursor, ParserInv, OverRaw, buffer_t, SizeT
      <4>3. tx'[f].to - tx'[f].from = k
        BY <2>2, <4>1, <4>2
      <4> QED BY <1>3, <2>1, <4>1, <4>3
    <3> QED BY <3>1, <3>2
  <2> QED BY <1>1, <2>5, <2>7, <2>9 DEF ParserInv
<1> QED BY <1>5, <1>6

\* The steps that change no number and neither what was read nor the bytes.
LEMMA ResetKeeps ==
  ASSUME ParserInv, raw' = raw,
         tx' \in [FieldNames -> [from : SizeT, to : SizeT]],
         \A f \in FieldNames : tx'[f] = tx[f] \/ tx'[f] = Unread
  PROVE  /\ \A f \in FieldNames : tx'[f].from <= tx'[f].to /\ tx'[f].to <= Len(raw)
         /\ \A f \in FieldNames \cap Numbers : WasRead(f)' =>
              IsNumber(tx[f].from, tx[f].to - tx[f].from)'
<1>1. \A o, k : (IsNumber(o, k) <=> IsNumber(o, k)') /\ ValueAt(o, k)' = ValueAt(o, k)
  BY NumbersKept
<1>2. Unread.from <= Unread.to /\ Unread.to <= Len(raw)
  BY DEF Unread, Slice, ParserInv, SizeT
<1>3. ASSUME NEW f \in FieldNames \cap Numbers, WasRead(f)'
      PROVE  IsNumber(tx[f].from, tx[f].to - tx[f].from)'
  <2>1. tx'[f] = tx[f]
    BY <1>3 DEF WasRead
  <2> QED BY <1>1, <1>3, <2>1 DEF ParserInv, WasRead
<1> QED BY <1>2, <1>3 DEF ParserInv

\* The two resets of the parsed transaction.
LEMMA InitsReset ==
  ASSUME ParserInv, NEW t \in {transaction_init, entry_function_payload_init}
  PROVE  /\ t \in [FieldNames -> [from : SizeT, to : SizeT]]
         /\ \A f \in FieldNames : t[f] = tx[f] \/ t[f] = Unread
<1>1. Unread \in [from : SizeT, to : SizeT]
  BY SizeModAssumption DEF Unread, Slice, SizeT
<1> QED BY <1>1 DEF ParserInv, transaction_init, entry_function_payload_init

\* transaction_deserialize: the prefix was looked at, so it can be skipped.
LEMMA DeserializeKeeps ==
  ASSUME ParserInv, transaction_deserialize
  PROVE  ParserInv'
<1>1. /\ at = "start" /\ UNCHANGED <<raw, buf_footer, known_type>> /\ buf.offset = 0
      /\ OverRaw(buf) /\ OverRaw(buf_footer) /\ OverRaw(buf_footer)'
  BY DEF transaction_deserialize, ParserInv, OverRaw
<1>2. "done" \notin Parts /\ "raw" \in Parts /\ "start" # "done" /\ "raw" # "done"
  BY PartNames DEF PartSet
<1>3. tx' = tx \/ tx' = transaction_init
  BY DEF transaction_deserialize
<1>4. /\ tx' \in [FieldNames -> [from : SizeT, to : SizeT]]
      /\ \A f \in FieldNames : tx'[f] = tx[f] \/ tx'[f] = Unread
  BY <1>3, InitsReset DEF ParserInv
<1>5. /\ \A f \in FieldNames : tx'[f].from <= tx'[f].to /\ tx'[f].to <= Len(raw)
      /\ \A f \in FieldNames \cap Numbers : WasRead(f)' =>
           IsNumber(tx[f].from, tx[f].to - tx[f].from)'
  BY <1>1, <1>4, ResetKeeps
<1>6. buf' = buf \/ buf' = buffer_seek_cur(buf, TX_HASHED_PREFIX_LEN)
  BY DEF transaction_deserialize
<1>7. OverRaw(buf)'
  <2>1. TX_HASHED_PREFIX_LEN \in SizeT /\ buf \in buffer_t /\ buf.offset <= buf.size /\ buf.size = Len(raw)
    BY <1>1, ParserAssumption DEF OverRaw
  <2> DEFINE c == buffer_seek_cur(buf, TX_HASHED_PREFIX_LEN)
  <2>2. c \in buffer_t /\ c.size = buf.size /\ c.offset <= c.size
    BY <2>1, SizeModAssumption DEF buffer_seek_cur, CanSeekCur, Plus, buffer_t, SizeT
  <2> HIDE DEF c
  <2> QED BY <1>1, <1>6, <2>1, <2>2 DEF OverRaw, c
<1>8. variant' \in {"TX_UNDEFINED", "TX_RAW", "TX_RAW_WITH_DATA", "TX_MESSAGE"}
  BY DEF transaction_deserialize, ParserInv
<1>9. CASE at' = "done" /\ next' = next
  BY <1>1, <1>2, <1>4, <1>5, <1>7, <1>8, <1>9 DEF ParserInv
<1>10. CASE /\ StartsWith(PREFIX_RAW_TX_HASHED) /\ Enter("raw")
            /\ buf' = buffer_seek_cur(buf, TX_HASHED_PREFIX_LEN)
  <2>1. TX_HASHED_PREFIX_LEN \in Nat /\ buf \in buffer_t /\ buf.offset <= buf.size /\ buf.size = Len(raw)
    BY <1>1, ParserAssumption DEF OverRaw, SizeT
  <2>2. buffer_can_read(buf, TX_HASHED_PREFIX_LEN)
    BY <1>10 DEF StartsWith
  <2>3. buf.offset + TX_HASHED_PREFIX_LEN <= buf.size
    BY <2>1, <2>2, CanReadInBuffer
  <2>4. buf' = [buf EXCEPT !.offset = buf.offset + TX_HASHED_PREFIX_LEN]
    BY <1>10, <2>1, <2>3, SeekCurMoves
  <2>5. buf'.offset = TX_HASHED_PREFIX_LEN
    BY <1>1, <2>1, <2>4 DEF buffer_t
  <2>6. at' = "raw" /\ next' = 1
    BY <1>10 DEF Enter
  <2>7. buf'.offset = RawRead'
    BY <2>5, <2>6 DEF RawRead
  <2>8. next' \in Nat /\ next' \in 1..(Len(Fields["raw"]) + 1) /\ at' # "start"
    BY <2>6, RawFields
  <2> QED BY <1>1, <1>2, <1>4, <1>5, <1>7, <1>8, <2>6, <2>7, <2>8 DEF ParserInv
<1> QED BY <1>9, <1>10 DEF transaction_deserialize, Return

\* The step from one part to the next, or to the end.
LEMMA EndKeeps ==
  ASSUME ParserInv, raw' = raw, variant' = variant, buf' = buf,
         OverRaw(buf_footer)',
         \/ Return(status')
         \/ \E p \in Parts \ {"raw"} : Enter(p),
         known_type' \in {"FUNC_UNKNOWN", "FUNC_APTOS_ACCOUNT_TRANSFER", "FUNC_COIN_TRANSFER"},
         tx' \in {tx, entry_function_payload_init}
  PROVE  ParserInv'
<1>1. OverRaw(buf)'
  BY DEF ParserInv, OverRaw
<1>2. /\ tx' \in [FieldNames -> [from : SizeT, to : SizeT]]
      /\ \A f \in FieldNames : tx'[f] = tx[f] \/ tx'[f] = Unread
  BY InitsReset DEF ParserInv
<1>3. /\ \A f \in FieldNames : tx'[f].from <= tx'[f].to /\ tx'[f].to <= Len(raw)
      /\ \A f \in FieldNames \cap Numbers : WasRead(f)' =>
           IsNumber(tx[f].from, tx[f].to - tx[f].from)'
  BY <1>2, ResetKeeps
<1>4. "done" \notin Parts /\ "start" \notin Parts
  BY PartNames DEF PartSet
<1>5. CASE Return(status')
  <2>1. at' = "done" /\ next' = next
    BY <1>5 DEF Return
  <2> QED BY <1>1, <1>2, <1>3, <1>4, <2>1 DEF ParserInv
<1>6. CASE \E p \in Parts \ {"raw"} : Enter(p)
  <2>1. PICK p \in Parts \ {"raw"} : at' = p /\ next' = 1
    BY <1>6 DEF Enter
  <2>2. Len(Fields[p]) \in Nat
    BY Tables, PartNames DEF TableOK, Names, PartSet
  <2>3. next' \in Nat /\ next' \in 1..(Len(Fields[p]) + 1)
    BY <2>1, <2>2
  <2> QED BY <1>1, <1>2, <1>3, <1>4, <2>1, <2>3 DEF ParserInv
<1> QED BY <1>5, <1>6

\* When the footer's place is computed, as many bytes have been read as it has.
LEMMA FooterBeginInBuffer ==
  ASSUME ParserInv, End("raw")
  PROVE  TX_FOOTER_LEN <= Len(raw) /\ FooterBegin = Len(raw) - TX_FOOTER_LEN
<1>1. next = 3 /\ buf.offset = RawRead
  BY RawFields DEF End, ParserInv
<1>2. RawRead = TX_HASHED_PREFIX_LEN + ADDRESS_LEN + U64_LEN
  BY <1>1 DEF RawRead
<1>3. TX_FOOTER_LEN <= Len(raw) /\ TX_FOOTER_LEN \in Nat /\ buf.size = Len(raw)
  BY <1>1, <1>2, FooterAssumption, ParserAssumption
     DEF ParserInv, OverRaw, TX_FOOTER_LEN, SizeT, buffer_t
<1> QED BY <1>3 DEF FooterBegin, Minus

\* Every step of the parser keeps the invariant.
LEMMA NextKeeps ==
  ASSUME ParserInv, [Next]_vars
  PROVE  ParserInv'
<1>1. CASE transaction_deserialize
  BY <1>1, DeserializeKeeps
<1>2. CASE read_bytes
  BY <1>2, ReadBytesKeeps
<1>3. CASE read_number
  BY <1>3, ReadNumberKeeps
<1>4. /\ {"footer", "payload", "entry_function", "account_transfer", "coin_transfer"} \subseteq Parts \ {"raw"}
      /\ tx \in {tx, entry_function_payload_init}
      /\ known_type \in {"FUNC_UNKNOWN", "FUNC_APTOS_ACCOUNT_TRANSFER", "FUNC_COIN_TRANSFER"}
      /\ OverRaw(buf) /\ OverRaw(buf_footer)
  BY PartNames DEF PartSet, ParserInv
<1>5. buf_footer' = buf_footer /\ raw' = raw => OverRaw(buf_footer)'
  BY <1>4 DEF OverRaw
<1>6. CASE end_raw
  <2>1. FooterBegin \in SizeT /\ FooterBegin <= Len(raw)
    <3>1. TX_FOOTER_LEN \in Nat
      BY ParserAssumption DEF TX_FOOTER_LEN
    <3>2. TX_FOOTER_LEN <= Len(raw) /\ FooterBegin = Len(raw) - TX_FOOTER_LEN
      BY <1>6, FooterBeginInBuffer DEF end_raw
    <3>3. Len(raw) \in SizeT
      BY DEF ParserInv
    <3> QED BY <3>1, <3>2, <3>3, SizeModAssumption DEF SizeT
  <2>2. OverRaw(buf_footer)'
    BY <1>4, <1>6, <2>1 DEF end_raw, OverRaw, buffer_t
  <2> QED BY <1>4, <1>6, <2>2, EndKeeps DEF end_raw
<1>7. CASE end_footer
  BY <1>4, <1>5, <1>7, EndKeeps DEF end_footer
<1>8. CASE end_payload
  BY <1>4, <1>5, <1>8, EndKeeps DEF end_payload, Return
<1>9. CASE end_entry_function
  BY <1>4, <1>5, <1>9, EndKeeps DEF end_entry_function, Return, determine_function_type
<1>10. CASE end_account_transfer
  BY <1>4, <1>5, <1>10, EndKeeps DEF end_account_transfer, Return
<1>11. CASE end_coin_transfer
  BY <1>4, <1>5, <1>11, EndKeeps DEF end_coin_transfer, Return
<1>12. CASE UNCHANGED vars
  <2>1. UNCHANGED vars
    BY <1>12
  <2>2. \A o, k : (IsNumber(o, k) <=> IsNumber(o, k)') /\ ValueAt(o, k)' = ValueAt(o, k)
    BY <2>1, NumbersKept DEF vars
  <2> QED BY <2>1, <2>2 DEF vars, ParserInv, OverRaw, RawRead, WasRead
<1> QED BY <1>1, <1>2, <1>3, <1>6, <1>7, <1>8, <1>9, <1>10, <1>11, <1>12 DEF Next

\* Whatever the bytes, the cursors stay over them, each field is a slice of them
\* and each number is the uleb128 number it was accepted as (deserialize.c,
\* bcs/decoder.c:106-131).
THEOREM ParserInvariant == Spec => []ParserInv
BY ParserInit, NextKeeps, PTL DEF Spec

\* What the invariant says of the types and of the reads.
LEMMA ParserInvImplies == ParserInv => TypeOK /\ ReadsInBuffer
<1> SUFFICES ASSUME ParserInv PROVE TypeOK /\ ReadsInBuffer
  OBVIOUS
<1>1. ReadsInBuffer
  BY DEF ParserInv, OverRaw, ReadsInBuffer
<1>2. ASSUME NEW f \in NumberNames, WasRead(f) PROVE NumberIn(tx[f]) \in 0..UINT32_MAX
  <2>1. f \in FieldNames \cap Numbers
    BY NumberNamesAre
  <2> DEFINE s == tx[f]
  <2>2. /\ IsNumber(s.from, s.to - s.from) /\ raw \in Seq(Byte)
        /\ s.from \in Nat /\ s.to - s.from \in Nat /\ s.from + (s.to - s.from) <= Len(raw)
    BY <1>2, <2>1 DEF ParserInv, SizeT
  <2> HIDE DEF s
  <2>3. ValueAt(s.from, s.to - s.from) \in Nat
    BY <2>2, ValueType
  <2>4. ValueAt(s.from, s.to - s.from) <= UINT32_MAX
    BY <2>2 DEF IsNumber
  <2> QED BY <2>3, <2>4, ParserAssumption DEF NumberIn, s
<1>3. TypeOK
  BY <1>2 DEF ParserInv, OverRaw, TypeOK
<1> QED BY <1>1, <1>3

\* The parser's state has its types and the numbers it read fit 32 bits
\* (bcs/decoder.c:116-119), for every transaction.
THEOREM ParserTypeCorrect == Spec => []TypeOK
BY ParserInvariant, ParserInvImplies, PTL

\* Both cursors and every field stay inside the transaction, for every transaction
\* and every width of size_t: deserialize.c:46 subtracts the footer's length
\* unchecked, and cannot wrap because more bytes than it has were read before.
THEOREM ReadsSafe == Spec => []ReadsInBuffer
BY ParserInvariant, ParserInvImplies, PTL

-----------------------------------------------------------------------------
(* The reference encoding of numbers exists. *)

\* The recursion of Uleb, and the tables that follow it up to m.
UlebRhs(u, n) == IF n < Radix THEN <<n>> ELSE <<Radix + (n % Radix)>> \o u[n \div Radix]
UlebTo(u, m) == u \in [0..m -> Seq(Nat)] /\ \A n \in 0..m : u[n] = UlebRhs(u, n)

\* The radix, in the forms the lemmas on division ask for.
LEMMA RadixIs == Radix \in Nat \ {0, 1} /\ Radix \in Nat \ {0}
BY ParserAssumption

\* The right side of the recursion is a sequence if what it recurs on is.
LEMMA UlebRhsType ==
  ASSUME NEW u, NEW n \in Nat, n >= Radix => u[n \div Radix] \in Seq(Nat)
  PROVE  UlebRhs(u, n) \in Seq(Nat)
<1>1. CASE n < Radix
  BY <1>1 DEF UlebRhs
<1>2. CASE ~(n < Radix)
  <2>1. Radix + (n % Radix) \in Nat
    BY RadixIs, Division
  <2>2. u[n \div Radix] \in Seq(Nat)
    BY <1>2, RadixIs
  <2>3. <<Radix + (n % Radix)>> \in Seq(Nat)
    BY <2>1
  <2>4. <<Radix + (n % Radix)>> \o u[n \div Radix] \in Seq(Nat)
    BY <2>2, <2>3, ConcatProperties
  <2> QED BY <1>2, <2>4 DEF UlebRhs
<1> QED BY <1>1, <1>2

\* The quotient is one of the numbers before.
LEMMA QuotientBefore ==
  ASSUME NEW n \in Nat, n >= Radix
  PROVE  n \div Radix \in 0..(n - 1)
<1>1. n \div Radix \in Nat /\ n \div Radix < n
  BY RadixIs, Division, QuotientIsSmaller
<1> QED BY <1>1

\* The encodings of the numbers up to any one exist.
LEMMA UlebUpTo == \A m \in Nat : \E u : UlebTo(u, m)
<1> DEFINE S == {m \in Nat : \E u : UlebTo(u, m)}
<1>1. 0 \in S
  <2> DEFINE u == [n \in 0..0 |-> <<0>>]
  <2>1. u \in [0..0 -> Seq(Nat)]
    OBVIOUS
  <2>2. u[0] = UlebRhs(u, 0)
    BY RadixIs DEF UlebRhs
  <2>3. UlebTo(u, 0)
    BY <2>1, <2>2 DEF UlebTo
  <2> QED BY <2>3
<1>2. ASSUME NEW m \in Nat, m \in S PROVE m + 1 \in S
  <2>1. PICK u : UlebTo(u, m)
    BY <1>2
  <2> DEFINE v == [n \in 0..(m + 1) |-> IF n <= m THEN u[n] ELSE UlebRhs(u, n)]
  <2>2. \A n \in 0..m : v[n] = u[n]
    OBVIOUS
  <2>3. v[m + 1] = UlebRhs(u, m + 1)
    OBVIOUS
  <2>4. \A n \in 0..(m + 1) : n >= Radix => n \div Radix \in 0..m
    <3> SUFFICES ASSUME NEW n \in 0..(m + 1), n >= Radix PROVE n \div Radix \in 0..m
      OBVIOUS
    <3>1. n \div Radix \in 0..(n - 1)
      BY QuotientBefore
    <3> QED BY <3>1
  <2>5. \A n \in 0..(m + 1) : UlebRhs(v, n) = UlebRhs(u, n)
    <3> HIDE DEF v
    <3> QED BY <2>2, <2>4, RadixIs DEF UlebRhs
  <2>6. UlebRhs(u, m + 1) \in Seq(Nat)
    <3>1. m + 1 \in Nat /\ m + 1 \in 0..(m + 1)
      OBVIOUS
    <3>2. m + 1 >= Radix => u[(m + 1) \div Radix] \in Seq(Nat)
      BY <2>1, <2>4, <3>1 DEF UlebTo
    <3> QED BY <3>1, <3>2, UlebRhsType
  <2>7. v \in [0..(m + 1) -> Seq(Nat)]
    BY <2>1, <2>6 DEF UlebTo
  <2>8. \A n \in 0..(m + 1) : v[n] = UlebRhs(v, n)
    <3> HIDE DEF v
    <3>1. \A n \in 0..m : v[n] = UlebRhs(u, n)
      BY <2>1, <2>2 DEF UlebTo
    <3>2. \A n \in 0..(m + 1) : n \in 0..m \/ n = m + 1
      OBVIOUS
    <3> QED BY <2>3, <2>5, <3>1, <3>2
  <2> HIDE DEF v
  <2>9. UlebTo(v, m + 1)
    BY <2>7, <2>8 DEF UlebTo
  <2> QED BY <2>9
<1> HIDE DEF S
<1>3. \A m \in Nat : m \in S
  BY <1>1, <1>2, SetInduction
<1> QED BY <1>3 DEF S

\* Two tables of encodings agree where both are defined.
LEMMA UlebAgree ==
  ASSUME NEW m \in Nat, NEW k \in Nat, NEW u, NEW v, UlebTo(u, m), UlebTo(v, k)
  PROVE  \A n \in Nat : n <= m /\ n <= k => u[n] = v[n]
<1> DEFINE S == {n \in Nat : n <= m /\ n <= k => u[n] = v[n]}
<1>1. ASSUME NEW n \in Nat, \A j \in 0..(n - 1) : j \in S PROVE n \in S
  <2> SUFFICES ASSUME n <= m, n <= k PROVE u[n] = v[n]
    OBVIOUS
  <2>1. u[n] = UlebRhs(u, n) /\ v[n] = UlebRhs(v, n)
    BY DEF UlebTo
  <2>2. n >= Radix => u[n \div Radix] = v[n \div Radix]
    <3> SUFFICES ASSUME n >= Radix PROVE u[n \div Radix] = v[n \div Radix]
      OBVIOUS
    <3>1. n \div Radix \in 0..(n - 1)
      BY QuotientBefore
    <3>2. n \div Radix \in S /\ n \div Radix <= m /\ n \div Radix <= k
      BY <1>1, <3>1
    <3> QED BY <3>2
  <2> QED BY <2>1, <2>2, RadixIs DEF UlebRhs
<1> HIDE DEF S
<1>2. \A n \in Nat : n \in S
  BY <1>1, CourseInduction
<1> QED BY <1>2 DEF S

\* Uleb is the function its definition describes.
LEMMA UlebIs ==
  \A n \in Nat : Uleb[n] \in Seq(Nat) /\ Uleb[n] = UlebRhs(Uleb, n)
<1> DEFINE To(m) == CHOOSE u : UlebTo(u, m)
           U == [n \in Nat |-> To(n)[n]]
<1>1. \A m \in Nat : UlebTo(To(m), m)
  BY UlebUpTo
<1> HIDE DEF To
<1>2. ASSUME NEW n \in Nat PROVE U[n] \in Seq(Nat) /\ U[n] = UlebRhs(U, n)
  <2>1. U[n] = To(n)[n] /\ To(n)[n] \in Seq(Nat) /\ To(n)[n] = UlebRhs(To(n), n)
    <3>1. n \in 0..n /\ UlebTo(To(n), n)
      BY <1>1
    <3>2. To(n)[n] \in Seq(Nat) /\ To(n)[n] = UlebRhs(To(n), n)
      BY <3>1 DEF UlebTo
    <3> QED BY <3>2
  <2>2. n >= Radix => U[n \div Radix] = To(n)[n \div Radix]
    <3> SUFFICES ASSUME n >= Radix PROVE U[n \div Radix] = To(n)[n \div Radix]
      OBVIOUS
    <3> DEFINE q == n \div Radix
    <3>1. q \in Nat /\ q <= n
      BY QuotientBefore
    <3> HIDE DEF q
    <3>2. UlebTo(To(q), q) /\ UlebTo(To(n), n) /\ q <= q
      BY <1>1, <3>1
    <3>3. To(q)[q] = To(n)[q]
      BY <3>1, <3>2, UlebAgree
    <3>4. U[q] = To(q)[q]
      BY <3>1
    <3> QED BY <3>3, <3>4 DEF q
  <2> HIDE DEF U
  <2> QED BY <2>1, <2>2, RadixIs DEF UlebRhs
<1>3. U = [n \in Nat |-> UlebRhs(U, n)]
  <2>1. \A n \in Nat : To(n)[n] = UlebRhs(U, n)
    BY <1>2
  <2> HIDE DEF To
  <2> QED BY <2>1
<1> HIDE DEF U
<1>4. \E u : u = [n \in Nat |-> UlebRhs(u, n)]
  BY <1>3
<1>5. Uleb = CHOOSE u : u = [n \in Nat |-> UlebRhs(u, n)]
  BY DEF Uleb, UlebRhs
<1>6. Uleb = [n \in Nat |-> UlebRhs(Uleb, n)]
  BY <1>4, <1>5
<1>7. \A n \in Nat : Uleb[n] = UlebRhs(Uleb, n)
  BY <1>6
<1> DEFINE S == {n \in Nat : Uleb[n] \in Seq(Nat)}
<1>8. ASSUME NEW n \in Nat, \A j \in 0..(n - 1) : j \in S PROVE n \in S
  <2>1. n >= Radix => Uleb[n \div Radix] \in Seq(Nat)
    BY <1>8, QuotientBefore
  <2> QED BY <1>7, <2>1, UlebRhsType
<1> HIDE DEF S
<1>9. \A n \in Nat : n \in S
  BY <1>8, CourseInduction
<1> QED BY <1>7, <1>9 DEF S

\* The groups of a number: all but the last have the continuation bit, and the
\* last is zero only when it is alone.
GroupsOf(o, k) ==
  /\ k >= 1 /\ o + k <= Len(raw)
  /\ \A j \in 1..(k - 1) : raw[o + j] >= Radix
  /\ raw[o + k] < Radix
  /\ k > 1 => raw[o + k] # 0

\* A byte is below twice the radix.
LEMMA RawBytes ==
  ASSUME raw \in Seq(Byte), NEW i \in 1..Len(raw)
  PROVE  raw[i] \in Nat /\ raw[i] < 2 * Radix
<1>1. raw[i] \in Byte
  OBVIOUS
<1> QED BY <1>1, RadixIs DEF Byte

\* Remainders are natural numbers.
LEMMA RemainderType == \A n \in Nat : n % Radix \in Nat
BY RadixIs, Division

\* The value of one group.
LEMMA ValueOfOne ==
  ASSUME raw \in Seq(Byte), NEW o \in Nat, o + 1 <= Len(raw)
  PROVE  ValueAt(o, 1) = raw[o + 1] % Radix
<1> DEFINE w == [j \in 1..1 |-> (raw[o + j] % Radix) * Power(Radix, j - 1)]
<1>1. raw[o + 1] \in Nat
  BY RawBytes
<1>2. raw[o + 1] % Radix \in Nat
  BY <1>1, RemainderType
<1>3. Power(Radix, 0) = 1
  BY RadixIs, PowerZero
<1>4. w[1] = raw[o + 1] % Radix
  BY <1>2, <1>3
<1> HIDE DEF w
<1>5. RunningSum(w, 0 + 1) = RunningSum(w, 0) + w[0 + 1]
  BY <1>2, <1>4, SumStep
<1>6. RunningSum(w, 0) = 0
  BY SumOfNone
<1>7. RunningSum(w, 1) = raw[o + 1] % Radix
  BY <1>2, <1>4, <1>5, <1>6
<1> QED BY <1>7 DEF ValueAt, w

\* A sum whose later terms have the factor Radix.
LEMMA ShiftByRadix ==
  ASSUME NEW k \in Nat
  PROVE  \A x, y : /\ \A i \in 1..(k + 1) : x[i] \in Nat
                   /\ \A i \in 1..k : y[i] \in Nat /\ x[i + 1] = Radix * y[i]
                   => RunningSum(x, k + 1) = x[1] + Radix * RunningSum(y, k)
<1>1. Radix \in Nat
  BY RadixIs
<1> QED BY <1>1, SumShift

\* The value of more groups is that of the first and of those that follow it.
LEMMA ValueOfMore ==
  ASSUME raw \in Seq(Byte), NEW o \in Nat, NEW k \in Nat, o + (k + 1) <= Len(raw)
  PROVE  ValueAt(o, k + 1) = (raw[o + 1] % Radix) + Radix * ValueAt(o + 1, k)
<1> DEFINE w == [j \in 1..(k + 1) |-> (raw[o + j] % Radix) * Power(Radix, j - 1)]
           v == [j \in 1..k |-> (raw[(o + 1) + j] % Radix) * Power(Radix, j - 1)]
<1>0. \A a, b \in Nat : a * b \in Nat
  OBVIOUS
<1>1. \A j \in 1..(k + 1) : raw[o + j] % Radix \in Nat
  <2> TAKE j \in 1..(k + 1)
  <2>1. o + j \in 1..Len(raw)
    OBVIOUS
  <2>2. raw[o + j] \in Nat
    BY <2>1, RawBytes
  <2> QED BY <2>2, RemainderType
<1>2. \A j \in 1..(k + 1) : w[j] \in Nat
  <2> TAKE j \in 1..(k + 1)
  <2>1. Power(Radix, j - 1) \in Nat
    <3>1. j - 1 \in Nat /\ Radix \in Nat
      BY RadixIs
    <3> QED BY <3>1, PowerType
  <2> QED BY <1>0, <1>1, <2>1
<1>3. \A j \in 1..k : v[j] \in Nat /\ w[j + 1] = Radix * v[j]
  <2> TAKE j \in 1..k
  <2> DEFINE d == raw[(o + 1) + j] % Radix
             p == Power(Radix, j - 1)
  <2>1. j + 1 \in 1..(k + 1) /\ o + (j + 1) = (o + 1) + j /\ j - 1 \in Nat /\ (j - 1) + 1 = (j + 1) - 1
    OBVIOUS
  <2>2. d \in Nat
    BY <1>1, <2>1
  <2>3. Power(Radix, (j - 1) + 1) = Radix * p /\ p \in Nat
    BY <2>1, RadixIs, PowerStep, PowerType
  <2>4. w[j + 1] = d * (Radix * p)
    BY <2>1, <2>3
  <2>5. v[j] = d * p
    OBVIOUS
  <2> HIDE DEF d, p, w, v
  <2>6. \A a, b, c \in Nat : a * (b * c) = b * (a * c)
    OBVIOUS
  <2> QED BY <1>0, <2>2, <2>3, <2>4, <2>5, <2>6, RadixIs
<1>4. w[1] = raw[o + 1] % Radix
  <2>1. Power(Radix, 0) = 1
    BY RadixIs, PowerZero
  <2>2. 1 \in 1..(k + 1) /\ 1 - 1 = 0
    OBVIOUS
  <2>3. w[1] = (raw[o + 1] % Radix) * Power(Radix, 0)
    BY <2>2
  <2> QED BY <1>1, <2>1, <2>2, <2>3
<1> HIDE DEF w, v
<1>5. RunningSum(w, k + 1) = w[1] + Radix * RunningSum(v, k)
  BY <1>2, <1>3, ShiftByRadix
<1>6. ValueAt(o, k + 1) = RunningSum(w, k + 1) /\ ValueAt(o + 1, k) = RunningSum(v, k)
  BY DEF ValueAt, w, v
<1> QED BY <1>4, <1>5, <1>6

\* The first byte and the others.
LEMMA FirstOfSlice ==
  ASSUME raw \in Seq(Byte), NEW o \in Nat, NEW k \in Nat, o + (k + 1) <= Len(raw)
  PROVE  SubSeq(raw, o + 1, o + (k + 1)) = <<raw[o + 1]>> \o SubSeq(raw, (o + 1) + 1, (o + 1) + k)
OBVIOUS

\* What bytes say is a natural number.
LEMMA ValueIsNat ==
  ASSUME raw \in Seq(Byte)
  PROVE  \A o, k \in Nat : o + k <= Len(raw) => ValueAt(o, k) \in Nat
BY ValueType

\* The first of several groups.
LEMMA FirstGroup ==
  ASSUME NEW b \in Nat, Radix <= b, b < 2 * Radix
  PROVE  b = Radix + (b % Radix) /\ b % Radix \in 0..(Radix - 1)
<1> DEFINE d == b - Radix
           m == 1
<1>1. d \in 0..(Radix - 1) /\ b = d + Radix * m /\ b = Radix + d /\ m \in Nat
  BY RadixIs
<1> HIDE DEF d, m
<1>2. (d + Radix * m) % Radix = d
  BY <1>1, RadixIs, DivisionIs
<1> QED BY <1>1, <1>2

\* The slice of one byte.
LEMMA OneOfSlice ==
  ASSUME raw \in Seq(Byte), NEW o \in Nat, o + 1 <= Len(raw)
  PROVE  SubSeq(raw, o + 1, o + 1) = <<raw[o + 1]>>
<1> DEFINE i == o + 1
<1>1. i \in 1..Len(raw)
  OBVIOUS
<1> HIDE DEF i
<1>2. SubSeq(raw, i, i) = <<raw[i]>> \o SubSeq(raw, i + 1, i)
  BY <1>1, SubSeqRecursiveFirst
<1>3. SubSeq(raw, i + 1, i) = << >>
  BY <1>1, SubSeqEmpty
<1>4. <<raw[i]>> \o << >> = <<raw[i]>>
  BY <1>1
<1> QED BY <1>2, <1>3, <1>4 DEF i

\* Groups are the encoding of their value, and it is zero for a zero byte alone.
LEMMA GroupsAreUleb ==
  ASSUME raw \in Seq(Byte)
  PROVE  \A k \in Nat : \A o \in Nat : GroupsOf(o, k + 1) =>
           /\ SubSeq(raw, o + 1, o + (k + 1)) = Uleb[ValueAt(o, k + 1)]
           /\ raw[o + (k + 1)] # 0 => ValueAt(o, k + 1) >= 1
<1> DEFINE P(o, k) == GroupsOf(o, k + 1) =>
             /\ SubSeq(raw, o + 1, o + (k + 1)) = Uleb[ValueAt(o, k + 1)]
             /\ raw[o + (k + 1)] # 0 => ValueAt(o, k + 1) >= 1
           S == {k \in Nat : \A o \in Nat : P(o, k)}
<1>1. 0 \in S
  <2> SUFFICES ASSUME NEW o \in Nat, GroupsOf(o, 1)
               PROVE  /\ SubSeq(raw, o + 1, o + 1) = Uleb[ValueAt(o, 1)]
                      /\ raw[o + 1] # 0 => ValueAt(o, 1) >= 1
    OBVIOUS
  <2>1. o + 1 <= Len(raw) /\ raw[o + 1] < Radix /\ raw[o + 1] \in Nat
    BY RawBytes DEF GroupsOf
  <2>2. raw[o + 1] % Radix = raw[o + 1]
    <3> DEFINE b == raw[o + 1]
    <3>1. b \in 0..(Radix - 1) /\ b = b + Radix * 0
      BY <2>1, RadixIs
    <3> HIDE DEF b
    <3>2. (b + Radix * 0) % Radix = b
      BY <3>1, RadixIs, DivisionIs
    <3> QED BY <3>1, <3>2 DEF b
  <2>3. ValueAt(o, 1) = raw[o + 1]
    BY <2>1, <2>2, ValueOfOne
  <2>4. Uleb[raw[o + 1]] = <<raw[o + 1]>>
    BY <2>1, UlebIs DEF UlebRhs
  <2>5. SubSeq(raw, o + 1, o + 1) = <<raw[o + 1]>>
    BY <2>1, OneOfSlice
  <2>6. SubSeq(raw, o + 1, o + 1) = Uleb[ValueAt(o, 1)]
    BY <2>3, <2>4, <2>5
  <2>7. raw[o + 1] # 0 => ValueAt(o, 1) >= 1
    BY <2>1, <2>3
  <2> QED BY <2>6, <2>7
<1>2. ASSUME NEW k \in Nat, k \in S PROVE k + 1 \in S
  <2> SUFFICES ASSUME NEW o \in Nat, GroupsOf(o, (k + 1) + 1)
               PROVE  /\ SubSeq(raw, o + 1, o + ((k + 1) + 1)) = Uleb[ValueAt(o, (k + 1) + 1)]
                      /\ raw[o + ((k + 1) + 1)] # 0 => ValueAt(o, (k + 1) + 1) >= 1
    OBVIOUS
  <2> DEFINE n == k + 1
             b == raw[o + 1]
             m == ValueAt(o + 1, n)
             v == ValueAt(o, n + 1)
  <2>1. /\ n \in Nat /\ n >= 1 /\ o + (n + 1) <= Len(raw) /\ (o + 1) + n <= Len(raw)
        /\ \A j \in 1..n : raw[o + j] >= Radix
        /\ raw[o + (n + 1)] < Radix /\ raw[o + (n + 1)] # 0
        /\ o + (n + 1) = (o + 1) + n
    BY DEF GroupsOf
  <2>2. GroupsOf(o + 1, n)
    <3>1. \A j \in 1..(n - 1) : (o + 1) + j = o + (j + 1) /\ j + 1 \in 1..n
      OBVIOUS
    <3>2. \A j \in 1..(n - 1) : raw[(o + 1) + j] >= Radix
      BY <2>1, <3>1
    <3> HIDE DEF n
    <3> QED BY <2>1, <3>2 DEF GroupsOf
  <2>3. /\ SubSeq(raw, (o + 1) + 1, (o + 1) + n) = Uleb[m]
        /\ m >= 1
    <3>1. P(o + 1, k)
      BY <1>2
    <3> QED BY <2>1, <2>2, <3>1
  <2>4. b \in Nat /\ Radix <= b /\ b < 2 * Radix
    <3>1. 1 \in 1..n /\ o + 1 \in 1..Len(raw)
      BY <2>1
    <3> QED BY <2>1, <3>1, RawBytes
  <2>5. b = Radix + (b % Radix) /\ b % Radix \in 0..(Radix - 1)
    BY <2>4, FirstGroup
  <2>6. m \in Nat
    <3> HIDE DEF n
    <3>1. o + 1 \in Nat
      OBVIOUS
    <3> QED BY <2>1, <3>1, ValueIsNat
  <2>7. v = (b % Radix) + Radix * m
    <3> HIDE DEF n
    <3> QED BY <2>1, ValueOfMore
  <2>8. SubSeq(raw, o + 1, o + (n + 1)) = <<b>> \o SubSeq(raw, (o + 1) + 1, (o + 1) + n)
    <3> HIDE DEF n
    <3> QED BY <2>1, FirstOfSlice
  <2> HIDE DEF v, m, b
  <2>9. v % Radix = b % Radix /\ v \div Radix = m
    <3> DEFINE d == b % Radix
    <3>1. d \in 0..(Radix - 1) /\ v = d + Radix * m
      BY <2>5, <2>7
    <3> HIDE DEF d
    <3>2. v % Radix = d /\ v \div Radix = m
      BY <2>6, <3>1, RadixIs, DivisionIs
    <3> QED BY <3>2 DEF d
  <2>10. v \in Nat /\ v >= Radix /\ v >= 1
    <3>1. Radix * m >= Radix
      BY <2>3, <2>6, RadixIs
    <3> DEFINE d == b % Radix
               p == Radix * m
    <3>2. d \in Nat /\ v = d + p /\ p >= Radix /\ p \in Nat
      BY <2>5, <2>6, <2>7, <3>1, RadixIs
    <3> HIDE DEF d, p
    <3> QED BY <3>2, RadixIs
  <2>11. Uleb[v] = <<Radix + (v % Radix)>> \o Uleb[v \div Radix]
    <3>1. Uleb[v] = UlebRhs(Uleb, v)
      BY <2>10, UlebIs
    <3>2. ~(v < Radix)
      BY <2>10, RadixIs
    <3> QED BY <3>1, <3>2 DEF UlebRhs
  <2>12. Uleb[v] = <<b>> \o Uleb[m]
    <3>1. Radix + (v % Radix) = b
      BY <2>5, <2>9
    <3>2. <<Radix + (v % Radix)>> = <<b>>
      BY <3>1
    <3>3. Uleb[v \div Radix] = Uleb[m]
      BY <2>9
    <3> QED BY <2>11, <3>2, <3>3
  <2>13. SubSeq(raw, o + 1, o + (n + 1)) = Uleb[v] /\ v >= 1
    BY <2>3, <2>8, <2>10, <2>12
  <2> QED BY <2>13 DEF v
<1> HIDE DEF P
<1>3. \A k \in Nat : k \in S
  <2> HIDE DEF S
  <2> QED BY <1>1, <1>2, SetInduction
<1> QED BY <1>3 DEF P

\* A number that was read is encoded by the bytes it was read from.
LEMMA NumberIsUleb ==
  ASSUME raw \in Seq(Byte), NEW o \in Nat, NEW k, IsNumber(o, k)
  PROVE  SubSeq(raw, o + 1, o + k) = Uleb[ValueAt(o, k)]
<1>1. k \in 1..MaxGroups /\ GroupsOf(o, k)
  BY ParserAssumption DEF IsNumber, GroupsAt, GroupsOf
<1> DEFINE j == k - 1
<1>2. j \in Nat /\ k = j + 1
  BY <1>1
<1> HIDE DEF j
<1> QED BY <1>1, <1>2, GroupsAreUleb

\* The invariant implies that numbers were read from their own encodings.
LEMMA ParserInvCanonical == ParserInv => NumbersCanonical
<1> SUFFICES ASSUME ParserInv, NEW f \in NumberNames, WasRead(f)
             PROVE  SliceBytes(tx[f]) = Uleb[NumberIn(tx[f])]
  BY DEF NumbersCanonical
<1> DEFINE o == tx[f].from
           k == tx[f].to - tx[f].from
<1>1. f \in FieldNames \cap Numbers
  BY NumberNamesAre
<1>2. /\ IsNumber(o, k) /\ raw \in Seq(Byte) /\ o \in Nat /\ tx[f].to = o + k
  BY <1>1 DEF ParserInv, SizeT
<1> HIDE DEF o, k
<1>3. SubSeq(raw, o + 1, o + k) = Uleb[ValueAt(o, k)]
  BY <1>2, NumberIsUleb
<1>4. SubSeq(raw, tx[f].from + 1, tx[f].to) = Uleb[ValueAt(tx[f].from, tx[f].to - tx[f].from)]
  BY <1>2, <1>3 DEF o, k
<1> QED BY <1>4 DEF SliceBytes, NumberIn

\* A number has one encoding: the bytes accepted as a number are those that
\* uleb128 writes for it (bcs/decoder.c:106-131 refuses padding and overflow).
THEOREM NumbersAreCanonical == Spec => []NumbersCanonical
BY ParserInvariant, ParserInvCanonical, PTL

-----------------------------------------------------------------------------
(* The chain of the fields. *)

\* The order of the parts; one of the transfers is read.
Rank == [raw |-> 1, footer |-> 2, payload |-> 3, entry_function |-> 4,
         account_transfer |-> 5, coin_transfer |-> 5]
\* Field i of the part has been read.
Passed(p, i) == at \in Parts /\ (Rank[p] < Rank[at] \/ (p = at /\ i < next))

\* Where a part begins, and where a field of it does.
PartStart(p) ==
  CASE p = "raw" -> TX_HASHED_PREFIX_LEN
    [] p = "footer" -> Len(raw) - TX_FOOTER_LEN
    [] p = "payload" -> tx["sequence"].to
    [] p = "entry_function" -> tx["payload_variant"].to
    [] OTHER -> tx["function_name"].to
StartOf(p, i) == IF i = 1 THEN PartStart(p) ELSE tx[Fields[p][i - 1].name].to

\* A field that has been read begins where it must, has the length it must have
\* and, if it is a number, one of the values allowed.
Right(p, i) ==
  LET f == Fields[p][i]
      s == tx[f.name]
  IN  /\ s.from = StartOf(p, i)
      /\ f.kind = "bytes" => s.to = s.from + f.len
      /\ f.kind = "text" => s.to = s.from + NumberIn(tx[f.of])
      /\ f.kind = "number" => s.from < s.to /\ NumberIn(s) \in f.values

\* The function is known while its arguments are read, and not before.
KnownAt ==
  /\ at \in {"start", "raw", "footer", "payload", "entry_function"} => known_type = "FUNC_UNKNOWN"
  /\ at = "account_transfer" => known_type = "FUNC_APTOS_ACCOUNT_TRANSFER"
  /\ at = "coin_transfer" => known_type = "FUNC_COIN_TRANSFER"
\* The function's name has not been read.
FunctionUnread ==
  \/ at \in {"start", "raw", "footer", "payload"}
  \/ at = "entry_function" /\ next <= 5

\* The payload is an entry function.
InEntryFunction ==
  at \in {"entry_function", "account_transfer", "coin_transfer"} =>
    NumberIn(tx["payload_variant"]) = PAYLOAD_ENTRY_FUNCTION

\* The front began with its prefix, what was read is right, the cursors are where
\* the next field begins, and what was accepted is an encoding.
ChainInv ==
  /\ at \in Parts => /\ TX_HASHED_PREFIX_LEN <= Len(raw)
                     /\ SubSeq(raw, 1, TX_HASHED_PREFIX_LEN) = PREFIX_RAW_TX_HASHED
  /\ \A p \in Parts : \A i \in 1..Len(Fields[p]) : Passed(p, i) => Right(p, i)
  /\ at \in Parts \ {"footer"} => buf.offset = StartOf(at, next)
  /\ at = "footer" => /\ buf.offset = tx["sequence"].to
                      /\ buf_footer.offset = StartOf("footer", next)
  /\ FunctionUnread => tx["function_name"] = Unread
  /\ KnownAt /\ InEntryFunction
  /\ FrontIsEncoding /\ AccountTransferIsEncoding

-----------------------------------------------------------------------------
(* The order in which the fields are read. *)

\* The place of a field in that order, by its name and by its part and index.
Place == [sender |-> 1, sequence |-> 2, max_gas_amount |-> 3, gas_unit_price |-> 4,
          expiration_timestamp_secs |-> 5, chain_id |-> 6, payload_variant |-> 7,
          module_address |-> 8, module_name_len |-> 9, module_name |-> 10,
          function_name_len |-> 11, function_name |-> 12, ty_size |-> 13, ty_arg_variant |-> 14,
          coin_address |-> 15, coin_module_len |-> 16, coin_module |-> 17, coin_name_len |-> 18,
          coin_name |-> 19, coin_type_args_size |-> 20, args_size |-> 21, receiver_len |-> 22,
          receiver |-> 23, amount_len |-> 24, amount |-> 25]

PlaceIn(p, i) ==
  CASE p = "raw" -> i
    [] p = "footer" -> 2 + i
    [] p = "payload" -> 6 + i
    [] p = "entry_function" -> 7 + i
    [] p = "coin_transfer" -> 12 + i
    [] OTHER -> IF i = 1 THEN 13 ELSE 19 + i

\* How many fields each part has.
LEMMA Sizes ==
  /\ Len(Fields["raw"]) = 2 /\ Len(Fields["footer"]) = 4 /\ Len(Fields["payload"]) = 1
  /\ Len(Fields["entry_function"]) = 5 /\ Len(Fields["account_transfer"]) = 6
  /\ Len(Fields["coin_transfer"]) = 13
BY Tables, PartNames DEF TableOK, Names, PartSet

\* The places are those of the tables, part by part: the front ...
LEMMA RawPlaces == \A i \in 1..2 : Place[Names["raw"][i]] = i
BY DEF Names, Place

\* ... the footer ...
LEMMA FooterPlaces == \A i \in 1..4 : Place[Names["footer"][i]] = 2 + i
BY DEF Names, Place

\* ... the payload ...
LEMMA PayloadPlaces == \A i \in 1..1 : Place[Names["payload"][i]] = 6 + i
BY DEF Names, Place

\* ... the function ...
LEMMA EntryPlaces == \A i \in 1..5 : Place[Names["entry_function"][i]] = 7 + i
BY DEF Names, Place

\* ... an account transfer's arguments ...
LEMMA AccountPlaces ==
  \A i \in 1..6 : Place[Names["account_transfer"][i]] = IF i = 1 THEN 13 ELSE 19 + i
BY DEF Names, Place

\* ... and a coin transfer's.
LEMMA CoinPlaces == \A i \in 1..13 : Place[Names["coin_transfer"][i]] = 12 + i
BY DEF Names, Place

\* The place of a field is given by its part and its index.
LEMMA Places ==
  ASSUME NEW p \in Parts, NEW i \in 1..Len(Fields[p])
  PROVE  Place[Fields[p][i].name] = PlaceIn(p, i)
<1>1. Fields[p][i].name = Names[p][i]
  BY Tables DEF TableOK, FieldOK
<1>2. CASE p = "raw"
  BY <1>1, <1>2, Sizes, RawPlaces DEF PlaceIn
<1>3. CASE p = "footer"
  BY <1>1, <1>3, Sizes, FooterPlaces DEF PlaceIn
<1>4. CASE p = "payload"
  BY <1>1, <1>4, Sizes, PayloadPlaces DEF PlaceIn
<1>5. CASE p = "entry_function"
  BY <1>1, <1>5, Sizes, EntryPlaces DEF PlaceIn
<1>6. CASE p = "account_transfer"
  BY <1>1, <1>6, Sizes, AccountPlaces DEF PlaceIn
<1>7. CASE p = "coin_transfer"
  BY <1>1, <1>7, Sizes, CoinPlaces DEF PlaceIn
<1> QED BY <1>2, <1>3, <1>4, <1>5, <1>6, <1>7, PartNames DEF PartSet

\* The names that places are computed from.
LEMMA NamedFields ==
  {"sender", "sequence", "payload_variant", "module_address", "module_name_len", "module_name",
   "function_name_len", "function_name"} \subseteq FieldNames
<1>1. \A p \in Parts : \A i \in 1..Len(Fields[p]) : Names[p][i] \in FieldNames
  BY Tables, FieldIs DEF TableOK, FieldOK
<1>2. /\ "raw" \in Parts /\ 1 \in 1..Len(Fields["raw"]) /\ 2 \in 1..Len(Fields["raw"])
      /\ "payload" \in Parts /\ 1 \in 1..Len(Fields["payload"])
      /\ "entry_function" \in Parts
      /\ 1 \in 1..Len(Fields["entry_function"]) /\ 2 \in 1..Len(Fields["entry_function"])
      /\ 3 \in 1..Len(Fields["entry_function"]) /\ 4 \in 1..Len(Fields["entry_function"])
      /\ 5 \in 1..Len(Fields["entry_function"])
  BY Sizes, PartNames DEF PartSet
<1>3. Names["raw"][1] \in FieldNames /\ Names["raw"][2] \in FieldNames
  BY <1>1, <1>2
<1>4. Names["payload"][1] \in FieldNames
  BY <1>1, <1>2
<1>5. /\ Names["entry_function"][1] \in FieldNames /\ Names["entry_function"][2] \in FieldNames
      /\ Names["entry_function"][3] \in FieldNames /\ Names["entry_function"][4] \in FieldNames
      /\ Names["entry_function"][5] \in FieldNames
  BY <1>1, <1>2
<1> QED BY <1>3, <1>4, <1>5 DEF Names

\* The fields of a text's length precede it.
LEMMA LengthBefore ==
  ASSUME NEW p \in Parts, NEW i \in 1..Len(Fields[p]), Fields[p][i].kind = "text"
  PROVE  i > 1 /\ Fields[p][i].of = Fields[p][i - 1].name
<1>1. TableOK(Fields[p], Names[p])
  BY Tables
<1>2. i > 1 /\ Fields[p][i].of = Names[p][i - 1] /\ Len(Fields[p]) = Len(Names[p])
  BY <1>1 DEF TableOK
<1>3. i - 1 \in 1..Len(Names[p])
  BY <1>2
<1> QED BY <1>1, <1>2, <1>3 DEF TableOK, FieldOK

\* Fields are read in the order of their places.
LEMMA PlacesGrow ==
  ASSUME NEW p \in Parts, NEW i \in 1..Len(Fields[p]), NEW j \in 1..Len(Fields[p]), i < j
  PROVE  PlaceIn(p, i) < PlaceIn(p, j)
BY Sizes, PartNames DEF PartSet, PlaceIn

\* Places are natural numbers.
LEMMA PlaceType == \A p \in Parts : \A i \in 1..Len(Fields[p]) : PlaceIn(p, i) \in Nat
BY PartNames DEF PartSet, PlaceIn

\* The place of what a part begins after.
PlaceBefore(p) ==
  CASE p = "raw" -> 0 [] p = "footer" -> 0 [] p = "payload" -> 2 [] p = "entry_function" -> 7
    [] OTHER -> 12

\* Where a part begins was settled by what was read before it.
LEMMA PartStartKept ==
  ASSUME NEW p \in Parts, NEW z, PlaceBefore(p) < z, raw' = raw,
         \A f \in FieldNames : Place[f] < z => tx'[f] = tx[f]
  PROVE  PartStart(p)' = PartStart(p)
<1>1. Place["sequence"] = 2 /\ Place["payload_variant"] = 7 /\ Place["function_name"] = 12
  BY DEF Place
<1>2. "sequence" \in FieldNames /\ "payload_variant" \in FieldNames /\ "function_name" \in FieldNames
  BY NamedFields
<1>3. CASE p = "raw"
  BY <1>3 DEF PartStart
<1>4. CASE p = "footer"
  BY <1>4 DEF PartStart
<1>5. CASE p = "payload"
  BY <1>1, <1>2, <1>5 DEF PartStart, PlaceBefore
<1>6. CASE p = "entry_function"
  BY <1>1, <1>2, <1>6 DEF PartStart, PlaceBefore
<1>7. CASE p \notin {"raw", "footer", "payload", "entry_function"}
  BY <1>1, <1>2, <1>7 DEF PartStart, PlaceBefore
<1> QED BY <1>3, <1>4, <1>5, <1>6, <1>7

\* Where a field begins depends on what was read before it.
LEMMA StartKept ==
  ASSUME NEW p \in Parts, NEW i \in 1..(Len(Fields[p]) + 1), NEW z \in Nat, raw' = raw,
         \A f \in FieldNames : Place[f] < z => tx'[f] = tx[f],
         i = 1 => PlaceBefore(p) < z,
         i > 1 => PlaceIn(p, i - 1) < z
  PROVE  StartOf(p, i)' = StartOf(p, i)
<1>1. CASE i = 1
  BY <1>1, PartStartKept DEF StartOf
<1>2. CASE i > 1
  <2>1. i - 1 \in 1..Len(Fields[p])
    BY <1>2, Sizes, PartNames DEF PartSet
  <2>2. Fields[p][i - 1].name \in FieldNames /\ Place[Fields[p][i - 1].name] < z
    BY <1>2, <2>1, FieldIs, Places
  <2> QED BY <1>2, <2>2 DEF StartOf
<1> QED BY <1>1, <1>2

\* A field stays right while what was read up to it stays.
LEMMA RightKept ==
  ASSUME NEW p \in Parts, NEW i \in 1..Len(Fields[p]), NEW z \in Nat, raw' = raw,
         \A f \in FieldNames : Place[f] < z => tx'[f] = tx[f],
         PlaceIn(p, i) < z, Right(p, i)
  PROVE  Right(p, i)'
<1>1. Fields[p][i].name \in FieldNames /\ Place[Fields[p][i].name] < z
  BY FieldIs, Places
<1>2. tx'[Fields[p][i].name] = tx[Fields[p][i].name]
  BY <1>1
<1>3. PlaceBefore(p) < PlaceIn(p, 1)
  BY PartNames DEF PartSet, PlaceBefore, PlaceIn
<1>4. i > 1 => i - 1 \in 1..Len(Fields[p]) /\ PlaceIn(p, i - 1) < z
  <2> SUFFICES ASSUME i > 1 PROVE i - 1 \in 1..Len(Fields[p]) /\ PlaceIn(p, i - 1) < z
    OBVIOUS
  <2>1. i - 1 \in 1..Len(Fields[p])
    BY Sizes, PartNames DEF PartSet
  <2>3. PlaceIn(p, i - 1) \in Nat /\ PlaceIn(p, i) \in Nat
    BY <2>1, PlaceType
  <2>2. PlaceIn(p, i - 1) < PlaceIn(p, i)
    BY <2>1, PlacesGrow
  <2> QED BY <2>1, <2>2, <2>3
<1>5. StartOf(p, i)' = StartOf(p, i)
  <2>1. i \in 1..(Len(Fields[p]) + 1) /\ (i = 1 => PlaceBefore(p) < z)
    BY <1>3, Sizes, PartNames DEF PartSet, PlaceIn, PlaceBefore
  <2> QED BY <1>4, <2>1, StartKept
<1>6. Fields[p][i].kind = "text" => tx'[Fields[p][i].of] = tx[Fields[p][i].of]
  <2> SUFFICES ASSUME Fields[p][i].kind = "text"
               PROVE  tx'[Fields[p][i].of] = tx[Fields[p][i].of]
    OBVIOUS
  <2>1. i > 1 /\ Fields[p][i].of = Fields[p][i - 1].name
    BY LengthBefore
  <2>2. Fields[p][i - 1].name \in FieldNames /\ Place[Fields[p][i - 1].name] < z
    BY <1>4, <2>1, FieldIs, Places
  <2> QED BY <2>1, <2>2
<1>7. \A s : NumberIn(s)' = ValueAt(s.from, s.to - s.from)' 
  BY DEF NumberIn
<1>8. \A o, k : ValueAt(o, k)' = ValueAt(o, k)
  BY NumbersKept
<1>9. NumberIn(tx[Fields[p][i].name])' = NumberIn(tx[Fields[p][i].name])
  BY <1>2, <1>8 DEF NumberIn
<1>10. Fields[p][i].kind = "text" =>
         NumberIn(tx[Fields[p][i].of])' = NumberIn(tx[Fields[p][i].of])
  BY <1>6, <1>8 DEF NumberIn
<1> QED BY <1>2, <1>5, <1>9, <1>10 DEF Right

-----------------------------------------------------------------------------
(* The steps. *)

\* The places of each part.
LEMMA PlaceRange ==
  ASSUME NEW p \in Parts, NEW i \in 1..Len(Fields[p])
  PROVE  /\ p = "raw" => PlaceIn(p, i) <= 2
         /\ p = "footer" => 2 < PlaceIn(p, i) /\ PlaceIn(p, i) <= 6
         /\ p = "payload" => 6 < PlaceIn(p, i) /\ PlaceIn(p, i) <= 7
         /\ p = "entry_function" => 7 < PlaceIn(p, i) /\ PlaceIn(p, i) <= 12
         /\ p \in {"account_transfer", "coin_transfer"} => 12 < PlaceIn(p, i)
<1>1. CASE p = "raw"
  BY <1>1, Sizes DEF PlaceIn
<1>2. CASE p = "footer"
  BY <1>2, Sizes DEF PlaceIn
<1>3. CASE p = "payload"
  BY <1>3, Sizes DEF PlaceIn
<1>4. CASE p = "entry_function"
  BY <1>4, Sizes DEF PlaceIn
<1>5. CASE p \in {"account_transfer", "coin_transfer"}
  BY <1>5, Sizes DEF PlaceIn
<1> QED BY <1>1, <1>2, <1>3, <1>4, <1>5, PartNames DEF PartSet

\* What has been read has its place before what is being read.
LEMMA PassedBefore ==
  ASSUME ParserInv, Reading, NEW p \in Parts, NEW i \in 1..Len(Fields[p]), Passed(p, i)
  PROVE  PlaceIn(p, i) < PlaceIn(at, next)
<1>1. at \in Parts /\ next \in 1..Len(Fields[at])
  BY DEF Reading, ParserInv
<1>2. CASE p = at
  <2>1. i < next /\ next \in 1..Len(Fields[p])
    <3>1. Rank[p] \in Nat
      BY PartNames DEF PartSet, Rank
    <3>2. ~(Rank[p] < Rank[at])
      BY <1>2, <3>1
    <3> QED BY <1>1, <1>2, <3>2 DEF Passed
  <2>2. PlaceIn(p, i) < PlaceIn(p, next)
    BY <2>1, PlacesGrow
  <2> QED BY <1>2, <2>2
<1>3. CASE p # at
  <2>1. Rank[p] < Rank[at]
    BY <1>3 DEF Passed
  <2>2. at \in PartSet /\ p \in PartSet
    BY <1>1, PartNames
  <2> DEFINE x == PlaceIn(p, i)
             y == PlaceIn(at, next)
  <2>3. x \in Nat /\ y \in Nat
    BY <1>1, PlaceType
  <2>4. /\ p = "raw" => x <= 2
        /\ p = "footer" => 2 < x /\ x <= 6
        /\ p = "payload" => 6 < x /\ x <= 7
        /\ p = "entry_function" => 7 < x /\ x <= 12
    BY PlaceRange
  <2>5. /\ at = "footer" => 2 < y
        /\ at = "payload" => 6 < y
        /\ at = "entry_function" => 7 < y
        /\ at \in {"account_transfer", "coin_transfer"} => 12 < y
    BY <1>1, PlaceRange
  <2> HIDE DEF x, y
  <2>6. /\ at # "raw" /\ p # "account_transfer" /\ p # "coin_transfer"
        /\ at = "footer" => p = "raw"
        /\ at = "payload" => p \in {"raw", "footer"}
        /\ at = "entry_function" => p \in {"raw", "footer", "payload"}
    BY <2>1, <2>2 DEF PartSet, Rank
  <2>7. x < y
    BY <2>2, <2>3, <2>4, <2>5, <2>6 DEF PartSet
  <2> QED BY <2>7 DEF x, y
<1> QED BY <1>2, <1>3

\* Where the field that is being read begins was settled before it.
LEMMA StartsBefore ==
  ASSUME NEW p \in Parts, NEW i \in 1..Len(Fields[p])
  PROVE  /\ i = 1 => PlaceBefore(p) < PlaceIn(p, i)
         /\ i > 1 => PlaceIn(p, i - 1) < PlaceIn(p, i)
<1>1. i = 1 => PlaceBefore(p) < PlaceIn(p, i)
  BY PartNames DEF PartSet, PlaceBefore, PlaceIn
<1>2. ASSUME i > 1 PROVE PlaceIn(p, i - 1) < PlaceIn(p, i)
  <2>1. i - 1 \in 1..Len(Fields[p]) /\ i - 1 < i
    BY <1>2, Sizes, PartNames DEF PartSet
  <2> QED BY <2>1, PlacesGrow
<1> QED BY <1>1, <1>2

\* Taking the field leaves what has its place before.
LEMMA TookKeeps ==
  ASSUME ParserInv, Reading, NEW n \in Nat, Cursor.offset + n <= Len(raw), Took(n), raw' = raw
  PROVE  \A f \in FieldNames : Place[f] < PlaceIn(at, next) => tx'[f] = tx[f]
<1>1. at \in Parts /\ next \in 1..Len(Fields[at])
  BY DEF Reading, ParserInv
<1>2. Place[Field.name] = PlaceIn(at, next)
  BY <1>1, Places DEF Field
<1>3. PlaceIn(at, next) \in Nat
  BY <1>1, PlaceType
<1>4. tx' = [tx EXCEPT ![Field.name] = Slice(Cursor.offset, Cursor.offset + n)]
  BY TookMoves
<1> QED BY <1>2, <1>3, <1>4 DEF ParserInv

\* The field is read next to the one before it.
LEMMA CursorAtStart ==
  ASSUME ChainInv, Reading
  PROVE  Cursor.offset = StartOf(at, next)
BY DEF ChainInv, Reading, Cursor

\* A field that is read from where the one before it ended, with the length and
\* the value it must have, is right, and those before it stay so.
LEMMA ReadChain ==
  ASSUME ParserInv, ChainInv, Reading, NEW n \in Nat, Cursor.offset + n <= Len(raw),
         Took(n), NextField, raw' = raw, known_type' = known_type,
         Field.kind = "bytes" => n = Field.len,
         Field.kind = "text" => n = NumberIn(tx[Field.of]),
         Field.kind = "number" => n > 0 /\ ValueAt(Cursor.offset, n) \in Field.values
  PROVE  ChainInv'
<1> DEFINE z == PlaceIn(at, next)
<1>1. at \in Parts /\ next \in 1..Len(Fields[at]) /\ at # "done" /\ at # "start"
  BY PartNames DEF Reading, ParserInv, PartSet
<1>2. z \in Nat
  BY <1>1, PlaceType
<1>3. \A f \in FieldNames : Place[f] < z => tx'[f] = tx[f]
  BY TookKeeps
<1>4. at' = at /\ next' = next + 1
  BY DEF NextField
<1>5. /\ at = "footer" => buf' = buf
      /\ at # "footer" => buf'.offset = buf.offset + n
      /\ Field.name \in FieldNames
      /\ tx' = [tx EXCEPT ![Field.name] = Slice(Cursor.offset, Cursor.offset + n)]
  BY TookMoves
<1>6. at = "footer" => buf_footer'.offset = buf_footer.offset + n
  <2> SUFFICES ASSUME at = "footer" PROVE buf_footer'.offset = buf_footer.offset + n
    OBVIOUS
  <2>1. buf_footer \in buffer_t /\ buf_footer.offset + n <= buf_footer.size
    BY DEF Cursor, ParserInv, OverRaw
  <2>2. buf_footer' = buffer_seek_cur(buf_footer, n)
    BY DEF Took
  <2>3. buf_footer' = [buf_footer EXCEPT !.offset = buf_footer.offset + n]
    BY <2>1, <2>2, SeekCurMoves
  <2> QED BY <2>1, <2>3 DEF buffer_t
<1>7. Cursor.offset = StartOf(at, next) /\ Cursor.offset \in Nat
  <2>1. Cursor.offset = StartOf(at, next)
    BY CursorAtStart
  <2>2. Cursor.offset \in Nat
    BY DEF Cursor, ParserInv, OverRaw, buffer_t, SizeT
  <2> QED BY <2>1, <2>2
<1> HIDE DEF z
<1>8. tx'[Field.name].from = StartOf(at, next) /\ tx'[Field.name].to = StartOf(at, next) + n
  BY <1>5, <1>7 DEF ParserInv, Slice
<1>9. StartOf(at, next)' = tx'[Field.name].to
  <2>1. next' # 1 /\ next' - 1 = next
    BY <1>1, <1>4
  <2> QED BY <1>4, <2>1 DEF StartOf, Field
<1>10. StartOf(at, next) = Cursor.offset /\ StartOf(at, next) + n = StartOf(at, next)'
  BY <1>7, <1>8, <1>9
<1>11. ASSUME NEW p \in Parts, NEW i \in 1..Len(Fields[p]), Passed(p, i)
       PROVE  Right(p, i)'
  <2>1. Right(p, i)
    BY <1>11 DEF ChainInv
  <2>2. PlaceIn(p, i) < z
    BY <1>11, PassedBefore DEF z
  <2> QED BY <1>2, <1>3, <2>1, <2>2, RightKept
<1>12. ASSUME NEW p \in Parts, NEW i \in 1..Len(Fields[p]), p = at, i = next
       PROVE  Right(p, i)'
  <2>1. StartOf(p, i)' = StartOf(p, i)
    <3>1. i = 1 => PlaceBefore(p) < z
      BY <1>12, StartsBefore DEF z
    <3>2. i > 1 => PlaceIn(p, i - 1) < z
      BY <1>12, StartsBefore DEF z
    <3>3. i \in 1..(Len(Fields[p]) + 1)
      BY Sizes, PartNames DEF PartSet
    <3> QED BY <1>2, <1>3, <3>1, <3>2, <3>3, StartKept
  <2>2. Fields[p][i] = Field
    BY <1>12 DEF Field
  <2>3. tx'[Field.name].from = StartOf(p, i)' /\ tx'[Field.name].to = tx'[Field.name].from + n
    BY <1>8, <1>12, <2>1
  <2>4. \A o, k : ValueAt(o, k)' = ValueAt(o, k)
    BY NumbersKept
  <2>5. Field.kind = "text" => n = NumberIn(tx[Fields[p][i].of])'
    <3> SUFFICES ASSUME Field.kind = "text" PROVE n = NumberIn(tx[Fields[p][i].of])'
      OBVIOUS
    <3>1. i > 1 /\ Field.of = Fields[p][i - 1].name
      BY <2>2, LengthBefore
    <3>2. i - 1 \in 1..Len(Fields[p])
      BY <3>1, Sizes, PartNames DEF PartSet
    <3>3. PlaceIn(p, i - 1) < z
      BY <1>12, <3>1, StartsBefore DEF z
    <3>4. Field.of \in FieldNames /\ Place[Field.of] < z
      BY <3>1, <3>2, <3>3, FieldIs, Places
    <3>5. tx'[Field.of] = tx[Field.of]
      BY <1>3, <3>4
    <3> QED BY <2>2, <2>4, <3>5 DEF NumberIn
  <2>6. Field.kind = "number" => tx'[Field.name].from < tx'[Field.name].to
                                 /\ NumberIn(tx[Fields[p][i].name])' \in Field.values
    <3>1. tx'[Field.name].from = Cursor.offset /\ tx'[Field.name].to - tx'[Field.name].from = n
          /\ tx'[Field.name].to = Cursor.offset + n
      BY <1>7, <1>8, <1>12, <2>1
    <3>2. NumberIn(tx[Fields[p][i].name])' = ValueAt(Cursor.offset, n)
      BY <2>2, <2>4, <3>1 DEF NumberIn
    <3> QED BY <1>7, <3>1, <3>2
  <2> QED BY <2>2, <2>3, <2>5, <2>6 DEF Right
<1>13. ASSUME NEW p \in Parts, NEW i \in 1..Len(Fields[p]), Passed(p, i)'
       PROVE  Right(p, i)'
  <2>1. Passed(p, i) \/ (p = at /\ i = next)
    BY <1>1, <1>4, <1>13 DEF Passed
  <2> QED BY <1>11, <1>12, <2>1
<1>14. FunctionUnread' => tx'["function_name"] = Unread
  <2> SUFFICES ASSUME FunctionUnread' PROVE tx'["function_name"] = Unread
    OBVIOUS
  <2>1. FunctionUnread
    BY <1>1, <1>4 DEF FunctionUnread
  <2>2. z < 12
    <3>1. at = "entry_function" => next <= 4
      BY <1>1, <1>4 DEF FunctionUnread
    <3>2. z = PlaceIn(at, next) /\ z \in Nat
      BY <1>2 DEF z
    <3>3. at \in {"raw", "footer", "payload"} => z <= 7
      BY <1>1, <3>2, PlaceRange
    <3>4. at = "entry_function" => z <= 11
      BY <1>1, <3>1, <3>2 DEF PlaceIn
    <3> QED BY <1>1, <2>1, <3>2, <3>3, <3>4 DEF FunctionUnread
  <2>3. Place[Field.name] = z
    BY <1>1, Places DEF Field, z
  <2>4. Field.name # "function_name"
    BY <2>2, <2>3 DEF Place
  <2> QED BY <1>5, <2>1, <2>4, NamedFields DEF ChainInv, ParserInv
<1>15. /\ at' \in Parts \ {"footer"} => buf'.offset = StartOf(at, next)'
       /\ at' = "footer" => /\ buf'.offset = tx'["sequence"].to
                            /\ buf_footer'.offset = StartOf("footer", next)'
  <2>1. CASE at = "footer"
    <3>1. tx'["sequence"] = tx["sequence"]
      <4>1. Place["sequence"] < z
        BY <1>1, <2>1 DEF Place, z, PlaceIn
      <4> QED BY <1>3, <4>1, NamedFields
    <3> QED BY <1>4, <1>5, <1>6, <1>10, <2>1, <3>1 DEF ChainInv, Cursor
  <2>2. CASE at # "footer"
    BY <1>4, <1>5, <1>10, <2>2 DEF Cursor
  <2> QED BY <2>1, <2>2
<1>16. KnownAt' /\ ~Done'
  BY <1>1, <1>4 DEF ChainInv, KnownAt, Done
<1>17. FrontIsEncoding' /\ AccountTransferIsEncoding'
  BY <1>16 DEF FrontIsEncoding, AccountTransferIsEncoding, Accepted
<1>18. at' \in Parts => /\ TX_HASHED_PREFIX_LEN <= Len(raw')
                        /\ SubSeq(raw', 1, TX_HASHED_PREFIX_LEN) = PREFIX_RAW_TX_HASHED
  BY <1>1 DEF ChainInv
<1>19. InEntryFunction'
  <2> SUFFICES ASSUME at \in {"entry_function", "account_transfer", "coin_transfer"}
               PROVE  NumberIn(tx["payload_variant"])' = PAYLOAD_ENTRY_FUNCTION
    BY <1>4 DEF InEntryFunction
  <2>1. NumberIn(tx["payload_variant"]) = PAYLOAD_ENTRY_FUNCTION
    BY DEF ChainInv, InEntryFunction
  <2>2. 7 < z
    <3>1. at = "entry_function" => 7 < z
      BY <1>1, PlaceRange DEF z
    <3>2. at # "entry_function" => 12 < z
      BY <1>1, PlaceRange DEF z
    <3> QED BY <1>2, <3>1, <3>2
  <2>3. tx'["payload_variant"] = tx["payload_variant"]
    <3>1. Place["payload_variant"] = 7
      BY DEF Place
    <3> QED BY <1>3, <2>2, <3>1, NamedFields
  <2>4. \A o, k : ValueAt(o, k)' = ValueAt(o, k)
    BY NumbersKept
  <2> QED BY <2>1, <2>3, <2>4 DEF NumberIn
<1> QED BY <1>13, <1>14, <1>15, <1>16, <1>17, <1>18, <1>19 DEF ChainInv

\* A step to the end that returns an error.
LEMMA FailChain ==
  ASSUME NEW code, code # "PARSING_OK", Return(code)
  PROVE  ChainInv'
<1>1. at' = "done" /\ status' # "PARSING_OK"
  BY DEF Return
<1>2. "done" \notin Parts
  BY PartNames DEF PartSet
<1>3. FrontIsEncoding' /\ AccountTransferIsEncoding'
  BY <1>1 DEF FrontIsEncoding, AccountTransferIsEncoding, Accepted
<1> QED BY <1>1, <1>2, <1>3 DEF ChainInv, Passed, FunctionUnread, KnownAt, InEntryFunction

\* Nothing was read yet.
LEMMA InitChain == Init => ChainInv
<1> SUFFICES ASSUME Init PROVE ChainInv
  OBVIOUS
<1>1. at = "start" /\ known_type = "FUNC_UNKNOWN" /\ tx["function_name"] = Unread
  BY NamedFields DEF Init
<1>2. "start" \notin Parts
  BY PartNames DEF PartSet
<1>3. FrontIsEncoding /\ AccountTransferIsEncoding
  BY <1>1 DEF FrontIsEncoding, AccountTransferIsEncoding, Accepted, Done
<1> QED BY <1>1, <1>2, <1>3 DEF ChainInv, Passed, FunctionUnread, KnownAt, InEntryFunction

\* read_bytes reads the next field or ends with an error.
LEMMA ReadBytesChain ==
  ASSUME ParserInv, ChainInv, read_bytes
  PROVE  ChainInv'
<1>1. Reading /\ Field.kind \in {"bytes", "text"} /\ UNCHANGED <<raw, variant, known_type>>
  BY DEF read_bytes
<1>2. CASE ~Fits(FieldLen)
  <2>1. Return(Field.fail)
    BY <1>2 DEF read_bytes, Failed
  <2>2. at \in Parts /\ next \in 1..Len(Fields[at])
    BY <1>1 DEF Reading, ParserInv
  <2>3. Field.fail # "PARSING_OK"
    BY <2>2, FieldIs DEF Field
  <2> QED BY <2>1, <2>3, FailChain
<1>3. CASE Fits(FieldLen)
  <2>1. Took(FieldLen) /\ NextField
    BY <1>3 DEF read_bytes
  <2>2. FieldLen \in Nat
    BY <1>1, FieldLenType
  <2>3. OverRaw(Cursor)
    BY DEF Cursor, ParserInv
  <2>4. Cursor.offset + FieldLen <= Len(raw)
    BY <1>3, <2>2, <2>3, CanReadInBuffer DEF Fits, OverRaw
  <2>5. /\ Field.kind = "bytes" => FieldLen = Field.len
        /\ Field.kind = "text" => FieldLen = NumberIn(tx[Field.of])
        /\ Field.kind # "number"
    BY <1>1 DEF FieldLen
  <2> QED BY <1>1, <2>1, <2>2, <2>4, <2>5, ReadChain
<1> QED BY <1>2, <1>3

\* read_number reads the next field or ends with an error.
LEMMA ReadNumberChain ==
  ASSUME ParserInv, ChainInv, read_number
  PROVE  ChainInv'
<1>1. Reading /\ Field.kind = "number" /\ UNCHANGED <<raw, variant, known_type>>
  BY DEF read_number
<1>2. at \in Parts /\ next \in 1..Len(Fields[at])
  BY <1>1 DEF Reading, ParserInv
<1>3. Field.fail # "PARSING_OK" /\ Field.unexpected # "PARSING_OK"
  BY <1>1, <1>2, FieldIs DEF Field
<1>4. CASE Return(Field.fail) \/ Return(Field.unexpected)
  BY <1>3, <1>4, FailChain
<1>5. CASE ~(Return(Field.fail) \/ Return(Field.unexpected))
  <2>1. PICK k \in 1..MaxGroups :
          /\ IsNumber(Cursor.offset, k) /\ Took(k)
          /\ ValueAt(Cursor.offset, k) \in Field.values /\ NextField
    BY <1>5 DEF read_number, Failed
  <2>2. k \in Nat /\ k > 0 /\ Cursor.offset + k <= Len(raw)
    BY <2>1 DEF IsNumber, GroupsAt
  <2> QED BY <1>1, <2>1, <2>2, ReadChain
<1> QED BY <1>4, <1>5

-----------------------------------------------------------------------------
(* What has been read, written again. *)

\* The bytes from a to b.
Piece(a, b) == SubSeq(raw, a + 1, b)

\* Pieces that meet join.
LEMMA PiecesJoin ==
  ASSUME raw \in Seq(Byte), NEW a \in Nat, NEW b \in Nat, NEW c \in Nat,
         a <= b, b <= c, c <= Len(raw)
  PROVE  Piece(a, b) \o Piece(b, c) = Piece(a, c)
<1>1. a + 1 \in 1..(Len(raw) + 1) /\ b \in ((a + 1) - 1)..Len(raw) /\ c \in b..Len(raw)
  OBVIOUS
<1> QED BY <1>1, ConcatAdjacentSubSeq DEF Piece

\* The length of a piece.
LEMMA PieceLen ==
  ASSUME raw \in Seq(Byte), NEW a \in Nat, NEW b \in Nat, a <= b, b <= Len(raw)
  PROVE  Len(Piece(a, b)) = b - a
<1>1. \A i \in (a + 1)..b : raw[i] \in Byte
  OBVIOUS
<1>2. a + 1 \in Int /\ b \in Int
  OBVIOUS
<1>3. Len(Piece(a, b)) = IF a + 1 <= b THEN b - (a + 1) + 1 ELSE 0
  BY <1>1, <1>2, SubSeqProperties DEF Piece
<1> QED BY <1>3

\* The bytes of a field and, of a number, what they encode.
LEMMA SliceIs ==
  ASSUME ParserInv, NEW f \in FieldNames
  PROVE  /\ SliceBytes(tx[f]) = Piece(tx[f].from, tx[f].to)
         /\ tx[f].from \in Nat /\ tx[f].to \in Nat
         /\ tx[f].from <= tx[f].to /\ tx[f].to <= Len(raw)
         /\ f \in Numbers /\ tx[f].from < tx[f].to =>
              Piece(tx[f].from, tx[f].to) = Uleb[NumberIn(tx[f])]
<1>1. /\ tx[f].from \in Nat /\ tx[f].to \in Nat
      /\ tx[f].from <= tx[f].to /\ tx[f].to <= Len(raw) /\ raw \in Seq(Byte)
  BY DEF ParserInv, SizeT
<1>2. ASSUME f \in Numbers, tx[f].from < tx[f].to
      PROVE  Piece(tx[f].from, tx[f].to) = Uleb[NumberIn(tx[f])]
  <2>1. WasRead(f)
    BY <1>2 DEF WasRead, Unread, Slice
  <2>2. IsNumber(tx[f].from, tx[f].to - tx[f].from)
    BY <1>2, <2>1 DEF ParserInv
  <2> DEFINE o == tx[f].from
             k == tx[f].to - tx[f].from
  <2>3. o \in Nat /\ tx[f].to = o + k
    BY <1>1
  <2> HIDE DEF o, k
  <2>4. IsNumber(o, k)
    BY <2>2 DEF o, k
  <2>5. SubSeq(raw, o + 1, o + k) = Uleb[ValueAt(o, k)]
    BY <1>1, <2>3, <2>4, NumberIsUleb
  <2> QED BY <2>3, <2>5 DEF Piece, NumberIn, o, k
<1> QED BY <1>1, <1>2 DEF SliceBytes, Piece

\* A text after its length.
LEMMA WithLengthIs ==
  ASSUME ParserInv, NEW l \in FieldNames \cap Numbers, NEW f \in FieldNames,
         tx[l].from < tx[l].to, tx[f].from = tx[l].to, tx[f].to = tx[f].from + NumberIn(tx[l])
  PROVE  WithLength(SliceBytes(tx[f])) = Piece(tx[l].from, tx[f].to)
<1>1. /\ SliceBytes(tx[f]) = Piece(tx[f].from, tx[f].to)
      /\ tx[f].from \in Nat /\ tx[f].to \in Nat /\ tx[f].from <= tx[f].to /\ tx[f].to <= Len(raw)
  BY SliceIs
<1>2. /\ tx[l].from \in Nat /\ tx[l].to \in Nat
      /\ Piece(tx[l].from, tx[l].to) = Uleb[NumberIn(tx[l])]
  BY SliceIs
<1>3. raw \in Seq(Byte)
  BY DEF ParserInv
<1>4. NumberIn(tx[l]) = tx[f].to - tx[f].from
  <2>1. NumberIn(tx[l]) \in Nat
    <3>1. tx[l].from \in Nat /\ tx[l].to - tx[l].from \in Nat
          /\ tx[l].from + (tx[l].to - tx[l].from) <= Len(raw)
      BY <1>1, <1>2
    <3> QED BY <1>3, <3>1, ValueIsNat DEF NumberIn
  <2> QED BY <1>1, <2>1
<1>5. Len(SliceBytes(tx[f])) = NumberIn(tx[l])
  BY <1>1, <1>3, <1>4, PieceLen
<1>6. WithLength(SliceBytes(tx[f])) = Piece(tx[l].from, tx[l].to) \o Piece(tx[l].to, tx[f].to)
  <2>1. tx[l].from < tx[l].to /\ l \in Numbers
    OBVIOUS
  <2>2. Uleb[Len(SliceBytes(tx[f]))] = Piece(tx[l].from, tx[l].to)
    BY <1>2, <1>5, <2>1
  <2>3. SliceBytes(tx[f]) = Piece(tx[l].to, tx[f].to)
    BY <1>1
  <2>4. WithLength(SliceBytes(tx[f])) = Uleb[Len(SliceBytes(tx[f]))] \o SliceBytes(tx[f])
    BY DEF WithLength
  <2> QED BY <2>2, <2>3, <2>4
<1> DEFINE a == tx[l].from
           b == tx[l].to
           c == tx[f].to
<1>7. a \in Nat /\ b \in Nat /\ c \in Nat /\ a <= b /\ b <= c /\ c <= Len(raw)
  BY <1>1, <1>2
<1> HIDE DEF a, b, c
<1>8. Piece(a, b) \o Piece(b, c) = Piece(a, c)
  BY <1>3, <1>7, PiecesJoin
<1> QED BY <1>6, <1>8 DEF a, b, c

\* How the fields of the front follow each other once its part is over.
LEMMA FrontFollows ==
  ASSUME ParserInv, ChainInv,
         \/ at \in {"account_transfer", "coin_transfer"}
         \/ at = "entry_function" /\ next = 6
  PROVE  /\ tx["sender"].from = TX_HASHED_PREFIX_LEN
         /\ tx["sequence"].from = tx["sender"].to
         /\ tx["payload_variant"].from = tx["sequence"].to
         /\ tx["payload_variant"].from < tx["payload_variant"].to
         /\ NumberIn(tx["payload_variant"]) = PAYLOAD_ENTRY_FUNCTION
         /\ tx["module_address"].from = tx["payload_variant"].to
         /\ tx["module_name_len"].from = tx["module_address"].to
         /\ tx["module_name_len"].from < tx["module_name_len"].to
         /\ tx["module_name"].from = tx["module_name_len"].to
         /\ tx["module_name"].to = tx["module_name"].from + NumberIn(tx["module_name_len"])
         /\ tx["function_name_len"].from = tx["module_name"].to
         /\ tx["function_name_len"].from < tx["function_name_len"].to
         /\ tx["function_name"].from = tx["function_name_len"].to
         /\ tx["function_name"].to = tx["function_name"].from + NumberIn(tx["function_name_len"])
<1>1. {"raw", "payload", "entry_function"} \subseteq Parts /\ at \in Parts
  BY PartNames DEF PartSet
<1>2. /\ Passed("raw", 1) /\ Passed("raw", 2) /\ Passed("payload", 1)
      /\ Passed("entry_function", 1) /\ Passed("entry_function", 2)
      /\ Passed("entry_function", 3) /\ Passed("entry_function", 4)
      /\ Passed("entry_function", 5)
  BY <1>1 DEF Passed, Rank
<1>10. /\ 1 \in 1..Len(Fields["raw"]) /\ 2 \in 1..Len(Fields["raw"])
       /\ 1 \in 1..Len(Fields["payload"])
       /\ 1 \in 1..Len(Fields["entry_function"]) /\ 2 \in 1..Len(Fields["entry_function"])
       /\ 3 \in 1..Len(Fields["entry_function"]) /\ 4 \in 1..Len(Fields["entry_function"])
       /\ 5 \in 1..Len(Fields["entry_function"])
  BY Sizes
<1>3. Right("raw", 1) /\ Right("raw", 2)
  BY <1>1, <1>2, <1>10 DEF ChainInv
<1>4. Right("payload", 1)
  BY <1>1, <1>2, <1>10 DEF ChainInv
<1>5. /\ Right("entry_function", 1) /\ Right("entry_function", 2)
      /\ Right("entry_function", 3) /\ Right("entry_function", 4)
      /\ Right("entry_function", 5)
  BY <1>1, <1>2, <1>10 DEF ChainInv
<1>6. tx["sender"].from = TX_HASHED_PREFIX_LEN /\ tx["sequence"].from = tx["sender"].to
  BY <1>3, FieldsOf DEF Right, StartOf, PartStart, Raw, Bytes
<1>11. NumberIn(tx["payload_variant"]) = PAYLOAD_ENTRY_FUNCTION
  BY DEF ChainInv, InEntryFunction
<1>7. /\ tx["payload_variant"].from = tx["sequence"].to
      /\ tx["payload_variant"].from < tx["payload_variant"].to
  BY <1>4, FieldsOf DEF Right, StartOf, PartStart, Payload, Number
<1>8. /\ tx["module_address"].from = tx["payload_variant"].to
      /\ tx["module_name_len"].from = tx["module_address"].to
      /\ tx["module_name_len"].from < tx["module_name_len"].to
      /\ tx["module_name"].from = tx["module_name_len"].to
      /\ tx["module_name"].to = tx["module_name"].from + NumberIn(tx["module_name_len"])
  BY <1>5, FieldsOf DEF Right, StartOf, PartStart, EntryFunction, Bytes, Number, Length, Text
<1>9. /\ tx["function_name_len"].from = tx["module_name"].to
      /\ tx["function_name_len"].from < tx["function_name_len"].to
      /\ tx["function_name"].from = tx["function_name_len"].to
      /\ tx["function_name"].to = tx["function_name"].from + NumberIn(tx["function_name_len"])
  BY <1>5, FieldsOf DEF Right, StartOf, PartStart, EntryFunction, Bytes, Number, Length, Text
<1> QED BY <1>6, <1>7, <1>8, <1>9, <1>11

\* What the front is up to the function's name.
FrontHead(t) ==
  PREFIX_RAW_TX_HASHED \o t.sender \o t.sequence \o Uleb[PAYLOAD_ENTRY_FUNCTION]
    \o t.module_address \o WithLength(t.module_name) \o WithLength(t.function_name)

\* What was parsed, field by field.
LEMMA ParsedIs ==
  /\ \A f \in FieldNames : f \notin {"kind", "call"} => Parsed[f] = SliceBytes(tx[f])
  /\ Parsed["kind"] = Kind[known_type] /\ Parsed["call"] = <<>>
BY DEF Parsed

\* The fields of the front, written again, are the bytes up to the end of the
\* name of the function.
LEMMA HeadIsPiece ==
  ASSUME ParserInv, ChainInv,
         \/ at \in {"account_transfer", "coin_transfer"}
         \/ at = "entry_function" /\ next = 6
  PROVE  FrontHead(Parsed) = Piece(0, tx["function_name"].to)
<1> DEFINE s(f) == tx[f]
           a0 == TX_HASHED_PREFIX_LEN
           a1 == tx["sender"].to
           a2 == tx["sequence"].to
           a3 == tx["payload_variant"].to
           a4 == tx["module_address"].to
           a5 == tx["module_name"].to
           a6 == tx["function_name"].to
<1>1. /\ "module_name_len" \in Numbers /\ "function_name_len" \in Numbers
      /\ "payload_variant" \in Numbers
  BY DEF Numbers
<1>2. raw \in Seq(Byte)
  BY DEF ParserInv
<1>3. /\ Piece(0, a0) = PREFIX_RAW_TX_HASHED /\ a0 \in Nat
  <2>1. at \in Parts
    BY PartNames DEF PartSet
  <2> QED BY <2>1, ParserAssumption DEF ChainInv, Piece, SizeT
<1>4. /\ Parsed.sender = Piece(a0, a1) /\ a1 \in Nat /\ a0 <= a1
      /\ Parsed.sequence = Piece(a1, a2) /\ a2 \in Nat /\ a1 <= a2
      /\ Uleb[PAYLOAD_ENTRY_FUNCTION] = Piece(a2, a3) /\ a3 \in Nat /\ a2 <= a3
      /\ Parsed.module_address = Piece(a3, a4) /\ a4 \in Nat /\ a3 <= a4
  <2>1. /\ SliceBytes(tx["sender"]) = Piece(a0, a1) /\ a1 \in Nat /\ a0 <= a1
    BY FrontFollows, SliceIs, NamedFields
  <2>2. SliceBytes(tx["sequence"]) = Piece(a1, a2) /\ a2 \in Nat /\ a1 <= a2
    BY FrontFollows, SliceIs, NamedFields
  <2>3. Uleb[PAYLOAD_ENTRY_FUNCTION] = Piece(a2, a3) /\ a3 \in Nat /\ a2 <= a3
    BY <1>1, FrontFollows, SliceIs, NamedFields
  <2>4. SliceBytes(tx["module_address"]) = Piece(a3, a4) /\ a4 \in Nat /\ a3 <= a4
    BY FrontFollows, SliceIs, NamedFields
  <2> QED BY <2>1, <2>2, <2>3, <2>4, ParsedIs, NamedFields
<1>5. /\ WithLength(Parsed.module_name) = Piece(a4, a5) /\ a5 \in Nat /\ a4 <= a5
      /\ WithLength(Parsed.function_name) = Piece(a5, a6) /\ a6 \in Nat /\ a5 <= a6
      /\ a6 <= Len(raw)
  <2>1. WithLength(SliceBytes(tx["module_name"])) = Piece(a4, a5)
    BY <1>1, FrontFollows, WithLengthIs, NamedFields
  <2>2. WithLength(SliceBytes(tx["function_name"])) = Piece(a5, a6)
    BY <1>1, FrontFollows, WithLengthIs, NamedFields
  <2>3. a5 \in Nat /\ a4 <= a5
    BY FrontFollows, SliceIs, NamedFields
  <2>4. a6 \in Nat /\ a5 <= a6 /\ a6 <= Len(raw)
    BY FrontFollows, SliceIs, NamedFields
  <2> QED BY <2>1, <2>2, <2>3, <2>4, ParsedIs, NamedFields
<1> HIDE DEF a0, a1, a2, a3, a4, a5, a6
<1>6. /\ 0 <= a0 /\ a1 <= Len(raw) /\ a2 <= Len(raw) /\ a3 <= Len(raw) /\ a4 <= Len(raw)
      /\ a5 <= Len(raw) /\ 0 <= a1 /\ 0 <= a2 /\ 0 <= a3 /\ 0 <= a4 /\ 0 <= a5 /\ 0 \in Nat
      /\ Len(raw) \in Nat
  BY <1>2, <1>3, <1>4, <1>5
<1>7. /\ Piece(0, a0) \o Piece(a0, a1) = Piece(0, a1)
      /\ Piece(0, a1) \o Piece(a1, a2) = Piece(0, a2)
      /\ Piece(0, a2) \o Piece(a2, a3) = Piece(0, a3)
      /\ Piece(0, a3) \o Piece(a3, a4) = Piece(0, a4)
      /\ Piece(0, a4) \o Piece(a4, a5) = Piece(0, a5)
      /\ Piece(0, a5) \o Piece(a5, a6) = Piece(0, a6)
  <2>1. Piece(0, a0) \o Piece(a0, a1) = Piece(0, a1)
    BY <1>2, <1>3, <1>4, <1>6, PiecesJoin
  <2>2. Piece(0, a1) \o Piece(a1, a2) = Piece(0, a2)
    BY <1>2, <1>4, <1>6, PiecesJoin
  <2>3. Piece(0, a2) \o Piece(a2, a3) = Piece(0, a3)
    BY <1>2, <1>4, <1>6, PiecesJoin
  <2>4. Piece(0, a3) \o Piece(a3, a4) = Piece(0, a4)
    BY <1>2, <1>4, <1>6, PiecesJoin
  <2>5. Piece(0, a4) \o Piece(a4, a5) = Piece(0, a5)
    BY <1>2, <1>4, <1>5, <1>6, PiecesJoin
  <2>6. Piece(0, a5) \o Piece(a5, a6) = Piece(0, a6)
    BY <1>2, <1>5, <1>6, PiecesJoin
  <2> QED BY <2>1, <2>2, <2>3, <2>4, <2>5, <2>6
<1>8. FrontHead(Parsed) = Piece(0, a6)
  BY <1>3, <1>4, <1>5, <1>6, <1>7 DEF FrontHead
<1> QED BY <1>8 DEF a6

\* The arguments of both transfers.
LEMMA ArgumentsFollow ==
  ASSUME ParserInv, ChainInv, at \in {"account_transfer", "coin_transfer"}, End(at)
  PROVE  /\ {"args_size", "receiver_len", "receiver", "amount_len", "amount"} \subseteq FieldNames
         /\ NumberIn(tx["args_size"]) = 2 /\ tx["args_size"].from < tx["args_size"].to
         /\ tx["receiver_len"].from = tx["args_size"].to
         /\ tx["receiver_len"].from < tx["receiver_len"].to
         /\ NumberIn(tx["receiver_len"]) = ADDRESS_LEN
         /\ tx["receiver"].from = tx["receiver_len"].to
         /\ tx["receiver"].to = tx["receiver"].from + ADDRESS_LEN
         /\ tx["amount_len"].from = tx["receiver"].to
         /\ tx["amount_len"].from < tx["amount_len"].to
         /\ NumberIn(tx["amount_len"]) = U64_LEN
         /\ tx["amount"].from = tx["amount_len"].to
         /\ tx["amount"].to = tx["amount"].from + U64_LEN
         /\ buf.offset = tx["amount"].to
<1>1. at \in Parts
  BY PartNames DEF PartSet
<1>2. PICK m \in {2, 9} :
        /\ m = (IF at = "account_transfer" THEN 2 ELSE 9)
        /\ m \in 1..Len(Fields[at]) /\ m + 1 \in 1..Len(Fields[at])
        /\ m + 2 \in 1..Len(Fields[at]) /\ m + 3 \in 1..Len(Fields[at])
        /\ m + 4 \in 1..Len(Fields[at]) /\ next = m + 5
        /\ Fields[at][m] = Arguments[1] /\ Fields[at][m + 1] = Arguments[2]
        /\ Fields[at][m + 2] = Arguments[3] /\ Fields[at][m + 3] = Arguments[4]
        /\ Fields[at][m + 4] = Arguments[5]
  <2>1. CASE at = "account_transfer"
    <3>1. next = 7
      BY <1>1, <2>1, Sizes DEF End, ParserInv
    <3> QED BY <2>1, <3>1, Sizes, FieldsOf, AccountFields
  <2>2. CASE at = "coin_transfer"
    <3>1. next = 14
      BY <1>1, <2>2, Sizes DEF End, ParserInv
    <3> QED BY <2>2, <3>1, Sizes, FieldsOf, CoinFields
  <2> QED BY <2>1, <2>2
<1>3. /\ Passed(at, m) /\ Passed(at, m + 1) /\ Passed(at, m + 2) /\ Passed(at, m + 3)
      /\ Passed(at, m + 4)
  BY <1>1, <1>2 DEF Passed
<1>4. /\ Right(at, m) /\ Right(at, m + 1) /\ Right(at, m + 2) /\ Right(at, m + 3)
      /\ Right(at, m + 4)
  BY <1>1, <1>2, <1>3 DEF ChainInv
<1>5. /\ Arguments[1].name \in FieldNames /\ Arguments[2].name \in FieldNames
      /\ Arguments[3].name \in FieldNames /\ Arguments[4].name \in FieldNames
      /\ Arguments[5].name \in FieldNames
  BY <1>1, <1>2, FieldIs
<1>6. /\ StartOf(at, m + 1) = tx[Arguments[1].name].to
      /\ StartOf(at, m + 2) = tx[Arguments[2].name].to
      /\ StartOf(at, m + 3) = tx[Arguments[3].name].to
      /\ StartOf(at, m + 4) = tx[Arguments[4].name].to
      /\ StartOf(at, m + 5) = tx[Arguments[5].name].to
  <2>1. /\ (m + 1) - 1 = m /\ (m + 2) - 1 = m + 1 /\ (m + 3) - 1 = m + 2
        /\ (m + 4) - 1 = m + 3 /\ (m + 5) - 1 = m + 4
        /\ m + 1 # 1 /\ m + 2 # 1 /\ m + 3 # 1 /\ m + 4 # 1 /\ m + 5 # 1
    OBVIOUS
  <2> QED BY <1>2, <2>1 DEF StartOf
<1>7. /\ Arguments[1].name = "args_size" /\ Arguments[1].kind = "number"
      /\ Arguments[1].values = {2}
      /\ Arguments[2].name = "receiver_len" /\ Arguments[2].kind = "number"
      /\ Arguments[2].values = {ADDRESS_LEN}
      /\ Arguments[3].name = "receiver" /\ Arguments[3].kind = "bytes"
      /\ Arguments[3].len = ADDRESS_LEN
      /\ Arguments[4].name = "amount_len" /\ Arguments[4].kind = "number"
      /\ Arguments[4].values = {U64_LEN}
      /\ Arguments[5].name = "amount" /\ Arguments[5].kind = "bytes"
      /\ Arguments[5].len = U64_LEN
  BY DEF Arguments, Number, Bytes
<1>8. {"args_size", "receiver_len", "receiver", "amount_len", "amount"} \subseteq FieldNames
  BY <1>5, <1>7
<1>9. NumberIn(tx["args_size"]) = 2 /\ tx["args_size"].from < tx["args_size"].to
  BY <1>2, <1>4, <1>7 DEF Right
<1>10. /\ tx["receiver_len"].from = tx["args_size"].to
       /\ tx["receiver_len"].from < tx["receiver_len"].to
       /\ NumberIn(tx["receiver_len"]) = ADDRESS_LEN
  BY <1>2, <1>4, <1>6, <1>7 DEF Right
<1>11. /\ tx["receiver"].from = tx["receiver_len"].to
       /\ tx["receiver"].to = tx["receiver"].from + ADDRESS_LEN
  BY <1>2, <1>4, <1>6, <1>7 DEF Right
<1>12. /\ tx["amount_len"].from = tx["receiver"].to
       /\ tx["amount_len"].from < tx["amount_len"].to
       /\ NumberIn(tx["amount_len"]) = U64_LEN
  BY <1>2, <1>4, <1>6, <1>7 DEF Right
<1>13. /\ tx["amount"].from = tx["amount_len"].to
       /\ tx["amount"].to = tx["amount"].from + U64_LEN
  BY <1>2, <1>4, <1>6, <1>7 DEF Right
<1>14. buf.offset = tx["amount"].to
  <2>1. buf.offset = StartOf(at, next)
    BY <1>1 DEF ChainInv
  <2> QED BY <1>2, <1>6, <1>7, <2>1
<1> QED BY <1>8, <1>9, <1>10, <1>11, <1>12, <1>13, <1>14

\* The receiver and the amount, written again, are the bytes they were read from.
LEMMA ArgumentsArePiece ==
  ASSUME ParserInv, ChainInv, at \in {"account_transfer", "coin_transfer"}, End(at)
  PROVE  /\ EncodeArguments(Parsed) = Piece(tx["args_size"].from, buf.offset)
         /\ tx["args_size"].from \in Nat /\ tx["args_size"].from <= buf.offset
<1> DEFINE a0 == tx["args_size"].from
           a1 == tx["args_size"].to
           a2 == tx["receiver"].to
           a3 == tx["amount"].to
<1>1. "args_size" \in Numbers /\ "receiver_len" \in Numbers /\ "amount_len" \in Numbers
  BY DEF Numbers
<1>2. Uleb[2] = Piece(a0, a1) /\ a0 \in Nat /\ a1 \in Nat /\ a0 <= a1
  BY <1>1, ArgumentsFollow, SliceIs
<1>3. WithLength(SliceBytes(tx["receiver"])) = Piece(a1, a2) /\ a2 \in Nat /\ a1 <= a2
  <2>1. WithLength(SliceBytes(tx["receiver"])) = Piece(a1, a2)
    BY <1>1, ArgumentsFollow, WithLengthIs
  <2>2. a2 \in Nat /\ a1 <= a2
    BY ArgumentsFollow, SliceIs
  <2> QED BY <2>1, <2>2
<1>4. WithLength(SliceBytes(tx["amount"])) = Piece(a2, a3) /\ a3 \in Nat /\ a2 <= a3 /\ a3 <= Len(raw)
  <2>1. WithLength(SliceBytes(tx["amount"])) = Piece(a2, a3)
    BY <1>1, ArgumentsFollow, WithLengthIs
  <2>2. a3 \in Nat /\ a2 <= a3 /\ a3 <= Len(raw)
    <3>1. tx["amount_len"].to <= a3 /\ a2 <= tx["amount_len"].to
          /\ tx["amount_len"].to \in Nat /\ a3 \in Nat /\ a3 <= Len(raw)
      BY ArgumentsFollow, SliceIs
    <3> QED BY <1>3, <3>1
  <2> QED BY <2>1, <2>2
<1>5. Parsed.receiver = SliceBytes(tx["receiver"]) /\ Parsed.amount = SliceBytes(tx["amount"])
  BY ArgumentsFollow, ParsedIs
<1>6. raw \in Seq(Byte) /\ buf.offset = a3
  BY ArgumentsFollow DEF ParserInv
<1> HIDE DEF a0, a1, a2, a3
<1>10. a0 <= a2 /\ a2 <= Len(raw)
  <2>1. Len(raw) \in Nat
    BY <1>6
  <2> QED BY <1>2, <1>3, <1>4, <2>1
<1>7. Piece(a0, a1) \o Piece(a1, a2) = Piece(a0, a2)
  BY <1>2, <1>3, <1>6, <1>10, PiecesJoin
<1>8. Piece(a0, a2) \o Piece(a2, a3) = Piece(a0, a3)
  BY <1>2, <1>3, <1>4, <1>6, <1>10, PiecesJoin
<1>9. EncodeArguments(Parsed) = Piece(a0, a3)
  BY <1>2, <1>3, <1>4, <1>5, <1>7, <1>8 DEF EncodeArguments
<1>11. a0 <= a3
  BY <1>2, <1>3, <1>4
<1> QED BY <1>2, <1>6, <1>9, <1>11 DEF a0

\* The call of an account transfer.
LEMMA AccountCall ==
  ASSUME ParserInv, ChainInv, End("account_transfer")
  PROVE  /\ EncodeCall(Parsed) = Piece(tx["function_name"].to, buf.offset)
         /\ tx["function_name"].to <= buf.offset
<1>1. at = "account_transfer" /\ at \in Parts /\ next = 7
  BY Sizes, PartNames DEF End, ParserInv, PartSet
<1>2. Parsed.kind = "account"
  BY <1>1, ParsedIs DEF ChainInv, KnownAt, Kind
<1>3. 1 \in 1..Len(Fields[at]) /\ 2 \in 1..Len(Fields[at])
  BY <1>1, Sizes
<1>4. Right(at, 1) /\ Right(at, 2)
  BY <1>1, <1>3 DEF ChainInv, Passed
<1>5. /\ Fields[at][1].name = "ty_size" /\ Fields[at][1].kind = "number"
      /\ Fields[at][1].values = {0} /\ Fields[at][2].name = "args_size"
  BY <1>1, FieldsOf, AccountFields DEF Number, Arguments
<1>6. /\ tx["ty_size"].from = tx["function_name"].to /\ tx["ty_size"].from < tx["ty_size"].to
      /\ NumberIn(tx["ty_size"]) = 0 /\ tx["args_size"].from = tx["ty_size"].to
  BY <1>1, <1>4, <1>5 DEF Right, StartOf, PartStart
<1>7. "ty_size" \in FieldNames \cap Numbers
  BY <1>1, <1>3, <1>5, FieldIs DEF Numbers
<1> DEFINE a0 == tx["ty_size"].from
           a1 == tx["ty_size"].to
<1>8. Uleb[0] = Piece(a0, a1) /\ a0 \in Nat /\ a1 \in Nat /\ a0 <= a1
  BY <1>6, <1>7, SliceIs
<1>9. EncodeArguments(Parsed) = Piece(a1, buf.offset) /\ a1 <= buf.offset
  BY <1>1, <1>6, ArgumentsArePiece
<1>10. raw \in Seq(Byte) /\ buf.offset \in Nat /\ buf.offset <= Len(raw)
  BY DEF ParserInv, OverRaw, buffer_t, SizeT
<1> HIDE DEF a0, a1
<1>11. Piece(a0, a1) \o Piece(a1, buf.offset) = Piece(a0, buf.offset)
  BY <1>8, <1>9, <1>10, PiecesJoin
<1>12. EncodeCall(Parsed) = Uleb[0] \o EncodeArguments(Parsed)
  BY <1>2 DEF EncodeCall
<1>13. a0 <= buf.offset
  BY <1>8, <1>9, <1>10
<1> QED BY <1>6, <1>8, <1>9, <1>11, <1>12, <1>13 DEF a0

\* The call of a coin transfer.
LEMMA CoinCall ==
  ASSUME ParserInv, ChainInv, End("coin_transfer")
  PROVE  /\ EncodeCall(Parsed) = Piece(tx["function_name"].to, buf.offset)
         /\ tx["function_name"].to <= buf.offset
<1>1. at = "coin_transfer" /\ at \in Parts /\ next = 14
  BY Sizes, PartNames DEF End, ParserInv, PartSet
<1>2. Parsed.kind = "coin"
  BY <1>1, ParsedIs DEF ChainInv, KnownAt, Kind
<1>3. \A i \in 1..9 : i \in 1..Len(Fields[at])
  BY <1>1, Sizes
<1>4. \A i \in 1..9 : Right(at, i)
  BY <1>1, <1>3 DEF ChainInv, Passed
<1>5. \A i \in 1..8 : Fields[at][i] = CoinType[i]
  BY <1>1, FieldsOf, CoinFields
<1>6. Fields[at][9].name = "args_size"
  BY <1>1, FieldsOf, CoinFields DEF Number, Arguments
<1>7. /\ CoinType[1].name = "ty_size" /\ CoinType[1].kind = "number" /\ CoinType[1].values = {1}
      /\ CoinType[2].name = "ty_arg_variant" /\ CoinType[2].kind = "number"
      /\ CoinType[2].values = {TYPE_TAG_STRUCT}
      /\ CoinType[3].name = "coin_address"
      /\ CoinType[4].name = "coin_module_len" /\ CoinType[4].kind = "number"
      /\ CoinType[5].name = "coin_module" /\ CoinType[5].kind = "text"
      /\ CoinType[5].of = "coin_module_len"
      /\ CoinType[6].name = "coin_name_len" /\ CoinType[6].kind = "number"
      /\ CoinType[7].name = "coin_name" /\ CoinType[7].kind = "text"
      /\ CoinType[7].of = "coin_name_len"
      /\ CoinType[8].name = "coin_type_args_size" /\ CoinType[8].kind = "number"
      /\ CoinType[8].values = {0}
  BY DEF CoinType, Number, Bytes, Text, Length
<1>8. {"ty_size", "ty_arg_variant", "coin_address", "coin_module_len", "coin_module",
       "coin_name_len", "coin_name", "coin_type_args_size"} \subseteq FieldNames
  <2>1. \A i \in 1..8 : CoinType[i].name \in FieldNames
    BY <1>1, <1>3, <1>5, FieldIs
  <2> QED BY <1>7, <2>1
<1>9. {"ty_size", "ty_arg_variant", "coin_module_len", "coin_name_len",
       "coin_type_args_size"} \subseteq Numbers
  BY DEF Numbers
<1>10. /\ StartOf(at, 1) = tx["function_name"].to /\ StartOf(at, 2) = tx["ty_size"].to
       /\ StartOf(at, 3) = tx["ty_arg_variant"].to /\ StartOf(at, 4) = tx["coin_address"].to
       /\ StartOf(at, 5) = tx["coin_module_len"].to /\ StartOf(at, 6) = tx["coin_module"].to
       /\ StartOf(at, 7) = tx["coin_name_len"].to /\ StartOf(at, 8) = tx["coin_name"].to
       /\ StartOf(at, 9) = tx["coin_type_args_size"].to
  BY <1>1, <1>5, <1>7 DEF StartOf, PartStart
<1>11. /\ tx["ty_size"].from = tx["function_name"].to /\ tx["ty_size"].from < tx["ty_size"].to
       /\ NumberIn(tx["ty_size"]) = 1
       /\ tx["ty_arg_variant"].from = tx["ty_size"].to
       /\ tx["ty_arg_variant"].from < tx["ty_arg_variant"].to
       /\ NumberIn(tx["ty_arg_variant"]) = TYPE_TAG_STRUCT
       /\ tx["coin_address"].from = tx["ty_arg_variant"].to
  BY <1>4, <1>5, <1>7, <1>10 DEF Right
<1>12. /\ tx["coin_module_len"].from = tx["coin_address"].to
       /\ tx["coin_module_len"].from < tx["coin_module_len"].to
       /\ tx["coin_module"].from = tx["coin_module_len"].to
       /\ tx["coin_module"].to = tx["coin_module"].from + NumberIn(tx["coin_module_len"])
  BY <1>4, <1>5, <1>7, <1>10 DEF Right
<1>13. /\ tx["coin_name_len"].from = tx["coin_module"].to
       /\ tx["coin_name_len"].from < tx["coin_name_len"].to
       /\ tx["coin_name"].from = tx["coin_name_len"].to
       /\ tx["coin_name"].to = tx["coin_name"].from + NumberIn(tx["coin_name_len"])
  BY <1>4, <1>5, <1>7, <1>10 DEF Right
<1>14. /\ tx["coin_type_args_size"].from = tx["coin_name"].to
       /\ tx["coin_type_args_size"].from < tx["coin_type_args_size"].to
       /\ NumberIn(tx["coin_type_args_size"]) = 0
       /\ tx["args_size"].from = tx["coin_type_args_size"].to
  BY <1>4, <1>5, <1>6, <1>7, <1>10 DEF Right
<1> DEFINE a0 == tx["ty_size"].from
           a1 == tx["ty_size"].to
           a2 == tx["ty_arg_variant"].to
           a3 == tx["coin_address"].to
           a4 == tx["coin_module"].to
           a5 == tx["coin_name"].to
           a6 == tx["coin_type_args_size"].to
           a7 == buf.offset
<1>15. /\ Uleb[1] = Piece(a0, a1) /\ a0 \in Nat /\ a1 \in Nat /\ a0 <= a1
       /\ Uleb[TYPE_TAG_STRUCT] = Piece(a1, a2) /\ a2 \in Nat /\ a1 <= a2
  BY <1>8, <1>9, <1>11, SliceIs
<1>16. Parsed.coin_address = Piece(a2, a3) /\ a3 \in Nat /\ a2 <= a3
  BY <1>8, <1>11, SliceIs, ParsedIs
<1>17. WithLength(Parsed.coin_module) = Piece(a3, a4) /\ a4 \in Nat /\ a3 <= a4
  <2>1. WithLength(SliceBytes(tx["coin_module"])) = Piece(a3, a4)
    BY <1>8, <1>9, <1>12, WithLengthIs
  <2>2. a4 \in Nat /\ a3 <= a4
    BY <1>8, <1>12, SliceIs
  <2> QED BY <1>8, <2>1, <2>2, ParsedIs
<1>18. WithLength(Parsed.coin_name) = Piece(a4, a5) /\ a5 \in Nat /\ a4 <= a5
  <2>1. WithLength(SliceBytes(tx["coin_name"])) = Piece(a4, a5)
    BY <1>8, <1>9, <1>13, WithLengthIs
  <2>2. a5 \in Nat /\ a4 <= a5
    BY <1>8, <1>13, SliceIs
  <2> QED BY <1>8, <2>1, <2>2, ParsedIs
<1>19. Uleb[0] = Piece(a5, a6) /\ a6 \in Nat /\ a5 <= a6
  BY <1>8, <1>9, <1>14, SliceIs
<1>20. EncodeArguments(Parsed) = Piece(a6, a7) /\ a6 <= a7
  BY <1>1, <1>14, ArgumentsArePiece
<1>21. raw \in Seq(Byte) /\ a7 \in Nat /\ a7 <= Len(raw)
  BY DEF ParserInv, OverRaw, buffer_t, SizeT
<1> HIDE DEF a0, a1, a2, a3, a4, a5, a6, a7
<1>22. /\ a0 <= a2 /\ a0 <= a3 /\ a0 <= a4 /\ a0 <= a5 /\ a0 <= a6
       /\ a2 <= Len(raw) /\ a3 <= Len(raw) /\ a4 <= Len(raw) /\ a5 <= Len(raw) /\ a6 <= Len(raw)
  <2>1. Len(raw) \in Nat
    BY <1>21
  <2> QED BY <1>15, <1>16, <1>17, <1>18, <1>19, <1>20, <1>21, <2>1
<1>23. /\ Piece(a0, a1) \o Piece(a1, a2) = Piece(a0, a2)
       /\ Piece(a0, a2) \o Piece(a2, a3) = Piece(a0, a3)
       /\ Piece(a0, a3) \o Piece(a3, a4) = Piece(a0, a4)
       /\ Piece(a0, a4) \o Piece(a4, a5) = Piece(a0, a5)
       /\ Piece(a0, a5) \o Piece(a5, a6) = Piece(a0, a6)
       /\ Piece(a0, a6) \o Piece(a6, a7) = Piece(a0, a7)
  <2>1. Piece(a0, a1) \o Piece(a1, a2) = Piece(a0, a2)
    BY <1>15, <1>21, <1>22, PiecesJoin
  <2>2. Piece(a0, a2) \o Piece(a2, a3) = Piece(a0, a3)
    BY <1>15, <1>16, <1>21, <1>22, PiecesJoin
  <2>3. Piece(a0, a3) \o Piece(a3, a4) = Piece(a0, a4)
    BY <1>15, <1>16, <1>17, <1>21, <1>22, PiecesJoin
  <2>4. Piece(a0, a4) \o Piece(a4, a5) = Piece(a0, a5)
    BY <1>15, <1>17, <1>18, <1>21, <1>22, PiecesJoin
  <2>5. Piece(a0, a5) \o Piece(a5, a6) = Piece(a0, a6)
    BY <1>15, <1>18, <1>19, <1>21, <1>22, PiecesJoin
  <2>6. Piece(a0, a6) \o Piece(a6, a7) = Piece(a0, a7)
    BY <1>15, <1>19, <1>20, <1>21, <1>22, PiecesJoin
  <2> QED BY <2>1, <2>2, <2>3, <2>4, <2>5, <2>6
<1>24. EncodeCall(Parsed) =
         Uleb[1] \o Uleb[TYPE_TAG_STRUCT] \o Parsed.coin_address \o WithLength(Parsed.coin_module)
           \o WithLength(Parsed.coin_name) \o Uleb[0] \o EncodeArguments(Parsed)
  BY <1>2 DEF EncodeCall
<1>25. EncodeCall(Parsed) = Piece(a0, a7)
  BY <1>15, <1>16, <1>17, <1>18, <1>19, <1>20, <1>23, <1>24
<1>26. a0 <= a7
  BY <1>15, <1>19, <1>20, <1>21, <1>22
<1> QED BY <1>11, <1>25, <1>26 DEF a0, a7

\* The front is the head and the call.
LEMMA EncodeFrontIs == EncodeFront(Parsed) = FrontHead(Parsed) \o EncodeCall(Parsed)
BY DEF EncodeFront, FrontHead

\* If the call is what was read behind the head, the front is what was read.
LEMMA FrontJoins ==
  ASSUME ParserInv, ChainInv,
         \/ at \in {"account_transfer", "coin_transfer"}
         \/ at = "entry_function" /\ next = 6,
         EncodeCall(Parsed) = Piece(tx["function_name"].to, buf.offset),
         tx["function_name"].to <= buf.offset
  PROVE  EncodeFront(Parsed) = SubSeq(raw, 1, buf.offset)
<1> DEFINE a == tx["function_name"].to
           b == buf.offset
<1>1. raw \in Seq(Byte) /\ a \in Nat /\ b \in Nat /\ a <= b /\ b <= Len(raw) /\ 0 <= a /\ 0 \in Nat
  BY SliceIs, NamedFields DEF ParserInv, OverRaw, buffer_t, SizeT
<1>2. FrontHead(Parsed) = Piece(0, a)
  BY HeadIsPiece
<1> HIDE DEF a, b
<1>3. Piece(0, a) \o Piece(a, b) = Piece(0, b)
  BY <1>1, PiecesJoin
<1>4. EncodeFront(Parsed) = Piece(0, b)
  BY <1>2, <1>3, EncodeFrontIs DEF a, b
<1> QED BY <1>4 DEF Piece, b

\* The call of an unknown function is not read.
LEMMA UnknownFront ==
  ASSUME ParserInv, ChainInv, End("entry_function")
  PROVE  EncodeFront(Parsed) = SubSeq(raw, 1, buf.offset)
<1>1. at = "entry_function" /\ at \in Parts /\ next = 6
  BY Sizes, PartNames DEF End, ParserInv, PartSet
<1>2. Parsed.kind = "call" /\ Parsed.call = <<>>
  BY <1>1, ParsedIs DEF ChainInv, KnownAt, Kind
<1>3. EncodeCall(Parsed) = <<>>
  BY <1>2 DEF EncodeCall
<1>4. buf.offset = tx["function_name"].to
  <2>1. buf.offset = StartOf(at, 6)
    BY <1>1 DEF ChainInv
  <2>2. Fields[at][5].name = "function_name"
    BY <1>1, FieldsOf DEF EntryFunction, Text, Bytes, Length, Number
  <2> QED BY <2>1, <2>2 DEF StartOf
<1>5. tx["function_name"].to \in Nat
  BY SliceIs, NamedFields
<1>6. Piece(tx["function_name"].to, buf.offset) = <<>>
  BY <1>4, <1>5, SubSeqEmpty DEF Piece
<1> QED BY <1>1, <1>3, <1>4, <1>5, <1>6, FrontJoins

\* Either transfer is what was read of it.
LEMMA TransferFront ==
  ASSUME ParserInv, ChainInv, at \in {"account_transfer", "coin_transfer"}, End(at)
  PROVE  EncodeFront(Parsed) = SubSeq(raw, 1, buf.offset)
<1>1. /\ EncodeCall(Parsed) = Piece(tx["function_name"].to, buf.offset)
      /\ tx["function_name"].to <= buf.offset
  BY AccountCall, CoinCall
<1> QED BY <1>1, FrontJoins

\* The footer is read to the end of the bytes.
LEMMA FooterFollows ==
  ASSUME ParserInv, ChainInv, at \in {"payload", "entry_function", "account_transfer", "coin_transfer"}
  PROVE  EncodeFooter(Parsed) = Piece(Len(raw) - TX_FOOTER_LEN, Len(raw))
<1>1. "footer" \in Parts /\ at \in Parts
  BY PartNames DEF PartSet
<1>2. \A i \in 1..4 : i \in 1..Len(Fields["footer"]) /\ Passed("footer", i)
  BY <1>1, Sizes DEF Passed, Rank
<1>3. \A i \in 1..4 : Right("footer", i) /\ Fields["footer"][i].name \in FieldNames
  BY <1>1, <1>2, FieldIs DEF ChainInv
<1>4. {"max_gas_amount", "gas_unit_price", "expiration_timestamp_secs", "chain_id"} \subseteq FieldNames
  BY <1>3, FieldsOf DEF Footer, Bytes
<1>5. Fields["footer"] = Footer
  BY FieldsOf
<1>6. /\ tx["max_gas_amount"].from = Len(raw) - TX_FOOTER_LEN
      /\ tx["max_gas_amount"].to = tx["max_gas_amount"].from + U64_LEN
      /\ tx["gas_unit_price"].from = tx["max_gas_amount"].to
      /\ tx["gas_unit_price"].to = tx["gas_unit_price"].from + U64_LEN
      /\ tx["expiration_timestamp_secs"].from = tx["gas_unit_price"].to
      /\ tx["expiration_timestamp_secs"].to = tx["expiration_timestamp_secs"].from + U64_LEN
      /\ tx["chain_id"].from = tx["expiration_timestamp_secs"].to
      /\ tx["chain_id"].to = tx["chain_id"].from + 1
  BY <1>3, <1>5 DEF Right, StartOf, PartStart, Footer, Bytes
<1> DEFINE a0 == tx["max_gas_amount"].from
           a1 == tx["max_gas_amount"].to
           a2 == tx["gas_unit_price"].to
           a3 == tx["expiration_timestamp_secs"].to
           a4 == tx["chain_id"].to
<1>7. /\ Parsed.max_gas_amount = Piece(a0, a1) /\ a0 \in Nat /\ a1 \in Nat /\ a0 <= a1
      /\ Parsed.gas_unit_price = Piece(a1, a2) /\ a2 \in Nat /\ a1 <= a2
  BY <1>4, <1>6, SliceIs, ParsedIs
<1>8. /\ Parsed.expiration_timestamp_secs = Piece(a2, a3) /\ a3 \in Nat /\ a2 <= a3
      /\ Parsed.chain_id = Piece(a3, a4) /\ a4 \in Nat /\ a3 <= a4 /\ a4 <= Len(raw)
  BY <1>4, <1>6, SliceIs, ParsedIs
<1>9. a0 = Len(raw) - TX_FOOTER_LEN /\ a4 = Len(raw)
  <2>1. a4 = a0 + U64_LEN + U64_LEN + U64_LEN + 1
    BY <1>6, <1>7, ParserAssumption
  <2>2. Len(raw) \in Nat
    BY DEF ParserInv
  <2> QED BY <1>6, <1>7, <2>1, <2>2, ParserAssumption DEF TX_FOOTER_LEN
<1>10. raw \in Seq(Byte)
  BY DEF ParserInv
<1> HIDE DEF a0, a1, a2, a3, a4
<1>11. a0 <= a2 /\ a0 <= a3 /\ a2 <= Len(raw) /\ a3 <= Len(raw)
  BY <1>7, <1>8, <1>9
<1>12. /\ Piece(a0, a1) \o Piece(a1, a2) = Piece(a0, a2)
       /\ Piece(a0, a2) \o Piece(a2, a3) = Piece(a0, a3)
       /\ Piece(a0, a3) \o Piece(a3, a4) = Piece(a0, a4)
  <2>1. Piece(a0, a1) \o Piece(a1, a2) = Piece(a0, a2)
    BY <1>7, <1>10, <1>11, PiecesJoin
  <2>2. Piece(a0, a2) \o Piece(a2, a3) = Piece(a0, a3)
    BY <1>7, <1>8, <1>10, <1>11, PiecesJoin
  <2>3. Piece(a0, a3) \o Piece(a3, a4) = Piece(a0, a4)
    BY <1>7, <1>8, <1>10, <1>11, PiecesJoin
  <2> QED BY <2>1, <2>2, <2>3
<1>13. EncodeFooter(Parsed) = Piece(a0, a4)
  BY <1>7, <1>8, <1>12 DEF EncodeFooter
<1> QED BY <1>9, <1>13

-----------------------------------------------------------------------------
(* From one part to the next. *)

\* What had been read when a part ends has been read when the next one begins.
LEMMA EnterPassed ==
  ASSUME ParserInv, at \in Parts, End(at), NEW q \in Parts, Rank[q] = Rank[at] + 1, Enter(q),
         NEW p \in Parts, NEW i \in 1..Len(Fields[p]), Passed(p, i)'
  PROVE  Passed(p, i) /\ PlaceIn(p, i) < 13 /\ (at = "payload" => PlaceIn(p, i) < 8)
<1>1. at' = q /\ next' = 1
  BY DEF Enter
<1>2. /\ at \in PartSet /\ q \in PartSet /\ p \in PartSet
  BY PartNames
<1>3. Rank[p] < Rank[q]
  BY <1>1 DEF Passed
<1>4. Rank[at] \in Nat /\ Rank[p] \in Nat /\ Rank[at] <= 4 /\ Rank[p] <= Rank[at]
  BY <1>2, <1>3 DEF Rank, PartSet
<1>5. Rank[p] < Rank[at] \/ p = at
  BY <1>2, <1>4 DEF Rank, PartSet
<1>6. i < next \/ p # at
  BY DEF End, ParserInv
<1>7. p \in {"raw", "footer", "payload", "entry_function"}
  BY <1>2, <1>4 DEF Rank, PartSet
<1>8. at = "payload" => p \in {"raw", "footer", "payload"}
  BY <1>2, <1>4 DEF Rank, PartSet
<1>9. PlaceIn(p, i) \in Nat
  BY PlaceType
<1>10. PlaceIn(p, i) < 13
  BY <1>7, <1>9, PlaceRange
<1>11. at = "payload" => PlaceIn(p, i) < 8
  BY <1>8, <1>9, PlaceRange
<1> QED BY <1>5, <1>6, <1>10, <1>11 DEF Passed

\* A part begins and what was read before it stays.
LEMMA EnterChain ==
  ASSUME ParserInv, ChainInv, at \in Parts, End(at), NEW q \in Parts, Rank[q] = Rank[at] + 1,
         Enter(q), raw' = raw, NEW z \in {8, 13}, z = 8 => at = "payload",
         \A f \in FieldNames : Place[f] < z => tx'[f] = tx[f],
         FunctionUnread' => tx'["function_name"] = Unread,
         q # "footer" => buf'.offset = PartStart(q),
         q = "footer" => buf'.offset = tx["sequence"].to /\ buf_footer'.offset = PartStart(q),
         KnownAt', InEntryFunction'
  PROVE  ChainInv'
<1>1. at' = q /\ next' = 1 /\ q # "done"
  BY PartNames DEF Enter, PartSet
<1>2. ASSUME NEW p \in Parts, NEW i \in 1..Len(Fields[p]), Passed(p, i)'
      PROVE  Right(p, i)'
  <2>1. Passed(p, i) /\ PlaceIn(p, i) < z
    BY <1>2, EnterPassed
  <2>2. Right(p, i)
    BY <2>1 DEF ChainInv
  <2> QED BY <2>1, <2>2, RightKept
<1>3. PlaceBefore(q) < z
  BY PartNames DEF PartSet, PlaceBefore, Rank
<1>4. PartStart(q)' = PartStart(q)
  BY <1>3, PartStartKept
<1>5. StartOf(at, next)' = PartStart(q)
  BY <1>1, <1>4 DEF StartOf
<1>6. tx'["sequence"] = tx["sequence"]
  <2>1. Place["sequence"] < z
    BY DEF Place
  <2> QED BY <2>1, NamedFields
<1>7. /\ at' \in Parts \ {"footer"} => buf'.offset = StartOf(at, next)'
      /\ at' = "footer" => /\ buf'.offset = tx'["sequence"].to
                           /\ buf_footer'.offset = StartOf("footer", next)'
  BY <1>1, <1>5, <1>6
<1>8. FrontIsEncoding' /\ AccountTransferIsEncoding'
  BY <1>1 DEF FrontIsEncoding, AccountTransferIsEncoding, Accepted, Done
<1>9. at' \in Parts => /\ TX_HASHED_PREFIX_LEN <= Len(raw')
                       /\ SubSeq(raw', 1, TX_HASHED_PREFIX_LEN) = PREFIX_RAW_TX_HASHED
  BY DEF ChainInv
<1> QED BY <1>2, <1>7, <1>8, <1>9 DEF ChainInv

\* An end of the parsing before the function's name was read.
LEMMA DoneUnread ==
  ASSUME at' = "done", known_type' = "FUNC_UNKNOWN", tx'["function_name"] = Unread
  PROVE  ChainInv'
<1>1. "done" \notin Parts
  BY PartNames DEF PartSet
<1>2. FrontIsEncoding' /\ AccountTransferIsEncoding'
  BY DEF FrontIsEncoding, AccountTransferIsEncoding, WasRead
<1> QED BY <1>1, <1>2 DEF ChainInv, Passed, FunctionUnread, KnownAt, InEntryFunction

\* An end of it after, which keeps what was read.
LEMMA DoneRead ==
  ASSUME at' = "done", UNCHANGED <<raw, tx, buf, known_type>>,
         EncodeFront(Parsed) = SubSeq(raw, 1, buf.offset),
         known_type = "FUNC_APTOS_ACCOUNT_TRANSFER" /\ status' = "PARSING_OK" => raw = Encode(Parsed)
  PROVE  ChainInv'
<1>1. "done" \notin Parts
  BY PartNames DEF PartSet
<1>2. Parsed' = Parsed
  BY DEF Parsed, SliceBytes
<1>3. EncodeFront(Parsed)' = EncodeFront(Parsed) /\ Encode(Parsed)' = Encode(Parsed)
  BY <1>2
<1>4. FrontIsEncoding' /\ AccountTransferIsEncoding'
  BY <1>3 DEF FrontIsEncoding, AccountTransferIsEncoding, Accepted
<1> QED BY <1>1, <1>4 DEF ChainInv, Passed, FunctionUnread, KnownAt, InEntryFunction

\* transaction_deserialize enters the front behind the prefix, or ends.
LEMMA DeserializeChain ==
  ASSUME ParserInv, ChainInv, transaction_deserialize
  PROVE  ChainInv'
<1>1. /\ at = "start" /\ UNCHANGED <<raw, buf_footer, known_type>> /\ buf.offset = 0
      /\ OverRaw(buf) /\ known_type = "FUNC_UNKNOWN" /\ tx["function_name"] = Unread
  BY DEF transaction_deserialize, ParserInv, ChainInv, KnownAt, FunctionUnread
<1>2. tx'["function_name"] = Unread
  <2>1. tx' = tx \/ tx' = transaction_init
    BY DEF transaction_deserialize
  <2> QED BY <1>1, <2>1, NamedFields DEF transaction_init
<1>3. CASE at' = "done"
  BY <1>1, <1>2, <1>3, DoneUnread
<1>4. CASE /\ StartsWith(PREFIX_RAW_TX_HASHED) /\ Enter("raw")
           /\ buf' = buffer_seek_cur(buf, TX_HASHED_PREFIX_LEN)
  <2>1. TX_HASHED_PREFIX_LEN \in Nat /\ buf \in buffer_t /\ buf.offset <= buf.size /\ buf.size = Len(raw)
    BY <1>1, ParserAssumption DEF OverRaw, SizeT
  <2>2. buffer_can_read(buf, TX_HASHED_PREFIX_LEN)
        /\ SubSeq(raw, 1, TX_HASHED_PREFIX_LEN) = PREFIX_RAW_TX_HASHED
    BY <1>4 DEF StartsWith
  <2>3. buf.offset + TX_HASHED_PREFIX_LEN <= buf.size
    BY <2>1, <2>2, CanReadInBuffer
  <2>4. buf' = [buf EXCEPT !.offset = buf.offset + TX_HASHED_PREFIX_LEN]
    BY <1>4, <2>1, <2>3, SeekCurMoves
  <2>5. buf'.offset = TX_HASHED_PREFIX_LEN /\ TX_HASHED_PREFIX_LEN <= Len(raw)
    BY <1>1, <2>1, <2>3, <2>4 DEF buffer_t
  <2>6. at' = "raw" /\ next' = 1
    BY <1>4 DEF Enter
  <2>7. StartOf(at, next)' = TX_HASHED_PREFIX_LEN
    BY <2>6 DEF StartOf, PartStart
  <2>8. \A p \in Parts : \A i \in 1..Len(Fields[p]) : ~Passed(p, i)'
    <3> SUFFICES ASSUME NEW p \in Parts, NEW i \in 1..Len(Fields[p]) PROVE ~Passed(p, i)'
      OBVIOUS
    <3>1. ~(Rank[p] < Rank["raw"])
      BY PartNames DEF PartSet, Rank
    <3> QED BY <2>6, <3>1 DEF Passed
  <2>9. FrontIsEncoding' /\ AccountTransferIsEncoding'
    BY <2>6 DEF FrontIsEncoding, AccountTransferIsEncoding, Accepted, Done
  <2>10. KnownAt' /\ InEntryFunction'
    BY <1>1, <2>6 DEF KnownAt, InEntryFunction
  <2> QED BY <1>1, <1>2, <2>2, <2>5, <2>6, <2>7, <2>8, <2>9, <2>10 DEF ChainInv
<1> QED BY <1>3, <1>4 DEF transaction_deserialize, Return

\* The parts of an account transfer meet at the footer.
LEMMA AccountWhole ==
  ASSUME ParserInv, ChainInv, End("account_transfer"), AccountTransferLength
  PROVE  raw = Encode(Parsed)
<1>1. at = "account_transfer" /\ at \in Parts
  BY PartNames DEF End, PartSet
<1> DEFINE b == buf.offset
           n == Len(raw)
<1>2. raw \in Seq(Byte) /\ n \in Nat /\ b \in Nat /\ b <= n /\ buf.size = n
  BY DEF ParserInv, OverRaw, buffer_t, SizeT
<1>3. EncodeFront(Parsed) = Piece(0, b)
  BY <1>1, TransferFront DEF Piece
<1>4. EncodeFooter(Parsed) = Piece(n - TX_FOOTER_LEN, n)
  BY <1>1, FooterFollows
<1>5. n - TX_FOOTER_LEN \in Nat
  <2>1. "footer" \in Parts /\ 1 \in 1..Len(Fields["footer"]) /\ Passed("footer", 1)
    BY <1>1, Sizes, PartNames DEF PartSet, Passed, Rank
  <2>2. Right("footer", 1) /\ Fields["footer"][1].name \in FieldNames
    BY <2>1, FieldIs DEF ChainInv
  <2>3. tx[Fields["footer"][1].name].from = n - TX_FOOTER_LEN
    BY <2>2 DEF Right, StartOf, PartStart
  <2> QED BY <2>2, <2>3, SliceIs
<1>6. b = n - TX_FOOTER_LEN
  <2>1. TX_FOOTER_LEN \in Nat
    BY ParserAssumption DEF TX_FOOTER_LEN
  <2> HIDE DEF n, b
  <2>2. buf.offset = Minus(n, TX_FOOTER_LEN)
    BY <1>2 DEF AccountTransferLength, FooterBegin, n
  <2> QED BY <1>2, <1>5, <2>1, <2>2 DEF Minus, b
<1> HIDE DEF b, n
<1>7. Piece(0, b) \o Piece(b, n) = Piece(0, n)
  <2>1. 0 \in Nat /\ 0 <= b /\ n <= Len(raw)
    BY <1>2 DEF n
  <2> QED BY <1>2, <2>1, PiecesJoin
<1>8. Piece(0, n) = raw
  BY <1>2, SubSeqFull DEF Piece, n
<1> QED BY <1>3, <1>4, <1>6, <1>7, <1>8 DEF Encode

\* What an entry function's fields are reset to before they are read.
LEMMA EntryReset ==
  ASSUME ParserInv, tx' = entry_function_payload_init
  PROVE  /\ \A f \in FieldNames : Place[f] < 8 => tx'[f] = tx[f]
         /\ tx'["function_name"] = Unread
<1>1. "entry_function" \in Parts /\ DOMAIN Fields["entry_function"] = 1..5
  BY FieldsOf, Sizes, PartNames DEF PartSet, EntryFunction
<1>2. ASSUME NEW f \in NamesOf("entry_function") PROVE ~(Place[f] < 8)
  <2>1. PICK i \in 1..5 : f = Fields["entry_function"][i].name
    BY <1>1, <1>2 DEF NamesOf
  <2>2. i \in 1..Len(Fields["entry_function"])
    BY Sizes
  <2>3. Place[f] = PlaceIn("entry_function", i)
    BY <1>1, <2>1, <2>2, Places
  <2>4. PlaceIn("entry_function", i) = 7 + i
    BY DEF PlaceIn
  <2> QED BY <2>3, <2>4
<1>3. ~(Place["ty_size"] < 8) /\ ~(Place["args_size"] < 8)
  BY DEF Place
<1>4. "function_name" \in NamesOf("entry_function")
  <2>1. Fields["entry_function"][5].name = "function_name"
    BY FieldsOf DEF EntryFunction, Text
  <2> QED BY <1>1, <2>1 DEF NamesOf
<1> QED BY <1>2, <1>3, <1>4, NamedFields DEF entry_function_payload_init

\* The footer begins where the other cursor is put.
LEMMA EndRawChain ==
  ASSUME ParserInv, ChainInv, end_raw
  PROVE  ChainInv'
<1>1. /\ End("raw") /\ at = "raw" /\ at \in Parts /\ "footer" \in Parts /\ Enter("footer")
      /\ UNCHANGED <<raw, buf, tx, variant, known_type>>
  BY PartNames DEF end_raw, End, PartSet
<1>2. at' = "footer"
  BY <1>1 DEF Enter
<1>3. next = 3 /\ Fields["raw"][2].name = "sequence"
  BY <1>1, Sizes, FieldsOf DEF End, ParserInv, Raw, Bytes
<1>4. buf.offset = tx["sequence"].to
  BY <1>1, <1>3 DEF ChainInv, StartOf
<1>5. buf_footer'.offset = PartStart("footer")
  <2>1. buf_footer' = [buf EXCEPT !.offset = FooterBegin] /\ FooterBegin = Len(raw) - TX_FOOTER_LEN
    BY <1>1, FooterBeginInBuffer DEF end_raw
  <2>2. buf \in buffer_t
    BY DEF ParserInv, OverRaw
  <2>3. PartStart("footer") = Len(raw) - TX_FOOTER_LEN
    BY DEF PartStart
  <2> QED BY <2>1, <2>2, <2>3 DEF buffer_t
<1>6. tx["function_name"] = Unread /\ known_type = "FUNC_UNKNOWN"
  BY <1>1 DEF ChainInv, FunctionUnread, KnownAt
<1>7. KnownAt' /\ InEntryFunction'
  BY <1>1, <1>2, <1>6 DEF KnownAt, InEntryFunction
<1>8. Rank["footer"] = Rank[at] + 1
  BY <1>1 DEF Rank
<1> QED BY <1>1, <1>4, <1>5, <1>6, <1>7, <1>8, EnterChain

\* The payload begins where the sequence number ended.
LEMMA EndFooterChain ==
  ASSUME ParserInv, ChainInv, end_footer
  PROVE  ChainInv'
<1>1. /\ End("footer") /\ at = "footer" /\ at \in Parts /\ "payload" \in Parts /\ Enter("payload")
      /\ UNCHANGED <<raw, buf, buf_footer, tx, variant, known_type>>
  BY PartNames DEF end_footer, End, PartSet
<1>2. at' = "payload"
  BY <1>1 DEF Enter
<1>3. buf.offset = PartStart("payload")
  BY <1>1 DEF ChainInv, PartStart
<1>4. tx["function_name"] = Unread /\ known_type = "FUNC_UNKNOWN"
  BY <1>1 DEF ChainInv, FunctionUnread, KnownAt
<1>5. KnownAt' /\ InEntryFunction'
  BY <1>1, <1>2, <1>4 DEF KnownAt, InEntryFunction
<1>6. Rank["payload"] = Rank[at] + 1
  BY <1>1 DEF Rank
<1> QED BY <1>1, <1>3, <1>4, <1>5, <1>6, EnterChain

\* An entry function begins behind the variant, with its fields reset; a script
\* ends the parsing.
LEMMA EndPayloadChain ==
  ASSUME ParserInv, ChainInv, end_payload
  PROVE  ChainInv'
<1>1. /\ End("payload") /\ at = "payload" /\ at \in Parts /\ "entry_function" \in Parts
      /\ UNCHANGED <<raw, buf, buf_footer, variant>>
  BY PartNames DEF end_payload, End, PartSet
<1>2. tx["function_name"] = Unread /\ known_type = "FUNC_UNKNOWN"
  BY <1>1 DEF ChainInv, FunctionUnread, KnownAt
<1>3. CASE NumberIn(tx["payload_variant"]) # PAYLOAD_ENTRY_FUNCTION
  <2>1. at' = "done" /\ tx' = tx /\ known_type' = known_type
    BY <1>3 DEF end_payload, Return
  <2> QED BY <1>2, <2>1, DoneUnread
<1>4. CASE NumberIn(tx["payload_variant"]) = PAYLOAD_ENTRY_FUNCTION
  <2>1. Enter("entry_function") /\ tx' = entry_function_payload_init /\ known_type' = "FUNC_UNKNOWN"
    BY <1>4 DEF end_payload
  <2>2. /\ \A f \in FieldNames : Place[f] < 8 => tx'[f] = tx[f]
        /\ tx'["function_name"] = Unread
    BY <2>1, EntryReset
  <2>3. at' = "entry_function"
    BY <2>1 DEF Enter
  <2>4. tx'["payload_variant"] = tx["payload_variant"]
    <3>1. Place["payload_variant"] < 8
      BY DEF Place
    <3> QED BY <2>2, <3>1, NamedFields
  <2>5. KnownAt' /\ InEntryFunction'
    <3>1. \A o, k : ValueAt(o, k)' = ValueAt(o, k)
      BY <1>1, NumbersKept
    <3>2. NumberIn(tx["payload_variant"])' = PAYLOAD_ENTRY_FUNCTION
      BY <1>4, <2>4, <3>1 DEF NumberIn
    <3> QED BY <2>1, <2>3, <3>2 DEF KnownAt, InEntryFunction
  <2>6. buf'.offset = PartStart("entry_function")
    <3>1. next = 2 /\ Fields["payload"][1].name = "payload_variant"
      BY <1>1, Sizes, FieldsOf DEF End, ParserInv, Payload, Number
    <3>2. buf.offset = tx["payload_variant"].to
      BY <1>1, <3>1 DEF ChainInv, StartOf
    <3> QED BY <1>1, <3>2 DEF PartStart
  <2>7. Rank["entry_function"] = Rank[at] + 1
    BY <1>1 DEF Rank
  <2> QED BY <1>1, <2>1, <2>2, <2>5, <2>6, <2>7, EnterChain
<1> QED BY <1>3, <1>4

\* A transfer begins behind the name of the function; another call ends the parsing.
LEMMA EndEntryFunctionChain ==
  ASSUME ParserInv, ChainInv, end_entry_function
  PROVE  ChainInv'
<1>1. /\ End("entry_function") /\ at = "entry_function" /\ at \in Parts
      /\ UNCHANGED <<raw, buf, buf_footer, tx, variant>>
  BY PartNames DEF end_entry_function, End, PartSet
<1>2. known_type = "FUNC_UNKNOWN" /\ known_type' = determine_function_type
  BY <1>1 DEF end_entry_function, ChainInv, KnownAt
<1>3. known_type' \in {"FUNC_UNKNOWN", "FUNC_APTOS_ACCOUNT_TRANSFER", "FUNC_COIN_TRANSFER"}
  BY <1>2 DEF determine_function_type
<1>4. CASE known_type' = "FUNC_UNKNOWN"
  <2>1. Return("PARSING_OK")
    BY <1>4 DEF end_entry_function
  <2>2. at' = "done" /\ UNCHANGED <<raw, tx, buf, known_type>>
    BY <1>1, <1>2, <1>4, <2>1 DEF Return
  <2>3. EncodeFront(Parsed) = SubSeq(raw, 1, buf.offset)
    BY <1>1, UnknownFront
  <2> QED BY <1>2, <2>2, <2>3, DoneRead
<1>5. ASSUME NEW q \in {"account_transfer", "coin_transfer"}, Enter(q),
             known_type' = IF q = "account_transfer" THEN "FUNC_APTOS_ACCOUNT_TRANSFER"
                                                     ELSE "FUNC_COIN_TRANSFER"
      PROVE  ChainInv'
  <2>1. at' = q /\ q \in Parts /\ q # "footer"
    BY <1>5, PartNames DEF Enter, PartSet
  <2>2. Rank[q] = Rank[at] + 1
    BY <1>1 DEF Rank
  <2>3. ~FunctionUnread'
    BY <2>1 DEF FunctionUnread
  <2>4. buf'.offset = PartStart(q)
    <3>1. next = 6 /\ Fields["entry_function"][5].name = "function_name"
      BY <1>1, Sizes, FieldsOf DEF End, ParserInv, EntryFunction, Text
    <3>2. buf.offset = tx["function_name"].to
      BY <1>1, <3>1 DEF ChainInv, StartOf
    <3>3. q # "raw" /\ q # "payload" /\ q # "entry_function"
      OBVIOUS
    <3> QED BY <1>1, <2>1, <3>2, <3>3 DEF PartStart
  <2>5. KnownAt'
    BY <1>5, <2>1 DEF KnownAt
  <2>6. InEntryFunction'
    <3>1. NumberIn(tx["payload_variant"]) = PAYLOAD_ENTRY_FUNCTION
      BY <1>1 DEF ChainInv, InEntryFunction
    <3>2. \A o, k : ValueAt(o, k)' = ValueAt(o, k)
      BY <1>1, NumbersKept
    <3> QED BY <1>1, <3>1, <3>2 DEF NumberIn, InEntryFunction
  <2> QED BY <1>1, <1>5, <2>1, <2>2, <2>3, <2>4, <2>5, <2>6, EnterChain
<1>6. CASE known_type' = "FUNC_APTOS_ACCOUNT_TRANSFER"
  <2>1. Enter("account_transfer")
    BY <1>6 DEF end_entry_function
  <2> QED BY <1>5, <1>6, <2>1
<1>7. CASE known_type' = "FUNC_COIN_TRANSFER"
  <2>1. Enter("coin_transfer")
    BY <1>7 DEF end_entry_function
  <2> QED BY <1>5, <1>7, <2>1
<1> QED BY <1>3, <1>4, <1>6, <1>7

\* A transfer ends the parsing, the account transfer at the footer or with an error.
LEMMA EndTransferChain ==
  ASSUME ParserInv, ChainInv, end_account_transfer \/ end_coin_transfer
  PROVE  ChainInv'
<1>1. /\ at \in {"account_transfer", "coin_transfer"} /\ End(at) /\ at' = "done"
      /\ UNCHANGED <<raw, tx, buf, known_type>>
  BY DEF end_account_transfer, end_coin_transfer, End, Return
<1>2. EncodeFront(Parsed) = SubSeq(raw, 1, buf.offset)
  BY <1>1, TransferFront
<1>3. known_type = "FUNC_APTOS_ACCOUNT_TRANSFER" /\ status' = "PARSING_OK" => raw = Encode(Parsed)
  <2> SUFFICES ASSUME known_type = "FUNC_APTOS_ACCOUNT_TRANSFER", status' = "PARSING_OK"
               PROVE  raw = Encode(Parsed)
    OBVIOUS
  <2>1. at = "account_transfer"
    BY <1>1 DEF ChainInv, KnownAt
  <2>2. end_account_transfer
    BY <2>1 DEF end_coin_transfer, End
  <2>3. AccountTransferLength
    BY <2>2 DEF end_account_transfer, Return
  <2> QED BY <1>1, <2>1, <2>3, AccountWhole
<1> QED BY <1>1, <1>2, <1>3, DoneRead

\* Every step of the parser keeps the chain.
LEMMA ChainNext ==
  ASSUME ParserInv, ChainInv, [Next]_vars
  PROVE  ChainInv'
<1>1. CASE transaction_deserialize
  BY <1>1, DeserializeChain
<1>2. CASE read_bytes
  BY <1>2, ReadBytesChain
<1>3. CASE read_number
  BY <1>3, ReadNumberChain
<1>4. CASE end_raw
  BY <1>4, EndRawChain
<1>5. CASE end_footer
  BY <1>5, EndFooterChain
<1>6. CASE end_payload
  BY <1>6, EndPayloadChain
<1>7. CASE end_entry_function
  BY <1>7, EndEntryFunctionChain
<1>8. CASE end_account_transfer \/ end_coin_transfer
  BY <1>8, EndTransferChain
<1>9. CASE UNCHANGED vars
  <2>1. /\ UNCHANGED <<raw, buf, buf_footer, at, next, tx, known_type, status>>
    BY <1>9 DEF vars
  <2>2. \A o, k : ValueAt(o, k)' = ValueAt(o, k)
    BY <2>1, NumbersKept
  <2>3. \A f : NumberIn(tx[f])' = NumberIn(tx[f])
    BY <2>1, <2>2 DEF NumberIn
  <2>4. ASSUME NEW p \in Parts, NEW i \in 1..Len(Fields[p]), Passed(p, i)'
        PROVE  Right(p, i)'
    <3>1. Passed(p, i)
      BY <2>1, <2>4 DEF Passed
    <3>2. Right(p, i)
      BY <3>1 DEF ChainInv
    <3> QED BY <2>1, <2>3, <3>2 DEF Right, StartOf, PartStart
  <2>5. StartOf(at, next)' = StartOf(at, next) /\ StartOf("footer", next)' = StartOf("footer", next)
    BY <2>1 DEF StartOf, PartStart
  <2>6. Parsed' = Parsed
    BY <2>1 DEF Parsed, SliceBytes
  <2>7. FrontIsEncoding' /\ AccountTransferIsEncoding'
    <3>1. EncodeFront(Parsed)' = EncodeFront(Parsed) /\ Encode(Parsed)' = Encode(Parsed)
      BY <2>6
    <3> QED BY <2>1, <3>1 DEF ChainInv, FrontIsEncoding, AccountTransferIsEncoding, Accepted, Done, WasRead
  <2>8. KnownAt' /\ InEntryFunction'
    BY <2>1, <2>3 DEF ChainInv, KnownAt, InEntryFunction
  <2>9. FunctionUnread' => tx'["function_name"] = Unread
    BY <2>1 DEF ChainInv, FunctionUnread
  <2> QED BY <2>1, <2>4, <2>5, <2>7, <2>8, <2>9 DEF ChainInv
<1> QED BY <1>1, <1>2, <1>3, <1>4, <1>5, <1>6, <1>7, <1>8, <1>9 DEF Next

\* What was read from the front of any accepted entry function is the encoding of
\* what was parsed from it, for every transaction, every length of the names and
\* every radix (deserialize.c:126-171, and 173-316 for the transfers).
THEOREM FrontEncodes == Spec => []FrontIsEncoding
<1>1. ChainInv => FrontIsEncoding
  BY DEF ChainInv
<1> QED BY <1>1, InitChain, ChainNext, ParserInvariant, PTL DEF Spec

\* An accepted account transfer is, byte for byte, the encoding of what the
\* screens show of it: the comparison of deserialize.c:82-84 leaves no byte between
\* the payload and the footer.
THEOREM AccountTransferEncodes == Spec => []AccountTransferIsEncoding
<1>1. ChainInv => AccountTransferIsEncoding
  BY DEF ChainInv
<1> QED BY <1>1, InitChain, ChainNext, ParserInvariant, PTL DEF Spec
=============================================================================
