-------------------------- MODULE TxParserProperties --------------------------
(***************************************************************************)
(* What the parser promises, against a reference encoder of raw             *)
(* transactions that is written field by field and knows no cursor.         *)
(***************************************************************************)
EXTENDS TxParser, SequencesExt

CONSTANT Transactions  \* transactions whose encodings are among RawTxs

\* The fields that are numbers, and what they were read as.
NumberNames ==
  UNION {{Fields[p][i].name : i \in {j \in DOMAIN Fields[p] : Fields[p][j].kind = "number"}}
         : p \in Parts}
WasRead(f) == tx[f] # Unread
Done == at = "done"
Accepted == Done /\ status = "PARSING_OK"

\* Types of the parser's state; the numbers it read fit 32 bits.
TypeOK ==
  /\ buf \in buffer_t /\ buf_footer \in buffer_t
  /\ at \in Parts \cup {"start", "done"} /\ next \in Nat
  /\ tx \in [FieldNames -> [from : SizeT, to : SizeT]]
  /\ variant \in {"TX_UNDEFINED", "TX_RAW", "TX_RAW_WITH_DATA", "TX_MESSAGE"}
  /\ known_type \in {"FUNC_UNKNOWN", "FUNC_APTOS_ACCOUNT_TRANSFER", "FUNC_COIN_TRANSFER"}
  /\ \A f \in NumberNames : WasRead(f) => NumberIn(tx[f]) \in 0..UINT32_MAX

\* Both cursors and every field read are inside the raw transaction, the
\* footer too, whose place deserialize.c:46 computes from the end unchecked.
ReadsInBuffer ==
  /\ buf.offset <= Len(raw)
  /\ buf_footer.offset <= Len(raw)
  /\ \A f \in FieldNames : tx[f].from <= tx[f].to /\ tx[f].to <= Len(raw)

-----------------------------------------------------------------------------
(* The reference: the BCS encoding of a transaction. *)

\* The groups of n, the low ones first, the continuation bit on all but the last.
Uleb[n \in Nat] ==
  IF n < Radix THEN <<n>> ELSE <<Radix + (n % Radix)>> \o Uleb[n \div Radix]
WithLength(bytes) == Uleb[Len(bytes)] \o bytes

EncodeArguments(t) ==
  Uleb[2] \o WithLength(t.receiver) \o WithLength(t.amount)
EncodeCall(t) ==
  CASE t.kind = "account" -> Uleb[0] \o EncodeArguments(t)
    [] t.kind = "coin" -> Uleb[1] \o Uleb[TYPE_TAG_STRUCT] \o t.coin_address
                            \o WithLength(t.coin_module) \o WithLength(t.coin_name)
                            \o Uleb[0] \o EncodeArguments(t)
    [] t.kind = "call" -> t.call
EncodeFront(t) ==
  PREFIX_RAW_TX_HASHED \o t.sender \o t.sequence \o Uleb[PAYLOAD_ENTRY_FUNCTION]
    \o t.module_address \o WithLength(t.module_name) \o WithLength(t.function_name)
    \o EncodeCall(t)
EncodeFooter(t) ==
  t.max_gas_amount \o t.gas_unit_price \o t.expiration_timestamp_secs \o t.chain_id
Encode(t) == EncodeFront(t) \o EncodeFooter(t)

\* The fields that a transaction of each kind is written from.
CallFields == {"sender", "sequence", "module_address", "module_name", "function_name",
               "max_gas_amount", "gas_unit_price", "expiration_timestamp_secs", "chain_id"}
ArgumentFields ==
  [call |-> {"call"}, account |-> {"receiver", "amount"},
   coin |-> {"coin_address", "coin_module", "coin_name", "receiver", "amount"}]

\* A transaction that can be written: its fields have the lengths that are read,
\* those of any length have one of 32 bits, and a transfer calls its function.
WellFormed(t) ==
  /\ t.kind \in DOMAIN ArgumentFields
  /\ DOMAIN t = {"kind"} \cup CallFields \cup ArgumentFields[t.kind]
  /\ \A f \in DOMAIN t \ {"kind"} : t[f] \in Seq(Byte) /\ Len(t[f]) <= UINT32_MAX
  /\ \A p \in Parts : \A i \in DOMAIN Fields[p] :
       Fields[p][i].kind = "bytes" /\ Fields[p][i].name \in DOMAIN t
         => Len(t[Fields[p][i].name]) = Fields[p][i].len
  /\ t.kind # "call" =>
       /\ t.module_address[ADDRESS_LEN] = 1
       /\ t.module_name = IF t.kind = "account" THEN AptosAccount ELSE Coin
       /\ t.function_name = Transfer
  /\ Len(Encode(t)) <= MAX_TX_LEN
ASSUME TransactionsAssumption == \A t \in Transactions : WellFormed(t)

\* The prefixes have the length that is read and differ (bcs/types.h:24-31); the known
\* modules begin with different letters; five groups of seven bits hold 32.
ASSUME EncoderAssumption ==
  /\ PREFIX_RAW_TX_HASHED \in Seq(Byte)
  /\ Len(PREFIX_RAW_TX_HASHED) = TX_HASHED_PREFIX_LEN
  /\ PREFIX_RAW_TX_WITH_DATA_HASHED # PREFIX_RAW_TX_HASHED
  /\ {AptosAccount, Coin} \subseteq Seq(Byte) \ {<<>>} /\ AptosAccount[1] # Coin[1]
  /\ Transfer \in Seq(Byte)
  /\ UINT32_MAX < Power(Radix, MaxGroups)
  /\ {TYPE_TAG_STRUCT, ADDRESS_LEN, U64_LEN} \subseteq 0..UINT32_MAX

Kind == [FUNC_APTOS_ACCOUNT_TRANSFER |-> "account", FUNC_COIN_TRANSFER |-> "coin",
         FUNC_UNKNOWN |-> "call"]
\* What the parser made of the transaction: the bytes of each field, which are
\* what the review screens show.  The arguments of other calls are not parsed.
Parsed ==
  [f \in FieldNames \cup {"kind", "call"} |->
     CASE f = "kind" -> Kind[known_type]
       [] f = "call" -> <<>>
       [] OTHER -> SliceBytes(tx[f])]

-----------------------------------------------------------------------------
(* Properties *)

\* An accepted account transfer is the encoding of what was parsed from it: no
\* byte of what is signed is left unread, read twice or read differently.
AccountTransferIsEncoding ==
  Accepted /\ known_type = "FUNC_APTOS_ACCOUNT_TRANSFER" => raw = Encode(Parsed)

\* What stands in the encoding from the name of the module on, and from the name of
\* the function on.
FromFunctionName(t) == t.function_name \o EncodeCall(t) \o EncodeFooter(t)
FromModuleName(t) == t.module_name \o Uleb[Len(t.function_name)] \o FromFunctionName(t)

\* A call of another function that the parser takes for a transfer: its names begin
\* like those of the transfer, or are shorter and what follows them in the bytes
\* makes them up (deserialize.c:323-331 looks at as many bytes as the known name has).
LooksKnown(t) ==
  /\ t.kind = "call"
  /\ t.module_address[ADDRESS_LEN] = 1
  /\ IsPrefix(Transfer, FromFunctionName(t))
  /\ \/ IsPrefix(AptosAccount, FromModuleName(t))
     \/ IsPrefix(Coin, FromModuleName(t))

\* Every transaction of a known or an unknown function is accepted, as the
\* kind it is, with the fields it was encoded from, unless its bytes look like
\* those of a transfer.
EncodingsAccepted ==
  \A t \in Transactions : Done /\ raw = Encode(t) /\ ~LooksKnown(t) =>
    /\ status = "PARSING_OK"
    /\ Kind[known_type] = t.kind
    /\ \A f \in DOMAIN t \cap FieldNames : SliceBytes(tx[f]) = t[f]

\* Numbers have one encoding: what was read as a number is the encoding of it.
NumbersCanonical ==
  \A f \in NumberNames : WasRead(f) => SliceBytes(tx[f]) = Uleb[NumberIn(tx[f])]

\* Whatever the function, what was read from the front of an accepted entry
\* function encodes what is shown of it: no field starts late, ends early or
\* stands for other bytes than its own.
FrontIsEncoding ==
  Accepted /\ WasRead("function_name") => SubSeq(raw, 1, buf.offset) = EncodeFront(Parsed)

-----------------------------------------------------------------------------
(* What the repository says of the parser and its code does not do. *)

\* transaction/deserialize.h:9-15: PARSING_OK when the raw transaction was
\* deserialized in the structure; here for coin transfers.
CoinTransferIsEncoding ==
  Accepted /\ known_type = "FUNC_COIN_TRANSFER" => raw = Encode(Parsed)

=============================================================================
