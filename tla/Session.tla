------------------------------ MODULE Session ------------------------------
(***************************************************************************)
(* The application put together: the command loop of AptosApp collects the  *)
(* chunks of a transaction, TxParser parses their bytes inside the handler  *)
(* of the last one (handler/sign_tx.c:65-99), and Screens shows what it     *)
(* made of them.  The transaction is parsed into G_context, where the fields *)
(* of an earlier parse of the same session still are; the texts are in the  *)
(* arrays that earlier reviews have used.                                  *)
(*                                                                         *)
(* No exception crosses an approval here: AptosApp says what happens then. *)
(***************************************************************************)
EXTENDS Integers, SequencesExt

CONSTANTS
  Data, NoData, ChunkBytes,       \* the data fields of commands and their bytes
  Paths, NoPath, PathRead, Derivable, SignOutcomes, HostCommands, Verdict,
  MaxChunks, MaxReviews,          \* bounds: of a session, of a behaviour
  SizeMod, MAX_TX_LEN, PREFIX_RAW_TX_HASHED, PREFIX_RAW_TX_WITH_DATA_HASHED,
  TX_HASHED_PREFIX_LEN, ADDRESS_LEN, U64_LEN, AptosAccount, Coin, Transfer,
  Radix, MaxGroups, UINT32_MAX, Transactions,
  UINT64_MAX, MaxDigits, MAX_BIP32_PATH, NUL, AmountSize, PathSize, AddressSize,
  FunctionSize, StructSize, Decimals, TypeText, Char, AddressOf

VARIABLES
  pc, G_io_state, G_output_len, G_io_apdu_buffer, G_context, screen,
  g_validate_callback, pending, wire,
  raw, buf, buf_footer, at, next, tx, variant, known_type, status,
  g_bip32_path, g_address, g_gas_fee, g_amount, g_function, g_struct,
  flow, subject, refused,
  reviews                         \* shown so far: only the bound reads it

loopVars == <<pc, G_io_state, G_output_len, G_io_apdu_buffer, G_context, screen,
              g_validate_callback, pending, wire>>
parserVars == <<raw, buf, buf_footer, at, next, tx, variant, known_type, status>>
textVars == <<g_bip32_path, g_address, g_gas_fee, g_amount, g_function, g_struct,
              flow, subject, refused>>
vars == <<loopVars, parserVars, textVars, reviews>>

Counted == reviews' = IF flow' = "menu" THEN reviews ELSE reviews + 1

BytesOf(chunks) == FlattenSeq([i \in DOMAIN chunks |-> ChunkBytes[chunks[i]]])

\* What is parsed and reviewed is not chosen among constants here.
Parser == INSTANCE TxParserProperties WITH RawTxs <- {}
UI == INSTANCE Screens WITH Reviewed <- {}

\* The loop refuses the paths that the screens cannot show.
Loop == INSTANCE AptosApp WITH
  MaxTxLen <- MAX_TX_LEN,
  DataLen <- [d \in Data |-> Len(ChunkBytes[d])],
  Unformattable <- {p \in Paths : ~UI!bip32_path_format(p, UI!Zeroed(PathSize)).ok}

-----------------------------------------------------------------------------
(* The parsed transaction as the screens read it. *)

\* Variant: the bytes of an integer in the other order (read.c:51-64).
Value_BigEndian(bytes) == FoldLeft(LAMBDA n, b : 2 * Radix * n + b, 0, bytes)

Value(bytes) == FoldRight(LAMBDA b, n : 2 * Radix * n + b, bytes, 0)

PayloadVariant ==
  IF ~Parser!WasRead("payload_variant") THEN "PAYLOAD_UNDEFINED"
  ELSE IF Parser!NumberIn(tx["payload_variant"]) = Parser!PAYLOAD_SCRIPT THEN "PAYLOAD_SCRIPT"
  ELSE "PAYLOAD_ENTRY_FUNCTION"

\* A field that was not read is zero, or empty; a message is all of the bytes.
transaction_t ==
  LET field(f) == Parser!SliceBytes(tx[f]) IN
  [tx_variant |-> variant, payload_variant |-> PayloadVariant, known_type |-> known_type,
   gas_unit_price |-> Value(field("gas_unit_price")),
   max_gas_amount |-> Value(field("max_gas_amount")), amount |-> Value(field("amount")),
   receiver |-> field("receiver"), module_address |-> field("module_address"),
   module_name |-> field("module_name"), function_name |-> field("function_name"),
   coin_address |-> field("coin_address"), coin_module |-> field("coin_module"),
   coin_name |-> field("coin_name"), message |-> raw]

-----------------------------------------------------------------------------
(* The handlers of the two requests. *)

NoTransaction ==
  /\ raw' = <<>>
  /\ buf' = [size |-> 0, offset |-> 0] /\ buf_footer' = buf'
  /\ at' = "idle" /\ next' = 1
  /\ tx' = [f \in Parser!FieldNames |-> Parser!Unread]
  /\ variant' = "TX_RAW" /\ known_type' = "FUNC_UNKNOWN"
  /\ status' = "none"

\* Both requests zero the context, the parsed transaction with it.
AskKey ==
  LET read == PathRead[Loop!cmd.data] IN
  /\ Loop!handler_get_public_key
  /\ NoTransaction
  /\ IF read.ok /\ read.path \in Derivable /\ Loop!cmd.p1 = 1
       THEN UI!ui_display_address(read.path)
       ELSE UNCHANGED textVars
  /\ Counted

OpenSession == Loop!sign_tx_path /\ NoTransaction /\ UNCHANGED <<textVars, reviews>>

\* Variant: without the last chunk (sign_tx.c:73 after the cursor is made).
ParsedChunks_Before == G_context.raw_tx

ParsedChunks == Loop!Extended.raw_tx

\* The last chunk is stored and a cursor put over all that is stored; what was
\* parsed before it is still there.
ParseBegins ==
  /\ at = "idle"
  /\ Loop!TxChunk /\ Loop!ChunkRefusal = "OK" /\ Loop!cmd.p2 = Loop!P2_LAST
  /\ raw' = BytesOf(ParsedChunks)
  /\ buf' = [size |-> Len(raw'), offset |-> 0] /\ buf_footer' = buf'
  /\ at' = "start" /\ next' = 1 /\ status' = "none"
  /\ UNCHANGED <<tx, variant, known_type, loopVars, textVars, reviews>>

Parse == Parser!Next /\ UNCHANGED <<loopVars, textVars, reviews>>

\* Back in the handler: a refusal, or the review.
LastAnswered ==
  /\ at = "done"
  /\ Loop!sign_tx_last
  /\ at' = "idle"
  /\ IF status = "PARSING_OK" THEN UI!ui_display_transaction(transaction_t) ELSE UNCHANGED textVars
  /\ Counted
  /\ UNCHANGED <<raw, buf, buf_footer, next, tx, variant, known_type, status>>

-----------------------------------------------------------------------------
(* The rest of the loop, which touches neither transaction nor texts. *)

Decide ==
  /\ \/ \E choice \in BOOLEAN : Loop!ui_action_validate_pubkey(choice)
     \/ Loop!approve_signed
     \/ Loop!approve_failed
     \/ Loop!reject_transaction
  /\ UI!ui_menu_main
  /\ UNCHANGED <<parserVars, reviews>>

\* The arrays of the texts are not those that the restart zeroes.
Restart ==
  /\ Loop!Boot
  /\ NoTransaction
  /\ IF flow = "menu" THEN UNCHANGED textVars ELSE UI!ui_menu_main
  /\ UNCHANGED reviews

\* The host stays within the bounds.
Receive(c) ==
  /\ reviews < MaxReviews
  /\ c.ins = "SIGN_TX" /\ c.p1 # Loop!P1_START => Len(G_context.raw_tx) < MaxChunks
  /\ Loop!ReceiveCommand(c)

Elsewhere ==
  /\ \/ Loop!io_recv_command
     \/ \E c \in HostCommands : Receive(c)
     \/ Loop!RefuseCommand
     \/ Loop!sign_tx_refuse
     \/ Loop!sign_tx_more
     \/ Loop!IoReset
  /\ UNCHANGED <<parserVars, textVars, reviews>>

Init ==
  /\ Loop!Init /\ UI!Init
  /\ raw = <<>>
  /\ buf = [size |-> 0, offset |-> 0] /\ buf_footer = buf
  /\ at = "idle" /\ next = 1
  /\ tx = [f \in Parser!FieldNames |-> Parser!Unread]
  /\ variant = "TX_RAW" /\ known_type = "FUNC_UNKNOWN"
  /\ status = "none"
  /\ reviews = 0

Next ==
  \/ AskKey \/ OpenSession
  \/ ParseBegins \/ Parse \/ LastAnswered
  \/ Decide \/ Restart \/ Elsewhere

Spec == Init /\ [][Next]_vars

-----------------------------------------------------------------------------
(* Properties *)

\* An integer of a transaction: its low byte first.
Integer(bytes) == FoldLeft(LAMBDA n, b : 2 * Radix * n + b, 0, Reverse(bytes))

\* What a transaction of the reference encoder is to be shown as.
Reference(t) ==
  LET field(f) == IF f \in DOMAIN t THEN t[f] ELSE <<>> IN
  [flow |-> CASE t.kind = "account" -> "account_transfer"
              [] t.kind = "coin" -> "coin_transfer"
              [] t.kind = "call" -> "entry_function",
   fee |-> Integer(t.gas_unit_price) * Integer(t.max_gas_amount),
   amount |-> Integer(field("amount")), receiver |-> field("receiver"),
   module_address |-> t.module_address, module_name |-> t.module_name,
   function_name |-> t.function_name, coin_address |-> field("coin_address"),
   coin_module |-> field("coin_module"), coin_name |-> field("coin_name")]

ShownAs(r) ==
  /\ flow = r.flow
  /\ UI!FeeIs(r.fee)
  /\ UI!FunctionIs(g_function, r)
  /\ UI!Shows("address") => UI!AddressIs(g_address, r.receiver)
  /\ UI!Shows("amount") => UI!AmountIs(r.amount)
  /\ UI!Shows("struct") => UI!CoinIs(g_struct, r)

\* The loop's review, the texts on screen and the bytes in the context are of
\* the same thing: Verdict, which AptosApp takes for a function of the chunks
\* alone, is what the parser returns for them, whatever it parsed before
\* (sign_tx.c:75-99, display.c:260-308).
ReviewsAgree ==
  /\ screen.flow = flow
  /\ flow = "address" => subject = screen.path
  /\ flow \in Loop!TxFlows => /\ raw = BytesOf(screen.tx)
                              /\ raw = BytesOf(G_context.raw_tx)

\* A signature is sent over the encoding of a transaction, or over a message,
\* only while its own function, coin, receiver, amount and fee, or its own text,
\* are on screen; a key that was to be confirmed only while its own address is.
\* However the bytes were cut into chunks, and whatever was parsed and shown
\* before (validate.c:28-54).
Answers == pc # "boot" /\ pending # Loop!NoCommand /\ pending' = Loop!NoCommand
AnsweredAsShown ==
  [][Answers =>
       LET body == wire'.bytes.body IN
       /\ body.type = "pubkey" /\ pending.p1 = 1 =>
            flow = "address" /\ UI!AddressIs(g_address, AddressOf[body.path])
       /\ body.type = "signature" =>
            LET bytes == BytesOf(body.tx) IN
            /\ \A t \in Transactions : bytes = Parser!Encode(t) => ShownAs(Reference(t))
            /\ (\A i \in DOMAIN bytes : bytes[i] < Radix) =>
                 flow = "message" /\ UI!MessageIs(g_struct, bytes)]_vars

\* A fee on screen is the product, in 64 bits, of the two numbers that the last
\* bytes to be signed begin with, for every parsed transaction, bytes left over
\* or not; of one with data, which is accepted and not read, the fee is always
\* shown as zero (deserialize.c:23, 46; display.c:270).
FeeIsSigned ==
  UI!Shows("gas_fee") =>
    LET footer == Len(raw) - Parser!TX_FOOTER_LEN
        number(i) == Integer(SubSeq(raw, footer + i * U64_LEN + 1, footer + (i + 1) * U64_LEN))
    IN  UI!FeeIs(IF variant = "TX_RAW_WITH_DATA" THEN 0
                 ELSE (number(0) * number(1)) % (UINT64_MAX + 1))

=============================================================================
