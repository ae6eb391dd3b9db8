------------------------------ MODULE Screens ------------------------------
(***************************************************************************)
(* ui/display.c: the texts the user reviews.  The arrays live through every *)
(* review: a text is what the last formatting left in one that earlier      *)
(* reviews have used.  Which flow is shown when, and what its buttons do,   *)
(* is in AptosApp.                                                          *)
(***************************************************************************)
EXTENDS Format

CONSTANTS
  AmountSize,      \* of g_amount, g_gas_fee and their temporaries: 30
  PathSize,        \* of g_bip32_path: 60
  AddressSize,     \* of g_address: 67
  FunctionSize,    \* of g_function: 50
  StructSize,      \* of g_struct: 250
  Decimals,        \* 8
  ADDRESS_LEN,
  TypeText,        \* the texts of the transactions that are not parsed
  Char,            \* the character of each byte; that of 0 is NUL
  AddressOf,       \* the hash of the key of each path
  Paths,           \* the paths and the transactions to review
  Reviewed

UI_MODULE_ADDRESS_LEN == 1

ASSUME ScreensAssumption ==
  /\ AmountSize \in Nat /\ PathSize \in Nat /\ AddressSize \in Nat
  /\ FunctionSize \in Nat /\ StructSize \in Nat /\ Decimals \in Nat
  /\ ADDRESS_LEN \in Nat /\ ADDRESS_LEN >= UI_MODULE_ADDRESS_LEN
  /\ DOMAIN Char \subseteq 0..255

\* A number has its room, with the unit and with what format_fpu64 asks for; an
\* address is whole, and of a type no more is cut than its names.
ASSUME SizesAssumption ==
  /\ AmountSize >= MaxDigits + Decimals + 2
  /\ AmountSize >= MaxDigits + 6
  /\ AmountSize >= Decimals + 7
  /\ AddressSize >= 2 * ADDRESS_LEN + 3
  /\ FunctionSize >= 7 /\ StructSize >= 9 /\ PathSize >= 1

\* No character of a text that is not from the transaction ends it.
ASSUME TextAssumption ==
  /\ NUL \notin {"x", ":", "A", "P", "T", " "}
  /\ \A type \in {"script", "with_data"} :
       /\ TypeText[type] \in Seq(ToSet(TypeText[type])) /\ NUL \notin ToSet(TypeText[type])
       /\ Len(TypeText[type]) < StructSize

\* What the parser lets through: the fields that are shown have been read.
Reviewable(tx) ==
  /\ tx.tx_variant \in {"TX_RAW", "TX_MESSAGE", "TX_RAW_WITH_DATA"}
  /\ {tx.amount, tx.gas_unit_price, tx.max_gas_amount} \subseteq 0..UINT64_MAX
  /\ {tx.receiver, tx.module_address, tx.module_name, tx.function_name, tx.coin_address,
      tx.coin_module, tx.coin_name, tx.message} \subseteq Seq(DOMAIN Char)
  /\ tx.tx_variant = "TX_RAW" =>
       tx.payload_variant \in {"PAYLOAD_ENTRY_FUNCTION", "PAYLOAD_SCRIPT"}
  /\ tx.tx_variant = "TX_RAW" /\ tx.payload_variant = "PAYLOAD_ENTRY_FUNCTION" =>
       /\ Len(tx.module_address) = ADDRESS_LEN
       /\ tx.known_type \in {"FUNC_APTOS_ACCOUNT_TRANSFER", "FUNC_COIN_TRANSFER"} =>
            Len(tx.receiver) = ADDRESS_LEN
       /\ tx.known_type = "FUNC_COIN_TRANSFER" => Len(tx.coin_address) = ADDRESS_LEN

\* A path whose components have digits, and an address of its key.
Displayable(path) ==
  /\ path \in Seq([index : 0..UINT64_MAX, hardened : BOOLEAN])
  /\ AddressOf[path] \in Seq(DOMAIN Char) /\ Len(AddressOf[path]) = ADDRESS_LEN

ASSUME ReviewsAssumption ==
  /\ \A tx \in Reviewed : Reviewable(tx)
  /\ \A path \in Paths : Displayable(path)

VARIABLES
  g_bip32_path, g_address, g_gas_fee, g_amount, g_function, g_struct,
  flow,            \* the flow on screen
  subject,         \* what it is a review of
  refused          \* the text that could not be made

vars == <<g_bip32_path, g_address, g_gas_fee, g_amount, g_function, g_struct, flow, subject, refused>>

\* The texts of the steps between the first screen and the buttons.
Steps ==
  [menu |-> {},
   address |-> {"path", "address"},
   default |-> {"struct", "gas_fee"},
   message |-> {"struct"},
   entry_function |-> {"function", "gas_fee"},
   account_transfer |-> {"function", "address", "amount", "gas_fee"},
   coin_transfer |-> {"function", "struct", "address", "amount", "gas_fee"}]

NoSubject == [kind |-> "none"]
Show(f, what) == flow' = f /\ subject' = what /\ refused' = "none"
\* A review is shown from the menu: ReviewHasRequest of AptosApp, where the
\* requests are that display.c:94-97, 261-264 refuses.
NoReview == flow = "menu"
Refuse(text) == refused' = text /\ UNCHANGED <<flow, subject>>

-----------------------------------------------------------------------------
(* Pieces of text *)

\* The conversion %.*s ends at a NUL.
Chars(bytes) == CString([i \in DOMAIN bytes |-> Char[bytes[i]]], 0)
Zerox == <<"0", "x">>
Colons == <<":", ":">>
APT == <<"A", "P", "T", " ">>
Head1(address) == SubSeq(address, 1, UI_MODULE_ADDRESS_LEN)
Tail1(address) == SubSeq(address, ADDRESS_LEN - UI_MODULE_ADDRESS_LEN + 1, ADDRESS_LEN)

\* Variant: the function's name with the length of the module's.
FunctionText_Length(tx) ==
  Zerox \o Hex(Tail1(tx.module_address)) \o Colons \o Chars(tx.module_name)
    \o Colons \o Chars(Cut(tx.function_name, Len(tx.module_name)))

\* Only the last byte of the module's address.
FunctionText(tx) ==
  Zerox \o Hex(Tail1(tx.module_address)) \o Colons \o Chars(tx.module_name)
    \o Colons \o Chars(tx.function_name)

\* The first and the last byte of the coin's.
CoinText(tx) ==
  Zerox \o Hex(Head1(tx.coin_address)) \o <<".", ".">> \o Hex(Tail1(tx.coin_address))
    \o Colons \o Chars(tx.coin_module) \o Colons \o Chars(tx.coin_name)

AddressText(address) == snprintf(Zeroed(AddressSize), 0, Zerox \o Hex(address))

\* A number on a zeroed array, through a temporary of the same size.
WithUnit(value) ==
  LET number == format_fpu64(Zeroed(AmountSize), value, Decimals)
  IN  [number EXCEPT !.out = snprintf(Zeroed(AmountSize), 0, APT \o CString(@, 0))]

\* Variants: strncpy instead of snprintf; the text copied over the old one.
StructText_Unterminated(text) == strncpy(Zeroed(StructSize), 0, text, StructSize)
StructText_Unzeroed(text) == Written(g_struct, 0, Cut(text, StructSize - 1))

StructText(text) == snprintf(Zeroed(StructSize), 0, text)

-----------------------------------------------------------------------------
(* Addresses *)

\* The key is the path it was derived from.
address_from_pubkey(public_key, out_len) ==
  IF out_len < ADDRESS_LEN THEN [ok |-> FALSE] ELSE [ok |-> TRUE, out |-> AddressOf[public_key]]

ui_display_address(path) ==
  LET text == bip32_path_format(path, Zeroed(PathSize))
      address == address_from_pubkey(path, ADDRESS_LEN)
  IN
  /\ NoReview
  /\ g_bip32_path' = text.out
  /\ IF ~text.ok THEN Refuse("path") /\ UNCHANGED g_address
     ELSE IF ~address.ok THEN Refuse("address") /\ g_address' = Zeroed(AddressSize)
     ELSE Show("address", path) /\ g_address' = AddressText(address.out)
  /\ UNCHANGED <<g_gas_fee, g_amount, g_function, g_struct>>

-----------------------------------------------------------------------------
(* Transactions *)

GasFee(tx) == (tx.gas_unit_price * tx.max_gas_amount) % (UINT64_MAX + 1)

ShowAmount(f, tx, text) ==
  /\ g_amount' = IF text.ok THEN text.out ELSE Zeroed(AmountSize)
  /\ IF text.ok THEN Show(f, tx) ELSE Refuse("amount")

ui_display_tx_aptos_account_transfer(tx) ==
  /\ g_address' = AddressText(tx.receiver)
  /\ ShowAmount("account_transfer", tx, WithUnit(tx.amount))
  /\ UNCHANGED g_struct

\* Variant: g_amount is not zeroed first (display.c:394 dropped).
CoinAmount_Unzeroed(tx) == format_fpu64(g_amount, tx.amount, Decimals)

CoinAmount(tx) == format_fpu64(Zeroed(AmountSize), tx.amount, Decimals)

\* Variant: the receiver is left as it was (display.c:391 dropped).
CoinReceiver_Old(tx) == g_address

CoinReceiver(tx) == AddressText(tx.receiver)

\* The amount straight into g_amount, and without the unit.
ui_display_tx_coin_transfer(tx) ==
  /\ g_struct' = StructText(CoinText(tx))
  /\ g_address' = CoinReceiver(tx)
  /\ ShowAmount("coin_transfer", tx, CoinAmount(tx))

ui_display_entry_function(tx) ==
  /\ g_function' = snprintf(Zeroed(FunctionSize), 0, FunctionText(tx))
  /\ CASE tx.known_type = "FUNC_APTOS_ACCOUNT_TRANSFER" -> ui_display_tx_aptos_account_transfer(tx)
       [] tx.known_type = "FUNC_COIN_TRANSFER" -> ui_display_tx_coin_transfer(tx)
       [] OTHER -> Show("entry_function", tx) /\ UNCHANGED <<g_address, g_amount, g_struct>>

ui_display_message(tx) ==
  /\ g_struct' = StructText(Chars(tx.message))
  /\ Show("message", tx)
  /\ UNCHANGED <<g_address, g_amount, g_function>>

\* By its type only.
ui_display_default(tx, type) ==
  /\ g_struct' = StructText(TypeText[type])
  /\ Show("default", tx)
  /\ UNCHANGED <<g_address, g_amount, g_function>>

ui_display_transaction(tx) ==
  LET text == WithUnit(GasFee(tx)) IN
  /\ NoReview
  /\ g_gas_fee' = IF text.ok THEN text.out ELSE Zeroed(AmountSize)
  /\ IF ~text.ok THEN Refuse("amount") /\ UNCHANGED <<g_address, g_amount, g_function, g_struct>>
     ELSE CASE tx.tx_variant = "TX_RAW" ->
                 (CASE tx.payload_variant = "PAYLOAD_ENTRY_FUNCTION" -> ui_display_entry_function(tx)
                    [] tx.payload_variant = "PAYLOAD_SCRIPT" -> ui_display_default(tx, "script")
                    [] OTHER -> ui_display_default(tx, "unknown_payload"))
            [] tx.tx_variant = "TX_MESSAGE" -> ui_display_message(tx)
            [] tx.tx_variant = "TX_RAW_WITH_DATA" -> ui_display_default(tx, "with_data")
            [] OTHER -> ui_display_default(tx, "unknown")
  /\ UNCHANGED g_bip32_path

\* Approve or reject: the arrays keep their texts.
ui_menu_main ==
  /\ flow # "menu"
  /\ Show("menu", NoSubject)
  /\ UNCHANGED <<g_bip32_path, g_address, g_gas_fee, g_amount, g_function, g_struct>>

Init ==
  /\ g_bip32_path = Zeroed(PathSize) /\ g_address = Zeroed(AddressSize)
  /\ g_gas_fee = Zeroed(AmountSize) /\ g_amount = Zeroed(AmountSize)
  /\ g_function = Zeroed(FunctionSize) /\ g_struct = Zeroed(StructSize)
  /\ flow = "menu" /\ subject = NoSubject /\ refused = "none"

Next ==
  \/ \E path \in Paths : ui_display_address(path)
  \/ \E tx \in Reviewed : ui_display_transaction(tx)
  \/ ui_menu_main

Spec == Init /\ [][Next]_vars

-----------------------------------------------------------------------------
(* Properties *)

\* The number that a digit string denotes.
Number(digits) == Denoted(DigitValues(digits), 10)

\* text is value / 10^Decimals: digits, a point and all the decimals, with no
\* zero in front but the one before the point.
Denotes(text, value) ==
  LET point == Len(text) - Decimals IN
  /\ point >= 2
  /\ text[point] = "."
  /\ \A i \in DOMAIN text \ {point} : text[i] \in ToSet(Digit)
  /\ text[1] = "0" => point = 2
  /\ Number(SubSeq(text, 1, point - 1) \o SubSeq(text, point + 1, Len(text))) = value

WithoutUnit(text) == SubSeq(text, Len(APT) + 1, Len(text))
Shows(text) == text \in Steps[flow]
FullPath(path) == FlattenSeq(PathPieces(path))

\* The bytes up to the first one that is no character.
UpToNul(bytes) ==
  LET end == SelectInSeq(bytes, LAMBDA b : Char[b] = NUL)
  IN  [i \in 1..(IF end = 0 THEN Len(bytes) ELSE end - 1) |-> Char[bytes[i]]]
HexValue(text) == Denoted(DigitValues(text), 16)

\* What the texts on screen, or those of some arrays, say.
AmountIs(value) ==
  Denotes(IF flow = "account_transfer" THEN WithoutUnit(CString(g_amount, 0))
                                       ELSE CString(g_amount, 0), value)
FeeIs(value) == Denotes(WithoutUnit(CString(g_gas_fee, 0)), value)
AddressIs(cells, address) ==
  LET text == CString(cells, 0) IN
  /\ Len(text) = 2 * ADDRESS_LEN + 2
  /\ \A i \in 1..ADDRESS_LEN : HexValue(SubSeq(text, 2 * i + 1, 2 * i + 2)) = address[i]
FunctionIs(cells, tx) ==
  LET text == CString(cells, 0)
      names == UpToNul(tx.module_name) \o Colons \o UpToNul(tx.function_name)
  IN  /\ HexValue(SubSeq(text, 3, 4)) = tx.module_address[ADDRESS_LEN]
      /\ IsPrefix(SubSeq(text, 7, Len(text)), names)
      /\ Len(text) = IF 6 + Len(names) < FunctionSize THEN 6 + Len(names) ELSE FunctionSize - 1
MessageIs(cells, message) == CString(cells, 0) = Cut(UpToNul(message), StructSize - 1)
CoinIs(cells, tx) ==
  LET text == CString(cells, 0)
      names == Colons \o UpToNul(tx.coin_module) \o Colons \o UpToNul(tx.coin_name)
  IN  /\ HexValue(SubSeq(text, 3, 4)) = tx.coin_address[1]
      /\ HexValue(SubSeq(text, 7, 8)) = tx.coin_address[ADDRESS_LEN]
      /\ SubSeq(text, 9, Len(text)) = Cut(names, StructSize - 9)

\* Types of the texts, which are C strings, and of the review.
TypeOK ==
  /\ Len(g_bip32_path) = PathSize /\ Len(g_address) = AddressSize
  /\ Len(g_gas_fee) = AmountSize /\ Len(g_amount) = AmountSize
  /\ Len(g_function) = FunctionSize /\ Len(g_struct) = StructSize
  /\ \A text \in {g_bip32_path, g_address, g_gas_fee, g_amount, g_function, g_struct} : Last(text) = NUL
  /\ flow \in DOMAIN Steps
  /\ refused \in {"none", "path", "address", "amount"}

\* The amount of a transfer on screen is the amount in the transaction, digit
\* for digit, after whatever longer or shorter amounts were shown before.
AmountShown == Shows("amount") => AmountIs(subject.amount)

\* Every review that shows a fee shows that of its transaction: price times gas,
\* whole when the product fits in 64 bits; of a larger one, what is left by
\* display.c:270 when it wraps around, and nothing of a fee shown before.
GasFeeShown ==
  Shows("gas_fee") =>
    FeeIs((subject.gas_unit_price * subject.max_gas_amount) % (UINT64_MAX + 1))

\* The 30 characters are enough for every 64-bit number: the status word
\* SW_DISPLAY_AMOUNT_FAIL (display.c:274) is never answered.
NoAmountRefused == refused # "amount"

\* A path on screen is whole up to the digits of its last component: every
\* hardening mark and separator is there, and a hardened last one is not cut.
PathShownToLast ==
  flow = "address" =>
    LET text == CString(g_bip32_path, 0) IN
    /\ IsPrefix(text, FullPath(subject))
    /\ IF Last(subject).hardened
         THEN text = FullPath(subject)
         ELSE Len(text) > Len(FullPath(subject)) - Len(Digits[Last(subject).index])

\* An address on screen is the whole one, byte for byte: the receiver's or the
\* one derived for the path under review, which share an array (display.c:107,
\* 355, 391).
AddressShown ==
  Shows("address") =>
    AddressIs(g_address, IF flow = "address" THEN AddressOf[subject] ELSE subject.receiver)

\* A function on screen is the one that is called: each name up to a NUL in it,
\* whole when all of the text fits, its beginning otherwise, and nothing of a
\* function shown before; of the module's address, the last byte.
FunctionShown == Shows("function") => FunctionIs(g_function, subject)

\* A message, a coin type or a transaction type on screen is the one under
\* review up to a NUL in it, whole when it fits and never mixed with an earlier
\* text; of the coin's address, the first and the last byte.
TypeShown ==
  Shows("struct") =>
    CASE flow = "message" -> MessageIs(g_struct, subject.message)
      [] flow = "coin_transfer" -> CoinIs(g_struct, subject)
      [] flow = "default" ->
           CString(g_struct, 0) = TypeText[IF subject.tx_variant = "TX_RAW" THEN "script" ELSE "with_data"]

-----------------------------------------------------------------------------
(* What the repository says of the screens and the code does not do. *)

\* display.c:82 "#2 screen: display BIP32 Path": the path on screen is the path
\* the key was derived with.
PathShownWhole ==
  flow = "address" => CString(g_bip32_path, 0) = FullPath(subject)

=============================================================================
