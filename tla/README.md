# A verification of the Aptos application for Ledger devices

This directory holds TLA+ models of the application in `src/` (C, for the Ledger
Nano S and Nano X), the TLC configurations that check them on small instances and
the proofs that TLAPS checks for every instance. Paths below are those of the
repository.

## The system

A Ledger application is one thread. `main` (`src/main.c`) sets up USB and the
screen and calls `app_main`, a loop that receives a command (an APDU), dispatches
it to a handler and answers it. The thread gives up control in one place only:
the SDK's `io_exchange`, where it transmits what it has to transmit and waits for
the next command. Button presses, USB status events and the exceptions they raise
happen inside that call. A command that needs the user's consent puts a review on
screen and stays unanswered; the answer is written by the button callback, from
inside the exchange that waits for the next command.

| Component | Source | State | Operations | Correct when |
| --- | --- | --- | --- | --- |
| Main loop, lifecycle | `main.c` | the point of the loop | start, receive, catch, restart, exit | every command is answered; a restart forgets everything |
| APDU I/O | `io.c` | `G_io_state`, `G_output_len`, `G_io_apdu_buffer` | `io_recv_command`, `io_send_response`, `io_event` | one complete response per command, deferred or not |
| Parser, dispatcher | `apdu/` | none | length check, choice of the handler | each command gets the handler or the status word its fields ask for |
| Handlers | `handler/`, `helper/` | `G_context` | version, name, public key, chunks of a transaction | the transaction is what was sent, within 510 bytes |
| Reviews | `ui/display.c`, `ui/menu.c` | the flow on screen, the texts, `g_validate_callback` | show a review, return to the menu | what is shown is what an approval acts on |
| Callbacks | `ui/action/validate.c` | `G_context.state` | approve, reject | a signature only by an approval, of what was reviewed |
| Keys and signatures | `crypto.c` | none kept | derive, sign | errors are reported |
| Transaction parser | `transaction/`, `bcs/` | a cursor, `transaction_t` | deserialize | accepts only what it read whole, and shows what will be signed |
| Byte cursor | `common/buffer.c`, `read.c` | `offset` | read, seek, copy, move | the offset stays within the buffer |
| Paths | `common/bip32.c` | none | read, format | what is read is what was sent, what is formatted is the path |
| BCS readers | `bcs/decoder.c` | a cursor | integers, lengths, bytes, strings, type tags | what succeeds consumes what it read; a text or bytes are written inside the room given |
| Numbers | `common/format.c` | none | decimal, signed, fixed point, hexadecimal | the text denotes the number and ends inside its array |
| Conversions | `common/read.c`, `write.c`, `varint.c`, `base58.c`, `bcs/utf8.c` | none | encode, decode, check | what is encoded is decoded to the same; what is no encoding is refused |
| Address | `address.c` | none | hash of a key | the one shown is that of the key under review |

What is hard here is the order of things: an answer can be written by the
handler, by a callback from inside the next exchange, or by the catch clause of
the loop after an exception in either; the same buffer holds the command and its
response; the same context serves two kinds of request and survives from one
command to the next; a review reads the context once, when it is shown, while
the approval reads it again; a transaction is parsed over what an earlier parse
left in the same structure; and the texts of a review are written into arrays that
earlier reviews have used.

What is hard to test, at its line, is the `hazards` list of `PROJECT.json`; every
hazard names the properties below that are about it.

## Modules

| Module | Models | Role |
| --- | --- | --- |
| `AptosApp` | `main.c`, `io.c`, `apdu/`, `handler/`, `helper/`, `ui/menu.c`, the flows of `ui/display.c`, `ui/action/validate.c`, the outcomes of `crypto.c` | the command loop with everything that runs inside it |
| `AptosAppProperties` | | its properties, the refinement mapping, the inductive invariants |
| `SigningService` | | the abstract service the loop implements |
| `AptosAppProofs` | | its types, its safety, the refinement |
| `Buffer` | `common/buffer.c` | the checks and seeks of a `buffer_t`, with the wrap-around of `size_t` |
| `BufferCursor` | `common/buffer.c`, `varint_read`, `bip32_path_read` | a client that makes any calls, what they access, and the properties |
| `BcsCursor` | `bcs/decoder.c`, the room of `try_utf8_to_ascii` | the same client, calling the BCS readers too |
| `CursorProofs` | | the safety of both clients |
| `TxParser` | `transaction/`, the part of `bcs/` it uses | the parser, one field at a step, over `Buffer` |
| `TxParserProperties` | | a reference encoder, and the parser against it |
| `TxParserProofs`, `TxAcceptanceProofs` | | its reads and its numbers, and that what it accepts is an encoding; that every encoding is accepted |
| `Arithmetic`, `ArithmeticProofs` | | sums, powers and the number that digits denote as recursive functions, and facts about them |
| `Format` | `common/format.c`, `bip32_path_format` | texts in arrays of a fixed size |
| `Screens` | `ui/display.c`, the room check of `address.c` | sequences of reviews that use the same arrays |
| `FormatProofs` | | lemmas on texts, arrays and digits |
| `ScreensProofs` | | the texts, and that they are of the review |
| `Session` | `handler/sign_tx.c` with what it calls | `AptosApp`, `TxParser` and `Screens` as one program |
| `Words` | `common/read.c`, `write.c`, `varint.c` | integers in memory, in both orders and of variable length |
| `Base58` | `common/base58.c` | both conversions, digit by digit |
| `Utf8` | `bcs/utf8.c` | which bytes are text, and the text that is kept of them |
| `Codecs` | | calls every conversion on one input and its inverse on the result |
| `CodecsProofs` | | that words and varints are kept, numbers formatted, and UTF-8 told from the rest |
| `MC*` | | the small instances |

Operators ending in `_Something` after the name of another are variants of it: the
form a plausible slip would give it. No specification uses them; each shows, put
in the place of the original, that the property named beside it in `PROJECT.json`
can fail.

### AptosApp: how state and actions correspond to the code

`pc` is where the one thread is: `recv` (top of the loop), `exchange` and `asynch`
(in `io_exchange`, without and with `IO_ASYNCH_REPLY`), `handle` (in
`apdu_dispatcher`), `boot` (in `main` after a reset) and `off`. `G_io_state`,
`G_output_len`, `G_io_apdu_buffer`, `G_context` and `g_validate_callback` are the
variables of the source; the union of `G_context` is a record whose other half is
zero. `screen` is the flow shown, with the path or the transaction its texts were
made from. `pending` is the command the host waits for and `wire` the last
transmission: neither exists in the code; they are what the properties are about.

One action per handler (`handler_get_version`, `handler_get_app_name`,
`handler_get_public_key`; `handler_sign_tx` in `sign_tx_path`, `sign_tx_refuse`,
`sign_tx_more`, `sign_tx_last`), `RefuseCommand` for the checks of the dispatcher,
`io_recv_command` for both exchanges, the callbacks split by outcome of the
signature, `IoReset` for an unpowered USB, `Quit`, `Boot` and `Launch`. An action
runs to the point where the thread waits next, the return through `app_main`
included, because nothing else runs in between.

Assumed of the SDK, and marked external: an exchange transmits, then returns one
command; the host sends no second command before the answer to the first (the USB
transport is half duplex); an exchange with `IO_ASYNCH_REPLY` transmits nothing.
`SW_DISPLAY_ADDRESS_FAIL` and `SW_DISPLAY_AMOUNT_FAIL` are left out of `AptosApp`:
the first cannot happen with an array of `ADDRESS_LEN` bytes, the second is what
`NoAmountRefused` of `Screens` shows. `m_hash`, which nothing reads, is left out.

### TxParser

A field table per part (`Raw`, `Footer`, `Payload`, ...) lists what each function
reads, in its order, with its error codes and the values it insists on; two actions
read a field (bytes or a number), the others are what the functions do between
them. The parsed transaction is the slice each field was read from. Lengths, the
radix of uleb128 and the names are constants. Bytes behind the transaction, which
`memcmp` may look at, are zero: `raw_tx` is zeroed when a session opens. A parse
starts over what an earlier one left: `transaction_init` and
`entry_function_payload_init` reset the fields the C functions of that name reset,
and the others keep their slices.

### Screens and Format

An array is a sequence of characters, and each text is written where the code
writes it, cut where the code cuts it. `snprintf` and `strncpy` are external and do
what C says; `%.*s` ends at a NUL and `%.*H` is two digits a byte. Every step of
every flow is here: the path, the address, the amount, the gas fee, the function
with the last byte of its module's address, the coin with the first and the last
byte of its own, the message and the type of what is not parsed. `subject` is the
review the texts should be of: no variable of the code, but what the properties
compare them with. That a review is refused without a request (`SW_BAD_STATE`) is
`AptosApp`'s. The key of a path is the path, and its hash a constant,
`AddressOf`.

### BcsCursor

`BufferCursor` is the calls of `common/buffer.c`; `last` says what the last one was
asked for, what it accessed and returned. `BcsCursor` adds the readers of
`bcs/decoder.c`: a call accesses some bytes and moves over some of them, and `out`
says how far it wrote, into how much room, and what length it told its caller, which
differ when it fails. What the bytes hold is left open, so every outcome a reader
can have is tried: each length up to and beyond `MAX_SEQUENCE_LENGTH`, a number that
ends nowhere, text that stops being UTF-8 at any byte. A reader of several parts
can fail between them.

Two things here are as they look. A path that is one word short, and a move into
more room than there are bytes left, succeed and leave the cursor, since both drop
the result of `buffer_seek_cur` (`buffer.c:142`, `buffer.c:162`); `ReadsConsume` says
exactly when. And `bcs_read_type_tag_fixed` writes the value of an argument from
`&ty_val->value` on, which is a pointer (`types.h:59`): there is room for `PointerSize`
bytes, and an address has 32. `OutputInRoom` has this as its exception. Nothing that
is compiled calls it: its callers, the readers of vectors and structs, are commented
out (`decoder.c:229`).

### Session

`AptosApp` takes what is parsed and shown from constants (`Verdict`, `DataLen`,
`Unformattable`). `Session` replaces them by the code that makes them: chunks have
bytes, the handler of the last chunk (`sign_tx_last`) is `ParseBegins`, the steps of
`TxParser`, and `LastAnswered`, whose review is formatted by `Screens` from the
fields that were parsed (`transaction_t`, `Value`); a path is refused when
`bip32_path_format` refuses it. `Verdict` stays a constant of the loop, filled with what
the transactions were made as, and `ReviewsAgree` says that the parser returns
just that whatever it parsed before: so what `AptosApp` concludes from any `Verdict`
holds of the program. Opening a session or asking for a key zeroes the parsed
transaction with the context; nothing zeroes the arrays of texts. Exceptions out
of an approval and leaving the application are not repeated here: they are in
`AptosApp`.

### Codecs

The conversions hold no state, so a behaviour is one input: it is converted, and
what was made is converted back. The reference definitions are arithmetic (the
number that digits denote, the code points that bytes encode) and know nothing of
the loops, buffers and bit masks of the code. `varint.c` is twice in the project: its
values here, the bytes it accesses in `BufferCursor`.

## Runs

| Run | Question | Bounds |
| --- | --- | --- |
| `core` | safety of the loop for a host that sends anything in any order, with resets and exits; it implements `SigningService`; every command is answered. 72,701 states | 3 bytes of `raw_tx`, chunks of 1 and 2, one path of each kind (fits, too long to format, not read whole) |
| `throws` | what survives exceptions from the key derivation and the signature (`RecvSafe` below covers them too); 63,442 states | as `core`, with a path the OS refuses |
| `calls` | every sequence of calls of buffer and BCS readers; 34,896 states | buffers of up to 18 bytes, pointers of 4 and addresses of 17, `size_t` of 6 bits, arguments at its limits; lengths around 31, the longest of a sequence, of one group (up to 15) and of two |
| `parser` | the parser against the encoder; 66,792 states | seven transactions, a call whose name begins like a transfer's, a script, one with data; every one-byte change, insertion and cut |
| `texts` | every sequence of reviews; 12,897 states | 16-bit numbers, 4 decimals, addresses of 2 bytes, paths of up to 3 components in 7 characters, names that fit, fill and overflow arrays of 12 and 18 |
| `session` | loop, parser and screens together; 73,522 states | two chunks in a session, two reviews in a behaviour; an account transfer in two chunks, a coin transfer, a call, a script, one with data, a text, and bytes that follow any of them |
| `codecs` | each conversion against its definition; 36,943 states | below |

The other runs each show one divergence (below). Three bytes are enough for
`raw_tx`: a chunk can fit exactly, be one byte too long, and be refused at every
fill. Two names, one and seventeen letters long, need one and two groups of length.
Arrays of `Screens` are scaled to numbers as in the code: 11 characters for numbers
of 5 digits with 4 decimals, as 30 for 20 with 8, one more than the check asks for.
The parser stops when it returns, and a conversion when it is made back: no
deadlock check in `parser` and `codecs`.

A session of two chunks meets what chunks can do to each other: one transaction
in two parts, a part that does not parse and the one that completes it, the
same bytes parsed again with more behind them. Two reviews meet what texts can do
to each other: each array is written by at most one formatting per review, so what
an array holds is due to the last two reviews that wrote it.

The inputs of `codecs` are those around which something changes: words of all
widths and both orders with bytes of 4 values, which keeps 8 of them within the
integers of TLC (the prefixes of varints are the three highest values of a byte,
as in the code); every varint with as many bytes to read it from as were written, one
less and none; byte strings of up to three bytes for Base58, their zeros
leading, trailing and between, texts of the alphabet and beside it, both at the
lengths that are just taken and just refused (scaled to 8 bytes and 9 characters,
120 and 164 in the code), in every room around what is needed; UTF-8
strings of up to four bytes from the ends of every range that a bit mask tells
apart; integers around the powers of ten and at the ends of 16 bits, the smallest, which has
no positive one, among them, in arrays
of every size up to one more than they need.

Properties of the loop, beyond its types: `RecvNeverFails`, `HandlerStaysInLoop` (the
application never gives up), `TxFitsBuffer`, `ReviewMatchesContext` (what is shown is
what an approval acts on), `ReviewHasRequest`, `OnlyAnswersOnWire`,
`AnswerFitsCommand`, `EveryCommandAnswered`, and `ServiceSpec`, the refinement.

Properties of the program put together: `ReviewsAgree`, that the loop's review, the
texts and the bytes in the context are of one transaction; `AnsweredAsShown`, that
a signature leaves the device only while its own receiver, amount, coin, function
and fee, or its own text, are on screen, and a confirmed key only while its own
address is; `FeeIsSigned`, that a fee on screen is the product of the two numbers
before the end of what is signed, whatever lies between, and zero for a
transaction with data, whose fields are not read.

**Fairness.** `DeviceFairness` is weak fairness of booting, of the exchange and of
handling: one thread that runs whenever it can. `UserFairness` is an assumption
about the user, that a review on screen is decided sometime; nothing in the code
times out. There is none on the host, on resets or on exits.

## What the models show that the sources do not say

| Run | Divergence |
| --- | --- |
| `refused_path` | a first chunk whose path is refused still opens a session: the transaction is signed with the path as far as it was read (`sign_tx.c:38`) |
| `stale_review` | after an exception of an approval, and a rejection of the review it leaves, bytes of a command are transmitted as a response (`io.c:108`) |
| `short_path` | a path four bytes short is accepted, its last component read behind the buffer (`bip32.c:34`) |
| `coin_length` | a coin transfer may have bytes between its arguments and its footer, or share some (`deserialize.c:85`) |
| `path_cut` | a path too long for its array is shown with its last component cut (`bip32.c:59`) |

The passing runs say where these stop: `OrderlyHost` only uses paths the OS derives
keys for; `AccessInBuffer` allows the word behind a path and nothing more;
`PathShownToLast` says that only digits of the last component are ever cut. In
`throws`, where an approval may throw, the bytes that are transmitted for a response
count as the answer to the command that is pending: `EveryCommandAnswered` holds, and
only `stale_review` shows that the answer can be garbage. A key that cannot be derived
is answered with the exception's code, and not with `SW_SIGNATURE_FAIL`, which is for a
signature that fails (`validate.c:42`; `throws`).

Other places do what one may not expect. Here the properties that pass say what the
code does, exactly, so a change of it would show; that it is what a user wants, they
do not say.

| Property | What it says of the code |
| --- | --- |
| `GasFeeShown`, `FeeIsSigned` | a fee over 64 bits is shown as what is left when the product wraps around (`display.c:270`) |
| `FeeIsSigned` | a transaction with data is not read, and reviewed with a fee of zero (`deserialize.c:23`) |
| `TypeShown`, `AnsweredAsShown` | a message is signed whole and shown up to its 249th character (`display.c:312`) or its first zero byte (`display.c:314`) |
| `EncodingsAccepted` | leaves out the calls that `LooksKnown` names: functions whose names begin like a transfer's, or are shorter and made up to it by the bytes behind, are parsed and reviewed as that transfer (`deserialize.c:323`), under the names they have (`FrontIsEncoding`, `AccountTransferIsEncoding`) |
| `ReadsConsume` | a path one word short, and a move into more room than there are bytes left, succeed and leave the cursor (`buffer.c:142`, `buffer.c:162`) |
| `OutputInRoom` | a type tag is written over a pointer (`decoder.c:211`) |
| `NumberFormatted` | leaves out `format_u64` of one digit into an array of one character, a call nobody makes: the terminator is behind it (`format.c:80`) |
| `Base58Kept` | leaves out decoding a single character: it is encoded, and refused by the decoder (`base58.c:52`) |

## What is proved

For every value of the constants that satisfies the named assumptions, and without
bounds on the number of steps. Each theorem follows from an invariant that the
actions keep, action by action; the invariants were checked by TLC on the instances
above before they were proved.

**The loop** (`AptosAppProofs`).

- `TypeCorrect`: `TypeOK`. It needs `raw_tx` to be a sequence of chunks whose length
  `Extended` keeps, which is `TypeInv`.
- `RecvSafe`: the loop never finds `WAITING`. `RecvNeverFails` is not inductive: it
  depends on what an exchange can leave, so `IoInv` gives the I/O states of every
  point of the loop. No assumption on exceptions.
- `TxFits`: the bytes stored of a transaction fit `raw_tx`, however it was cut into
  chunks. The bytes are a sum over the chunks, and the proof is that the sum grows by
  what `Extended` adds.
- `ReviewSafe`, `ReviewRequested`, `WireSafe`, `AnswerSafe`, `LoopSafe`: from
  `OrderlyInv`, one invariant for all five. Its core is `LoopInv`: a review is on
  screen exactly while its command is deferred, and `G_output_len` is either zero
  or the length of the response in the buffer. It assumes `SigningNeverThrows`,
  without which `stale_review` refutes `OnlyAnswersOnWire`.
- `ServiceImplemented`: the loop implements `SigningService`. Each action is a step
  of the service or leaves its variables alone, under `OrderlyInv`; same assumption.

**The cursors** (`CursorProofs`).

- `CursorSafe`, `AccessSafe`, `ConsumeSafe`: the calls of `common/buffer.c`, from
  `CallInv`, which adds to the cursor's place the sizes that keep its differences from
  wrapping. `ConsumeSafe` is about every call: a read, a path or a move that
  succeeds consumed what it accessed if it was asked for no more than was left, and
  nothing otherwise, which can happen to paths and moves only; a copy and a call
  that fails leave the cursor.
- `BcsTypeCorrect`, `BcsCursorSafe`, `BcsAccessSafe`, `BcsReadsConsume`: the same with
  BCS readers among the calls. `BcsConsumeSafe`: the BCS readers consume all they
  accessed when they succeed, and move forward within it when they fail.
  `OutputSafe`: texts and counted bytes stay in the room of their caller, and a type
  tag, which overruns its pointer, within the size that it tells. A reader of several parts is proved part by
  part: what is read behind a length that fitted still fits.

**The parser** (`TxParserProofs`, `TxAcceptanceProofs`), for every
transaction, every length of the fields and of the names, every radix of uleb128.

- `ParserInvariant`, `ReadsSafe`, `ParserTypeCorrect`: both cursors and all fields
  stay in the transaction. `ReadsInBuffer` is not inductive: that the place of the
  footer does not wrap (`deserialize.c:46`) depends on how much was read before, so
  `ParserInv` follows the first cursor field by field, and `FooterAssumption` (the
  prefix, the sender and the sequence number are longer than the footer) does the rest.
- `NumbersAreCanonical`: what is accepted as a number is what uleb128 writes for it.
  Both the value of the groups and the reference encoder `Uleb` are recursive; the
  induction is on the number of groups.
- `FrontEncodes`: what was read of the front of an accepted entry function is the
  encoding of what was parsed. `FrontIsEncoding` speaks of the end of the parsing only;
  `ChainInv` says during it that each field begins where the one before it ended, has
  its length and, if it is a number, a value that is allowed. `Place` orders the fields
  of all parts, so that reading one keeps what was settled before it.
- `AccountTransferEncodes`: an accepted account transfer is, byte for byte, the encoding
  of what the screens show of it. For coin transfers that is false (`coin_length`):
  the two proofs differ in one step, `AccountWhole`, which is the comparison of
  `deserialize.c:82` that coin transfers lack.

- `EncodingsAreAccepted`: the converse. The encoding of every transaction is accepted,
  as the kind it is, with the fields it was written from, unless it `LooksKnown`. The
  cursors come from both ends, so the encoding is followed from its end: `Rest` is what
  stands in it from each field of the tables on, `AcceptInv` says that the cursor of
  the part stands before `Rest` of what it reads next, and that what was read is what
  was written. `TransactionsAssumption` says which transactions there are (`WellFormed`:
  fields of the lengths the tables ask for, names of up to 32 bits, at most `MAX_TX_LEN`
  in all), `EncoderAssumption` that the prefixes differ, that the known modules differ in
  their first letter, and that `MaxGroups` groups hold 32 bits; TLC evaluates both. The
  proof found that `LooksKnown` had been too narrow: `memcmp` looks at as many bytes as
  the known name has, so a name shorter than it is compared with what follows it, too;
  the transaction `Shortened` of the run `parser` is one of these.

**The screens** (`ScreensProofs`), for numbers of every width, addresses, names and
paths of every length, and arrays of every size that has room for the numbers.

- `TextsAreStrings`: every array is as long as it is declared and ends a string within it.
- `AmountIsShown`, `FeeIsShown`: the amount on screen denotes the number under review, the
  fee the product of price and gas in 64 bits, whole if it fits; `NumbersFit`: no review of a transaction is given up for want of room.
- `PathIsShown`: the path is shown as it was sent, to some digits of its last component.
- `AddressIsShown`, `FunctionIsShown`, `TypeIsShown`: the address is the key's or the receiver's; the
  function and the coin are those that are called, with the bytes of their addresses;
  the message and the type of what is not parsed are shown to where the array ends.

The eight are one invariant (`ReviewsInvariant`). A review starts from the menu
alone and writes every array that its flow shows in the action that shows it, so what
earlier reviews left in an array is never read: that is what the proof has to find in
each array, first to last. A number is followed digit by digit. `Digits` divides until
nothing is left, and the induction is on the number, that the digits of `n \div 10` and
one more denote `n`; `format_fpu64` writes zeros before, the point between, and what
stands on both sides denotes the same number. That a number fits
follows from the number of its digits, which `MaxDigits` bounds.
The path is followed component by component (`Appended`): before the first that does not
fit, what was written is what was sent, and the one that does not fit ends the loop.

Assumed are the sizes (`SizesAssumption`: an array holds the longest number with its
unit, a whole address, the marks around a name), that a NUL is no digit and no mark
(`TextAssumption`, `NulAssumption`), that `UINT64_MAX` has `MaxDigits` digits
(`FormatAssumption`), and what is reviewed (`ReviewsAssumption`): transactions whose numbers
are within `UINT64_MAX` and whose addresses, where a flow shows them, have `ADDRESS_LEN`
bytes, any bytes at all for names and messages (`Reviewable`), and paths of any components
(`Displayable`). TLC evaluates them on the instance of the run.

**The conversions** (`CodecsProofs`), for all the inputs `CallsAssumption` allows: every
value of its width, every sequence of bytes, every room.

- `WordsAreKept`: a word of two, four or eight bytes is read as it was written, in both
  orders; its bytes are the digits of its value, so its high byte is where it must be.
  `write_word` takes each byte by division and `read_word` adds up what the bytes stand for: the proof
  is that the digits of a number in base 256 denote it, by induction on the width.
- `VarintsAreKept`: a varint is as short as its value allows, is read back as it was written
  when its bytes are all there, and is refused when one is missing.
- `NumbersAreFormatted`: an integer becomes its digits and its sign, for as long as there
  is room and not otherwise; each byte of what is formatted in hexadecimal is the two digits
  that denote it. `format_i64` takes its digits from a negative remainder and `format_u64`
  from a positive one; both are `Digits` of the absolute value, and a number has as many digits
  as powers of ten that it reaches (`DigitsCount`).
- `Utf8IsAccepted`: a text is accepted exactly when it is UTF-8 by its definition, the
  shortest encoding of code points that are allowed, and has no more characters than there
  is room for; what is written of it is the beginning of its text. The definition
  computes a code point and encodes it again, the code looks at marks and excluded
  pairs of bytes: for one to four bytes each the two agree (`CharacterIsValid`). Then
  the rounds of the loop, forwards, find the characters that the definition takes from
  the end, backwards (`Found`: what is written and what is left are the whole text).

The invariant is small (`Converted`: what `made` and `back` hold is what the function returned), since
each call is made once; what is proved is the functions. The lemmas on texts that
these proofs share with those of the screens are in `FormatProofs`.

Recursion is proved about through `Arithmetic`: sums, powers and the value of digits are recursive
functions there, whose existence and recursion `ArithmeticProofs` shows from the fact
that a set of natural numbers has a least member (the provers instantiate no
induction theorem, and know neither `^` nor the folds of the library).

Model-checked and not proved: liveness (`EveryCommandAnswered`), which the prover does
not do; `Base58Kept`, whose loops are folds of the library, and whose reference counts
characters only of numbers of up to three bytes (that 138 / 100 digits are enough for every
length is an inequality between large powers that the provers do not reach); and
`Session`, which is checked on top of the three modules that the theorems are about: it
takes `Verdict` for what the parser returns, which only an instance can say of its chunks.

## Not modelled

The hash and curve arithmetic of `address.c` and `crypto.c`, which the OS does: a
key is its path, a hash a constant function, a signature the transaction it is of.
The readers of type tags with vectors and structs are commented out in
`bcs/decoder.c` (229-316). `debug.c` prints; the screens' layout, glyphs, icons and the
paging of long texts are the SDK's; BLE and plane mode in `main` have no
counterpart in the state of the application. `PROJECT.json` lists each with its reason.

## Plan

Done: the loop and its service (1), the buffer (2), the parser (3), the screens (4),
the three as one program (5), the conversions (6), the BCS readers (7), the proofs
of (1) and (2), of the refinement (8), of the parser (9), of the BCS readers (10) and of
the acceptance of encodings (11), of the screens (12) and of words, varints, UTF-8 and the
formatting of numbers (13). Next, in this order:

14. Proof that `ReviewsAgree` holds of `Session`, from `OrderlyInv`, `AcceptInv` and the
    lemma of `ScreensProofs` on one review (`TransactionStep`).
15. Proof of Base 58, with its loops as recursive functions.
16. The lifetime of the private key in `crypto.c`: that it is wiped on every path
    out of a derivation, exceptions included.
