------------------------------ MODULE AptosApp ------------------------------
(***************************************************************************)
(* The command loop of the Aptos application: main.c, io.c, the APDU        *)
(* parser and dispatcher, the four handlers, the review screens and their   *)
(* approve / reject callbacks.  One thread runs the application.  It gives  *)
(* up control only inside the SDK's io_exchange, where it waits for the     *)
(* next command and where the button callbacks, the USB events and the     *)
(* exceptions they raise happen; pc says where that thread is.              *)
(*                                                                         *)
(* Bytes are abstracted.  The data field of a command is a member of Data,  *)
(* with its length, the path it reads as and, for sequences of them, the    *)
(* verdict of the transaction parser given by constants.  The SDK (the     *)
(* exchange itself, the key derivation, the signature) is external.         *)
(***************************************************************************)
EXTENDS Integers, Sequences

CONSTANTS
  Data,          \* the data fields a command can carry
  NoData,        \* cmd->data is NULL: Lc = 0
  DataLen,       \* Lc of each data field
  Paths,         \* the values G_context.bip32_path can take
  NoPath,        \* ... among them the zeroed path, of length 0
  PathRead,      \* what reading a data field as a BIP32 path returns and leaves
  Unformattable, \* the paths bip32_path_format refuses for its 60 bytes
  Derivable,     \* the paths the OS derives a key for; it throws for the others
  MaxTxLen,      \* MAX_TRANSACTION_LEN
  Verdict,       \* transaction_deserialize and the choice of the review flow
  SignOutcomes,  \* what cx_eddsa_sign may do: "ok", "error" or "throw"
  HostCommands   \* the commands the host may send

-----------------------------------------------------------------------------
(* Commands, responses and screens. *)

Instructions == {"GET_VERSION", "GET_APP_NAME", "GET_PUBLIC_KEY", "SIGN_TX"}
P2_LAST == 0
P2_MORE == 128
P1_START == 0
P1_MAX == 3

\* A received APDU; wellFormed is the result of apdu_parser.
Command == [kind : {"command"}, wellFormed : BOOLEAN, cla : {"APTOS", "OTHER"},
            ins : Instructions \cup {"OTHER"}, p1 : 0..255, p2 : 0..255,
            data : Data \cup {NoData}]
NoCommand == [kind |-> "none"]

\* The raw transactions the 510-byte buffer can hold, as the chunks received.
TxData == UNION {[1..n -> Data] : n \in 0..MaxTxLen}
TxFlows == {"default", "message", "entry_function", "account_transfer", "coin_transfer"}

StatusWords == {"OK", "DENY", "WRONG_P1P2", "WRONG_DATA_LENGTH", "INS_NOT_SUPPORTED",
                "CLA_NOT_SUPPORTED", "DISPLAY_BIP32_PATH_FAIL", "WRONG_TX_LENGTH",
                "TX_PARSING_FAIL", "BAD_STATE", "SIGNATURE_FAIL", "EXCEPTION"}

NoBody == [type |-> "none"]
Version == [type |-> "version"]
AppName == [type |-> "name"]
PubKey(path) == [type |-> "pubkey", path |-> path]
Signature(path, tx) == [type |-> "signature", path |-> path, tx |-> tx]
Body == {NoBody, Version, AppName} \cup {PubKey(p) : p \in Paths}
          \cup {Signature(p, tx) : p \in Paths, tx \in TxData}

\* Bytes of RData: sw only, 3 of version, "Aptos", 2+32+1+32, 1+64.
BodyLen == [none |-> 0, version |-> 3, name |-> 5, pubkey |-> 67, signature |-> 65]

Response == [kind : {"response"}, sw : StatusWords, body : Body]
Answer(sw, body) == [kind |-> "response", sw |-> sw, body |-> body]
Blank == [kind |-> "blank"]

Menu == [flow |-> "menu"]
AddressReview(path) == [flow |-> "address", path |-> path]
TxReview(flow, tx) == [flow |-> flow, tx |-> tx]
Screen == {Menu} \cup {AddressReview(p) : p \in Paths}
            \cup {TxReview(f, tx) : f \in TxFlows, tx \in TxData}

IsCommand(x) == x.kind = "command"
IsResponse(x) == x.kind = "response"

ASSUME DataAssumption ==
  /\ NoData \notin Data
  /\ MaxTxLen \in Nat
  /\ DataLen \in [Data -> 1..255]
ASSUME PathAssumption ==
  /\ NoPath \in Paths
  /\ PathRead \in [Data -> [ok : BOOLEAN, path : Paths]]
  /\ Unformattable \subseteq Paths
  /\ Derivable \subseteq Paths \ {NoPath}
ASSUME VerdictAssumption == Verdict \in [TxData -> {"error"} \cup TxFlows]
ASSUME SignAssumption == SignOutcomes \subseteq {"ok", "error", "throw"}
ASSUME HostAssumption == HostCommands \subseteq Command

-----------------------------------------------------------------------------
VARIABLES
  pc,                   \* where app_main is (see Points)
  G_io_state, G_output_len,
  G_io_apdu_buffer,     \* the command received or the response written over it
  G_context,            \* request, state, path and raw transaction
  screen,               \* the UX flow on screen
  g_validate_callback,  \* the function its approve and reject steps call
  pending,              \* host: the command that awaits its answer
  wire                  \* host: the last transmission and the command it answers

ioVars == <<G_io_state, G_output_len, G_io_apdu_buffer>>
uiVars == <<screen, g_validate_callback>>
linkVars == <<pending, wire>>
vars == <<pc, ioVars, G_context, uiVars, linkVars>>

\* "recv": about to call io_recv_command; "exchange", "asynch": inside the
\* io_exchange of its READY, RECEIVED case; "handle": a command was returned;
\* "boot": app_main was left and main's loop comes round; "off": exited.
Points == {"boot", "recv", "exchange", "asynch", "handle", "off"}
Blocked == pc \in {"exchange", "asynch"}
cmd == G_io_apdu_buffer

Context == [req_type : {"CONFIRM_ADDRESS", "CONFIRM_TRANSACTION"},
            state : {"NONE", "PARSED", "APPROVED"}, bip32_path : Paths,
            raw_tx : TxData, raw_tx_len : 0..MaxTxLen]
ZeroContext == [req_type |-> "CONFIRM_ADDRESS", state |-> "NONE", bip32_path |-> NoPath,
                raw_tx |-> <<>>, raw_tx_len |-> 0]

Silence == [bytes |-> Blank, len |-> 0, to |-> NoCommand]

-----------------------------------------------------------------------------
(* io.c *)

\* External: io_exchange puts n bytes of its buffer on the wire; the host
\* takes them for the answer to the command it waits for.
Transmit(bytes, n) ==
  /\ wire' = [bytes |-> bytes, len |-> n, to |-> pending]
  /\ pending' = NoCommand

\* Variant: the length leaves out the status word (io.c:140 dropped).
io_send_response_NoStatusLen(sw, body) ==
  LET n == BodyLen[body.type] IN
  /\ G_io_apdu_buffer' = Answer(sw, body)
  /\ G_io_state' = "READY"
  /\ IF G_io_state = "WAITING"
       THEN Transmit(Answer(sw, body), n) /\ G_output_len' = 0
       ELSE G_output_len' = n /\ UNCHANGED linkVars

\* The response is written over the command; it leaves at once when the answer
\* was deferred (WAITING), with the next io_recv_command otherwise.
io_send_response(sw, body) ==
  LET n == BodyLen[body.type] + 2 IN
  /\ G_io_apdu_buffer' = Answer(sw, body)
  /\ G_io_state' = "READY"
  /\ IF G_io_state = "WAITING"
       THEN Transmit(Answer(sw, body), n) /\ G_output_len' = 0
       ELSE G_output_len' = n /\ UNCHANGED linkVars

io_send_sw(sw) == io_send_response(sw, NoBody)

\* The value io_send_response returns: negative when no command is being handled.
ResponseAccepted == G_io_state # "READY"

\* Variant: the states of the first two cases swapped.
StateInExchange_Swapped == [READY |-> "WAITING", RECEIVED |-> "RECEIVED", WAITING |-> "READY"]

\* What each case of io_recv_command does before it blocks (WAITING returns -1,
\* and app_main returns).
StateInExchange == [READY |-> "RECEIVED", RECEIVED |-> "WAITING", WAITING |-> "READY"]
PointInExchange == [READY |-> "exchange", RECEIVED |-> "asynch", WAITING |-> "boot"]

\* A response ready to leave is transmitted by the READY case only: the
\* asynchronous exchange of the RECEIVED case transmits nothing.
io_recv_command ==
  /\ pc = "recv"
  /\ G_io_state' = StateInExchange[G_io_state]
  /\ pc' = PointInExchange[G_io_state]
  /\ IF G_io_state = "READY" /\ G_output_len > 0
       THEN Transmit(G_io_apdu_buffer, G_output_len)
       ELSE UNCHANGED linkVars
  /\ UNCHANGED <<G_output_len, G_io_apdu_buffer, G_context, uiVars>>

\* Variant: io.c:113 dropped.
StateOnReturn_Kept == G_io_state

\* G_io_state when io_recv_command returns with a command.
StateOnReturn == IF pc = "asynch" THEN "RECEIVED" ELSE G_io_state

\* A command arrives.  The SDK delivers one at a time: the next one waits
\* until the last was answered.
ReceiveCommand(c) ==
  /\ Blocked
  /\ pending = NoCommand
  /\ pc' = "handle"
  /\ G_io_state' = StateOnReturn
  /\ G_io_apdu_buffer' = c
  /\ pending' = c
  /\ UNCHANGED <<G_output_len, G_context, uiVars, wire>>

-----------------------------------------------------------------------------
(* main.c: the catch of app_main, and where a handler's return leads. *)

\* A handler that answered returns what io_send_response returned; app_main
\* goes on when that is not negative and returns to main otherwise.
AfterAnswer == pc' = IF ResponseAccepted THEN "recv" ELSE "boot"

Respond(sw, body) == io_send_response(sw, body) /\ AfterAnswer

\* Variant: the exception is swallowed (main.c:90 dropped).
Catch_Silent == pc' = "recv" /\ UNCHANGED <<ioVars, linkVars>>

\* CATCH_OTHER: the exception is the status word; the result is not looked at.
Catch == io_send_sw("EXCEPTION") /\ pc' = "recv"

-----------------------------------------------------------------------------
(* apdu/parser.c, apdu/dispatcher.c *)

\* Variant: dispatcher.c:68 dropped.
ParamsOK_AnyFirst(c) ==
  CASE c.ins \in {"GET_VERSION", "GET_APP_NAME"} -> c.p1 = 0 /\ c.p2 = 0
    [] c.ins = "GET_PUBLIC_KEY" -> c.p1 <= 1 /\ c.p2 = 0
    [] c.ins = "SIGN_TX" -> c.p1 <= P1_MAX /\ c.p2 \in {P2_LAST, P2_MORE}

ParamsOK(c) ==
  CASE c.ins \in {"GET_VERSION", "GET_APP_NAME"} -> c.p1 = 0 /\ c.p2 = 0
    [] c.ins = "GET_PUBLIC_KEY" -> c.p1 <= 1 /\ c.p2 = 0
    [] c.ins = "SIGN_TX" -> /\ c.p1 = P1_START => c.p2 = P2_MORE
                            /\ c.p1 <= P1_MAX
                            /\ c.p2 \in {P2_LAST, P2_MORE}

DataOK(c) == c.ins \in {"GET_PUBLIC_KEY", "SIGN_TX"} => c.data # NoData

\* The status word a command is refused with before a handler runs.
Refusal(c) ==
  CASE ~c.wellFormed -> "WRONG_DATA_LENGTH"
    [] c.wellFormed /\ c.cla # "APTOS" -> "CLA_NOT_SUPPORTED"
    [] c.wellFormed /\ c.cla = "APTOS" /\ c.ins \notin Instructions -> "INS_NOT_SUPPORTED"
    [] OTHER -> IF ~ParamsOK(c) THEN "WRONG_P1P2"
                ELSE IF ~DataOK(c) THEN "WRONG_DATA_LENGTH" ELSE "OK"

Dispatched(ins) == pc = "handle" /\ Refusal(cmd) = "OK" /\ cmd.ins = ins

\* app_main ignores what io_send_sw returns for a malformed APDU only.
RefuseCommand ==
  /\ pc = "handle"
  /\ Refusal(cmd) # "OK"
  /\ io_send_sw(Refusal(cmd))
  /\ IF cmd.wellFormed THEN AfterAnswer ELSE pc' = "recv"
  /\ UNCHANGED <<G_context, uiVars>>

-----------------------------------------------------------------------------
(* handler/ and ui/display.c *)

handler_get_version ==
  /\ Dispatched("GET_VERSION")
  /\ Respond("OK", Version)
  /\ UNCHANGED <<G_context, uiVars>>

handler_get_app_name ==
  /\ Dispatched("GET_APP_NAME")
  /\ Respond("OK", AppName)
  /\ UNCHANGED <<G_context, uiVars>>

\* ux_flow_init puts the flow on screen; the handler returns 0 and the command
\* stays unanswered.
Review(flow, callback) ==
  /\ screen' = flow
  /\ g_validate_callback' = callback
  /\ pc' = "recv"
  /\ UNCHANGED <<ioVars, linkVars>>

\* Variant: the context is not zeroed (get_public_key.c:39, sign_tx.c:37 dropped).
NewRequest_Unzeroed(type, path) ==
  [G_context EXCEPT !.req_type = type, !.state = "NONE", !.bip32_path = path]

\* Both requests start from a zeroed context and read their path into it.
NewRequest(type, path) == [ZeroContext EXCEPT !.req_type = type, !.bip32_path = path]

ui_display_address(path) ==
  IF path \in Unformattable
    THEN Respond("DISPLAY_BIP32_PATH_FAIL", NoBody) /\ UNCHANGED uiVars
    ELSE Review(AddressReview(path), "pubkey")

handler_get_public_key ==
  LET read == PathRead[cmd.data] IN
  /\ Dispatched("GET_PUBLIC_KEY")
  /\ G_context' = NewRequest("CONFIRM_ADDRESS", read.path)
  /\ \/ /\ ~read.ok
        /\ Respond("WRONG_DATA_LENGTH", NoBody)
        /\ UNCHANGED uiVars
     \/ /\ read.ok /\ read.path \notin Derivable
        /\ Catch
        /\ UNCHANGED uiVars
     \/ /\ read.ok /\ read.path \in Derivable /\ cmd.p1 = 0
        /\ Respond("OK", PubKey(read.path))
        /\ UNCHANGED uiVars
     \/ /\ read.ok /\ read.path \in Derivable /\ cmd.p1 = 1
        /\ ui_display_address(read.path)

\* Chunk 0.  The request type is set before the path is read, and stays when
\* the path is refused.
sign_tx_path ==
  LET read == PathRead[cmd.data] IN
  /\ Dispatched("SIGN_TX")
  /\ cmd.p1 = P1_START
  /\ G_context' = NewRequest("CONFIRM_TRANSACTION", read.path)
  /\ Respond(IF read.ok THEN "OK" ELSE "WRONG_DATA_LENGTH", NoBody)
  /\ UNCHANGED uiVars

\* Chunks 1..3; which of the three, and in what order, is not looked at.
TxChunk == Dispatched("SIGN_TX") /\ cmd.p1 # P1_START

\* Variants: sign_tx.c:50-52 dropped; the length check dropped.
ChunkRefusal_AnyRequest ==
  IF G_context.raw_tx_len + DataLen[cmd.data] > MaxTxLen THEN "WRONG_TX_LENGTH" ELSE "OK"
ChunkRefusal_AnyLength ==
  IF G_context.req_type # "CONFIRM_TRANSACTION" THEN "BAD_STATE" ELSE "OK"

ChunkRefusal ==
  IF G_context.req_type # "CONFIRM_TRANSACTION" THEN "BAD_STATE"
  ELSE IF G_context.raw_tx_len + DataLen[cmd.data] > MaxTxLen THEN "WRONG_TX_LENGTH"
  ELSE "OK"

\* Variant: sign_tx.c:62, 73 dropped.
Extended_SameLength == [G_context EXCEPT !.raw_tx = Append(@, cmd.data)]

Extended == [G_context EXCEPT !.raw_tx = Append(@, cmd.data),
                              !.raw_tx_len = @ + DataLen[cmd.data]]

sign_tx_refuse ==
  /\ TxChunk
  /\ ChunkRefusal # "OK"
  /\ Respond(ChunkRefusal, NoBody)
  /\ UNCHANGED <<G_context, uiVars>>

sign_tx_more ==
  /\ TxChunk
  /\ ChunkRefusal = "OK"
  /\ cmd.p2 = P2_MORE
  /\ G_context' = Extended
  /\ Respond("OK", NoBody)
  /\ UNCHANGED uiVars

\* Variant: display.c:266 with the other callback.
ui_display_transaction_KeyCallback(tx) == Review(TxReview(Verdict[tx], tx), "pubkey")

\* The checks of request and state in the two ui_display functions hold by the
\* assignments of the handlers that call them.
ui_display_transaction(tx) == Review(TxReview(Verdict[tx], tx), "transaction")

\* The chunk stays appended when the transaction does not parse.
sign_tx_last ==
  /\ TxChunk
  /\ ChunkRefusal = "OK"
  /\ cmd.p2 = P2_LAST
  /\ \/ /\ Verdict[Extended.raw_tx] = "error"
        /\ G_context' = Extended
        /\ Respond("TX_PARSING_FAIL", NoBody)
        /\ UNCHANGED uiVars
     \/ /\ Verdict[Extended.raw_tx] # "error"
        /\ G_context' = [Extended EXCEPT !.state = "PARSED"]
        /\ ui_display_transaction(Extended.raw_tx)

-----------------------------------------------------------------------------
(* ui/action/validate.c: called by a button event inside io_exchange, which   *)
(* goes on waiting afterwards, unless an exception leaves it.                 *)

\* Variant: the review is left on screen (validate.c:35, 53 dropped).
ui_menu_main_Lost == UNCHANGED uiVars

ui_menu_main == screen' = Menu /\ UNCHANGED g_validate_callback

Pressed(callback) == Blocked /\ screen # Menu /\ g_validate_callback = callback

ui_action_validate_pubkey(choice) ==
  /\ Pressed("pubkey")
  /\ IF choice THEN io_send_response("OK", PubKey(G_context.bip32_path))
               ELSE io_send_sw("DENY")
  /\ ui_menu_main
  /\ UNCHANGED <<pc, G_context>>

\* What crypto_sign_message does with the path and the bytes of G_context.
crypto_sign_message(outcome) ==
  IF G_context.bip32_path \in Derivable THEN outcome \in SignOutcomes ELSE outcome = "throw"

SetState(s) == G_context' = [G_context EXCEPT !.state = s]

approve_signed ==
  /\ Pressed("transaction")
  /\ crypto_sign_message("ok")
  /\ SetState("APPROVED")
  /\ io_send_response("OK", Signature(G_context.bip32_path, G_context.raw_tx))
  /\ ui_menu_main
  /\ UNCHANGED pc

approve_failed ==
  /\ Pressed("transaction")
  /\ crypto_sign_message("error")
  /\ SetState("NONE")
  /\ io_send_sw("SIGNATURE_FAIL")
  /\ ui_menu_main
  /\ UNCHANGED pc

\* The exception leaves the callback and io_recv_command: the catch of app_main
\* answers, and the review stays on screen.
approve_thrown ==
  /\ Pressed("transaction")
  /\ crypto_sign_message("throw")
  /\ SetState("APPROVED")
  /\ Catch
  /\ UNCHANGED uiVars

reject_transaction ==
  /\ Pressed("transaction")
  /\ SetState("NONE")
  /\ io_send_sw("DENY")
  /\ ui_menu_main
  /\ UNCHANGED pc

-----------------------------------------------------------------------------
(* main.c, ui/menu.c: start, restart and exit. *)

\* Round main's loop into app_main's.  USB_power(0), USB_power(1): the host
\* sees the device go and come, and drops what it was waiting for.
Boot ==
  /\ pc = "boot"
  /\ pc' = "recv"
  /\ G_io_state' = "READY"
  /\ G_output_len' = 0
  /\ G_context' = ZeroContext
  /\ pending' = NoCommand
  /\ ui_menu_main
  /\ UNCHANGED <<G_io_apdu_buffer, wire>>

\* io_event: EXCEPTION_IO_RESET when a status event says USB is unpowered.
IoReset ==
  /\ Blocked
  /\ pc' = "boot"
  /\ UNCHANGED <<ioVars, G_context, uiVars, linkVars>>

\* The Quit step of the main menu.
Quit ==
  /\ Blocked
  /\ screen = Menu
  /\ pc' = "off"
  /\ UNCHANGED <<ioVars, G_context, uiVars, linkVars>>

\* External: the user opens the application again; its memory is zeroed.
Launch ==
  /\ pc = "off"
  /\ pc' = "boot"
  /\ G_io_state' = "READY"
  /\ G_output_len' = 0
  /\ G_io_apdu_buffer' = Blank
  /\ G_context' = ZeroContext
  /\ screen' = Menu
  /\ g_validate_callback' = "none"
  /\ UNCHANGED linkVars

-----------------------------------------------------------------------------
Init ==
  /\ pc = "boot"
  /\ G_io_state = "READY"
  /\ G_output_len = 0
  /\ G_io_apdu_buffer = Blank
  /\ G_context = ZeroContext
  /\ screen = Menu
  /\ g_validate_callback = "none"
  /\ pending = NoCommand
  /\ wire = Silence

Handle ==
  \/ RefuseCommand
  \/ handler_get_version
  \/ handler_get_app_name
  \/ handler_get_public_key
  \/ sign_tx_path
  \/ sign_tx_refuse
  \/ sign_tx_more
  \/ sign_tx_last

Decide ==
  \/ \E choice \in BOOLEAN : ui_action_validate_pubkey(choice)
  \/ approve_signed
  \/ approve_failed
  \/ approve_thrown
  \/ reject_transaction

Next ==
  \/ Boot
  \/ io_recv_command
  \/ \E c \in HostCommands : ReceiveCommand(c)
  \/ Handle
  \/ Decide
  \/ IoReset
  \/ Quit
  \/ Launch

Spec == Init /\ [][Next]_vars

\* The application's own steps go on by themselves.
DeviceFairness == WF_vars(Boot) /\ WF_vars(io_recv_command) /\ WF_vars(Handle)
\* An assumption about the user: a review on screen is decided.
UserFairness == WF_vars(Decide)
FairSpec == Spec /\ DeviceFairness /\ UserFairness

=============================================================================
