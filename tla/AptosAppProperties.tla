------------------------- MODULE AptosAppProperties -------------------------
(***************************************************************************)
(* What the application promises its host and its user, over the variables *)
(* of AptosApp.                                                            *)
(***************************************************************************)
EXTENDS AptosApp, Arithmetic, SequencesExt

\* The host only asks for signatures with a path the OS derives keys for, and
\* cx_eddsa_sign does not throw: no exception crosses an approval.
SigningNeverThrows ==
  /\ "throw" \notin SignOutcomes
  /\ \A c \in HostCommands :
       c.ins = "SIGN_TX" /\ c.p1 = P1_START /\ c.data # NoData
         => PathRead[c.data].path \in Derivable

\* Each variable has its type (types.h).
TypeOK ==
  /\ pc \in Points
  /\ G_io_state \in {"READY", "RECEIVED", "WAITING"}
  /\ G_output_len \in Nat
  /\ G_io_apdu_buffer \in {Blank} \cup Command \cup Response
  /\ G_context \in Context
  /\ screen \in Screen
  /\ g_validate_callback \in {"none", "pubkey", "transaction"}
  /\ pending \in {NoCommand} \cup Command
  /\ wire \in [bytes : {Blank} \cup Command \cup Response, len : Nat,
               to : {NoCommand} \cup Command]

\* io_recv_command never meets WAITING, the case in which it returns -1 and
\* app_main gives up (io.c:115-118, main.c:58-61): whatever was sent, refused,
\* thrown or decided before, the loop finds READY or RECEIVED.
RecvNeverFails == pc = "recv" => G_io_state # "WAITING"

\* raw_tx_len is the number of bytes stored in raw_tx and stays within the
\* 510 bytes of the array, through every order of chunks, refused ones and
\* ones appended after a parse error or an approval (sign_tx.c:54-73).
StoredBytes(tx) == RunningSum([i \in 1..Len(tx) |-> DataLen[tx[i]]], Len(tx))
TxFitsBuffer ==
  /\ G_context.raw_tx_len = StoredBytes(G_context.raw_tx)
  /\ G_context.raw_tx_len <= MaxTxLen

\* What is on screen is what the callback would act on: the path whose key an
\* approval would export, the transaction it would sign, parsed and not yet
\* decided (display.c:93-119, 260-308 against validate.c:28-54, which checks
\* neither the request nor the state).
ReviewMatchesContext ==
  /\ screen.flow = "address" =>
       /\ g_validate_callback = "pubkey"
       /\ G_context.req_type = "CONFIRM_ADDRESS"
       /\ G_context.bip32_path = screen.path
       /\ screen.path \in Derivable \ Unformattable
  /\ screen.flow \in TxFlows =>
       /\ g_validate_callback = "transaction"
       /\ G_context.req_type = "CONFIRM_TRANSACTION"
       /\ G_context.state = "PARSED"
       /\ G_context.raw_tx = screen.tx
       /\ Verdict[screen.tx] = screen.flow

\* A review is on screen only while the command that opened it is unanswered
\* and its answer is deferred: no button press answers twice, or answers a
\* later command (io.c:110-113, 150-154).
Opened(c) ==
  \/ /\ c.ins = "GET_PUBLIC_KEY" /\ c.p1 = 1
     /\ screen.flow = "address"
     /\ PathRead[c.data].ok /\ PathRead[c.data].path = screen.path
  \/ /\ c.ins = "SIGN_TX" /\ c.p1 # P1_START /\ c.p2 = P2_LAST
     /\ screen.flow \in TxFlows /\ c.data = screen.tx[Len(screen.tx)]
ReviewHasRequest ==
  screen # Menu /\ pc # "boot" => /\ IsCommand(pending) /\ Opened(pending)
                                  /\ Blocked => pc = "asynch" /\ G_io_state = "WAITING"

\* Everything transmitted is a complete response, of its own length, to a
\* command that was waiting for it: never the bytes of a command or the length
\* of an earlier response, never an answer nobody asked for (io.c:89, 108, 151).
OnlyAnswersOnWire ==
  wire # Silence => /\ IsResponse(wire.bytes)
                    /\ wire.len = BodyLen[wire.bytes.body.type] + 2
                    /\ IsCommand(wire.to)

\* The answer is one this command can have: the version to GET_VERSION, the
\* key of the path that was asked for, a signature over a transaction that ends
\* with the last chunk sent, a refusal by the user only where one was asked
\* (dispatcher.c:40-85, handler/, validate.c:28-54).
Answers(r, c) ==
  CASE r.body.type = "version" -> c.ins = "GET_VERSION"
    [] r.body.type = "name" -> c.ins = "GET_APP_NAME"
    [] r.body.type = "pubkey" -> /\ c.ins = "GET_PUBLIC_KEY"
                                 /\ PathRead[c.data].ok
                                 /\ PathRead[c.data].path = r.body.path
    [] r.body.type = "signature" -> /\ c.ins = "SIGN_TX" /\ c.p1 # P1_START /\ c.p2 = P2_LAST
                                    /\ c.data = r.body.tx[Len(r.body.tx)]
    [] r.body.type = "none" ->
         /\ r.sw = "OK" => c.ins = "SIGN_TX" /\ c.p2 = P2_MORE
         /\ r.sw = "DENY" => \/ c.ins = "GET_PUBLIC_KEY" /\ c.p1 = 1
                             \/ c.ins = "SIGN_TX" /\ c.p2 = P2_LAST
AnswerFitsCommand ==
  IsResponse(wire.bytes) /\ IsCommand(wire.to) => Answers(wire.bytes, wire.to)

\* No handler leaves app_main: io_send_response never finds READY while a
\* command is handled, so the application restarts only by a USB reset
\* (io.c:143-145, main.c:81-84).
HandlerStaysInLoop == [][pc = "handle" => pc' = "recv"]_vars

\* Every command is answered, or dropped with the connection, once the user
\* decides the reviews shown (io.c:102-158).
EveryCommandAnswered == pending # NoCommand ~> pending = NoCommand

\* The application implements the abstract service: the phase of a request is
\* read off the loop and the screen, the session off the context.
ServicePhase ==
  IF pending = NoCommand THEN "idle"
  ELSE IF pc = "handle" THEN "asked"
  ELSE IF screen # Menu THEN "review" ELSE "worked"
ServiceSession ==
  IF G_context.req_type = "CONFIRM_TRANSACTION"
    THEN [open |-> TRUE, path |-> G_context.bip32_path, tx |-> G_context.raw_tx]
    ELSE [open |-> FALSE]
ServiceAnswer == [bytes |-> wire.bytes, to |-> wire.to]

Service == INSTANCE SigningService WITH
  Requests <- HostCommands, phase <- ServicePhase, request <- pending,
  session <- ServiceSession, answer <- ServiceAnswer

\* Every behaviour of the application is one of the service: no command is
\* answered twice, no chunk is taken twice, and a signature is over the session
\* that was under review when the user approved (the whole of AptosApp).
ServiceSpec == Service!Spec

-----------------------------------------------------------------------------
(* The inductive strengthening the proofs use.                               *)

\* The I/O states the loop can be in at each of its points.
IoInv ==
  /\ pc \in {"recv", "handle", "exchange"} => G_io_state \in {"READY", "RECEIVED"}
  /\ pc = "asynch" => G_io_state \in {"READY", "WAITING"}

\* An answer is written and will leave with the next exchange.
AnswerReady ==
  /\ IsResponse(G_io_apdu_buffer) /\ IsCommand(pending)
  /\ G_output_len = BodyLen[G_io_apdu_buffer.body.type] + 2
  /\ Answers(G_io_apdu_buffer, pending)

\* When no exception crosses an approval, a review is on screen exactly while
\* a command is deferred, and G_output_len is used only for the response it is
\* the length of.
LoopInv ==
  /\ pc = "handle" => /\ G_io_state = "RECEIVED" /\ screen = Menu
                      /\ cmd \in HostCommands
  /\ pc = "recv" => \/ G_io_state = "RECEIVED" /\ screen # Menu
                    \/ G_io_state = "READY" /\ screen = Menu /\ G_output_len = 0
                    \/ G_io_state = "READY" /\ screen = Menu /\ G_output_len > 0 /\ AnswerReady
  /\ pc = "exchange" => G_io_state = "RECEIVED" /\ screen = Menu
  /\ pc = "asynch" => \/ G_io_state = "WAITING" /\ screen # Menu
                      \/ G_io_state = "READY" /\ screen = Menu
  /\ pc = "off" => screen = Menu
  /\ G_context.req_type = "CONFIRM_TRANSACTION" => G_context.bip32_path \in Derivable

OrderlyInv == LoopInv /\ ReviewMatchesContext /\ ReviewHasRequest
                /\ OnlyAnswersOnWire /\ AnswerFitsCommand

-----------------------------------------------------------------------------
(* What the documentation says and the code does not do.                     *)

\* sign_tx.h:9-10, "If successfully parse BIP32 path and transaction, sign
\* transaction and send APDU response": a signature uses a path some data field
\* was successfully read as.  Chunk 0 sets the request type before it reads the
\* path (sign_tx.c:38-46), so the chunks after a refused one are accepted.
SignedPathWasRead ==
  IsResponse(wire.bytes) /\ wire.bytes.body.type = "signature" =>
    \E d \in Data : PathRead[d] = [ok |-> TRUE, path |-> wire.bytes.body.path]

\* doc/APDU.md:23-28, "Response APDU": what the device transmits is response data
\* and a status word.  After a thrown approval the review stays on screen; its
\* rejection leaves a response length in G_output_len, which is used with the
\* bytes of the next command when that one opens a review (io.c:106-108).
OnlyResponsesOnWire == wire # Silence => IsResponse(wire.bytes)

=============================================================================
