--------------------------- MODULE AptosAppProofs ---------------------------
(***************************************************************************)
(* The command loop for every value of its constants: its types, its I/O    *)
(* states and the bytes it stores in every case; its reviews and its        *)
(* answers when no exception crosses an approval.                           *)
(***************************************************************************)
EXTENDS AptosAppProperties, ArithmeticProofs, SequenceTheorems, TLAPS

USE DEF NoCommand, Blank, Menu, P2_LAST, P2_MORE, P1_START, P1_MAX, cmd

-----------------------------------------------------------------------------
(* Type correctness.                                                         *)

\* Each stored chunk has at least one byte, so a transaction that fits the
\* buffer has no more chunks than bytes; a handler runs on the pending command.
TypeInv ==
  /\ TypeOK
  /\ Len(G_context.raw_tx) <= G_context.raw_tx_len
  /\ pc = "handle" => cmd \in Command /\ pending = cmd

\* The bodies of the answers.
LEMMA BodyTypes ==
  /\ NoBody \in Body /\ Version \in Body /\ AppName \in Body
  /\ \A p \in Paths : PubKey(p) \in Body
  /\ \A p \in Paths, tx \in TxData : Signature(p, tx) \in Body
BY DEF Body

\* A body has a length.
LEMMA BodyLength == \A b \in Body : BodyLen[b.type] \in Nat
BY DEF Body, BodyLen, NoBody, Version, AppName, PubKey, Signature

\* An answer is a response.
LEMMA AnswerType ==
  \A sw \in StatusWords, body \in Body : Answer(sw, body) \in Response
BY DEF Answer, Response

\* A transaction with a chunk to spare, extended by one, still fits.
LEMMA AppendType ==
  ASSUME NEW tx \in TxData, NEW d \in Data, Len(tx) + 1 <= MaxTxLen
  PROVE  Append(tx, d) \in TxData /\ Len(Append(tx, d)) = Len(tx) + 1
<1>1. PICK n \in 0..MaxTxLen : tx \in [1..n -> Data]
  BY DEF TxData
<1>2. tx \in Seq(Data) /\ Len(tx) = n
  BY <1>1, DataAssumption
<1>3. Append(tx, d) \in Seq(Data) /\ Len(Append(tx, d)) = n + 1
  BY <1>2, AppendProperties
<1>4. Append(tx, d) \in [1..(n+1) -> Data]
  BY <1>3, LenProperties
<1> QED BY <1>2, <1>3, <1>4, DataAssumption DEF TxData

\* The variables io_send_response writes keep their types.
LEMMA SendType ==
  ASSUME TypeInv, NEW sw \in StatusWords, NEW body \in Body, io_send_response(sw, body)
  PROVE  /\ G_io_state' = "READY"
         /\ G_output_len' \in Nat
         /\ G_io_apdu_buffer' \in Response
         /\ pending' \in {NoCommand} \cup Command
         /\ wire' \in [bytes : {Blank} \cup Command \cup Response, len : Nat,
                       to : {NoCommand} \cup Command]
<1>1. Answer(sw, body) \in Response /\ BodyLen[body.type] + 2 \in Nat
  BY AnswerType, BodyLength
<1> QED BY <1>1 DEF io_send_response, Transmit, linkVars, TypeInv, TypeOK

\* The contexts a command starts from.
LEMMA ContextTypes ==
  /\ ZeroContext \in Context
  /\ Len(ZeroContext.raw_tx) = 0 /\ ZeroContext.raw_tx_len = 0
  /\ \A type \in {"CONFIRM_ADDRESS", "CONFIRM_TRANSACTION"}, p \in Paths :
       /\ NewRequest(type, p) \in Context
       /\ NewRequest(type, p).req_type = type
       /\ NewRequest(type, p).state = "NONE"
       /\ NewRequest(type, p).bip32_path = p
       /\ NewRequest(type, p).raw_tx = <<>>
       /\ NewRequest(type, p).raw_tx_len = 0
<1>1. <<>> \in TxData
  <2>1. <<>> \in [1..0 -> Data]
    OBVIOUS
  <2> QED BY <2>1, DataAssumption DEF TxData
<1>2. ZeroContext \in Context
  BY <1>1, PathAssumption, DataAssumption DEF ZeroContext, Context
<1> QED BY <1>1, <1>2, PathAssumption DEF ZeroContext, NewRequest, Context

\* What a handler finds: a command with the fields its guards ask for.
LEMMA DispatchedData ==
  ASSUME TypeInv, NEW ins, Dispatched(ins), ins \in {"GET_PUBLIC_KEY", "SIGN_TX"}
  PROVE  /\ cmd \in Command /\ pending = cmd
         /\ cmd.data \in Data
         /\ PathRead[cmd.data] \in [ok : BOOLEAN, path : Paths]
         /\ PathRead[cmd.data].path \in Paths
         /\ DataLen[cmd.data] \in 1..255
<1>1. cmd \in Command /\ pending = cmd
  BY DEF TypeInv, Dispatched
<1>2. DataOK(cmd)
  BY <1>1 DEF Dispatched, Refusal, Command, Instructions
<1>3. cmd.data \in Data
  BY <1>1, <1>2 DEF DataOK, Dispatched, Command
<1> QED BY <1>1, <1>3, PathAssumption, DataAssumption

\* A chunk that is not refused leaves a well-typed, longer transaction.
LEMMA ExtendedType ==
  ASSUME TypeInv, TxChunk, ChunkRefusal = "OK"
  PROVE  /\ Extended \in Context
         /\ Extended.raw_tx = Append(G_context.raw_tx, cmd.data)
         /\ Extended.raw_tx \in TxData
         /\ Len(Extended.raw_tx) <= Extended.raw_tx_len
         /\ Extended.req_type = "CONFIRM_TRANSACTION"
         /\ Extended.state = G_context.state
         /\ Extended.bip32_path = G_context.bip32_path
<1>1. G_context \in Context /\ Len(G_context.raw_tx) <= G_context.raw_tx_len
  BY DEF TypeInv, TypeOK
<1>2. cmd.data \in Data /\ DataLen[cmd.data] \in 1..255
  BY DispatchedData DEF TxChunk
<1>3. /\ G_context.req_type = "CONFIRM_TRANSACTION"
      /\ ~(G_context.raw_tx_len + DataLen[cmd.data] > MaxTxLen)
  BY DEF ChunkRefusal
<1>4. G_context.raw_tx \in TxData /\ G_context.raw_tx_len \in 0..MaxTxLen
  BY <1>1 DEF Context
<1>5. Len(G_context.raw_tx) \in Nat
  <2>1. PICK n \in 0..MaxTxLen : G_context.raw_tx \in [1..n -> Data]
    BY <1>4 DEF TxData
  <2>2. G_context.raw_tx \in Seq(Data)
    BY <2>1, DataAssumption
  <2> QED BY <2>2, LenProperties
<1>6. /\ Len(G_context.raw_tx) + 1 <= G_context.raw_tx_len + DataLen[cmd.data]
      /\ Len(G_context.raw_tx) + 1 <= MaxTxLen
  <2>1. \A l \in Nat, n \in Nat, k \in Nat, m \in Nat :
          l <= n /\ k >= 1 /\ ~(n + k > m) => l + 1 <= n + k /\ l + 1 <= m
    OBVIOUS
  <2>2. /\ Len(G_context.raw_tx) \in Nat /\ G_context.raw_tx_len \in Nat
        /\ DataLen[cmd.data] \in Nat /\ MaxTxLen \in Nat /\ DataLen[cmd.data] >= 1
    <3>1. DataLen[cmd.data] \in Nat /\ DataLen[cmd.data] >= 1
      BY <1>2
    <3>2. MaxTxLen \in Nat
      BY DataAssumption
    <3>3. G_context.raw_tx_len \in Nat
      BY <1>4, <3>2
    <3> QED BY <1>5, <3>1, <3>2, <3>3
  <2>3. Len(G_context.raw_tx) <= G_context.raw_tx_len
    BY <1>1
  <2> QED BY <1>3, <2>1, <2>2, <2>3
<1>7. /\ Append(G_context.raw_tx, cmd.data) \in TxData
      /\ Len(Append(G_context.raw_tx, cmd.data)) = Len(G_context.raw_tx) + 1
  BY <1>2, <1>4, <1>6, AppendType
<1>8. G_context.raw_tx_len + DataLen[cmd.data] \in 0..MaxTxLen
  BY <1>2, <1>3, <1>4, DataAssumption
<1>9. /\ Extended.raw_tx = Append(G_context.raw_tx, cmd.data)
      /\ Extended.raw_tx_len = G_context.raw_tx_len + DataLen[cmd.data]
      /\ Extended.req_type = G_context.req_type
      /\ Extended.state = G_context.state
      /\ Extended.bip32_path = G_context.bip32_path
  BY <1>1 DEF Extended, Context
<1>10. Extended \in Context
  BY <1>1, <1>7, <1>8 DEF Extended, Context
<1> QED BY <1>3, <1>6, <1>7, <1>9, <1>10

\* A step that answers, or puts a review on screen, is well typed when what it
\* does to the context is.
LEMMA AnswerStepType ==
  ASSUME TypeInv, NEW sw \in StatusWords, NEW body \in Body, io_send_response(sw, body),
         pc' \in Points \ {"handle"},
         G_context' \in Context, Len(G_context'.raw_tx) <= G_context'.raw_tx_len,
         screen' \in Screen,
         g_validate_callback' \in {"none", "pubkey", "transaction"}
  PROVE  TypeInv'
<1>1. /\ G_io_state' = "READY"
      /\ G_output_len' \in Nat
      /\ G_io_apdu_buffer' \in Response
      /\ pending' \in {NoCommand} \cup Command
      /\ wire' \in [bytes : {Blank} \cup Command \cup Response, len : Nat,
                    to : {NoCommand} \cup Command]
  BY SendType
<1> QED BY <1>1 DEF TypeInv, TypeOK

\* Starting a review keeps the types.
LEMMA ReviewStepType ==
  ASSUME TypeInv, NEW flow \in Screen, NEW callback \in {"pubkey", "transaction"},
         Review(flow, callback),
         G_context' \in Context, Len(G_context'.raw_tx) <= G_context'.raw_tx_len
  PROVE  TypeInv'
BY DEF Review, TypeInv, TypeOK, ioVars, linkVars, Points

\* Where the program is after an answer.
LEMMA AfterAnswerPoint == ASSUME AfterAnswer PROVE pc' \in Points \ {"handle"}
BY DEF AfterAnswer, Points

\* The types of everything a step may write follow from those of what it reads.
LEMMA TypeStep == TypeInv /\ [Next]_vars => TypeInv'
<1> SUFFICES ASSUME TypeInv, [Next]_vars PROVE TypeInv'
  OBVIOUS
<1> USE BodyTypes
<1>ctx. G_context \in Context /\ Len(G_context.raw_tx) <= G_context.raw_tx_len
  BY DEF TypeInv, TypeOK
<1>ui. screen \in Screen /\ g_validate_callback \in {"none", "pubkey", "transaction"}
  BY DEF TypeInv, TypeOK
<1>menu. Menu \in Screen
  BY DEF Screen
<1>new. ASSUME NEW type \in {"CONFIRM_ADDRESS", "CONFIRM_TRANSACTION"}, NEW p \in Paths,
               G_context' = NewRequest(type, p)
        PROVE  G_context' \in Context /\ Len(G_context'.raw_tx) <= G_context'.raw_tx_len
  BY <1>new, ContextTypes
<1>set. ASSUME NEW s \in {"NONE", "PARSED", "APPROVED"}, SetState(s)
        PROVE  G_context' \in Context /\ Len(G_context'.raw_tx) <= G_context'.raw_tx_len
  BY <1>set, <1>ctx DEF SetState, Context
<1>1. CASE Boot
  BY <1>1, <1>ui, <1>menu, ContextTypes DEF Boot, ui_menu_main, TypeInv, TypeOK, Points
<1>2. CASE io_recv_command
  <2>1. StateInExchange[G_io_state] \in {"READY", "RECEIVED", "WAITING"}
        /\ PointInExchange[G_io_state] \in Points \ {"handle"}
    BY DEF StateInExchange, PointInExchange, TypeInv, TypeOK, Points
  <2>2. /\ pending' \in {NoCommand} \cup Command
        /\ wire' \in [bytes : {Blank} \cup Command \cup Response, len : Nat,
                      to : {NoCommand} \cup Command]
    BY <1>2 DEF io_recv_command, Transmit, linkVars, TypeInv, TypeOK
  <2> QED BY <1>2, <2>1, <2>2 DEF io_recv_command, uiVars, TypeInv, TypeOK
<1>3. CASE \E c \in HostCommands : ReceiveCommand(c)
  BY <1>3, HostAssumption DEF ReceiveCommand, StateOnReturn, uiVars, TypeInv, TypeOK, Points
<1>4. CASE RefuseCommand
  <2>1. Refusal(cmd) \in StatusWords
    BY DEF Refusal, StatusWords
  <2>2. pc' \in Points \ {"handle"}
    BY <1>4 DEF RefuseCommand, AfterAnswer, Points
  <2> QED BY <1>4, <2>1, <2>2, <1>ctx, <1>ui, AnswerStepType
        DEF RefuseCommand, io_send_sw, uiVars
<1>5. CASE handler_get_version
  <2>1. "OK" \in StatusWords
    BY DEF StatusWords
  <2> QED BY <1>5, <2>1, <1>ctx, <1>ui, AnswerStepType, AfterAnswerPoint
        DEF handler_get_version, Respond, uiVars
<1>6. CASE handler_get_app_name
  <2>1. "OK" \in StatusWords
    BY DEF StatusWords
  <2> QED BY <1>6, <2>1, <1>ctx, <1>ui, AnswerStepType, AfterAnswerPoint
        DEF handler_get_app_name, Respond, uiVars
<1>7. CASE handler_get_public_key
  <2> DEFINE read == PathRead[cmd.data]
  <2>1. read.path \in Paths
    BY <1>7, DispatchedData DEF handler_get_public_key
  <2>2. G_context' \in Context /\ Len(G_context'.raw_tx) <= G_context'.raw_tx_len
    BY <1>7, <1>new, <2>1 DEF handler_get_public_key
  <2>3. {"OK", "WRONG_DATA_LENGTH", "EXCEPTION", "DISPLAY_BIP32_PATH_FAIL"} \subseteq StatusWords
    BY DEF StatusWords
  <2>4. CASE UNCHANGED uiVars /\ \/ Respond("WRONG_DATA_LENGTH", NoBody)
                                 \/ Respond("OK", PubKey(read.path))
                                 \/ Respond("DISPLAY_BIP32_PATH_FAIL", NoBody)
    BY <2>1, <2>2, <2>3, <2>4, <1>ui, AnswerStepType, AfterAnswerPoint DEF Respond, uiVars
  <2>5. CASE UNCHANGED uiVars /\ Catch
    <3>1. pc' \in Points \ {"handle"}
      BY <2>5 DEF Catch, Points
    <3> QED BY <2>2, <2>3, <2>5, <3>1, <1>ui, AnswerStepType DEF Catch, io_send_sw, uiVars
  <2>6. CASE Review(AddressReview(read.path), "pubkey")
    <3>1. AddressReview(read.path) \in Screen
      BY <2>1 DEF Screen
    <3> QED BY <2>2, <2>6, <3>1, ReviewStepType
  <2> QED BY <1>7, <2>4, <2>5, <2>6 DEF handler_get_public_key, ui_display_address
<1>8. CASE sign_tx_path
  <2> DEFINE read == PathRead[cmd.data]
  <2>1. read.path \in Paths
    BY <1>8, DispatchedData DEF sign_tx_path
  <2>2. G_context' \in Context /\ Len(G_context'.raw_tx) <= G_context'.raw_tx_len
    BY <1>8, <1>new, <2>1 DEF sign_tx_path
  <2>3. {"OK", "WRONG_DATA_LENGTH"} \subseteq StatusWords
    BY DEF StatusWords
  <2> QED BY <1>8, <2>2, <2>3, <1>ui, AnswerStepType, AfterAnswerPoint
        DEF sign_tx_path, Respond, uiVars
<1>9. CASE sign_tx_refuse
  <2>1. ChunkRefusal \in StatusWords
    BY DEF ChunkRefusal, StatusWords
  <2> QED BY <1>9, <2>1, <1>ctx, <1>ui, AnswerStepType, AfterAnswerPoint
        DEF sign_tx_refuse, Respond, uiVars
<1>10. CASE sign_tx_more
  <2>1. "OK" \in StatusWords
    BY DEF StatusWords
  <2>2. G_context' \in Context /\ Len(G_context'.raw_tx) <= G_context'.raw_tx_len
    BY <1>10, ExtendedType DEF sign_tx_more
  <2> QED BY <1>10, <2>1, <2>2, <1>ui, AnswerStepType, AfterAnswerPoint
        DEF sign_tx_more, Respond, uiVars
<1>11. CASE sign_tx_last
  <2> DEFINE tx == Extended.raw_tx
  <2>1. /\ Extended \in Context /\ tx \in TxData
        /\ Len(tx) <= Extended.raw_tx_len
    BY <1>11, ExtendedType DEF sign_tx_last
  <2>2. G_context' \in Context /\ Len(G_context'.raw_tx) <= G_context'.raw_tx_len
    BY <1>11, <2>1 DEF sign_tx_last, Context
  <2>3. CASE Verdict[tx] = "error"
    <3>1. "TX_PARSING_FAIL" \in StatusWords
      BY DEF StatusWords
    <3> QED BY <1>11, <2>2, <2>3, <3>1, <1>ui, AnswerStepType, AfterAnswerPoint
          DEF sign_tx_last, Respond, uiVars
  <2>4. CASE Verdict[tx] # "error"
    <3>1. Verdict[tx] \in TxFlows
      BY <2>1, <2>4, VerdictAssumption
    <3>2. TxReview(Verdict[tx], tx) \in Screen
      BY <2>1, <3>1 DEF Screen
    <3> QED BY <1>11, <2>2, <2>4, <3>2, ReviewStepType DEF sign_tx_last, ui_display_transaction
  <2> QED BY <2>3, <2>4
<1>12. CASE \E choice \in BOOLEAN : ui_action_validate_pubkey(choice)
  <2>1. PICK choice \in BOOLEAN : ui_action_validate_pubkey(choice)
    BY <1>12
  <2>2. {"OK", "DENY"} \subseteq StatusWords /\ PubKey(G_context.bip32_path) \in Body
    BY <1>ctx DEF StatusWords, Context
  <2>3. pc' \in Points \ {"handle"}
    BY <2>1 DEF ui_action_validate_pubkey, Pressed, Blocked, Points
  <2> QED BY <2>1, <2>2, <2>3, <1>ctx, <1>ui, <1>menu, AnswerStepType
        DEF ui_action_validate_pubkey, io_send_sw, ui_menu_main
<1>13. CASE approve_signed
  <2>1. /\ "OK" \in StatusWords
        /\ Signature(G_context.bip32_path, G_context.raw_tx) \in Body
    BY <1>ctx DEF StatusWords, Context
  <2>2. pc' \in Points \ {"handle"}
    BY <1>13 DEF approve_signed, Pressed, Blocked, Points
  <2> QED BY <1>13, <2>1, <2>2, <1>set, <1>ui, <1>menu, AnswerStepType
        DEF approve_signed, ui_menu_main
<1>14. CASE approve_failed
  <2>1. "SIGNATURE_FAIL" \in StatusWords
    BY DEF StatusWords
  <2>2. pc' \in Points \ {"handle"}
    BY <1>14 DEF approve_failed, Pressed, Blocked, Points
  <2> QED BY <1>14, <2>1, <2>2, <1>set, <1>ui, <1>menu, AnswerStepType
        DEF approve_failed, io_send_sw, ui_menu_main
<1>15. CASE approve_thrown
  <2>1. "EXCEPTION" \in StatusWords
    BY DEF StatusWords
  <2>2. pc' \in Points \ {"handle"}
    BY <1>15 DEF approve_thrown, Catch, Points
  <2> QED BY <1>15, <2>1, <2>2, <1>set, <1>ui, AnswerStepType
        DEF approve_thrown, Catch, io_send_sw, uiVars
<1>16. CASE reject_transaction
  <2>1. "DENY" \in StatusWords
    BY DEF StatusWords
  <2>2. pc' \in Points \ {"handle"}
    BY <1>16 DEF reject_transaction, Pressed, Blocked, Points
  <2> QED BY <1>16, <2>1, <2>2, <1>set, <1>ui, <1>menu, AnswerStepType
        DEF reject_transaction, io_send_sw, ui_menu_main
<1>17. CASE IoReset \/ Quit
  BY <1>17 DEF IoReset, Quit, ioVars, uiVars, linkVars, TypeInv, TypeOK, Points
<1>18. CASE Launch
  BY <1>18, <1>menu, ContextTypes DEF Launch, linkVars, TypeInv, TypeOK, Points
<1>19. CASE UNCHANGED vars
  BY <1>19 DEF vars, ioVars, uiVars, linkVars, TypeInv, TypeOK
<1> QED
  BY <1>1, <1>2, <1>3, <1>4, <1>5, <1>6, <1>7, <1>8, <1>9, <1>10, <1>11, <1>12, <1>13,
     <1>14, <1>15, <1>16, <1>17, <1>18, <1>19 DEF Next, Handle, Decide

\* Every variable keeps its type (types.h), in every behaviour.
THEOREM TypeCorrect == Spec => []TypeOK
<1>1. Init => TypeInv
  BY ContextTypes DEF Init, TypeInv, TypeOK, Screen, Points, Silence
<1>2. TypeInv => TypeOK
  BY DEF TypeInv
<1> QED BY <1>1, <1>2, TypeStep, PTL DEF Spec

-----------------------------------------------------------------------------
(* The I/O states.                                                           *)

\* What is sent leaves the transport ready.
LEMMA SendState ==
  ASSUME NEW sw, NEW body, io_send_response(sw, body) PROVE G_io_state' = "READY"
BY DEF io_send_response

\* Every step keeps the state of the transport in order.
LEMMA IoStep == IoInv /\ [Next]_vars => IoInv'
<1> SUFFICES ASSUME IoInv, [Next]_vars PROVE IoInv'
  OBVIOUS
<1> USE DEF IoInv
<1>1. CASE G_io_state' = "READY"
  BY <1>1
<1>2. CASE io_recv_command
  BY <1>2 DEF io_recv_command, StateInExchange, PointInExchange
<1>3. CASE \E c \in HostCommands : ReceiveCommand(c)
  BY <1>3 DEF ReceiveCommand, StateOnReturn, Blocked
<1>4. CASE pc = "handle" /\ pc' = "recv" /\ UNCHANGED ioVars
  BY <1>4 DEF ioVars
<1>5. CASE IoReset \/ Quit
  BY <1>5 DEF IoReset, Quit
<1>6. CASE UNCHANGED vars
  BY <1>6 DEF vars, ioVars
<1>7. CASE Boot \/ Launch
  BY <1>7 DEF Boot, Launch
<1>8. CASE Handle
  <2>1. \/ \E sw, body : io_send_response(sw, body)
        \/ pc = "handle" /\ pc' = "recv" /\ UNCHANGED ioVars
    <3>1. CASE RefuseCommand
      BY <3>1 DEF RefuseCommand, io_send_sw
    <3>2. CASE handler_get_version \/ handler_get_app_name
      BY <3>2 DEF handler_get_version, handler_get_app_name, Respond
    <3>3. CASE handler_get_public_key
      BY <3>3 DEF handler_get_public_key, ui_display_address, Respond, Catch, io_send_sw,
                  Review, Dispatched
    <3>4. CASE sign_tx_path \/ sign_tx_refuse \/ sign_tx_more
      BY <3>4 DEF sign_tx_path, sign_tx_refuse, sign_tx_more, Respond
    <3>5. CASE sign_tx_last
      BY <3>5 DEF sign_tx_last, ui_display_transaction, Respond, Review, TxChunk, Dispatched
    <3> QED BY <1>8, <3>1, <3>2, <3>3, <3>4, <3>5 DEF Handle
  <2> QED BY <1>1, <1>4, <2>1, SendState
<1>9. CASE Decide
  <2>1. \E sw, body : io_send_response(sw, body)
    BY <1>9 DEF Decide, ui_action_validate_pubkey, approve_signed, approve_failed,
                approve_thrown, reject_transaction, Catch, io_send_sw
  <2> QED BY <1>1, <2>1, SendState
<1> QED BY <1>2, <1>3, <1>5, <1>6, <1>7, <1>8, <1>9 DEF Next

\* io_recv_command never fails (io.c:115-118), exceptions included.
THEOREM RecvSafe == Spec => []RecvNeverFails
<1>1. Init => IoInv
  BY DEF Init, IoInv
<1>2. IoInv => RecvNeverFails
  BY DEF IoInv, RecvNeverFails
<1> QED BY <1>1, <1>2, IoStep, PTL DEF Spec

-----------------------------------------------------------------------------
(* Reviews, answers and the wire, when no exception crosses an approval.     *)

\* Under the assumption, a path of a signing request has a key.
LEMMA SigningPath ==
  ASSUME SigningNeverThrows, TypeInv, sign_tx_path, cmd \in HostCommands
  PROVE  PathRead[cmd.data].path \in Derivable
<1>1. cmd.ins = "SIGN_TX" /\ cmd.p1 = P1_START /\ cmd.data \in Data
  BY DispatchedData DEF sign_tx_path, Dispatched
<1>2. cmd.data # NoData
  BY <1>1, DataAssumption
<1> QED BY <1>1, <1>2 DEF SigningNeverThrows

\* The length of an answer, which is what G_output_len holds.
LEMMA AnswerFields ==
  ASSUME NEW sw, NEW body \in Body
  PROVE  /\ Answer(sw, body).kind = "response"
         /\ Answer(sw, body).sw = sw
         /\ Answer(sw, body).body = body
         /\ BodyLen[body.type] + 2 \in Nat /\ BodyLen[body.type] + 2 > 0
BY BodyLength DEF Answer

\* The menu is none of the reviews.
LEMMA MenuFlow == Menu.flow = "menu" /\ "menu" \notin TxFlows /\ "address" \notin TxFlows
BY DEF Menu, TxFlows

\* A handler that answers, in the state the loop handles commands in, leaves
\* its answer to the next exchange.
LEMMA HandlerAnswers ==
  ASSUME TypeInv, OrderlyInv, pc = "handle", NEW sw, NEW body \in Body,
         io_send_response(sw, body), pc' = "recv" \/ AfterAnswer, UNCHANGED uiVars,
         Answers(Answer(sw, body), cmd),
         G_context'.req_type = "CONFIRM_TRANSACTION" => G_context'.bip32_path \in Derivable
  PROVE  OrderlyInv' /\ pc' = "recv"
<1>1. G_io_state = "RECEIVED" /\ screen = Menu
  BY DEF OrderlyInv, LoopInv
<1>2. pc' = "recv"
  BY <1>1 DEF AfterAnswer, ResponseAccepted
<1>3. /\ G_io_apdu_buffer' = Answer(sw, body)
      /\ G_io_state' = "READY"
      /\ G_output_len' = BodyLen[body.type] + 2
      /\ UNCHANGED <<pending, wire, screen>>
  BY <1>1 DEF io_send_response, linkVars, uiVars
<1>4. pending = cmd /\ IsCommand(pending)
  BY DEF TypeInv, Command, IsCommand
<1>5. AnswerReady'
  <2>1. /\ IsResponse(G_io_apdu_buffer') /\ IsCommand(pending')
        /\ G_output_len' = BodyLen[G_io_apdu_buffer'.body.type] + 2
    BY <1>3, <1>4, AnswerFields DEF IsResponse, IsCommand
  <2>2. Answers(G_io_apdu_buffer', pending')
    BY <1>3, <1>4
  <2> QED BY <2>1, <2>2 DEF AnswerReady, Answers
<1>6. G_output_len' > 0
  BY <1>3, AnswerFields
<1>7. LoopInv'
  BY <1>1, <1>2, <1>3, <1>5, <1>6 DEF LoopInv
<1>8. ReviewMatchesContext' /\ ReviewHasRequest'
  BY <1>1, <1>3, MenuFlow DEF ReviewMatchesContext, ReviewHasRequest
<1>9. OnlyAnswersOnWire' /\ AnswerFitsCommand'
  BY <1>3 DEF OrderlyInv, OnlyAnswersOnWire, AnswerFitsCommand, Answers
<1> QED BY <1>2, <1>7, <1>8, <1>9 DEF OrderlyInv

\* A review put on screen by the handler of the pending command.
LEMMA HandlerReviews ==
  ASSUME TypeInv, OrderlyInv, pc = "handle", NEW flow, NEW callback,
         Review(flow, callback), flow.flow # "menu",
         ReviewMatchesContext', Opened(pending)',
         G_context'.req_type = "CONFIRM_TRANSACTION" => G_context'.bip32_path \in Derivable
  PROVE  OrderlyInv' /\ pc' = "recv"
<1>1. G_io_state = "RECEIVED"
  BY DEF OrderlyInv, LoopInv
<1>2. pc' = "recv" /\ screen' = flow /\ UNCHANGED <<G_io_state, pending, wire>>
  BY DEF Review, ioVars, linkVars
<1>3. screen' # Menu
  BY <1>2, MenuFlow
<1>4. IsCommand(pending')
  BY <1>2 DEF TypeInv, Command, IsCommand
<1>5. LoopInv'
  BY <1>1, <1>2, <1>3 DEF LoopInv
<1>6. ReviewHasRequest'
  BY <1>2, <1>4 DEF ReviewHasRequest, Blocked
<1>7. OnlyAnswersOnWire' /\ AnswerFitsCommand'
  BY <1>2 DEF OrderlyInv, OnlyAnswersOnWire, AnswerFitsCommand, Answers
<1> QED BY <1>2, <1>5, <1>6, <1>7 DEF OrderlyInv

\* A decision is made while its command is deferred: its answer leaves at once.
LEMMA DecisionAnswers ==
  ASSUME TypeInv, OrderlyInv, Blocked, screen # Menu, NEW sw, NEW body \in Body,
         io_send_response(sw, body), ui_menu_main, UNCHANGED pc,
         Answers(Answer(sw, body), pending),
         G_context'.req_type = "CONFIRM_TRANSACTION" => G_context'.bip32_path \in Derivable
  PROVE  OrderlyInv'
<1>1. pc = "asynch" /\ G_io_state = "WAITING" /\ IsCommand(pending)
  BY DEF OrderlyInv, LoopInv, Blocked, ReviewHasRequest
<1>2. /\ G_io_state' = "READY" /\ screen' = Menu /\ pc' = "asynch"
      /\ wire' = [bytes |-> Answer(sw, body), len |-> BodyLen[body.type] + 2, to |-> pending]
  BY <1>1 DEF io_send_response, Transmit, ui_menu_main
<1>3. LoopInv'
  BY <1>2 DEF LoopInv
<1>4. ReviewMatchesContext' /\ ReviewHasRequest'
  BY <1>2, MenuFlow DEF ReviewMatchesContext, ReviewHasRequest
<1>5. OnlyAnswersOnWire'
  BY <1>1, <1>2, AnswerFields DEF OnlyAnswersOnWire, IsResponse
<1>6. AnswerFitsCommand'
  <2>1. Answers(wire'.bytes, wire'.to)
    BY <1>2
  <2> QED BY <2>1 DEF AnswerFitsCommand, Answers
<1> QED BY <1>3, <1>4, <1>5, <1>6 DEF OrderlyInv

\* Every step keeps reviews and requests in order, and a command is answered.
LEMMA OrderlyStep ==
  SigningNeverThrows /\ TypeInv /\ OrderlyInv /\ [Next]_vars
    => OrderlyInv' /\ (pc = "handle" /\ ~UNCHANGED vars => pc' = "recv")
<1> SUFFICES ASSUME SigningNeverThrows, TypeInv, OrderlyInv, [Next]_vars
             PROVE  OrderlyInv' /\ (pc = "handle" /\ ~UNCHANGED vars => pc' = "recv")
  OBVIOUS
<1> USE BodyTypes DEF P1_START, P2_LAST, P2_MORE
<1>path. G_context.req_type = "CONFIRM_TRANSACTION" => G_context.bip32_path \in Derivable
  BY DEF OrderlyInv, LoopInv
<1>ctx. G_context \in Context
  BY DEF TypeInv, TypeOK
<1>cmd. ASSUME pc = "handle"
        PROVE  cmd \in HostCommands /\ cmd \in Command /\ pending = cmd
  BY <1>cmd DEF OrderlyInv, LoopInv, TypeInv
<1>wire. ASSUME UNCHANGED wire PROVE OnlyAnswersOnWire' /\ AnswerFitsCommand'
  BY <1>wire DEF OrderlyInv, OnlyAnswersOnWire, AnswerFitsCommand, Answers
<1>menu. ASSUME screen' = Menu PROVE ReviewMatchesContext' /\ ReviewHasRequest'
  BY <1>menu, MenuFlow DEF ReviewMatchesContext, ReviewHasRequest
<1>1. CASE Boot
  <2>1. LoopInv' /\ UNCHANGED wire /\ screen' = Menu /\ pc # "handle"
    BY <1>1 DEF Boot, ui_menu_main, LoopInv, ZeroContext
  <2> QED BY <2>1, <1>wire, <1>menu DEF OrderlyInv
<1>2. CASE io_recv_command
  <2>0. pc = "recv" /\ UNCHANGED <<G_context, screen, g_validate_callback>>
    BY <1>2 DEF io_recv_command, uiVars
  <2>1. CASE G_io_state = "RECEIVED" /\ screen # Menu
    <3>1. pc' = "asynch" /\ G_io_state' = "WAITING" /\ UNCHANGED <<pending, wire>>
      BY <1>2, <2>1 DEF io_recv_command, StateInExchange, PointInExchange, linkVars
    <3>2. LoopInv'
      BY <2>0, <2>1, <3>1, <1>path DEF LoopInv
    <3>3. ReviewMatchesContext' /\ ReviewHasRequest'
      BY <2>0, <3>1 DEF OrderlyInv, ReviewMatchesContext, ReviewHasRequest, Opened, Blocked
    <3> QED BY <2>0, <3>1, <3>2, <3>3, <1>wire DEF OrderlyInv
  <2>2. CASE G_io_state = "READY" /\ screen = Menu
    <3>1. pc' = "exchange" /\ G_io_state' = "RECEIVED" /\ screen' = Menu
      BY <1>2, <2>0, <2>2 DEF io_recv_command, StateInExchange, PointInExchange
    <3>2. LoopInv'
      BY <2>0, <3>1, <1>path DEF LoopInv
    <3>3. CASE G_output_len = 0
      <4>1. UNCHANGED wire
        BY <1>2, <3>3 DEF io_recv_command, linkVars
      <4> QED BY <2>0, <3>1, <3>2, <4>1, <1>wire, <1>menu DEF OrderlyInv
    <3>4. CASE G_output_len > 0 /\ AnswerReady
      <4>1. wire' = [bytes |-> G_io_apdu_buffer, len |-> G_output_len, to |-> pending]
        BY <1>2, <2>2, <3>4 DEF io_recv_command, Transmit
      <4>2. OnlyAnswersOnWire'
        BY <4>1, <3>4 DEF OnlyAnswersOnWire, AnswerReady
      <4>3. AnswerFitsCommand'
        <5>1. Answers(wire'.bytes, wire'.to)
          BY <4>1, <3>4 DEF AnswerReady
        <5> QED BY <5>1 DEF AnswerFitsCommand, Answers
      <4> QED BY <2>0, <3>1, <3>2, <4>2, <4>3, <1>menu DEF OrderlyInv
    <3> QED BY <2>0, <2>2, <3>3, <3>4 DEF OrderlyInv, LoopInv
  <2> QED BY <2>0, <2>1, <2>2 DEF OrderlyInv, LoopInv
<1>3. CASE \E c \in HostCommands : ReceiveCommand(c)
  <2>1. PICK c \in HostCommands : ReceiveCommand(c)
    BY <1>3
  <2>2. Blocked /\ pending = NoCommand /\ UNCHANGED <<G_context, screen, wire>>
    BY <2>1 DEF ReceiveCommand, uiVars
  <2>3. screen = Menu
    BY <2>2 DEF OrderlyInv, ReviewHasRequest, Blocked, IsCommand, NoCommand
  <2>4. pc' = "handle" /\ G_io_state' = "RECEIVED" /\ cmd' = c /\ pc # "handle"
    BY <2>1, <2>2 DEF ReceiveCommand, StateOnReturn, Blocked, OrderlyInv, LoopInv, cmd
  <2>5. LoopInv'
    BY <2>2, <2>3, <2>4, <1>path DEF LoopInv
  <2> QED BY <2>2, <2>3, <2>4, <2>5, <1>wire, <1>menu DEF OrderlyInv
<1>4. CASE RefuseCommand
  <2>1. /\ pc = "handle"
        /\ (pc' = "recv" \/ AfterAnswer)
        /\ io_send_response(Refusal(cmd), NoBody)
        /\ UNCHANGED <<G_context, uiVars>>
    BY <1>4 DEF RefuseCommand, io_send_sw
  <2>2. Answers(Answer(Refusal(cmd), NoBody), cmd)
    <3>1. Refusal(cmd) \notin {"OK", "DENY"}
      BY <1>4 DEF RefuseCommand, Refusal
    <3> QED BY <3>1 DEF Answers, Answer, NoBody
  <2> QED BY <2>1, <2>2, <1>path, HandlerAnswers
<1>5. CASE handler_get_version
  <2>1. /\ pc = "handle" /\ AfterAnswer /\ io_send_response("OK", Version)
        /\ UNCHANGED <<G_context, uiVars>>
    BY <1>5 DEF handler_get_version, Respond, Dispatched
  <2>2. Answers(Answer("OK", Version), cmd)
    BY <1>5 DEF handler_get_version, Dispatched, Answers, Answer, Version
  <2> QED BY <2>1, <2>2, <1>path, HandlerAnswers
<1>6. CASE handler_get_app_name
  <2>1. /\ pc = "handle" /\ AfterAnswer /\ io_send_response("OK", AppName)
        /\ UNCHANGED <<G_context, uiVars>>
    BY <1>6 DEF handler_get_app_name, Respond, Dispatched
  <2>2. Answers(Answer("OK", AppName), cmd)
    BY <1>6 DEF handler_get_app_name, Dispatched, Answers, Answer, AppName
  <2> QED BY <2>1, <2>2, <1>path, HandlerAnswers
<1>7. CASE handler_get_public_key
  <2> DEFINE read == PathRead[cmd.data]
  <2>1. /\ pc = "handle" /\ cmd.ins = "GET_PUBLIC_KEY" /\ read.path \in Paths
        /\ cmd \in Command /\ pending = cmd
    BY <1>7, DispatchedData DEF handler_get_public_key, Dispatched
  <2>2. G_context' = NewRequest("CONFIRM_ADDRESS", read.path)
    BY <1>7 DEF handler_get_public_key
  <2>3. /\ G_context'.req_type = "CONFIRM_ADDRESS"
        /\ G_context'.bip32_path = read.path
    BY <2>1, <2>2, ContextTypes
  <2>4. ASSUME NEW sw \in {"WRONG_DATA_LENGTH", "DISPLAY_BIP32_PATH_FAIL", "EXCEPTION"}
        PROVE  Answers(Answer(sw, NoBody), cmd)
    BY <2>4 DEF Answers, Answer, NoBody
  <2>5. CASE UNCHANGED uiVars /\ \/ Respond("WRONG_DATA_LENGTH", NoBody)
                                 \/ Respond("DISPLAY_BIP32_PATH_FAIL", NoBody)
                                 \/ Catch
    BY <2>1, <2>3, <2>4, <2>5, HandlerAnswers DEF Respond, Catch, io_send_sw
  <2>6. CASE UNCHANGED uiVars /\ read.ok /\ Respond("OK", PubKey(read.path))
    <3>1. Answers(Answer("OK", PubKey(read.path)), cmd)
      BY <2>1, <2>6 DEF Answers, Answer, PubKey
    <3> QED BY <2>1, <2>3, <2>6, <3>1, HandlerAnswers DEF Respond
  <2>7. CASE /\ read.ok /\ cmd.p1 = 1 /\ read.path \in Derivable \ Unformattable
             /\ Review(AddressReview(read.path), "pubkey")
    <3>1. /\ screen' = AddressReview(read.path) /\ g_validate_callback' = "pubkey"
          /\ pending' = cmd
      BY <2>1, <2>7 DEF Review, linkVars
    <3>2. AddressReview(read.path).flow = "address" /\ AddressReview(read.path).path = read.path
      BY DEF AddressReview
    <3>3. ReviewMatchesContext'
      BY <2>3, <2>7, <3>1, <3>2, MenuFlow DEF ReviewMatchesContext
    <3>4. Opened(pending)'
      BY <2>1, <2>7, <3>1, <3>2 DEF Opened
    <3> QED BY <2>1, <2>3, <2>7, <3>2, <3>3, <3>4, HandlerReviews
  <2> QED BY <1>7, <2>5, <2>6, <2>7 DEF handler_get_public_key, ui_display_address
<1>8. CASE sign_tx_path
  <2> DEFINE read == PathRead[cmd.data]
             sw == IF read.ok THEN "OK" ELSE "WRONG_DATA_LENGTH"
  <2>1. /\ pc = "handle" /\ cmd.ins = "SIGN_TX" /\ cmd.p1 = P1_START
        /\ ParamsOK(cmd) /\ read.path \in Paths
    BY <1>8, DispatchedData
       DEF sign_tx_path, Dispatched, Refusal, Command, Instructions
  <2>2. read.path \in Derivable
    BY <1>8, <1>cmd, <2>1, SigningPath
  <2>3. G_context' = NewRequest("CONFIRM_TRANSACTION", read.path)
    BY <1>8 DEF sign_tx_path
  <2>4. G_context'.bip32_path \in Derivable
    BY <2>1, <2>2, <2>3, ContextTypes
  <2>5. Answers(Answer(sw, NoBody), cmd)
    BY <2>1 DEF Answers, Answer, NoBody, ParamsOK
  <2>6. AfterAnswer /\ io_send_response(sw, NoBody) /\ UNCHANGED uiVars
    BY <1>8 DEF sign_tx_path, Respond
  <2> QED BY <2>1, <2>4, <2>5, <2>6, HandlerAnswers
<1>9. CASE sign_tx_refuse
  <2>1. /\ pc = "handle" /\ AfterAnswer /\ io_send_response(ChunkRefusal, NoBody)
        /\ UNCHANGED <<G_context, uiVars>>
    BY <1>9 DEF sign_tx_refuse, Respond, TxChunk, Dispatched
  <2>2. Answers(Answer(ChunkRefusal, NoBody), cmd)
    BY <1>9 DEF sign_tx_refuse, ChunkRefusal, Answers, Answer, NoBody
  <2> QED BY <2>1, <2>2, <1>path, HandlerAnswers
<1>10. CASE sign_tx_more
  <2>1. /\ pc = "handle" /\ AfterAnswer /\ io_send_response("OK", NoBody)
        /\ G_context' = Extended /\ UNCHANGED uiVars
    BY <1>10 DEF sign_tx_more, Respond, TxChunk, Dispatched
  <2>2. Answers(Answer("OK", NoBody), cmd)
    BY <1>10 DEF sign_tx_more, TxChunk, Dispatched, Answers, Answer, NoBody
  <2>3. G_context'.bip32_path \in Derivable
    BY <1>10, <1>path, <2>1, ExtendedType DEF sign_tx_more, ChunkRefusal
  <2> QED BY <2>1, <2>2, <2>3, HandlerAnswers
<1>11. CASE sign_tx_last
  <2> DEFINE tx == Extended.raw_tx
  <2>1. /\ pc = "handle" /\ cmd.ins = "SIGN_TX" /\ cmd.p1 # P1_START /\ cmd.p2 = P2_LAST
        /\ cmd.data \in Data /\ pending = cmd
    BY <1>11, DispatchedData DEF sign_tx_last, TxChunk, Dispatched
  <2>2. /\ Extended \in Context /\ tx \in TxData /\ tx = Append(G_context.raw_tx, cmd.data)
        /\ Extended.req_type = "CONFIRM_TRANSACTION"
        /\ Extended.bip32_path = G_context.bip32_path
        /\ G_context.req_type = "CONFIRM_TRANSACTION"
    BY <1>11, ExtendedType DEF sign_tx_last, ChunkRefusal
  <2>3. /\ G_context'.req_type = "CONFIRM_TRANSACTION"
        /\ G_context'.bip32_path \in Derivable
        /\ G_context'.raw_tx = tx
    BY <1>11, <1>path, <2>2 DEF sign_tx_last, Context
  <2>4. CASE Verdict[tx] = "error"
    <3>1. AfterAnswer /\ io_send_response("TX_PARSING_FAIL", NoBody) /\ UNCHANGED uiVars
      BY <1>11, <2>4 DEF sign_tx_last, Respond
    <3>2. Answers(Answer("TX_PARSING_FAIL", NoBody), cmd)
      BY DEF Answers, Answer, NoBody
    <3> QED BY <2>1, <2>3, <3>1, <3>2, HandlerAnswers
  <2>5. CASE Verdict[tx] # "error"
    <3>1. /\ G_context'.state = "PARSED"
          /\ Review(TxReview(Verdict[tx], tx), "transaction")
      BY <1>11, <2>2, <2>5 DEF sign_tx_last, ui_display_transaction, Context
    <3>2. Verdict[tx] \in TxFlows
      BY <2>2, <2>5, VerdictAssumption
    <3>3. TxReview(Verdict[tx], tx).flow = Verdict[tx] /\ TxReview(Verdict[tx], tx).tx = tx
      BY DEF TxReview
    <3>4. /\ screen'.flow = Verdict[tx] /\ screen'.tx = tx
          /\ g_validate_callback' = "transaction" /\ pending' = cmd
      BY <2>1, <3>1, <3>3 DEF Review, linkVars
    <3>5. ReviewMatchesContext'
      BY <2>3, <3>1, <3>2, <3>4, MenuFlow DEF ReviewMatchesContext
    <3>6. tx[Len(tx)] = cmd.data
      <4>1. G_context.raw_tx \in Seq(Data)
        BY <1>ctx, DataAssumption DEF Context, TxData
      <4> QED BY <2>1, <2>2, <4>1, AppendProperties
    <3>7. Opened(pending)'
      BY <2>1, <3>2, <3>4, <3>6 DEF Opened
    <3> QED BY <2>1, <2>3, <3>1, <3>2, <3>3, <3>5, <3>7, MenuFlow, HandlerReviews
  <2> QED BY <2>4, <2>5
<1>12. CASE Decide
  <2>1. /\ Blocked /\ screen # Menu /\ pc # "handle" /\ pc # "boot"
    BY <1>12 DEF Decide, ui_action_validate_pubkey, approve_signed, approve_failed,
                 approve_thrown, reject_transaction, Pressed, Blocked
  <2>2. IsCommand(pending) /\ Opened(pending)
    BY <2>1 DEF OrderlyInv, ReviewHasRequest
  <2>3. CASE g_validate_callback = "pubkey"
    <3>1. PICK choice \in BOOLEAN : ui_action_validate_pubkey(choice)
      BY <1>12, <2>3 DEF Decide, approve_signed, approve_failed, approve_thrown,
                         reject_transaction, Pressed
    <3>2. /\ screen.flow = "address" /\ pending.ins = "GET_PUBLIC_KEY" /\ pending.p1 = 1
          /\ PathRead[pending.data].ok
          /\ PathRead[pending.data].path = G_context.bip32_path
      BY <2>2, <2>3, MenuFlow DEF OrderlyInv, ReviewMatchesContext, Opened
    <3>3. ui_menu_main /\ UNCHANGED pc /\ UNCHANGED G_context
      BY <3>1 DEF ui_action_validate_pubkey
    <3>4. CASE choice
      <4>1. Answers(Answer("OK", PubKey(G_context.bip32_path)), pending)
        BY <3>2 DEF Answers, Answer, PubKey
      <4>2. PubKey(G_context.bip32_path) \in Body
        BY <1>ctx DEF Context
      <4> QED BY <1>path, <2>1, <3>1, <3>3, <3>4, <4>1, <4>2, DecisionAnswers
            DEF ui_action_validate_pubkey
    <3>5. CASE ~choice
      <4>1. Answers(Answer("DENY", NoBody), pending)
        BY <3>2 DEF Answers, Answer, NoBody
      <4> QED BY <1>path, <2>1, <3>1, <3>3, <3>5, <4>1, DecisionAnswers
            DEF ui_action_validate_pubkey, io_send_sw
    <3> QED BY <3>4, <3>5
  <2>4. CASE g_validate_callback = "transaction"
    <3>1. /\ screen.flow \in TxFlows
          /\ pending.ins = "SIGN_TX" /\ pending.p1 # P1_START /\ pending.p2 = P2_LAST
          /\ pending.data = G_context.raw_tx[Len(G_context.raw_tx)]
          /\ G_context.bip32_path \in Derivable
      BY <1>path, <2>2, <2>4, MenuFlow DEF OrderlyInv, ReviewMatchesContext, Opened
    <3>2. ASSUME NEW s \in {"NONE", "APPROVED"}, SetState(s)
          PROVE  G_context'.bip32_path \in Derivable
      BY <1>ctx, <3>1, <3>2 DEF SetState, Context
    <3>3. CASE approve_signed
      <4> DEFINE body == Signature(G_context.bip32_path, G_context.raw_tx)
      <4>1. Answers(Answer("OK", body), pending)
        BY <3>1 DEF Answers, Answer, Signature
      <4>2. body \in Body
        BY <1>ctx DEF Context
      <4>3. G_context'.bip32_path \in Derivable
        BY <3>2, <3>3 DEF approve_signed
      <4> HIDE DEF body
      <4> QED BY <2>1, <3>3, <4>1, <4>2, <4>3, DecisionAnswers DEF approve_signed, body
    <3>4. CASE approve_failed
      <4>1. Answers(Answer("SIGNATURE_FAIL", NoBody), pending)
        BY DEF Answers, Answer, NoBody
      <4>2. G_context'.bip32_path \in Derivable
        BY <3>2, <3>4 DEF approve_failed
      <4> QED BY <2>1, <3>4, <4>1, <4>2, DecisionAnswers DEF approve_failed, io_send_sw
    <3>5. CASE approve_thrown
      BY <3>1, <3>5 DEF approve_thrown, crypto_sign_message, SigningNeverThrows
    <3>6. CASE reject_transaction
      <4>1. Answers(Answer("DENY", NoBody), pending)
        BY <3>1 DEF Answers, Answer, NoBody
      <4>2. G_context'.bip32_path \in Derivable
        BY <3>2, <3>6 DEF reject_transaction
      <4> QED BY <2>1, <3>6, <4>1, <4>2, DecisionAnswers DEF reject_transaction, io_send_sw
    <3> QED BY <1>12, <2>4, <3>3, <3>4, <3>5, <3>6 DEF Decide, ui_action_validate_pubkey, Pressed
  <2> QED BY <1>12, <2>1, <2>3, <2>4
        DEF Decide, ui_action_validate_pubkey, approve_signed, approve_failed,
            approve_thrown, reject_transaction, Pressed
<1>13. CASE IoReset
  <2>1. /\ pc' = "boot" /\ pc # "handle"
        /\ UNCHANGED <<G_context, screen, g_validate_callback, wire>>
    BY <1>13 DEF IoReset, Blocked, uiVars, linkVars
  <2>2. LoopInv' /\ ReviewHasRequest'
    BY <2>1, <1>path DEF LoopInv, ReviewHasRequest
  <2>3. ReviewMatchesContext'
    BY <2>1 DEF OrderlyInv, ReviewMatchesContext
  <2> QED BY <2>1, <2>2, <2>3, <1>wire DEF OrderlyInv
<1>14. CASE Quit
  <2>1. pc' = "off" /\ pc # "handle" /\ screen' = Menu /\ UNCHANGED <<G_context, wire>>
    BY <1>14 DEF Quit, Blocked, uiVars, linkVars
  <2>2. LoopInv'
    BY <2>1, <1>path DEF LoopInv
  <2> QED BY <2>1, <2>2, <1>wire, <1>menu DEF OrderlyInv
<1>15. CASE Launch
  <2>1. pc' = "boot" /\ pc # "handle" /\ screen' = Menu /\ G_context' = ZeroContext /\ UNCHANGED wire
    BY <1>15 DEF Launch, linkVars
  <2>2. LoopInv'
    BY <2>1 DEF LoopInv, ZeroContext
  <2> QED BY <2>1, <2>2, <1>wire, <1>menu DEF OrderlyInv
<1>16. CASE UNCHANGED vars
  BY <1>16 DEF vars, ioVars, uiVars, linkVars, OrderlyInv, LoopInv, ReviewMatchesContext,
     ReviewHasRequest, Opened, Blocked, OnlyAnswersOnWire, AnswerFitsCommand, AnswerReady, cmd
<1> QED
  BY <1>1, <1>2, <1>3, <1>4, <1>5, <1>6, <1>7, <1>8, <1>9, <1>10, <1>11, <1>12, <1>13,
     <1>14, <1>15, <1>16 DEF Next, Handle

\* What every state of an orderly behaviour satisfies: OrderlyInv, which needs
\* the types, the loop's points and the wire to be inductive.
LEMMA OrderlyInvariant == SigningNeverThrows => (Spec => [](TypeInv /\ OrderlyInv))
<1> SUFFICES ASSUME SigningNeverThrows PROVE Spec => [](TypeInv /\ OrderlyInv)
  OBVIOUS
<1>1. Init => TypeInv
  BY ContextTypes DEF Init, TypeInv, TypeOK, Screen, Points, Silence, Blank, NoCommand, Menu
<1>2. Init => OrderlyInv
  BY MenuFlow DEF Init, OrderlyInv, LoopInv, ReviewMatchesContext, ReviewHasRequest,
     OnlyAnswersOnWire, AnswerFitsCommand, ZeroContext, Silence, IsResponse, Blank, Menu
<1>3. TypeInv /\ OrderlyInv /\ [Next]_vars => (TypeInv /\ OrderlyInv)'
  BY TypeStep, OrderlyStep
<1> QED BY <1>1, <1>2, <1>3, PTL DEF Spec

\* What is on screen is what an approval acts on (display.c, validate.c).
THEOREM ReviewSafe == SigningNeverThrows => (Spec => []ReviewMatchesContext)
<1>1. OrderlyInv => ReviewMatchesContext
  BY DEF OrderlyInv
<1> QED BY <1>1, OrderlyInvariant, PTL

\* A review is on screen only while its own command is deferred (io.c:110-113).
THEOREM ReviewRequested == SigningNeverThrows => (Spec => []ReviewHasRequest)
<1>1. OrderlyInv => ReviewHasRequest
  BY DEF OrderlyInv
<1> QED BY <1>1, OrderlyInvariant, PTL

\* Only complete responses, to commands that wait, are transmitted (io.c:108, 151).
THEOREM WireSafe == SigningNeverThrows => (Spec => []OnlyAnswersOnWire)
<1>1. OrderlyInv => OnlyAnswersOnWire
  BY DEF OrderlyInv
<1> QED BY <1>1, OrderlyInvariant, PTL

\* The answer is one the command can have (dispatcher.c, handler/, validate.c).
THEOREM AnswerSafe == SigningNeverThrows => (Spec => []AnswerFitsCommand)
<1>1. OrderlyInv => AnswerFitsCommand
  BY DEF OrderlyInv
<1> QED BY <1>1, OrderlyInvariant, PTL

\* No handler makes the application restart (main.c:81-84).
THEOREM LoopSafe == SigningNeverThrows => (Spec => HandlerStaysInLoop)
<1> SUFFICES ASSUME SigningNeverThrows PROVE Spec => HandlerStaysInLoop
  OBVIOUS
<1>1. TypeInv /\ OrderlyInv /\ [Next]_vars
        => [pc = "handle" => pc' = "recv"]_vars
  BY OrderlyStep
<1> QED BY <1>1, OrderlyInvariant, PTL DEF Spec, HandlerStaysInLoop

-----------------------------------------------------------------------------
(* The raw transaction and its length. *)

\* One chunk more is its bytes more.
LEMMA StoredAppend ==
  ASSUME NEW tx \in TxData, NEW d \in Data
  PROVE  /\ StoredBytes(Append(tx, d)) = StoredBytes(tx) + DataLen[d]
         /\ StoredBytes(<<>>) = 0
<1>1. PICK n \in 0..MaxTxLen : tx \in [1..n -> Data]
  BY DEF TxData
<1>2. n \in Nat /\ tx \in Seq(Data) /\ Len(tx) = n
  BY <1>1, DataAssumption
<1> DEFINE more == Append(tx, d)
           v == [i \in 1..n |-> DataLen[tx[i]]]
           w == [i \in 1..(n + 1) |-> DataLen[more[i]]]
<1>3. Len(more) = n + 1 /\ more[n + 1] = d /\ \A i \in 1..n : more[i] = tx[i] /\ tx[i] \in Data
  BY <1>1, <1>2, AppendProperties
<1>4. \A e \in Data : DataLen[e] \in Nat
  BY DataAssumption
<1>5. (\A i \in 1..n : v[i] \in Nat) /\ (\A i \in 1..n : w[i] = v[i]) /\ w[n + 1] = DataLen[d]
  <2> HIDE DEF more
  <2> QED BY <1>2, <1>3, <1>4
<1>6. StoredBytes(tx) = RunningSum(v, n) /\ StoredBytes(more) = RunningSum(w, n + 1)
  BY <1>2, <1>3 DEF StoredBytes
<1>7. StoredBytes(<<>>) = 0
  BY SumOfNone DEF StoredBytes
<1>8. w[n + 1] \in Nat
  BY <1>4, <1>5
<1> HIDE DEF v, w, more
<1>9. RunningSum(w, n + 1) = RunningSum(v, n) + w[n + 1]
  BY <1>2, <1>5, <1>8, SumStep
<1> QED BY <1>5, <1>6, <1>7, <1>9 DEF more

\* The counter counts what is stored.
StoredInv == G_context.raw_tx_len = StoredBytes(G_context.raw_tx)

\* Only chunk 0 empties the transaction, and only a stored chunk extends it.
LEMMA StoredStep == TypeInv /\ StoredInv /\ [Next]_vars => StoredInv'
<1> SUFFICES ASSUME TypeInv, StoredInv, [Next]_vars PROVE StoredInv'
  OBVIOUS
<1>ctx. G_context \in Context
  BY DEF TypeInv, TypeOK
<1>empty. StoredBytes(<<>>) = 0
  BY SumOfNone DEF StoredBytes
<1>keep. ASSUME G_context'.raw_tx = G_context.raw_tx, G_context'.raw_tx_len = G_context.raw_tx_len
         PROVE  StoredInv'
  BY <1>keep DEF StoredInv
<1>new. ASSUME NEW type \in {"CONFIRM_ADDRESS", "CONFIRM_TRANSACTION"}, NEW p \in Paths,
               G_context' = NewRequest(type, p)
        PROVE  StoredInv'
  BY <1>new, <1>empty, ContextTypes DEF StoredInv
<1>more. ASSUME TxChunk, ChunkRefusal = "OK", G_context'.raw_tx = Extended.raw_tx,
                G_context'.raw_tx_len = Extended.raw_tx_len
         PROVE  StoredInv'
  <2>1. cmd.data \in Data
    BY <1>more, DispatchedData DEF TxChunk
  <2>2. G_context.raw_tx \in TxData
    BY <1>ctx DEF Context
  <2>3. /\ Extended.raw_tx = Append(G_context.raw_tx, cmd.data)
        /\ Extended.raw_tx_len = G_context.raw_tx_len + DataLen[cmd.data]
    BY <1>ctx DEF Extended, Context
  <2> QED BY <1>more, <2>1, <2>2, <2>3, StoredAppend DEF StoredInv
<1>1. CASE Boot \/ Launch
  BY <1>1, <1>empty DEF Boot, Launch, ZeroContext, StoredInv
<1>2. CASE \/ io_recv_command
           \/ \E c \in HostCommands : ReceiveCommand(c)
           \/ IoReset \/ Quit \/ UNCHANGED vars
  BY <1>2, <1>keep DEF io_recv_command, ReceiveCommand, IoReset, Quit, vars
<1>3. CASE RefuseCommand \/ handler_get_version \/ handler_get_app_name \/ sign_tx_refuse
  BY <1>3, <1>keep DEF RefuseCommand, handler_get_version, handler_get_app_name, sign_tx_refuse
<1>4. CASE handler_get_public_key
  BY <1>4, <1>new, DispatchedData DEF handler_get_public_key
<1>5. CASE sign_tx_path
  BY <1>5, <1>new, DispatchedData DEF sign_tx_path
<1>6. CASE sign_tx_more
  BY <1>6, <1>more DEF sign_tx_more
<1>7. CASE sign_tx_last
  <2>1. TxChunk /\ ChunkRefusal = "OK"
    BY <1>7 DEF sign_tx_last
  <2>2. Extended \in Context
    BY <2>1, ExtendedType
  <2>3. G_context'.raw_tx = Extended.raw_tx /\ G_context'.raw_tx_len = Extended.raw_tx_len
    BY <1>7, <2>2 DEF sign_tx_last, Context
  <2> QED BY <2>1, <2>3, <1>more
<1>8. CASE Decide
  <2>1. UNCHANGED G_context \/ \E s \in {"NONE", "APPROVED"} : SetState(s)
    BY <1>8 DEF Decide, ui_action_validate_pubkey, approve_signed, approve_failed,
                approve_thrown, reject_transaction
  <2>2. G_context'.raw_tx = G_context.raw_tx /\ G_context'.raw_tx_len = G_context.raw_tx_len
    BY <2>1, <1>ctx DEF SetState, Context
  <2> QED BY <2>2, <1>keep
<1> QED BY <1>1, <1>2, <1>3, <1>4, <1>5, <1>6, <1>7, <1>8 DEF Next, Handle

\* sign_tx.c:54-73: raw_tx_len is the number of the bytes stored, and never more
\* than the array holds, through every order of chunks and requests.
THEOREM TxFits == Spec => []TxFitsBuffer
<1>1. Init => TypeInv /\ StoredInv
  <2>1. Init => TypeInv
    BY ContextTypes DEF Init, TypeInv, TypeOK, Screen, Points, Silence
  <2> QED BY <2>1, SumOfNone DEF Init, ZeroContext, StoredInv, StoredBytes
<1>2. TypeInv /\ StoredInv => TxFitsBuffer
  <2> SUFFICES ASSUME TypeInv, StoredInv PROVE TxFitsBuffer
    OBVIOUS
  <2>1. G_context.raw_tx_len \in 0..MaxTxLen
    BY DEF TypeInv, TypeOK, Context
  <2> QED BY <2>1, DataAssumption DEF StoredInv, TxFitsBuffer
<1> QED BY <1>1, <1>2, TypeStep, StoredStep, PTL DEF Spec

-----------------------------------------------------------------------------
(* The loop implements SigningService: each step is one of its steps, or none. *)

-----------------------------------------------------------------------------
(* The inductive invariant.                                                  *)

\* The answers a command can have without a review.
Deliverable(r, c) ==
  \/ \E sw \in {"OK", "WRONG_P1P2", "WRONG_DATA_LENGTH", "INS_NOT_SUPPORTED",
                "CLA_NOT_SUPPORTED", "DISPLAY_BIP32_PATH_FAIL", "WRONG_TX_LENGTH",
                "TX_PARSING_FAIL", "BAD_STATE", "EXCEPTION"} : r = Answer(sw, NoBody)
  \/ r \in {Answer("OK", Version), Answer("OK", AppName)}
  \/ /\ c.ins = "GET_PUBLIC_KEY" /\ c.p1 = 0
     /\ r = Answer("OK", PubKey(PathRead[c.data].path))

\* What waits in the buffer for the next exchange answers its command without a
\* review; and a command that has no answer there and no review on screen is
\* being handled, or was dropped by a reset.
ServiceInv ==
  /\ pc = "recv" /\ G_io_state = "READY" /\ G_output_len > 0
       => Deliverable(G_io_apdu_buffer, pending)
  /\ pc = "recv" /\ G_io_state = "READY" /\ G_output_len = 0 => pending = NoCommand
  /\ pc \in {"exchange", "asynch", "off"} /\ screen = Menu => pending = NoCommand

-----------------------------------------------------------------------------
(* What the steps of the loop do to the service.                             *)

\* No command is the absence of one.
LEMMA CommandIsAsked == \A c : IsCommand(c) => c # NoCommand
BY DEF IsCommand, NoCommand

\* A handler that answers moves the request on and transmits nothing.
LEMMA HandlerServes ==
  ASSUME TypeInv, OrderlyInv, pc = "handle", NEW sw, NEW body \in Body,
         io_send_response(sw, body), pc' = "recv" \/ AfterAnswer, UNCHANGED uiVars,
         Deliverable(Answer(sw, body), cmd)
  PROVE  /\ ServicePhase = "asked" /\ ServicePhase' = "worked"
         /\ UNCHANGED <<pending, wire>> /\ pending = cmd
         /\ ServiceInv'
<1>1. G_io_state = "RECEIVED" /\ screen = Menu /\ pending = cmd /\ pending # NoCommand
  BY CommandIsAsked DEF OrderlyInv, LoopInv, TypeInv, Command, IsCommand
<1>2. pc' = "recv"
  BY <1>1 DEF AfterAnswer, ResponseAccepted
<1>3. /\ G_io_apdu_buffer' = Answer(sw, body)
      /\ G_output_len' = BodyLen[body.type] + 2
      /\ UNCHANGED <<pending, wire, screen>>
  BY <1>1 DEF io_send_response, linkVars, uiVars
<1>4. G_output_len' > 0
  BY <1>3, AnswerFields
<1>5. Deliverable(G_io_apdu_buffer', pending')
  BY <1>1, <1>3
<1>6. ServiceInv'
  BY <1>2, <1>4, <1>5 DEF ServiceInv, Deliverable
<1> QED BY <1>1, <1>2, <1>3, <1>6 DEF ServicePhase

\* A handler that puts a review on screen.
LEMMA HandlerAsks ==
  ASSUME TypeInv, OrderlyInv, pc = "handle", NEW flow, NEW callback,
         Review(flow, callback), flow.flow # "menu"
  PROVE  /\ ServicePhase = "asked" /\ ServicePhase' = "review"
         /\ UNCHANGED <<pending, wire>> /\ pending = cmd
         /\ ServiceInv'
<1>1. G_io_state = "RECEIVED" /\ pending = cmd /\ pending # NoCommand
  BY CommandIsAsked DEF OrderlyInv, LoopInv, TypeInv, Command, IsCommand
<1>2. pc' = "recv" /\ screen' = flow /\ UNCHANGED <<G_io_state, pending, wire>>
  BY DEF Review, ioVars, linkVars
<1>3. screen' # Menu
  BY <1>2, MenuFlow
<1>4. ServiceInv'
  BY <1>1, <1>2 DEF ServiceInv
<1> QED BY <1>1, <1>2, <1>3, <1>4 DEF ServicePhase

\* A decision replies to the request under review.
LEMMA DecisionReplies ==
  ASSUME TypeInv, OrderlyInv, Blocked, screen # Menu, NEW sw, NEW body \in Body,
         io_send_response(sw, body), ui_menu_main, UNCHANGED pc
  PROVE  /\ ServicePhase = "review" /\ ServicePhase' = "idle"
         /\ pending' = NoCommand
         /\ wire'.bytes = Answer(sw, body) /\ wire'.to = pending
         /\ ServiceInv'
<1>1. pc = "asynch" /\ G_io_state = "WAITING" /\ pending # NoCommand
  BY CommandIsAsked DEF OrderlyInv, LoopInv, Blocked, ReviewHasRequest
<1>2. /\ screen' = Menu /\ pc' = "asynch" /\ pending' = NoCommand
      /\ wire' = [bytes |-> Answer(sw, body), len |-> BodyLen[body.type] + 2, to |-> pending]
  BY <1>1 DEF io_send_response, Transmit, ui_menu_main
<1>3. ServiceInv'
  BY <1>2 DEF ServiceInv
<1> QED BY <1>1, <1>2, <1>3 DEF ServicePhase

-----------------------------------------------------------------------------
\* Every step of the application is one of the service, or none.
LEMMA ServiceStep ==
  ASSUME SigningNeverThrows, TypeInv, OrderlyInv, ServiceInv, [Next]_vars
  PROVE  ServiceInv' /\ [Service!Next]_Service!vars
<1> USE BodyTypes
<1>ctx. G_context \in Context
  BY DEF TypeInv, TypeOK
<1>cmd. ASSUME pc = "handle"
        PROVE  cmd \in HostCommands /\ cmd \in Command /\ pending = cmd
  BY <1>cmd DEF OrderlyInv, LoopInv, TypeInv
<1>same. ASSUME UNCHANGED G_context PROVE UNCHANGED ServiceSession
  BY <1>same DEF ServiceSession
<1>wire. ASSUME UNCHANGED wire PROVE UNCHANGED ServiceAnswer
  BY <1>wire DEF ServiceAnswer
<1>1. CASE Boot
  <2>1. /\ pc' = "recv" /\ G_io_state' = "READY" /\ G_output_len' = 0
        /\ pending' = NoCommand /\ G_context' = ZeroContext /\ UNCHANGED wire
    BY <1>1 DEF Boot
  <2>2. ServiceInv'
    BY <2>1 DEF ServiceInv
  <2>3. ServicePhase' = "idle" /\ ServiceSession' = Service!NoSession
    BY <2>1 DEF ServicePhase, ServiceSession, Service!NoSession, ZeroContext
  <2>4. Service!Reset
    BY <2>1, <2>3, <1>wire DEF Service!Reset, Service!NoRequest, NoCommand
  <2> QED BY <2>2, <2>4 DEF Service!Next
<1>2. CASE io_recv_command
  <2>0. pc = "recv" /\ UNCHANGED <<G_context, screen>>
    BY <1>2 DEF io_recv_command, uiVars
  <2>1. CASE G_io_state = "RECEIVED" /\ screen # Menu
    <3>1. pc' = "asynch" /\ UNCHANGED <<pending, wire>>
      BY <1>2, <2>1 DEF io_recv_command, PointInExchange, linkVars
    <3>2. ServiceInv'
      BY <2>0, <2>1, <3>1 DEF ServiceInv
    <3>3. UNCHANGED Service!vars
      BY <2>0, <3>1, <1>same, <1>wire DEF Service!vars, ServicePhase
    <3> QED BY <3>2, <3>3
  <2>2. CASE G_io_state = "READY" /\ screen = Menu /\ G_output_len = 0
    <3>1. pc' = "exchange" /\ UNCHANGED <<pending, wire>> /\ pending = NoCommand
      BY <1>2, <2>0, <2>2 DEF io_recv_command, PointInExchange, linkVars, ServiceInv
    <3>2. ServiceInv'
      BY <3>1 DEF ServiceInv
    <3>3. UNCHANGED Service!vars
      BY <2>0, <3>1, <1>same, <1>wire DEF Service!vars, ServicePhase
    <3> QED BY <3>2, <3>3
  <2>3. CASE G_io_state = "READY" /\ screen = Menu /\ G_output_len > 0 /\ AnswerReady
    <3>1. /\ pc' = "exchange" /\ pending' = NoCommand
          /\ wire' = [bytes |-> G_io_apdu_buffer, len |-> G_output_len, to |-> pending]
      BY <1>2, <2>3 DEF io_recv_command, PointInExchange, Transmit
    <3>2. ServiceInv'
      BY <3>1 DEF ServiceInv
    <3>3. ServicePhase = "worked" /\ ServicePhase' = "idle"
      BY <2>0, <2>3, <3>1, CommandIsAsked DEF ServicePhase, AnswerReady
    <3>4. Service!Reply(G_io_apdu_buffer)
      BY <2>0, <3>1, <3>3, <1>same
         DEF Service!Reply, Service!NoRequest, NoCommand, ServiceAnswer
    <3>5. Deliverable(G_io_apdu_buffer, pending)
      BY <2>0, <2>3 DEF ServiceInv
    <3>6. Service!Deliver
      BY <3>3, <3>4, <3>5
         DEF Deliverable, Service!Deliver, Service!Status, Service!Filled, Answer, NoBody,
             Version, AppName, PubKey
    <3> QED BY <3>2, <3>6 DEF Service!Next
  <2> QED BY <2>0, <2>1, <2>2, <2>3 DEF OrderlyInv, LoopInv
<1>3. CASE \E c \in HostCommands : ReceiveCommand(c)
  <2>1. PICK c \in HostCommands : ReceiveCommand(c)
    BY <1>3
  <2>2. /\ pending = NoCommand /\ pending' = c /\ pc' = "handle"
        /\ UNCHANGED <<G_context, screen, wire>>
    BY <2>1 DEF ReceiveCommand, uiVars
  <2>3. c # NoCommand
    BY HostAssumption DEF Command, NoCommand
  <2>4. ServicePhase = "idle" /\ ServicePhase' = "asked"
    BY <2>2, <2>3 DEF ServicePhase
  <2>5. Service!Ask(c)
    BY <2>2, <2>4, <1>same, <1>wire DEF Service!Ask
  <2>6. ServiceInv'
    BY <2>2 DEF ServiceInv
  <2> QED BY <2>5, <2>6 DEF Service!Next
<1>serve. ASSUME pc = "handle", NEW sw, NEW body \in Body,
                 io_send_response(sw, body), pc' = "recv" \/ AfterAnswer,
                 UNCHANGED <<G_context, uiVars>>, Deliverable(Answer(sw, body), cmd)
          PROVE  ServiceInv' /\ Service!Next
  <2>1. /\ ServicePhase = "asked" /\ ServicePhase' = "worked"
        /\ UNCHANGED <<pending, wire>> /\ ServiceInv'
    BY <1>serve, HandlerServes
  <2>2. Service!Serve
    BY <2>1, <1>serve, <1>same, <1>wire DEF Service!Serve
  <2> QED BY <2>1, <2>2 DEF Service!Next
<1>4. CASE RefuseCommand
  <2>1. /\ pc = "handle" /\ (pc' = "recv" \/ AfterAnswer)
        /\ io_send_response(Refusal(cmd), NoBody)
        /\ UNCHANGED <<G_context, uiVars>>
    BY <1>4 DEF RefuseCommand, io_send_sw
  <2>2. Deliverable(Answer(Refusal(cmd), NoBody), cmd)
    <3>1. Refusal(cmd) \in {"WRONG_DATA_LENGTH", "CLA_NOT_SUPPORTED", "INS_NOT_SUPPORTED",
                            "WRONG_P1P2"}
      BY <1>4 DEF RefuseCommand, Refusal
    <3> QED BY <3>1 DEF Deliverable
  <2> QED BY <2>1, <2>2, <1>serve
<1>5. CASE handler_get_version
  <2>1. Deliverable(Answer("OK", Version), cmd)
    BY DEF Deliverable
  <2> QED BY <1>5, <2>1, <1>serve DEF handler_get_version, Respond, Dispatched
<1>6. CASE handler_get_app_name
  <2>1. Deliverable(Answer("OK", AppName), cmd)
    BY DEF Deliverable
  <2> QED BY <1>6, <2>1, <1>serve DEF handler_get_app_name, Respond, Dispatched
<1>7. CASE handler_get_public_key
  <2> DEFINE path == PathRead[cmd.data].path
  <2>1. pc = "handle" /\ cmd.ins = "GET_PUBLIC_KEY" /\ path \in Paths /\ pending = cmd
    BY <1>7, DispatchedData DEF handler_get_public_key, Dispatched
  <2>2. G_context' = NewRequest("CONFIRM_ADDRESS", path)
    BY <1>7 DEF handler_get_public_key
  <2>3. ServiceSession' = Service!NoSession
    <3>1. G_context'.req_type = "CONFIRM_ADDRESS"
      BY <2>1, <2>2, ContextTypes
    <3> QED BY <3>1 DEF ServiceSession, Service!NoSession
  <2>4. ASSUME ServicePhase = "asked", UNCHANGED <<pending, wire>>,
               ServicePhase' = "worked" \/ (cmd.p1 = 1 /\ ServicePhase' = "review")
        PROVE  Service!Next
    <3>1. Service!AskKey
      BY <2>1, <2>3, <2>4, <1>wire DEF Service!AskKey
    <3> QED BY <3>1 DEF Service!Next
  <2>5. ASSUME UNCHANGED uiVars, NEW sw, NEW body \in Body, io_send_response(sw, body),
               pc' = "recv" \/ AfterAnswer, Deliverable(Answer(sw, body), cmd)
        PROVE  ServiceInv' /\ Service!Next
    BY <2>1, <2>4, <2>5, HandlerServes
  <2>6. ASSUME NEW sw \in {"WRONG_DATA_LENGTH", "DISPLAY_BIP32_PATH_FAIL", "EXCEPTION"}
        PROVE  Deliverable(Answer(sw, NoBody), cmd)
    BY DEF Deliverable
  <2>7. CASE UNCHANGED uiVars /\ \/ Respond("WRONG_DATA_LENGTH", NoBody)
                                 \/ Respond("DISPLAY_BIP32_PATH_FAIL", NoBody)
                                 \/ Catch
    BY <2>5, <2>6, <2>7 DEF Respond, Catch, io_send_sw
  <2>8. CASE UNCHANGED uiVars /\ cmd.p1 = 0 /\ Respond("OK", PubKey(path))
    <3>1. Deliverable(Answer("OK", PubKey(path)), cmd)
      BY <2>1, <2>8 DEF Deliverable
    <3> QED BY <2>1, <2>5, <2>8, <3>1 DEF Respond
  <2>9. CASE cmd.p1 = 1 /\ Review(AddressReview(path), "pubkey")
    <3>1. AddressReview(path).flow # "menu"
      BY DEF AddressReview
    <3> QED BY <2>1, <2>4, <2>9, <3>1, HandlerAsks
  <2> QED BY <1>7, <2>7, <2>8, <2>9 DEF handler_get_public_key, ui_display_address
<1>8. CASE sign_tx_path
  <2> DEFINE path == PathRead[cmd.data].path
             sw == IF PathRead[cmd.data].ok THEN "OK" ELSE "WRONG_DATA_LENGTH"
  <2>1. /\ pc = "handle" /\ cmd.ins = "SIGN_TX" /\ cmd.p1 = 0 /\ path \in Paths
        /\ pending = cmd
    BY <1>8, DispatchedData DEF sign_tx_path, Dispatched, P1_START
  <2>2. ServiceSession' = Service!Session(path, <<>>)
    <3>1. /\ G_context'.req_type = "CONFIRM_TRANSACTION"
          /\ G_context'.bip32_path = path /\ G_context'.raw_tx = <<>>
      BY <1>8, <2>1, ContextTypes DEF sign_tx_path
    <3> QED BY <3>1 DEF ServiceSession, Service!Session
  <2>3. Deliverable(Answer(sw, NoBody), cmd)
    BY DEF Deliverable
  <2>4. /\ ServicePhase = "asked" /\ ServicePhase' = "worked"
        /\ UNCHANGED <<pending, wire>> /\ ServiceInv'
    BY <1>8, <2>1, <2>3, HandlerServes DEF sign_tx_path, Respond
  <2>5. Service!Open
    BY <2>1, <2>2, <2>4, <1>wire DEF Service!Open
  <2> QED BY <2>4, <2>5 DEF Service!Next
<1>9. CASE sign_tx_refuse
  <2>1. Deliverable(Answer(ChunkRefusal, NoBody), cmd)
    <3>1. ChunkRefusal \in {"BAD_STATE", "WRONG_TX_LENGTH"}
      BY <1>9 DEF sign_tx_refuse, ChunkRefusal
    <3> QED BY <3>1 DEF Deliverable
  <2> QED BY <1>9, <2>1, <1>serve DEF sign_tx_refuse, Respond, TxChunk, Dispatched
<1>extend. ASSUME TxChunk, ChunkRefusal = "OK", UNCHANGED <<pending, wire>>,
                  G_context'.req_type = Extended.req_type,
                  G_context'.bip32_path = Extended.bip32_path,
                  G_context'.raw_tx = Extended.raw_tx,
                  ServicePhase = "asked",
                  ServicePhase' \in IF cmd.p2 = 0 THEN {"worked", "review"} ELSE {"worked"}
           PROVE  Service!Next
  <2>1. /\ cmd.ins = "SIGN_TX" /\ cmd.p1 # 0 /\ pending = cmd
    BY <1>extend, <1>cmd DEF TxChunk, Dispatched, P1_START
  <2>2. /\ Extended.req_type = "CONFIRM_TRANSACTION"
        /\ Extended.bip32_path = G_context.bip32_path
        /\ Extended.raw_tx = Append(G_context.raw_tx, cmd.data)
        /\ G_context.req_type = "CONFIRM_TRANSACTION"
    BY <1>extend, ExtendedType DEF ChunkRefusal
  <2>3. /\ ServiceSession = Service!Session(G_context.bip32_path, G_context.raw_tx)
        /\ ServiceSession' = Service!Session(G_context.bip32_path,
                                             Append(G_context.raw_tx, cmd.data))
    BY <1>extend, <2>2 DEF ServiceSession, Service!Session
  <2>4. /\ ServiceSession.open
        /\ ServiceSession.path = G_context.bip32_path /\ ServiceSession.tx = G_context.raw_tx
    BY <2>3 DEF Service!Session
  <2>5. Service!Extend
    BY <1>extend, <2>1, <2>3, <2>4, <1>wire DEF Service!Extend
  <2> QED BY <2>5 DEF Service!Next
<1>10. CASE sign_tx_more
  <2>1. pc = "handle" /\ TxChunk /\ ChunkRefusal = "OK" /\ cmd.p2 # 0 /\ G_context' = Extended
    BY <1>10 DEF sign_tx_more, TxChunk, Dispatched, P2_MORE
  <2>2. Deliverable(Answer("OK", NoBody), cmd)
    BY DEF Deliverable
  <2>3. /\ ServicePhase = "asked" /\ ServicePhase' = "worked"
        /\ UNCHANGED <<pending, wire>> /\ ServiceInv'
    BY <1>10, <2>1, <2>2, HandlerServes DEF sign_tx_more, Respond
  <2> QED BY <2>1, <2>3, <1>extend
<1>11. CASE sign_tx_last
  <2> DEFINE tx == Extended.raw_tx
  <2>1. pc = "handle" /\ TxChunk /\ ChunkRefusal = "OK" /\ cmd.p2 = 0
    BY <1>11 DEF sign_tx_last, TxChunk, Dispatched, P2_LAST
  <2>2. Extended \in Context /\ tx \in TxData
    BY <2>1, ExtendedType
  <2>3. /\ G_context'.req_type = Extended.req_type
        /\ G_context'.bip32_path = Extended.bip32_path
        /\ G_context'.raw_tx = tx
    BY <1>11, <2>2 DEF sign_tx_last, Context
  <2>4. CASE Verdict[tx] = "error"
    <3>1. Deliverable(Answer("TX_PARSING_FAIL", NoBody), cmd)
      BY DEF Deliverable
    <3>2. /\ ServicePhase = "asked" /\ ServicePhase' = "worked"
          /\ UNCHANGED <<pending, wire>> /\ ServiceInv'
      BY <1>11, <2>1, <2>4, <3>1, HandlerServes DEF sign_tx_last, Respond
    <3> QED BY <2>1, <2>3, <3>2, <1>extend
  <2>5. CASE Verdict[tx] # "error"
    <3>1. TxReview(Verdict[tx], tx).flow # "menu"
      BY <2>2, <2>5, VerdictAssumption, MenuFlow DEF TxReview
    <3>2. /\ ServicePhase = "asked" /\ ServicePhase' = "review"
          /\ UNCHANGED <<pending, wire>> /\ ServiceInv'
      BY <1>11, <2>1, <2>5, <3>1, HandlerAsks DEF sign_tx_last, ui_display_transaction
    <3> QED BY <2>1, <2>3, <3>2, <1>extend
  <2> QED BY <2>4, <2>5
<1>12. CASE Decide
  <2>1. Blocked /\ screen # Menu /\ pc # "boot"
    BY <1>12 DEF Decide, ui_action_validate_pubkey, approve_signed, approve_failed,
                 approve_thrown, reject_transaction, Pressed, Blocked
  <2>2. Opened(pending)
    BY <2>1 DEF OrderlyInv, ReviewHasRequest
  <2>3. ASSUME NEW sw, NEW body \in Body, io_send_response(sw, body), ui_menu_main,
               UNCHANGED pc, \/ UNCHANGED G_context
                             \/ \E s \in {"NONE", "APPROVED"} : SetState(s)
        PROVE  ServicePhase = "review" /\ Service!Reply(Answer(sw, body)) /\ ServiceInv'
    <3>1. UNCHANGED ServiceSession
      BY <2>3, <1>ctx DEF SetState, ServiceSession, Context
    <3> QED BY <2>1, <2>3, <3>1, DecisionReplies
          DEF Service!Reply, Service!NoRequest, NoCommand, ServiceAnswer
  <2>4. ASSUME ServicePhase = "review", Service!Reply(Answer("DENY", NoBody))
        PROVE  Service!Next
    BY <2>4 DEF Service!Next, Service!Reject, Service!Status, Answer, NoBody
  <2>5. CASE g_validate_callback = "pubkey"
    <3>1. PICK choice \in BOOLEAN : ui_action_validate_pubkey(choice)
      BY <1>12, <2>5 DEF Decide, approve_signed, approve_failed, approve_thrown,
                         reject_transaction, Pressed
    <3>2. pending.ins = "GET_PUBLIC_KEY" /\ PathRead[pending.data].path = G_context.bip32_path
      BY <2>2, <2>5, MenuFlow DEF OrderlyInv, ReviewMatchesContext, Opened
    <3>3. ui_menu_main /\ UNCHANGED pc /\ UNCHANGED G_context
      BY <3>1 DEF ui_action_validate_pubkey
    <3>4. CASE choice
      <4> DEFINE body == PubKey(G_context.bip32_path)
      <4>1. body \in Body
        BY <1>ctx DEF Context
      <4>2. ServicePhase = "review" /\ Service!Reply(Answer("OK", body)) /\ ServiceInv'
        BY <2>3, <3>1, <3>3, <3>4, <4>1 DEF ui_action_validate_pubkey
      <4>3. Service!Approve
        BY <3>2, <4>2 DEF Service!Approve, Service!Filled, Answer, PubKey
      <4> QED BY <4>2, <4>3 DEF Service!Next
    <3>5. CASE ~choice
      <4>1. ServicePhase = "review" /\ Service!Reply(Answer("DENY", NoBody)) /\ ServiceInv'
        BY <2>3, <3>1, <3>3, <3>5 DEF ui_action_validate_pubkey, io_send_sw
      <4> QED BY <2>4, <4>1
    <3> QED BY <3>4, <3>5
  <2>6. CASE g_validate_callback = "transaction"
    <3>1. pending.ins = "SIGN_TX" /\ G_context.req_type = "CONFIRM_TRANSACTION"
      BY <2>2, <2>6, MenuFlow DEF OrderlyInv, ReviewMatchesContext, Opened
    <3>2. G_context.bip32_path \in Derivable
      BY <3>1 DEF OrderlyInv, LoopInv
    <3>3. CASE approve_signed
      <4> DEFINE body == Signature(G_context.bip32_path, G_context.raw_tx)
      <4>1. body \in Body
        BY <1>ctx DEF Context
      <4>2. ServicePhase = "review" /\ Service!Reply(Answer("OK", body)) /\ ServiceInv'
        BY <2>3, <3>3, <4>1 DEF approve_signed
      <4>3. ServiceSession.path = G_context.bip32_path /\ ServiceSession.tx = G_context.raw_tx
        BY <3>1 DEF ServiceSession
      <4>4. Service!Approve
        BY <3>1, <4>2, <4>3 DEF Service!Approve, Service!Filled, Answer, Signature
      <4> QED BY <4>2, <4>4 DEF Service!Next
    <3>4. CASE approve_failed
      <4>1. /\ ServicePhase = "review" /\ Service!Reply(Answer("SIGNATURE_FAIL", NoBody))
            /\ ServiceInv'
        BY <2>3, <3>4 DEF approve_failed, io_send_sw
      <4>2. Service!Approve
        BY <3>1, <4>1 DEF Service!Approve, Service!Status, Answer, NoBody
      <4> QED BY <4>1, <4>2 DEF Service!Next
    <3>5. CASE approve_thrown
      BY <3>2, <3>5 DEF approve_thrown, crypto_sign_message, SigningNeverThrows
    <3>6. CASE reject_transaction
      <4>1. ServicePhase = "review" /\ Service!Reply(Answer("DENY", NoBody)) /\ ServiceInv'
        BY <2>3, <3>6 DEF reject_transaction, io_send_sw
      <4> QED BY <2>4, <4>1
    <3> QED BY <1>12, <2>6, <3>3, <3>4, <3>5, <3>6
          DEF Decide, ui_action_validate_pubkey, Pressed
  <2> QED BY <1>12, <2>1, <2>5, <2>6
        DEF Decide, ui_action_validate_pubkey, approve_signed, approve_failed,
            approve_thrown, reject_transaction, Pressed
<1>13. CASE IoReset \/ Quit
  <2>1. /\ pc \in {"exchange", "asynch"} /\ pc' \in {"boot", "off"}
        /\ UNCHANGED <<G_context, screen, pending, wire>>
    BY <1>13 DEF IoReset, Quit, Blocked, uiVars, linkVars
  <2>2. ServiceInv'
    BY <2>1 DEF ServiceInv
  <2>3. UNCHANGED Service!vars
    BY <2>1, <1>same, <1>wire DEF Service!vars, ServicePhase
  <2> QED BY <2>2, <2>3
<1>14. CASE Launch
  <2>1. /\ pc = "off" /\ pc' = "boot" /\ G_context' = ZeroContext
        /\ UNCHANGED <<pending, wire>>
    BY <1>14 DEF Launch, linkVars
  <2>2. pending = NoCommand
    BY <2>1 DEF ServiceInv, OrderlyInv, LoopInv
  <2>3. ServiceInv'
    BY <2>1 DEF ServiceInv
  <2>4. ServicePhase' = "idle" /\ ServiceSession' = Service!NoSession
    BY <2>1, <2>2 DEF ServicePhase, ServiceSession, Service!NoSession, ZeroContext
  <2>5. Service!Reset
    BY <2>1, <2>2, <2>4, <1>wire DEF Service!Reset, Service!NoRequest, NoCommand
  <2> QED BY <2>3, <2>5 DEF Service!Next
<1>15. CASE UNCHANGED vars
  <2>1. /\ UNCHANGED <<pc, G_io_state, G_output_len, G_io_apdu_buffer>>
        /\ UNCHANGED <<G_context, screen, pending, wire>>
    BY <1>15 DEF vars, ioVars, uiVars, linkVars
  <2>2. ServiceInv'
    BY <2>1 DEF ServiceInv, Deliverable
  <2>3. UNCHANGED Service!vars
    BY <2>1, <1>same, <1>wire DEF Service!vars, ServicePhase
  <2> QED BY <2>2, <2>3
<1> QED
  BY <1>1, <1>2, <1>3, <1>4, <1>5, <1>6, <1>7, <1>8, <1>9, <1>10, <1>11, <1>12, <1>13,
     <1>14, <1>15 DEF Next, Handle

\* The application is the service (main.c, io.c, handler/, validate.c): one
\* request at a time, answered once, each chunk taken once, and a signature over
\* the session that was under review when the user approved.
THEOREM ServiceImplemented == SigningNeverThrows => (Spec => ServiceSpec)
<1> SUFFICES ASSUME SigningNeverThrows PROVE Spec => ServiceSpec
  OBVIOUS
<1>1. Init => ServiceInv /\ Service!Init
  BY DEF Init, ServiceInv, Service!Init, ServicePhase, ServiceSession, ServiceAnswer,
         Service!NoRequest, Service!NoSession, NoCommand, Silence, Blank, ZeroContext
<1>2. TypeInv /\ OrderlyInv /\ ServiceInv /\ [Next]_vars
        => ServiceInv' /\ [Service!Next]_Service!vars
  BY ServiceStep
<1> QED BY <1>1, <1>2, OrderlyInvariant, PTL DEF Spec, ServiceSpec, Service!Spec

=============================================================================
