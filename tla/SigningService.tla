--------------------------- MODULE SigningService ---------------------------
(***************************************************************************)
(* What the application promises, without its loop, its I/O states and its  *)
(* buffers: one request at a time, answered once; a session that collects  *)
(* the transaction of SIGN_TX; keys shown and transactions signed only by a *)
(* decision of the user about what is under review.                        *)
(***************************************************************************)
EXTENDS Integers, Sequences

CONSTANTS
  Requests,   \* commands, as records with fields ins, p1, p2 and data
  PathRead    \* what the data of a request reads as: [ok, path]

NoRequest == [kind |-> "none"]
NoSession == [open |-> FALSE]
Session(path, tx) == [open |-> TRUE, path |-> path, tx |-> tx]

\* The kinds of answer: a status word alone, or with a body.
Status(sw) == [kind |-> "response", sw |-> sw, body |-> [type |-> "none"]]
Filled(body) == [kind |-> "response", sw |-> "OK", body |-> body]

VARIABLES
  phase,     \* "idle", "asked", "worked" (answer on its way), "review"
  request,   \* the request being served
  session,   \* path and chunks received since the last first chunk
  answer     \* the last answer and the request it answered

vars == <<phase, request, session, answer>>

Init ==
  /\ phase = "idle"
  /\ request = NoRequest
  /\ session = NoSession
  /\ answer = [bytes |-> [kind |-> "blank"], to |-> NoRequest]

Ask(c) ==
  /\ phase = "idle"
  /\ phase' = "asked"
  /\ request' = c
  /\ UNCHANGED <<session, answer>>

\* Refused, or answered without a review; the session stays as it is.
Serve ==
  /\ phase = "asked"
  /\ phase' = "worked"
  /\ UNCHANGED <<request, session, answer>>

\* GET_PUBLIC_KEY ends the session; it is served at once or reviewed.
AskKey ==
  /\ phase = "asked"
  /\ request.ins = "GET_PUBLIC_KEY"
  /\ phase' \in IF request.p1 = 1 THEN {"worked", "review"} ELSE {"worked"}
  /\ session' = NoSession
  /\ UNCHANGED <<request, answer>>

\* The first chunk of SIGN_TX opens a session with its path.
Open ==
  /\ phase = "asked"
  /\ request.ins = "SIGN_TX" /\ request.p1 = 0
  /\ phase' = "worked"
  /\ session' = Session(PathRead[request.data].path, <<>>)
  /\ UNCHANGED <<request, answer>>

\* A later chunk extends it, once per request; the last one may be reviewed.
Extend ==
  /\ phase = "asked"
  /\ request.ins = "SIGN_TX" /\ request.p1 # 0
  /\ session.open
  /\ phase' \in IF request.p2 = 0 THEN {"worked", "review"} ELSE {"worked"}
  /\ session' = Session(session.path, Append(session.tx, request.data))
  /\ UNCHANGED <<request, answer>>

Reply(r) ==
  /\ phase' = "idle"
  /\ request' = NoRequest
  /\ answer' = [bytes |-> r, to |-> request]
  /\ UNCHANGED session

\* An answer nobody was asked about carries no signature, and a key only for
\* the path of a request that asked for none to be shown.
Deliver ==
  /\ phase = "worked"
  /\ \/ \E sw \in {"OK", "WRONG_P1P2", "WRONG_DATA_LENGTH", "INS_NOT_SUPPORTED",
                   "CLA_NOT_SUPPORTED", "DISPLAY_BIP32_PATH_FAIL", "WRONG_TX_LENGTH",
                   "TX_PARSING_FAIL", "BAD_STATE", "EXCEPTION"} : Reply(Status(sw))
     \/ \E type \in {"version", "name"} : Reply(Filled([type |-> type]))
     \/ /\ request.ins = "GET_PUBLIC_KEY" /\ request.p1 = 0
        /\ Reply(Filled([type |-> "pubkey", path |-> PathRead[request.data].path]))

\* The user approves: the key of the request's path, or the signature of the
\* session's transaction with the session's path, or its failure.
Approve ==
  /\ phase = "review"
  /\ \/ /\ request.ins = "GET_PUBLIC_KEY"
        /\ Reply(Filled([type |-> "pubkey", path |-> PathRead[request.data].path]))
     \/ /\ request.ins = "SIGN_TX"
        /\ \/ Reply(Filled([type |-> "signature", path |-> session.path, tx |-> session.tx]))
           \/ Reply(Status("SIGNATURE_FAIL"))

Reject == phase = "review" /\ Reply(Status("DENY"))

\* The connection is reset, in any phase.
Reset ==
  /\ phase' = "idle"
  /\ request' = NoRequest
  /\ session' = NoSession
  /\ UNCHANGED answer

Next ==
  \/ \E c \in Requests : Ask(c)
  \/ Serve \/ AskKey \/ Open \/ Extend
  \/ Deliver
  \/ Approve \/ Reject
  \/ Reset

Spec == Init /\ [][Next]_vars
=============================================================================
