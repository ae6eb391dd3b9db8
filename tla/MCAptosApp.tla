----------------------------- MODULE MCAptosApp -----------------------------
(***************************************************************************)
(* AptosApp on a small instance: a buffer of 3 bytes, chunks of 1 and 2,   *)
(* and one path of each kind.                                              *)
(***************************************************************************)
EXTENDS AptosAppProperties

CONSTANTS a, b,                         \* transaction chunks
          good, long, far, short,       \* the data fields that carry paths
          pGood, pLong, pFar, pPart     \* the paths they leave

MCData == {a, b, good, long, far, short}
MCDataLen == [d \in MCData |-> IF d = b THEN 2 ELSE 1]
MCPaths == {NoPath, pGood, pLong, pFar, pPart}
\* short is refused, and leaves what was read of it in the context.
MCPathRead == [d \in MCData |->
  CASE d = good -> [ok |-> TRUE, path |-> pGood]
    [] d = long -> [ok |-> TRUE, path |-> pLong]
    [] d = far -> [ok |-> TRUE, path |-> pFar]
    [] d = short -> [ok |-> FALSE, path |-> pPart]
    [] OTHER -> [ok |-> FALSE, path |-> NoPath]]

\* Prefixes of an accepted transaction that do not parse, that parse as
\* something else, and transactions of every flow.
MCVerdict == [tx \in TxData |->
  CASE tx = <<a>> -> "message"
    [] tx = <<a, b>> -> "account_transfer"
    [] tx = <<b, a>> -> "entry_function"
    [] tx = <<a, a, a>> -> "coin_transfer"
    [] tx = <<a, a>> -> "default"
    [] OTHER -> "error"]

Cmd(ins, p1, p2, data) == [kind |-> "command", wellFormed |-> TRUE, cla |-> "APTOS",
                           ins |-> ins, p1 |-> p1, p2 |-> p2, data |-> data]
Refusable == {[Cmd("GET_VERSION", 0, 0, NoData) EXCEPT !.wellFormed = FALSE],
              [Cmd("GET_VERSION", 0, 0, NoData) EXCEPT !.cla = "OTHER"],
              Cmd("OTHER", 0, 0, NoData), Cmd("GET_VERSION", 1, 0, NoData),
              Cmd("GET_PUBLIC_KEY", 0, 0, NoData), Cmd("GET_PUBLIC_KEY", 2, 0, good),
              Cmd("SIGN_TX", 0, P2_LAST, good), Cmd("SIGN_TX", 4, P2_MORE, a)}
Simple == {Cmd("GET_VERSION", 0, 0, NoData), Cmd("GET_APP_NAME", 0, 0, NoData)}
KeyRequests == {Cmd("GET_PUBLIC_KEY", p1, 0, d) : p1 \in {0, 1}, d \in {good, long, far, short}}
PathChunks(ds) == {Cmd("SIGN_TX", 0, P2_MORE, d) : d \in ds}
TxChunks(p1s) == {Cmd("SIGN_TX", p1, p2, d) : p1 \in p1s, p2 \in {P2_LAST, P2_MORE}, d \in {a, b}}

\* A host that signs with derivable paths, well read or refused.
OrderlyHost == Refusable \cup Simple \cup KeyRequests \cup PathChunks({good, short}) \cup TxChunks({1, 3})
\* A host that also signs with a path the OS refuses.
AnyHost == Simple \cup KeyRequests \cup PathChunks({good, far}) \cup TxChunks({1})
=============================================================================
