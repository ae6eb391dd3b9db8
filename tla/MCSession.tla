----------------------------- MODULE MCSession -----------------------------
(***************************************************************************)
(* Session on lengths and numbers scaled as those of TxParser and Screens:  *)
(* a byte has 5 bits, an address 4 bytes, an integer 3.  One transfer comes *)
(* in two chunks, of which the first alone does not parse; the other chunks *)
(* are whole transactions, a text, and bytes that follow anything.          *)
(***************************************************************************)
EXTENDS Session

CONSTANTS coin, call, script, data, half1, half2, note, tail,  \* chunks
          good, long, short                                    \* data fields of paths

Prefix == <<20, 3, 4, 5>>
PrefixWithData == <<21, 4, 4, 4>>
MCAptosAccount == <<10, 11>>
MCCoin == <<12>>
MCTransfer == <<13>>

Common(amount, price, name) ==
  [sender |-> <<1, 2, 3, 4>>, sequence |-> <<3, 0, 0>>, module_address |-> <<0, 0, 0, 1>>,
   module_name |-> name, function_name |-> MCTransfer,
   max_gas_amount |-> <<10, 0, 0>>, gas_unit_price |-> price,
   expiration_timestamp_secs |-> <<8, 8, 8>>, chain_id |-> <<9>>,
   receiver |-> <<31, 0, 17, 2>>, amount |-> amount]
With(r, s) == [f \in DOMAIN r \cup DOMAIN s |-> IF f \in DOMAIN s THEN s[f] ELSE r[f]]
Account == With(Common(<<7, 0, 0>>, <<1, 2, 0>>, MCAptosAccount), [kind |-> "account"])
CoinTx == With(Common(<<31, 31, 31>>, <<0, 1, 0>>, MCCoin),
               [kind |-> "coin", coin_address |-> <<9, 0, 0, 16>>, coin_module |-> <<14>>,
                coin_name |-> <<12, 15>>])
\* Its names are cut by one character.
CallTx == With([Common(<<>>, <<2, 0, 0>>, <<14, 10>>) EXCEPT !.function_name = <<13, 15, 15>>],
               [kind |-> "call", call |-> <<0, 1, 1, 9>>])
MCTransactions == {Account, CoinTx, CallTx}

Half == 30
MCData == {coin, call, script, data, half1, half2, note, tail, good, long, short}
MCChunkBytes == [d \in MCData |->
  CASE d = coin -> Parser!Encode(CoinTx)
    [] d = call -> Parser!Encode(CallTx)
    [] d = script -> Prefix \o <<1, 2, 3, 4>> \o <<3, 0, 0>> \o <<0, 5>> \o <<1, 1, 0>> \o <<2, 0, 0>>
                       \o <<8, 8, 8>> \o <<9>>
    [] d = data -> PrefixWithData \o <<1, 1, 1, 1, 1, 1>>
    [] d = half1 -> SubSeq(Parser!Encode(Account), 1, Half)
    [] d = half2 -> SubSeq(Parser!Encode(Account), Half + 1, Len(Parser!Encode(Account)))
    [] d = note -> <<10, 11, 0, 12>>
    [] d = tail -> <<1, 2>>
    [] OTHER -> <<1>>]

\* What the bytes were made as; more bytes behind a call, a transfer of a coin,
\* a script or what is not read make another one, behind the other transfer none.
MCVerdict == [s \in BoundedSeq(MCData, MaxChunks) |->
  CASE s # <<>> /\ s[1] = coin -> "coin_transfer"
    [] s # <<>> /\ s[1] = call -> "entry_function"
    [] s # <<>> /\ s[1] \in {script, data} -> "default"
    [] s = <<half1, half2>> -> "account_transfer"
    [] s # <<>> /\ ToSet(s) \subseteq {half2, note, tail} -> "message"
    [] OTHER -> "error"]

Component(n, h) == [index |-> n, hardened |-> h]
pGood == <<Component(44, TRUE), Component(7, FALSE)>>
pLong == <<Component(123, TRUE), Component(123, TRUE), Component(7, FALSE)>>
MCPaths == {<<>>, pGood, pLong}
MCNoPath == <<>>
MCPathRead == [d \in MCData |->
  CASE d = good -> [ok |-> TRUE, path |-> pGood]
    [] d = long -> [ok |-> TRUE, path |-> pLong]
    [] OTHER -> [ok |-> FALSE, path |-> <<>>]]
MCDerivable == {pGood, pLong}
MCAddressOf == [p \in MCPaths |-> IF p = pGood THEN <<1, 30, 0, 5>> ELSE <<2, 2, 2, 2>>]

MCChar == [b \in 0..31 |-> CASE b = 0 -> NUL [] b \in 1..12 -> "a" [] b = 13 -> "t" [] OTHER -> "c"]
MCTypeText == [script |-> <<"R", "[", "S", "]">>, with_data |-> <<"R", "W">>,
               unknown_payload |-> <<"R", "[", "U", "]">>, unknown |-> <<"u">>]

Cmd(ins, p1, p2, d) == [kind |-> "command", wellFormed |-> TRUE, cla |-> "APTOS",
                        ins |-> ins, p1 |-> p1, p2 |-> p2, data |-> d]
MCHostCommands ==
  {Cmd("GET_PUBLIC_KEY", 1, 0, good), Cmd("GET_PUBLIC_KEY", 1, 0, long), Cmd("GET_PUBLIC_KEY", 0, 0, good),
   Cmd("SIGN_TX", 0, 128, good), Cmd("SIGN_TX", 0, 0, good)}
  \cup {Cmd("SIGN_TX", 1, 0, d) : d \in {coin, call, script, data, half1, half2, note, tail}}
  \cup {Cmd("SIGN_TX", 1, 128, d) : d \in {half1, note}}
=============================================================================
