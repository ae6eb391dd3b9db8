----------------------------- MODULE MCScreens -----------------------------
(***************************************************************************)
(* Screens on 16-bit numbers with 4 decimals, addresses of 2 bytes, arrays  *)
(* scaled with them: 11 characters for a number, 7 for an address, 12 for a *)
(* function and 18 for a type.  A byte is the code of a letter, or 0.       *)
(***************************************************************************)
EXTENDS Screens

MCChar == [b \in 0..255 |-> CASE b = 0 -> NUL [] b = 97 -> "a" [] b = 98 -> "b" [] OTHER -> "c"]
MCTypeText == [script |-> <<"R", "a", "w", "[", "S", "]">>, with_data |-> <<"R", "a", "w", "W">>,
               unknown_payload |-> <<"R", "a", "w", "[", "U", "]">>, unknown |-> <<"u">>]

MCComponents == {[index |-> 7, hardened |-> FALSE],
  [index |-> 123, hardened |-> FALSE], [index |-> 123, hardened |-> TRUE]}
AllPaths == UNION {[1..n -> MCComponents] : n \in 0..3}
MCAddressOf == [p \in AllPaths |-> IF Len(p) = 1 THEN <<31, 0>> ELSE <<7, 255>>]

Zeroes == [tx_variant |-> "TX_RAW", payload_variant |-> "PAYLOAD_ENTRY_FUNCTION",
           known_type |-> "FUNC_UNKNOWN", gas_unit_price |-> 0, max_gas_amount |-> 0, amount |-> 0,
           receiver |-> <<0, 0>>, module_address |-> <<0, 1>>, module_name |-> <<97>>,
           function_name |-> <<98, 97>>, coin_address |-> <<0, 0>>, coin_module |-> <<>>,
           coin_name |-> <<>>, message |-> <<>>]
Account(amount) ==
  [Zeroes EXCEPT !.known_type = "FUNC_APTOS_ACCOUNT_TRANSFER", !.amount = amount,
                 !.receiver = <<160, amount % 256>>]
CoinTx(amount, name) ==
  [Zeroes EXCEPT !.known_type = "FUNC_COIN_TRANSFER", !.amount = amount, !.receiver = <<amount % 256, 10>>,
                 !.coin_address = <<18, 52>>, !.coin_module = <<97>>, !.coin_name = name]
\* Names that fit exactly, that are cut, and one with a NUL inside.
Names == {<<98, 97>>, <<98, 97, 99>>, <<98, 97, 99, 98>>, <<98, 0, 97>>}
FunctionTx(price, gas, name) ==
  [Zeroes EXCEPT !.gas_unit_price = price, !.max_gas_amount = gas, !.module_address = <<1, 250>>,
                 !.function_name = name]
Message(bytes) == [Zeroes EXCEPT !.tx_variant = "TX_MESSAGE", !.payload_variant = "PAYLOAD_UNDEFINED",
                                 !.message = bytes]

MCReviewed ==
  {Account(n) : n \in {0, 10, 9999, 10000, 65535}}
    \cup {CoinTx(9999, [i \in 1..k |-> 97]) : k \in {4, 5}} \cup {CoinTx(65535, <<98>>), CoinTx(0, <<98, 0>>)}
    \cup {FunctionTx(655, g, <<98>>) : g \in {100, 101}}
    \cup {FunctionTx(1, 9, n) : n \in Names}
    \cup {Message(m) : m \in {<<97, 0, 98>>, [i \in 1..18 |-> 97]}}
    \cup {[Zeroes EXCEPT !.payload_variant = "PAYLOAD_SCRIPT", !.gas_unit_price = 3, !.max_gas_amount = 5],
          [Message(<<1>>) EXCEPT !.tx_variant = "TX_RAW_WITH_DATA"]}

\* The longest path fits, one character less than fits or is cut.
MCPaths ==
  LET short == [index |-> 7, hardened |-> FALSE]
      plain == [index |-> 123, hardened |-> FALSE]
      hard == [index |-> 123, hardened |-> TRUE]
  IN  {<<>>, <<short>>, <<hard, short>>, <<hard, plain>>, <<hard, hard>>, <<plain, plain>>, <<short, short, plain>>}
=============================================================================
