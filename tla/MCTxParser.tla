------------------------------ MODULE MCTxParser ------------------------------
(***************************************************************************)
(* Small lengths: a byte has 5 bits, an address 2 bytes, an integer one, a  *)
(* name one or two letters or, to need two groups of length, seventeen.     *)
(***************************************************************************)
EXTENDS TxParserProperties

Prefix == <<20, 3>>
PrefixWithData == <<21, 4>>
MCAptosAccount == <<10, 11>>
MCCoin == <<12>>
MCTransfer == <<13>>

Call(kind, address, module, function) ==
  [kind |-> kind, sender |-> <<1, 2>>, sequence |-> <<3>>, module_address |-> address,
   module_name |-> module, function_name |-> function, receiver |-> <<4, 17>>, amount |-> <<5>>,
   coin_address |-> <<0, 1>>, coin_module |-> <<14>>, coin_name |-> <<12, 15>>,
   call |-> <<0, 1, 1, 9>>,
   max_gas_amount |-> <<6>>, gas_unit_price |-> <<7>>, expiration_timestamp_secs |-> <<8>>,
   chain_id |-> <<9>>]
Account == Call("account", <<0, 1>>, MCAptosAccount, MCTransfer)
CoinOnly == Call("coin", <<0, 1>>, MCCoin, MCTransfer)
Other == Call("call", <<0, 1>>, <<14, 10>>, <<15>>)
ElsewhereOnly == Call("call", <<1, 0>>, MCCoin, MCTransfer)
Prefixed == Call("call", <<0, 1>>, MCAptosAccount, MCTransfer \o <<14>>)
LongName == Call("call", <<0, 1>>, [i \in 1..17 |-> 10], MCTransfer)
\* The name of the function is in the bytes behind it.
Shortened == [Call("call", <<0, 1>>, MCCoin, <<>>) EXCEPT !.call = MCTransfer \o <<0, 9>>]
Keep(t, fields) == [f \in fields |-> t[f]]
Common == {"kind", "sender", "sequence", "module_address", "module_name", "function_name",
           "max_gas_amount", "gas_unit_price", "expiration_timestamp_secs", "chain_id"}
MCTransactions ==
  {Keep(Account, Common \cup {"receiver", "amount"}),
   Keep(CoinOnly, Common \cup {"receiver", "amount", "coin_address", "coin_module", "coin_name"})}
  \cup {Keep(t, Common \cup {"call"}) : t \in {Other, ElsewhereOnly, Prefixed, LongName, Shortened}}

\* One byte changed, the end cut off, one byte inserted.
Damage == {0, 1, 2, 7, 12, 16, 17, 18, 31}
Changed(s) == {[s EXCEPT ![i] = b] : i \in DOMAIN s, b \in Damage}
Cut(s) == {SubSeq(s, 1, n) : n \in 0..Len(s)}
Inserted(s) == {SubSeq(s, 1, n) \o <<b>> \o SubSeq(s, n + 1, Len(s)) : n \in 0..Len(s), b \in Damage}

Script == Prefix \o <<1, 2, 3>> \o <<0, 5>> \o <<6, 7, 8, 9>>
WithData == PrefixWithData \o <<1, 2, 3>>
\* The call of a longer name, with the arguments of a transfer.
LookAlike == [Account EXCEPT !.function_name = MCTransfer \o <<14>>]
Texts == {<<>>, <<1>>, <<1, 2, 3>>, [i \in 1..41 |-> 3]}

MCRawTxs ==
  LET base == {Encode(t) : t \in MCTransactions} \cup {Script, WithData, Encode(LookAlike)}
  IN  base \cup Texts \cup UNION {Changed(s) \cup Cut(s) \cup Inserted(s) : s \in base}

===============================================================================
