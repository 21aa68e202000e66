----------------------------- MODULE MCQueries -----------------------------
(* A small chain and small requests for TLC.                               *)
EXTENDS Queries

log(address, topics) == [address |-> address, topics |-> topics]
message(name, logs, tip) == [name |-> name, logs |-> logs, tip |-> tip]
tx(msgs, code, gas) == [msgs |-> msgs, code |-> code, gas |-> gas]

transfer == message("transfer", <<log("a", <<"t", "u">>)>>, 3)
approve == message("approve", <<log("b", <<"u">>), log("a", <<>>)>>, 1)
call == message("call", <<log("b", <<"t">>)>>, 2)
disabled == message("disabled", <<>>, 4)

(* All well; a failed transaction between two others, one of two messages  *)
(* and one that no longer fits the block; and no transaction and no base   *)
(* fee.                                                                    *)
MCBlock ==
  {[baseFee |-> 1, txs |-> <<tx(<<transfer>>, "ok", 5), tx(<<approve, call>>, "ok", 3)>>],
   [baseFee |-> 2, txs |-> <<tx(<<approve>>, "ok", 2), tx(<<>>, "ok", 4),
                             tx(<<disabled>>, "failed", 2), tx(<<transfer>>, "dropped", 1),
                             tx(<<call>>, "full", 7)>>],
   [baseFee |-> Nil, txs |-> <<>>]}
MCRefused == {disabled}

MCAddress == {"a", "b", "c"}
MCTopic == {"t", "u"}
MCCriteria ==
  {[addresses |-> {}, topics |-> <<>>],
   [addresses |-> {"a", "b"}, topics |-> <<{}, {"u"}>>],
   [addresses |-> {"a", "c"}, topics |-> <<{"t", "u"}>>],
   [addresses |-> {}, topics |-> <<{"u"}>>]}

MCPercentiles == {<<0, 50, 100>>, <<60, 25>>}

MCGasArg == {NoGas, 1, 3, 9}
MCMaxGas == {-1, 0, 1, 4, 9}

(* A plain call with every choice of fees, and every kind of payload.      *)
fees(price, max, tip) ==
  [gasPrice |-> price, maxFeePerGas |-> max, maxPriorityFeePerGas |-> tip,
   to |-> "a", gas |-> 1, data |-> Nil, input |-> Nil, accessList |-> Nil]
plain == fees(Nil, Nil, Nil)
MCArgs ==
  {fees(p, Nil, Nil) : p \in {Nil, 0, 3}}
  \cup {fees(Nil, max, tip) : max, tip \in {Nil, 0, 1, 4}}
  \cup {fees(3, 4, Nil), fees(3, Nil, 1)}
  \cup {[plain EXCEPT !.gas = g] : g \in {Nil, 9}}
  \cup {[plain EXCEPT !.to = to, !.data = data, !.input = input] :
          to \in {"a", Nil}, data \in {Nil, <<>>, <<"x">>}, input \in {Nil, <<"x">>}}
  \cup {[fees(3, Nil, Nil) EXCEPT !.accessList = <<"a">>],
        [plain EXCEPT !.accessList = <<"a">>]}

=============================================================================
