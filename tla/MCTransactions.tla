--------------------------- MODULE MCTransactions ---------------------------
(* Instances of Transactions and Receipts for TLC.                         *)
EXTENDS Receipts

MCSender == {"alice", "bob"}
MCOther == {"feeCollector", "distribution", "contract"}

transfer(from, nonce, to, value) ==
  [from |-> from, nonce |-> nonce, to |-> to, dynamic |-> FALSE, gas |-> 2,
   cap |-> 2, tip |-> 2, value |-> value, intrinsic |-> 1]
dynamicTransfer(from, nonce, to, value) ==
  [transfer(from, nonce, to, value) EXCEPT !.dynamic = TRUE, !.gas = 3,
                                         !.intrinsic = 2, !.cap = 5, !.tip = 3]
creation(from, nonce) == transfer(from, nonce, "nobody", 1)
exact(msg) == [msg EXCEPT !.intrinsic = msg.gas]   \* leaves no gas
cheap(from, nonce) ==   \* below the intrinsic gas
  [transfer(from, nonce, "contract", 0) EXCEPT !.gas = 1, !.intrinsic = 2]
large(from, nonce) ==
  [transfer(from, nonce, "contract", 1) EXCEPT !.gas = 4]
free(from, nonce) ==
  [transfer(from, nonce, "contract", 0) EXCEPT !.cap = 0, !.tip = 0]

ethereumTx(msgs) ==
  [option |-> "ethereum", msgs |-> msgs, send |-> NoSend, gas |-> txGasLimit(msgs),
   wellFormed |-> TRUE, signed |-> TRUE]
bankSend(from, nonce, to, amount) ==
  [from |-> from, nonce |-> nonce, to |-> to, amount |-> amount, fee |-> 2]
cosmosTx(option, payment) ==
  [option |-> option, msgs |-> <<>>, send |-> payment, gas |-> 2,
   wellFormed |-> TRUE, signed |-> TRUE]

MCGenesisSeq == [a \in MCSender |-> 0]
MCGenesisSeq_new == [a \in MCSender |-> IF a = "alice" THEN 0 ELSE -1]
genesisBank(alice, bob) ==
  [a \in MCSender \cup MCOther |-> CASE a = "alice" -> alice [] a = "bob" -> bob [] OTHER -> 0]
MCGenesisBank == genesisBank(11, 10)
MCGenesisBank_rich == genesisBank(17, 16)   \* pays for dynamic fees

baseFee(f) == [create |-> TRUE, call |-> TRUE, feeMarket |-> TRUE, baseFee |-> f]
noBaseFee == [create |-> TRUE, call |-> TRUE, feeMarket |-> FALSE, baseFee |-> 0]

MCEvmLogs == {<<"x">>, <<"y", "x">>}
MCHookLogs == {<<>>, <<"y">>}
NoLogs == {<<>>}

Half == [num |-> 1, den |-> 2]

(* Blocks: a multi-message and a creating transaction, one that declares   *)
(* another gas limit than its message has, one of the Cosmos SDK, and a    *)
(* block gas limit they do not all fit in.                                 *)
BlockTxs ==
  {ethereumTx(<<dynamicTransfer("alice", 0, "bob", 1), exact(transfer("alice", 1, "contract", 0))>>),
   ethereumTx(<<dynamicTransfer("bob", 0, "feeCollector", 1)>>),
   ethereumTx(<<creation("bob", 1)>>),
   [ethereumTx(<<creation("bob", 1)>>) EXCEPT !.gas = 3],
   cosmosTx("none", bankSend("alice", 2, "bob", 1))}
BlockParams == {baseFee(1)}

(* The mempool before London: pending runs of nonces, an account CheckTx   *)
(* creates, transactions the ante handler turns away for each of its       *)
(* reasons, and gas refunds up to half the gas used.                       *)
MempoolTxs ==
  {ethereumTx(<<large("alice", 0), transfer("bob", 0, "alice", 1)>>),
   ethereumTx(<<transfer("alice", 0, "contract", 1)>>),
   ethereumTx(<<transfer("alice", 1, "contract", 0), transfer("alice", 2, "bob", 1)>>),
   ethereumTx(<<cheap("alice", 1)>>),
   ethereumTx(<<free("bob", 0)>>),
   ethereumTx(<<creation("alice", 1)>>),
   ethereumTx(<<dynamicTransfer("alice", 0, "bob", 1)>>),
   [ethereumTx(<<transfer("alice", 0, "contract", 1)>>) EXCEPT !.signed = FALSE],
   [ethereumTx(<<transfer("alice", 0, "contract", 1)>>) EXCEPT !.wellFormed = FALSE],
   cosmosTx("web3", bankSend("alice", 1, "bob", 1)),
   cosmosTx("unknown", bankSend("alice", 0, "bob", 1)),
   [cosmosTx("none", bankSend("alice", 0, "bob", 1)) EXCEPT
      !.msgs = <<large("alice", 0)>>]}
MempoolParams == {noBaseFee, [noBaseFee EXCEPT !.create = FALSE]}

(* Fees while the fee market is off.                                       *)
RateParams == {noBaseFee}
RateTxs == {ethereumTx(<<dynamicTransfer("alice", 0, "bob", 0)>>)}

(* A creation and a call of the same sender in one transaction.            *)
SequenceTxs == {ethereumTx(<<creation("alice", 0), transfer("alice", 1, "bob", 0)>>)}

=============================================================================
