-------------------------------- MODULE Chain --------------------------------
(***************************************************************************)
(* The chain the JSON-RPC queries read, as rpc/backend sees it through the *)
(* Tendermint client and the gRPC queries.  A block is stored, its results *)
(* are saved, and the application commits it: a query meets any of these   *)
(* moments.                                                                *)
(*                                                                         *)
(* A block is a base fee, nil before London, and a sequence of             *)
(* transactions, each with what became of it, its gas, and its messages.   *)
(* It went "ok", it "failed", its messages were "dropped" because they     *)
(* exceed the block gas, or it was not tried because the block was "full". *)
(* A message has a name, logs and a tip.                                   *)
(***************************************************************************)
EXTENDS Integers, Sequences, FiniteSets, SequencesExt

CONSTANTS
  Nil,       \* nothing there
  Block,     \* the blocks there may be
  MaxHeight  \* bound on the height

ASSUME HeightAssumption == MaxHeight \in Nat

VARIABLES
  chain,     \* the stored blocks
  executed,  \* height of the last saved results
  app        \* height of the application

chainVars == <<chain, executed, app>>

ChainInit == chain = <<>> /\ executed = 0 /\ app = 0

StoreBlock ==
  /\ app = Len(chain) /\ Len(chain) < MaxHeight
  /\ \E b \in Block : chain' = Append(chain, b)
  /\ UNCHANGED <<executed, app>>

SaveResults ==
  /\ executed < Len(chain)
  /\ executed' = executed + 1
  /\ UNCHANGED <<chain, app>>

CommitApp ==
  /\ app < executed
  /\ app' = app + 1
  /\ UNCHANGED <<chain, executed>>

ChainNext == StoreBlock \/ SaveResults \/ CommitApp

-----------------------------------------------------------------------------
(* Block numbers.                                                          *)
EthPendingBlockNumber == -2
EthLatestBlockNumber == -1
EthEarliestBlockNumber == 0

BlockNumbers == EthPendingBlockNumber .. MaxHeight + 1

(* BlockNumber.Int64.                                                      *)
Int64(bn) == IF bn < 0 THEN 0 ELSE IF bn = 0 THEN 1 ELSE bn

(* The height GetTendermintBlockByNumber asks the client for, and whether  *)
(* there is a block, results and an application state of a height.         *)
TendermintHeight_store(bn) ==   \* faulty variant: the last stored block
  IF Int64(bn) <= 0 THEN Len(chain) ELSE Int64(bn)
TendermintHeight(bn) == IF Int64(bn) <= 0 THEN app ELSE Int64(bn)
HasBlock(h) == h \in 1 .. Len(chain)
HasResults(h) == h \in 1 .. executed
HasState(h) == h \in 1 .. app

(* The messages of a transaction, of a block, and those of it with an      *)
(* effect on the state.                                                    *)
Messages(txs) == FlattenSeq([i \in DOMAIN txs |-> txs[i].msgs])
Succeeded(txs) == SelectSeq(txs, LAMBDA tx : tx.code = "ok")
Effects(h) == Messages(Succeeded(chain[h].txs))

(* AllTxLogsFromEvents of the results of a block.                          *)
LogsOf(msgs) == FlattenSeq([i \in DOMAIN msgs |-> msgs[i].logs])
BlockLogs(h) == LogsOf(Effects(h))

=============================================================================
