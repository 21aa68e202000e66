------------------------------ MODULE Receipts ------------------------------
(***************************************************************************)
(* What the JSON-RPC server reads back from the blocks of Transactions:    *)
(* rpc/types/events.go parses the events of a DeliverTx response into one  *)
(* record per Ethereum message, and rpc/backend and the eth namespace      *)
(* build receipts, logs and lookups from them.                             *)
(***************************************************************************)
EXTENDS Transactions, SequencesExt

-----------------------------------------------------------------------------
(* ParseTxResult.                                                          *)

NewParsedTx(msgIndex) ==
  [msgIndex |-> msgIndex, hash |-> Nobody, ethTxIndex |-> -1, gasUsed |-> 0,
   failed |-> FALSE, rawLogs |-> <<>>]

(* fillTxAttributes: the attributes an event carries replace the fields.   *)
fillTxAttributes(parsed, event) ==
  [parsed EXCEPT !.hash = event.hash, !.ethTxIndex = event.txIndex,
                 !.gasUsed = IF event.short THEN @ ELSE event.txGasUsed,
                 !.failed = IF event.short THEN @ ELSE @ \/ event.failed]

newTx(p, event) ==
  [p EXCEPT !.txs = Append(@, fillTxAttributes(NewParsedTx(Len(@)), event))]

(* One ethereum_tx event: p is the format (0 until known), the eventIndex  *)
(* (from 0) and the Txs of the parser.                                     *)
parseTxEvent(p, event) ==
  LET q == IF p.format # 0 THEN p
           ELSE [p EXCEPT !.format = IF event.short THEN 2 ELSE 1]
      r == [q EXCEPT !.eventIndex = @ + 1]
  IN IF event.short THEN newTx(q, event)
     ELSE IF r.format = 1 THEN newTx(r, event)
     ELSE [r EXCEPT !.txs[r.eventIndex + 1] = fillTxAttributes(@, event)]

parseLogEvent_last(p, event) ==   \* faulty variant: logs go to the last record
  [p EXCEPT !.txs[Len(p.txs)].rawLogs = event.logs]

parseLogEvent(p, event) == [p EXCEPT !.txs[p.eventIndex + 1].rawLogs = event.logs]

parseEvent(p, event) ==
  IF event.type = "ethereum_tx" THEN parseTxEvent(p, event) ELSE parseLogEvent(p, event)

ParseTxResult(result) ==
  LET p == FoldLeft(parseEvent, [format |-> 0, eventIndex |-> -1, txs |-> <<>>],
                    result.events)
  IN IF Len(p.txs) = 1 THEN [p.txs EXCEPT ![1].gasUsed = result.gasUsed] ELSE p.txs

-----------------------------------------------------------------------------
(* The backend.                                                            *)

TxExceedBlockGasLimit(result) == result.code = "block gas exceeded"
TxSuccessOrExceedsBlockGasLimit(result) ==
  result.code = "ok" \/ TxExceedBlockGasLimit(result)

ShouldIgnoreGasUsed_any(result) == result.code # "ok"   \* faulty variant

ShouldIgnoreGasUsed(result) == result.code = "no block gas"

(* The messages JSON-RPC shows as the transactions of the block.           *)
GetEthereumMsgsFromTendermintBlock ==
  FlattenSeq([i \in DOMAIN results |->
    IF TxSuccessOrExceedsBlockGasLimit(results[i]) THEN results[i].msgs ELSE <<>>])

(* The receipt of message k of the i-th transaction of the block.          *)
receiptTxs_raw(i) == ParseTxResult(results[i])   \* faulty variant: keeps the
                                                 \* gas of the failed messages
receiptTxs(i) ==
  LET parsed == ParseTxResult(results[i])
  IN IF results[i].code = "ok" THEN parsed
     ELSE [k \in DOMAIN parsed |->
             [parsed[k] EXCEPT !.gasUsed = results[i].msgs[k].gas]]

gasOfResults(n) == FoldLeft(LAMBDA sum, i : sum + results[i].gasUsed, 0,
                            [i \in 1 .. n |-> i])
AccumulativeGasUsed(parsed, k) ==
  FoldLeft(LAMBDA sum, p : sum + p.gasUsed, 0, SubSeq(parsed, 1, k))

Receipt(i, k) ==
  LET parsed == receiptTxs(i)
  IN [transactionHash |-> parsed[k].hash,
      transactionIndex |-> parsed[k].ethTxIndex,
      gasUsed |-> parsed[k].gasUsed,
      cumulativeGasUsed |-> gasOfResults(i - 1) + AccumulativeGasUsed(parsed, k),
      failed |-> results[i].code # "ok" \/ parsed[k].failed,
      logs |-> parsed[k].rawLogs]

(* The receipts of the block, in order.                                    *)
Receipts ==
  FlattenSeq([i \in DOMAIN results |->
    IF TxSuccessOrExceedsBlockGasLimit(results[i])
    THEN [k \in DOMAIN results[i].msgs |-> Receipt(i, k)] ELSE <<>>])

(* GetLogsByHeight: the logs of every tx_log event of the block.           *)
GetLogsByHeight ==
  FlattenSeq([i \in DOMAIN results |->
    FlattenSeq([k \in DOMAIN results[i].events |->
      IF results[i].events[k].type = "tx_log" THEN results[i].events[k].logs
                                              ELSE <<>>])])

(* The gas used EthBlockFromTendermint shows for the block.                *)
BlockGasUsed ==
  LET ignored == {i \in DOMAIN results : ShouldIgnoreGasUsed(results[i])}
  IN gasOfResults(IF ignored = {} THEN Len(results)
                  ELSE (CHOOSE i \in ignored : \A j \in ignored : i <= j) - 1)

(* GetTxByTxIndex: the first transaction of the block with an event of     *)
(* that index, whatever its code; the message is then the one at that      *)
(* distance from the transaction's first.                                  *)
txSearch(index) ==
  {i \in DOMAIN results : \E k \in DOMAIN results[i].events :
     /\ results[i].events[k].type = "ethereum_tx"
     /\ results[i].events[k].txIndex = index}

getTransactionByBlockAndIndex(index) ==
  LET i == CHOOSE i \in txSearch(index) : \A j \in txSearch(index) : i <= j
      parsed == ParseTxResult(results[i])
  IN results[i].msgs[index - parsed[1].ethTxIndex + 1]

-----------------------------------------------------------------------------
(* Properties.  The responses only change when a transaction ends, so      *)
(* they are looked at between transactions.                                *)

Settled == stage = "idle"

(* "It also ensures consistency over the correct txs indexes across RPC    *)
(* endpoints" (GetEthereumMsgsFromTendermintBlock): the n-th message the   *)
(* block shows has transaction index n - 1 in its own receipt.  A message  *)
(* gets its index in the ante handler, before it is known whether it will  *)
(* count, and the index is given out again when it does not.               *)
IndicesMatchBlock ==
  Settled =>
  LET shown == Receipts
      msgs == GetEthereumMsgsFromTendermintBlock
  IN /\ Len(shown) = Len(msgs)
     /\ \A n \in DOMAIN shown : /\ shown[n].transactionIndex = n - 1
                                /\ shown[n].transactionHash = msgs[n]

(* The receipts tell what happened: for a transaction that executed, gas,  *)
(* failure and logs of each of its messages, through the events and the    *)
(* two-pass event format; for one that ran out of block gas, a failure     *)
(* without logs that used its gas limit.  Blocks from before the ante      *)
(* handler's events (format 1) parse to the same records.                  *)
ReceiptsFaithful ==
  Settled => \A i \in DOMAIN results :
    /\ \A k \in DOMAIN results[i].msgs :
         LET r == Receipt(i, k)
             m == results[i].done[k]
         IN /\ results[i].code = "ok" =>
                 /\ m.msg = results[i].msgs[k] /\ r.transactionHash = m.msg
                 /\ r.gasUsed = m.gasUsed /\ r.failed = m.failed /\ r.logs = m.logs
            /\ TxExceedBlockGasLimit(results[i]) =>
                 /\ r.transactionHash = results[i].msgs[k] /\ r.failed
                 /\ r.gasUsed = results[i].msgs[k].gas /\ r.logs = <<>>
    /\ results[i].code = "ok" =>
         ParseTxResult(results[i]) =
           ParseTxResult([results[i] EXCEPT !.events =
             SelectSeq(@, LAMBDA e : e.type = "ethereum_tx" => ~e.short)])

(* Logs are numbered through the block without gaps or repeats, over       *)
(* messages and transactions, whatever failed in between, and each carries *)
(* the transaction index of the receipt it is in.                          *)
LogsNumbered ==
  Settled =>
  LET all == GetLogsByHeight
      shown == Receipts
  IN /\ \A n \in DOMAIN all : all[n].index = n - 1
     /\ \A n \in DOMAIN shown : \A k \in DOMAIN shown[n].logs :
          shown[n].logs[k].txIndex = shown[n].transactionIndex

(* The bloom EndBlock emits is that of the logs JSON-RPC finds in the      *)
(* block: "Update block bloom filter value using the logs generated from   *)
(* the tx" (x/evm/spec/03_state_transitions.md).  A bloom that misses a    *)
(* log hides it from every filter.                                         *)
BloomMatchesLogs ==
  Settled /\ ~inBlock =>
    LET all == GetLogsByHeight IN blockBloom = {all[n].data : n \in DOMAIN all}

(* The gas of a block is told right.  Cumulative gas grows from receipt to *)
(* receipt by at least the gas of the receipt.  "block gas limit has       *)
(* exceeded, other txs must have failed with same reason"                  *)
(* (EthBlockFromTendermint stops adding gas at the first transaction       *)
(* turned away): nothing after it ran, so the gas shown for the block      *)
(* covers its executed messages, and those fit the block gas limit.  The   *)
(* fee market is told the gas limits of exactly the messages whose ante    *)
(* handler succeeded, also of those that failed after it: "keeps track of  *)
(* the gasWanted amount on the current block" (GasWantedDecorator).        *)
BlockGasShown ==
  Settled =>
  LET shown == Receipts
      executed == FoldLeft(LAMBDA sum, r : sum + (IF r.code = "ok" THEN r.gasUsed ELSE 0),
                           0, results)
      limit(r) == IF r.send = NoSend THEN txGasLimit(r.msgs) ELSE r.gasWanted
      admitted == SelectSeq(results, LAMBDA r : r.code \notin {"rejected", "no block gas"})
  IN /\ inBlock => state.gasWanted = FoldLeft(LAMBDA sum, r : sum + limit(r), 0, admitted)
     /\ \A n \in DOMAIN shown :
          shown[n].cumulativeGasUsed >=
            shown[n].gasUsed + (IF n = 1 THEN 0 ELSE shown[n - 1].cumulativeGasUsed)
     /\ BlockGasUsed >= executed
     /\ BlockGasLimit > 0 => executed <= BlockGasLimit

(* The fees of a block can be read off its receipts: gas used at the       *)
(* effective price, plus the fees of the transactions JSON-RPC leaves out  *)
(* because their messages failed ("that's how the fee get deducted",       *)
(* GetTransactionReceipt) or because they are not Ethereum transactions.   *)
ReceiptsExplainFees ==
  Settled /\ inBlock =>
    state.bank[FeeCollector] =
      FoldLeft(LAMBDA sum, r : sum + r.gasUsed * GetEffectiveGasPrice(r.transactionHash),
               0, Receipts)
      + FoldLeft(LAMBDA sum, m : sum + DeductedFee(m), 0,
                 FlattenSeq([i \in DOMAIN results |->
                   IF results[i].code = "failed" THEN results[i].msgs ELSE <<>>]))
      + FoldLeft(LAMBDA sum, r : sum + (IF r.send = NoSend \/ r.code \in {"rejected", "no block gas"}
                                        THEN 0 ELSE r.send.fee), 0, results)

(* No coin is made or lost: fees, refunds, transfers and the sweep of the  *)
(* fee collector move the supply, in every store.                          *)
supply(bank) == FoldFunction(+, 0, bank)
genesisSupply == supply(GenesisBank)

SupplyConserved ==
  \A bank \in {state.bank, check.bank, cache.bank} : supply(bank) = genesisSupply

(* "if return an error, the whole transaction is reverted"                 *)
(* (x/evm/spec/06_hooks.md): the receipt of a failed message has no logs.  *)
FailedWithoutLogs ==
  Settled =>
  LET shown == Receipts
  IN \A n \in DOMAIN shown : shown[n].failed => shown[n].logs = <<>>

(* "find transaction by tx index of valid ethereum txs" (GetTxByTxIndex):  *)
(* the lookup by index and the block agree.                                *)
LookupMatchesBlock ==
  Settled /\ ~inBlock =>
    LET msgs == GetEthereumMsgsFromTendermintBlock
    IN \A n \in DOMAIN msgs : getTransactionByBlockAndIndex(n - 1) = msgs[n]

=============================================================================
