----------------------------- MODULE FeeHistory -----------------------------
(***************************************************************************)
(* eth_feeHistory: FeeHistory of rpc/backend/evm_backend.go and            *)
(* processBlock of rpc/backend/utils.go, while the chain grows.            *)
(***************************************************************************)
EXTENDS Chain

CONSTANTS
  FeeHistoryCap,  \* bound of the configuration on the blocks of one answer
  Percentiles     \* lists of reward percentiles a client may ask for

ASSUME HistoryAssumption == FeeHistoryCap \in Nat

VARIABLES
  history  \* the request: its stage, range, percentiles, next block, and entries

noHistory == [stage |-> "idle", oldest |-> 0, end |-> 0, next |-> 0,
              percentiles |-> <<>>, entries |-> <<>>]

HistoryInit == history = noHistory

-----------------------------------------------------------------------------
(* The gas and tips of the messages of a block, by tip: every message of a *)
(* transaction counts with the gas of the transaction.                     *)
TipsOf(txs) ==
  FlattenSeq([i \in DOMAIN txs |->
    [j \in DOMAIN txs[i].msgs |-> [gas |-> txs[i].gas, tip |-> txs[i].msgs[j].tip]]])
SortedTips(txs) == SortSeq(TipsOf(txs), LAMBDA x, y : x.tip < y.tip)

(* gasUsed of the block, up to a transaction without block gas left.       *)
GasUsed(txs) ==
  LET counted == SelectInSeq(txs, LAMBDA tx : tx.code = "full")
      used == IF counted = 0 THEN txs ELSE SubSeq(txs, 1, counted - 1)
  IN FoldLeft(LAMBDA sum, tx : sum + tx.gas, 0, used)

(* The gas of the first messages, and how many of them it takes to reach a *)
(* threshold; the last one stays if all of them do not.                    *)
GasUpTo(tips, k) == FoldLeft(LAMBDA sum, x : sum + x.gas, 0, SubSeq(tips, 1, k))
reach(tips, from, threshold) ==
  CHOOSE k \in from .. Len(tips) :
    /\ k = Len(tips) \/ GasUpTo(tips, k) >= threshold
    /\ \A j \in from .. k - 1 : GasUpTo(tips, j) < threshold

Rewards_byGas(txs, percentiles) ==   \* faulty variant: sorts by gas, not by tip
  LET tips == SortSeq(TipsOf(txs), LAMBDA x, y : x.gas < y.gas)
  IN [i \in DOMAIN percentiles |->
        IF tips = <<>> THEN 0
        ELSE tips[reach(tips, 1, (GasUsed(txs) * percentiles[i]) \div 100)].tip]

(* processBlock: the position is not taken back for a smaller percentile.  *)
Rewards(txs, percentiles) ==
  LET tips == SortedTips(txs)
      threshold(i) == (GasUsed(txs) * percentiles[i]) \div 100
      position[i \in 0 .. Len(percentiles)] ==
        IF i = 0 THEN 1 ELSE reach(tips, position[i - 1], threshold(i))
  IN [i \in DOMAIN percentiles |-> IF tips = <<>> THEN 0 ELSE tips[position[i]].tip]

processBlock(h, percentiles) ==
  [baseFee |-> chain[h].baseFee, gasUsed |-> GasUsed(chain[h].txs),
   rewards |-> Rewards(chain[h].txs, percentiles)]

-----------------------------------------------------------------------------
(* The range: the last block is not part of it, and what is not positive   *)
(* is the head.                                                            *)
StartHistory(count, lastBlock, percentiles) ==
  LET end == IF lastBlock <= 0 THEN app ELSE lastBlock
      start == IF end - count < 0 THEN 0 ELSE end - count
  IN /\ history.stage = "idle"
     /\ history' = IF count > FeeHistoryCap THEN [history EXCEPT !.stage = "failed"]
                   ELSE [history EXCEPT !.stage = "fetching", !.oldest = start,
                           !.end = end, !.next = start, !.percentiles = percentiles]

(* One block: it takes its results and queries at its height.              *)
FetchBlock ==
  LET h == TendermintHeight(history.next)
  IN /\ history.stage = "fetching" /\ history.next < history.end
     /\ history' = IF ~HasState(h) THEN [history EXCEPT !.stage = "failed"]
                   ELSE [history EXCEPT !.next = @ + 1,
                           !.entries = Append(@, processBlock(h, history.percentiles))]

EndHistory ==
  /\ history.stage = "fetching" /\ history.next = history.end
  /\ history' = [history EXCEPT !.stage = "answered"]

HistoryNext ==
  \/ \E count \in 0 .. FeeHistoryCap + 1, lastBlock \in BlockNumbers, p \in Percentiles :
       StartHistory(count, lastBlock, p)
  \/ FetchBlock \/ EndHistory

historyVars == <<chainVars, history>>

(* A request on its own, while the chain grows.                            *)
HistorySpec ==
  /\ ChainInit /\ HistoryInit
  /\ [][\/ ChainNext /\ UNCHANGED history
        \/ HistoryNext /\ UNCHANGED chainVars]_historyVars

-----------------------------------------------------------------------------
(* Entry i of an answer is about block oldest + i, as its client reads it, *)
(* though the chain grows between the blocks fetched; block 0, which there *)
(* is not, shows as block 1.                                               *)
EntriesOfTheirBlocks ==
  history.stage = "answered" =>
    /\ Len(history.entries) = history.end - history.oldest
    /\ \A i \in DOMAIN history.entries :
         LET h == history.oldest + i - 1
             b == chain[IF h = 0 THEN 1 ELSE h]
         IN /\ history.entries[i].baseFee = b.baseFee
            /\ history.entries[i].gasUsed = GasUsed(b.txs)

(* In every entry the reward is a tip paid in the block and grows with the *)
(* percentile.  The messages with a tip up to it used the share of the gas *)
(* asked for, unless it is the highest tip, and those with a lower tip did *)
(* not, if the percentiles were given in order.                            *)
RewardsArePercentiles ==
  \A i \in DOMAIN history.entries :
    LET h == history.oldest + i - 1
        txs == chain[IF h = 0 THEN 1 ELSE h].txs
        tips == TipsOf(txs)
        p == history.percentiles
        rewards == history.entries[i].rewards
        share(j) == (GasUsed(txs) * p[j]) \div 100
        upTo(tip) == SelectSeq(tips, LAMBDA x : x.tip <= tip)
        below(tip) == SelectSeq(tips, LAMBDA x : x.tip < tip)
        gas(some) == GasUpTo(some, Len(some))
    IN tips # <<>> => \A j \in DOMAIN p :
         /\ \A k \in 1 .. j - 1 : rewards[k] <= rewards[j]
         /\ \E m \in DOMAIN tips : tips[m].tip = rewards[j]
         /\ upTo(rewards[j]) = tips \/ gas(upTo(rewards[j])) >= share(j)
         /\ (\A k \in 1 .. j - 1 : p[k] <= p[j]) =>
              below(rewards[j]) = <<>> \/ gas(below(rewards[j])) < share(j)

(* An answer of eth_feeHistory is about its blocks and its rewards are     *)
(* percentiles of them.                                                    *)
HistoryFaithful == EntriesOfTheirBlocks /\ RewardsArePercentiles

=============================================================================
