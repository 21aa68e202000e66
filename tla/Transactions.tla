---------------------------- MODULE Transactions ----------------------------
(***************************************************************************)
(* Transactions through the application: the ante handlers of app/ante,    *)
(* Keeper.ApplyTransaction of x/evm with its hooks, gas refund and         *)
(* transient counters, and the block around them.  A transaction has an    *)
(* extension option, Ethereum messages, and, if it is one of the Cosmos    *)
(* SDK, a transfer of the bank module with a fee for the whole of it.      *)
(*                                                                         *)
(* The SDK's baseapp is external and modelled from what src/ relies on: a  *)
(* transaction runs its ante handler on a branch of the store, written     *)
(* when the handler succeeds, then its messages on a second branch,        *)
(* written when all succeed and the block gas meter has room.  ABCI calls  *)
(* do not overlap, so one branch (cache) is enough.                        *)
(*                                                                         *)
(* The EVM run is a choice of gas left, refund counter, error and logs;    *)
(* its bank effect is the topmost transfer.  StateDB models the inside.    *)
(***************************************************************************)
EXTENDS Integers, Sequences, FiniteSets

CONSTANTS
  Sender,         \* externally owned accounts
  Other,          \* the other addresses: contracts and module accounts
  Nobody,         \* the nil recipient of a contract creation
  FeeCollector,   \* module account of the fees
  Distribution,   \* module account the fees go to between blocks
  Contract,       \* the address a creation credits
  Blocked,        \* addresses the bank module may not send to
  Txs,            \* transactions on offer
  NoTx,           \* no transaction is running
  NoSend,         \* an Ethereum transaction has no bank transfer
  Params,         \* parameter sets governance and the fee market may choose
  London,         \* the London fork is active
  Hooks,          \* EVM hooks are registered
  Refunds,        \* refund counters an execution may end with
  Payload,        \* log payloads
  EvmLogs,        \* log payload sequences an execution may emit
  HookLogs,       \* log payload sequences a hook may add to the receipt
  Overhead,       \* store gas a failing transaction may be charged
  MinGasPrice,    \* fee market parameter
  NodeGasPrice,   \* the node's minimal gas price
  Multiplier,     \* MinGasMultiplier, a fraction [num, den]
  BlockGasLimit,  \* limit of the block gas meter, 0 when there is none
  GenesisSeq,     \* initial sequences
  GenesisBank,    \* initial balances
  MaxTxs,         \* bound on the transactions of a block
  MaxMempool      \* bound on the mempool

NoAccount == -1   \* sequence of an address without an account
Address == Sender \cup Other

message == [from : Sender, nonce : Nat, to : Address \cup {Nobody},
            dynamic : BOOLEAN, gas : Nat, cap : Nat, tip : Nat, value : Nat,
            intrinsic : Nat]
send == [from : Sender, nonce : Nat, to : Address, amount : Nat, fee : Nat]

ASSUME AddressAssumption ==
  /\ Sender \cap Other = {} /\ Nobody \notin Address
  /\ {FeeCollector, Distribution, Contract} \subseteq Other
  /\ FeeCollector # Distribution /\ FeeCollector # Contract
  /\ FeeCollector \in Blocked /\ Blocked \subseteq Other
ASSUME TxAssumption ==
  \A t \in Txs : /\ t.wellFormed \in BOOLEAN /\ t.signed \in BOOLEAN
                 /\ t.option \in {"ethereum", "web3", "none", "unknown"}
                 /\ t.msgs \in Seq(message) /\ t.send \in send \cup {NoSend}
                 /\ t.gas \in Nat
                 /\ t.option = "ethereum" => t.msgs # <<>> /\ t.send = NoSend
                 /\ t.option # "ethereum" => t.send # NoSend
                 /\ \A i \in DOMAIN t.msgs :
                      /\ t.msgs[i].tip <= t.msgs[i].cap
                      /\ ~t.msgs[i].dynamic => t.msgs[i].tip = t.msgs[i].cap
ASSUME ParamsAssumption ==
  Params \subseteq [create : BOOLEAN, call : BOOLEAN, feeMarket : BOOLEAN,
                    baseFee : Nat]
ASSUME SwitchAssumption == London \in BOOLEAN /\ Hooks \in BOOLEAN
ASSUME GasAssumption ==
  /\ Refunds \subseteq Nat /\ Overhead \subseteq Nat /\ Overhead # {}
  /\ MinGasPrice \in Nat /\ NodeGasPrice \in Nat /\ BlockGasLimit \in Nat
  /\ Multiplier.num \in Nat /\ Multiplier.den \in Nat \ {0}
  /\ Multiplier.num <= Multiplier.den
ASSUME LogAssumption ==
  EvmLogs \subseteq Seq(Payload) /\ HookLogs \subseteq Seq(Payload)
ASSUME GenesisAssumption ==
  /\ GenesisSeq \in [Sender -> Nat \cup {NoAccount}]
  /\ GenesisBank \in [Address -> Nat]
ASSUME BoundAssumption == MaxTxs \in Nat /\ MaxMempool \in Nat

VARIABLES
  params,      \* parameters of x/evm and the fee market
  inBlock,     \* between BeginBlock and Commit
  state,       \* the store DeliverTx works on
  check,       \* the store CheckTx works on
  cache,       \* the branch of the running transaction
  mempool,     \* transactions CheckTx accepted, in order
  recheck,     \* transactions to check again after a commit
  stage,       \* where the running transaction is
  mode,        \* "check", "recheck" or "deliver"
  tx,          \* the running transaction
  pos,         \* the message its loop is at
  events,      \* events of the running transaction
  done,        \* what its messages did, for the properties
  blockGas,    \* gas consumed on the block gas meter
  results,     \* DeliverTx responses of the block
  blockBloom,  \* bloom emitted by EndBlock
  included,    \* history: messages whose fee was taken in a block
  paid,        \* history: fees of the running transaction, cumulative
  kept,        \* history: fees its finished messages leave with the collector
  due          \* history: fees the block's finished transactions owe

blockVars == <<params, inBlock, blockBloom>>
mempoolVars == <<mempool, recheck>>
historyVars == <<included, paid, kept, due>>
runVars == <<cache, stage, mode, tx, pos, events, done, paid, kept>>
vars == <<params, inBlock, state, check, cache, mempool, recheck,
          stage, mode, tx, pos, events, done, blockGas, results, blockBloom,
          included, paid, kept, due>>

Store == [seq : [Sender -> Nat \cup {NoAccount}], bank : [Address -> Nat],
          txIndex : Nat, logSize : Nat, bloom : SUBSET Payload, gasUsed : Nat,
          gasWanted : Nat]

(* A new block starts with an empty transient store.                       *)
resetTransient(s) ==
  [s EXCEPT !.txIndex = 0, !.logSize = 0, !.bloom = {}, !.gasUsed = 0,
            !.gasWanted = 0]

(* bankKeeper.SendCoins within one branch.                                 *)
SendCoins(s, from, to, amount) ==
  [s EXCEPT !.bank = [a \in Address |->
     s.bank[a] - (IF a = from THEN amount ELSE 0)
               + (IF a = to THEN amount ELSE 0)]]

smaller(x, y) == IF x <= y THEN x ELSE y
larger(x, y) == IF x >= y THEN x ELSE y

-----------------------------------------------------------------------------
(* Fees.                                                                   *)

(* Keeper.GetBaseFee under London: 0 while the fee market is off.          *)
GetBaseFee == IF params.feeMarket THEN params.baseFee ELSE 0

GetEffectiveGasPrice(msg) ==
  IF London THEN smaller(msg.tip + GetBaseFee, msg.cap) ELSE msg.cap

Fee(msg) == msg.cap * msg.gas
Cost(msg) == Fee(msg) + msg.value
EffectiveFee(msg) == IF msg.dynamic THEN GetEffectiveGasPrice(msg) * msg.gas
                                    ELSE Fee(msg)

(* The amount DeductTxCostsFromUserBalance takes from the sender.          *)
DeductedFee(msg) ==
  IF London /\ params.feeMarket /\ msg.dynamic THEN EffectiveFee(msg)
                                               ELSE Fee(msg)

-----------------------------------------------------------------------------
(* The ante handler, decorator by decorator.  The decorators up to         *)
(* CanTransfer only read balances: they are the guard of the first step.   *)
(* A panic inside the handler is recovered as a rejection.                 *)

IsCheckTx(m) == m \in {"check", "recheck"}

EthMempoolFee(m, msg) ==
  IsCheckTx(m) /\ ~London => Fee(msg) >= NodeGasPrice * msg.gas

EthMinGasPrice(msg) ==
  MinGasPrice # 0 =>
    /\ msg.dynamic => London
    /\ (IF msg.dynamic THEN EffectiveFee(msg) ELSE Fee(msg)) >= MinGasPrice * msg.gas

(* The gas limit of a transaction is that of its messages.                 *)
txGasLimit(msgs) ==
  LET sum[i \in 0 .. Len(msgs)] == IF i = 0 THEN 0 ELSE sum[i - 1] + msgs[i].gas
  IN sum[Len(msgs)]

EthValidateBasic(m, t) ==
  m # "recheck" =>
    /\ t.wellFormed /\ t.gas = txGasLimit(t.msgs)
    /\ \A i \in DOMAIN t.msgs :
         /\ IF t.msgs[i].to = Nobody THEN params.create ELSE params.call
         /\ t.msgs[i].dynamic => London

EthSigVerification(t) == t.signed

EthAccountVerification(m, s, msg) ==
  IsCheckTx(m) => s.bank[msg.from] >= Cost(msg)

CanTransfer(s, msg) ==
  /\ msg.value > 0 => s.bank[msg.from] >= msg.value
  /\ London => msg.cap >= GetBaseFee

Verified(m, s, t) ==
  /\ EthValidateBasic(m, t) /\ EthSigVerification(t)
  /\ \A i \in DOMAIN t.msgs :
       /\ EthMempoolFee(m, t.msgs[i]) /\ EthMinGasPrice(t.msgs[i])
       /\ EthAccountVerification(m, s, t.msgs[i]) /\ CanTransfer(s, t.msgs[i])

(* EthSetupContext resets the transient gas; EthAccountVerification gives  *)
(* a sender without an account one, in CheckTx only.                       *)
Prepared(m, s, t) ==
  [s EXCEPT !.gasUsed = 0,
            !.seq = [a \in Sender |->
              IF /\ IsCheckTx(m) /\ s.seq[a] = NoAccount
                 /\ \E i \in DOMAIN t.msgs : t.msgs[i].from = a
              THEN 0 ELSE s.seq[a]]]

(* GasWanted counts the gas limits of the block for the fee market.        *)
GasWanted(s, t) ==
  IF London /\ params.feeMarket THEN [s EXCEPT !.gasWanted = @ + t.gas] ELSE s

(* The handlers of the other transactions, which differ in what is signed. *)
(* The decorators of the SDK are external: they ask for a fee the node     *)
(* accepts and for an account, and deduct the fee.                         *)
RejectMessages_none(t) == TRUE   \* faulty variant: lets Ethereum messages pass

RejectMessages(t) == t.msgs = <<>>

MinGasPriceMet(t) ==
  MinGasPrice # 0 => t.gas > 0 /\ t.send.fee >= MinGasPrice * t.gas

(* The sequence is looked at with the signature, and so not on a recheck.  *)
Eip712SigVerification(m, s, t) ==
  m # "recheck" => t.signed /\ s.seq[t.send.from] = t.send.nonce

CosmosVerified(m, s, t) ==
  /\ RejectMessages(t) /\ MinGasPriceMet(t)
  /\ IsCheckTx(m) => t.send.fee >= NodeGasPrice * t.gas
  /\ t.wellFormed
  /\ s.seq[t.send.from] # NoAccount /\ s.bank[t.send.from] >= t.send.fee
  /\ Eip712SigVerification(m, s, t)

CosmosDeducted(s, t) ==
  SendCoins([s EXCEPT !.seq[t.send.from] = @ + 1], t.send.from, FeeCollector, t.send.fee)

CosmosPassed(s, t) == GasWanted(CosmosDeducted(s, t), t)

-----------------------------------------------------------------------------
(* Running a transaction.                                                  *)

branchOf(m) == IF m = "deliver" THEN state ELSE check

(* The block gas meter: no room left, and pushed past its limit.           *)
outOfBlockGas(gas) == BlockGasLimit > 0 /\ gas >= BlockGasLimit
exceedsBlockGas(gas) == BlockGasLimit > 0 /\ gas > BlockGasLimit

Respond(code, t, evs, gas, what) ==
  results' = Append(results, [code |-> code, msgs |-> t.msgs, send |-> t.send,
                              events |-> evs, gasWanted |-> t.gas, gasUsed |-> gas,
                              done |-> what])

(* The transaction is over: its branch and events are gone.                *)
Idle ==
  /\ stage' = "idle" /\ mode' = "none" /\ tx' = NoTx /\ pos' = 1
  /\ cache' = state' /\ events' = <<>> /\ done' = <<>> /\ paid' = <<>> /\ kept' = 0

(* The ante handler returned an error.                                     *)
Reject(m, t) ==
  /\ recheck' = IF m = "recheck" THEN Tail(recheck) ELSE recheck
  /\ IF m = "deliver"
     THEN \E gas \in Overhead : /\ blockGas' = blockGas + gas
                                /\ Respond("rejected", t, <<>>, gas, <<>>)
     ELSE UNCHANGED <<blockGas, results>>
  /\ UNCHANGED <<blockVars, state, check, mempool, included, due>>
  /\ Idle

EthAnte(m, t) ==
  \/ ~Verified(m, branchOf(m), t) /\ Reject(m, t)
  \/ /\ Verified(m, branchOf(m), t)
     /\ mode' = m /\ tx' = t /\ stage' = "deduct"
     /\ cache' = Prepared(m, branchOf(m), t)
     /\ UNCHANGED <<blockVars, state, check, mempoolVars, pos, events, done,
                    blockGas, results, historyVars>>

(* CheckTx ends with the ante handler: its branch is written and the       *)
(* transaction is in the mempool.                                          *)
Admit(m, t, branch) ==
  /\ check' = branch /\ mempool' = Append(mempool, t)
  /\ recheck' = IF m = "recheck" THEN Tail(recheck) ELSE recheck
  /\ UNCHANGED state
  /\ Idle

CosmosAnte(m, t) ==
  LET branch == CosmosPassed(branchOf(m), t)
  IN \/ ~CosmosVerified(m, branchOf(m), t) /\ Reject(m, t)
     \/ /\ CosmosVerified(m, branchOf(m), t)
        /\ \/ /\ m = "deliver"
              /\ mode' = m /\ tx' = t /\ stage' = "messages"
              /\ state' = branch /\ cache' = branch
              /\ paid' = <<t.send.fee>> /\ kept' = t.send.fee
              /\ UNCHANGED <<check, mempoolVars, pos, events, done>>
           \/ m # "deliver" /\ Admit(m, t, branch)
        /\ UNCHANGED <<blockVars, blockGas, results, included, due>>

(* NewAnteHandler routes by the first extension option.                    *)
AnteHandler(m, t) ==
  \/ t.option = "ethereum" /\ EthAnte(m, t)
  \/ t.option \in {"web3", "none"} /\ CosmosAnte(m, t)
  \/ t.option = "unknown" /\ Reject(m, t)

CheckTx(t) ==
  /\ stage = "idle" /\ recheck = <<>> /\ Len(mempool) < MaxMempool
  /\ AnteHandler("check", t)

(* After a commit: what was in the block goes, the rest is checked again.  *)
Delivered(t) ==
  \E i \in DOMAIN results : results[i].msgs = t.msgs /\ results[i].send = t.send

RecheckTx ==
  /\ stage = "idle" /\ recheck # <<>>
  /\ \/ /\ Delivered(Head(recheck)) /\ recheck' = Tail(recheck)
        /\ UNCHANGED <<blockVars, state, check, runVars, mempool, blockGas, results,
                       included, due>>
     \/ ~Delivered(Head(recheck)) /\ AnteHandler("recheck", Head(recheck))

DeliverTx(t) ==
  /\ stage = "idle" /\ inBlock /\ Len(results) < MaxTxs
  /\ \/ /\ outOfBlockGas(blockGas)
        /\ Respond("no block gas", t, <<>>, blockGas, <<>>)
        /\ UNCHANGED <<blockVars, state, check, mempoolVars, runVars, blockGas,
                       included, due>>
     \/ ~outOfBlockGas(blockGas) /\ AnteHandler("deliver", t)

txVars == <<mode, tx>>
current == tx.msgs[pos]

(* DeductTxCostsFromUserBalance accepts the message.                       *)
Deductible(s, m) ==
  /\ s.seq[m.from] # NoAccount
  /\ IsCheckTx(mode) => m.gas >= m.intrinsic
  /\ London /\ params.feeMarket /\ m.dynamic => m.cap >= params.baseFee
  /\ s.bank[m.from] >= DeductedFee(m)

EthGasConsume ==
  /\ stage = "deduct"
  /\ \/ ~Deductible(cache, current) /\ Reject(mode, tx)
     \/ /\ Deductible(cache, current)
        /\ cache' = SendCoins(cache, current.from, FeeCollector, DeductedFee(current))
        /\ paid' = Append(paid, DeductedFee(current)
                                + (IF pos = 1 THEN 0 ELSE paid[pos - 1]))
        /\ pos' = IF pos = Len(tx.msgs) THEN 1 ELSE pos + 1
        /\ stage' = IF pos = Len(tx.msgs) THEN "increment" ELSE stage
        /\ UNCHANGED <<blockVars, state, check, mempoolVars, txVars, events, done,
                       blockGas, results, included, kept, due>>

NonceMatches_any(s, m) == s.seq[m.from] <= m.nonce   \* faulty variant: gaps pass

NonceMatches(s, m) == s.seq[m.from] = m.nonce

EthIncrementSenderSequence ==
  /\ stage = "increment"
  /\ \/ ~NonceMatches(cache, current) /\ Reject(mode, tx)
     \/ /\ NonceMatches(cache, current)
        /\ cache' = [cache EXCEPT !.seq[current.from] = @ + 1]
        /\ pos' = IF pos = Len(tx.msgs) THEN 1 ELSE pos + 1
        /\ stage' = IF pos = Len(tx.msgs) THEN "emit" ELSE stage
        /\ UNCHANGED <<blockVars, state, check, mempoolVars, txVars, events, done,
                       blockGas, results, historyVars>>

(* The short ethereum_tx event of the ante handler and, below, the long    *)
(* one of the message server.  A message stands for its own hash.          *)
shortEvent(m, index) ==
  [type |-> "ethereum_tx", short |-> TRUE, hash |-> m, txIndex |-> index]
longEvent(m, index, gas, failed) ==
  [type |-> "ethereum_tx", short |-> FALSE, hash |-> m, txIndex |-> index,
   txGasUsed |-> gas, failed |-> failed]
logEvent(txLogs) == [type |-> "tx_log", logs |-> txLogs]

(* GasWanted and EthEmitEvent, neither of which fails, are the end of the  *)
(* ante handler: its branch is written.                                    *)
EthEmitEvent ==
  /\ stage = "emit"
  /\ \/ /\ mode = "deliver"
        /\ cache' = GasWanted(cache, tx) /\ state' = cache' /\ stage' = "messages"
        /\ events' = [i \in DOMAIN tx.msgs |->
                        shortEvent(tx.msgs[i], cache.txIndex + i - 1)]
        /\ UNCHANGED <<check, mempoolVars, txVars, pos, done, paid, kept>>
     \/ mode # "deliver" /\ Admit(mode, tx, GasWanted(cache, tx))
  /\ UNCHANGED <<blockVars, blockGas, results, included, due>>

-----------------------------------------------------------------------------
(* Executing a message.                                                    *)

(* What an EVM run on this branch may end with.  An error undoes the       *)
(* transfer, the refund counter and the logs.                              *)
evmResult(s, m) ==
  [left : 0 .. (m.gas - m.intrinsic), failed : {TRUE}, refund : {0}, logs : {<<>>}]
  \cup {r \in [left : 0 .. (m.gas - m.intrinsic), failed : {FALSE}, refund : Refunds,
               logs : EvmLogs] : s.bank[m.from] >= m.value}

GasToRefund(availableRefund, gasConsumed, refundQuotient) ==
  smaller(gasConsumed \div refundQuotient, availableRefund)

RefundQuotient == IF London THEN 5 ELSE 2

(* GasUsed of the response: at least the minimum share of the gas limit.   *)
ResponseGas(m, r) ==
  LET temporaryGasUsed == m.gas - r.left
  IN larger((m.gas * Multiplier.num) \div Multiplier.den,
            temporaryGasUsed
              - GasToRefund(r.refund, temporaryGasUsed, RefundQuotient))

(* ApplyMessageWithConfig returns an error before the EVM runs ...         *)
Inapplicable(m) ==
  \/ IF m.to = Nobody THEN ~params.create ELSE ~params.call
  \/ m.gas < m.intrinsic

(* ... or because Commit cannot credit the recipient.                      *)
CommitFails(m, r) == ~r.failed /\ m.value > 0 /\ m.to \in Blocked

recipient(m) == IF m.to = Nobody THEN Contract ELSE m.to

(* The store StateDB.Commit writes.                                        *)
Committed_nonce(s, m, r) ==   \* faulty variant: the nonce is only reset
  LET moved == IF r.failed THEN s ELSE SendCoins(s, m.from, recipient(m), m.value)
  IN IF m.to = Nobody THEN [moved EXCEPT !.seq[m.from] = m.nonce] ELSE moved
Committed_credit(s, m, r) ==   \* faulty variant: the sender is not debited
  IF r.failed THEN s ELSE [s EXCEPT !.bank[recipient(m)] = @ + m.value]

Committed(s, m, r) ==
  LET moved == IF r.failed THEN s ELSE SendCoins(s, m.from, recipient(m), m.value)
  IN IF m.to = Nobody THEN [moved EXCEPT !.seq[m.from] = m.nonce + 1] ELSE moved

ethLogs(s, data) ==
  [i \in DOMAIN data |-> [txIndex |-> s.txIndex, index |-> s.logSize + i - 1,
                          data |-> data[i]]]
LogsBloom(data) == {data[i] : i \in DOMAIN data}

(* Store after ApplyMessageWithConfig and the hooks.  With hooks, the      *)
(* message runs on a cache context of its own, committed only when both    *)
(* succeed.                                                                *)
Processed(s, m, r, hookErr) ==
  IF Hooks /\ (r.failed \/ hookErr) THEN s ELSE Committed(s, m, r)

(* The transient bloom and log size ApplyTransaction leaves, where data    *)
(* are the logs of the EVM and more those a hook added.                    *)
Counted_single(s, data, more) ==   \* faulty variant: counts from zero each time
  IF data \o more = <<>> THEN s
  ELSE [s EXCEPT !.bloom = s.bloom \cup LogsBloom(data), !.logSize = Len(data \o more)]
Counted_replace(s, data, more) ==   \* faulty variant: the bloom is replaced
  IF data \o more = <<>> THEN s
  ELSE [s EXCEPT !.bloom = LogsBloom(data), !.logSize = @ + Len(data \o more)]

Counted(s, data, more) ==
  IF data \o more = <<>> THEN s
  ELSE [s EXCEPT !.bloom = IF data = <<>> THEN {} ELSE s.bloom \cup LogsBloom(data),
                 !.logSize = @ + Len(data \o more)]

(* SetTxIndexTransient and AddTransientGasUsed.                            *)
Indexed_success(s, gas, failed) ==   \* faulty variant: only successes count
  [s EXCEPT !.txIndex = IF failed THEN @ ELSE @ + 1, !.gasUsed = @ + gas]

Indexed(s, gas, failed) == [s EXCEPT !.txIndex = @ + 1, !.gasUsed = @ + gas]

(* The refund of RefundGas.                                                *)
remaining_cap(m, gas) == (m.gas - gas) * m.cap   \* faulty variant: at the cap

remaining(m, gas) == (m.gas - gas) * GetEffectiveGasPrice(m)

(* What spends a nonce: each Ethereum message, or a Cosmos transaction.    *)
spentBy(t) == IF t.send = NoSend THEN {t.msgs[i] : i \in DOMAIN t.msgs} ELSE {t.send}

(* The messages failed: their branch is dropped, the ante handler's stays. *)
Fail(code, gas) ==
  /\ Respond(code, tx, SelectSeq(events, LAMBDA e : e.type = "ethereum_tx" /\ e.short),
             gas, done)
  /\ due' = due + paid[Len(paid)]
  /\ included' = included \cup spentBy(tx)
  /\ UNCHANGED <<blockVars, state, check, mempoolVars>>
  /\ Idle

Executing == stage = "messages" /\ pos <= Len(tx.msgs)

ApplyFails ==
  /\ Executing
  /\ \/ Inapplicable(current)
     \/ \E r \in evmResult(cache, current) : CommitFails(current, r)
  /\ \E gas \in Overhead : blockGas' = blockGas + gas /\ Fail("failed", gas)

ApplyTransaction(r, hookErr, more) ==
  LET s == Processed(cache, current, r, hookErr)
      gas == ResponseGas(current, r)
      resLogs == ethLogs(cache, IF hookErr THEN r.logs ELSE r.logs \o more)
      failed == r.failed \/ hookErr
  IN /\ ~Inapplicable(current) /\ ~CommitFails(current, r)
     /\ hookErr => Hooks /\ ~r.failed
     /\ more # <<>> => Hooks /\ ~r.failed
     /\ IF s.bank[FeeCollector] < remaining(current, gas)
        THEN \E over \in Overhead : /\ blockGas' = blockGas + over
                                    /\ Fail("refund failed", over)
        ELSE /\ cache' = Indexed(Counted(SendCoins(s, FeeCollector, current.from,
                                                   remaining(current, gas)),
                                         r.logs, more), gas, failed)
             /\ events' = events \o <<longEvent(current, cache.txIndex, gas, failed),
                                      logEvent(resLogs)>>
             /\ done' = Append(done, [msg |-> current, gasUsed |-> gas,
                                      failed |-> failed, logs |-> resLogs])
             /\ kept' = kept + gas * GetEffectiveGasPrice(current)
             /\ pos' = pos + 1
             /\ UNCHANGED <<blockVars, state, check, mempoolVars, stage, txVars,
                            blockGas, results, included, paid, due>>

(* The block gas meter is charged; past its limit the messages fail.       *)
Finish(branch, gas) ==
  /\ blockGas' = blockGas + gas
  /\ \/ exceedsBlockGas(blockGas + gas) /\ Fail("block gas exceeded", gas)
     \/ /\ ~exceedsBlockGas(blockGas + gas)
        /\ state' = branch
        /\ Respond("ok", tx, events, gas, done)
        /\ due' = due + kept
        /\ included' = included \cup spentBy(tx)
        /\ UNCHANGED <<blockVars, check, mempoolVars>>
        /\ Idle

EndTx ==
  /\ stage = "messages" /\ pos > Len(tx.msgs) /\ tx.send = NoSend
  /\ Finish(cache, cache.gasUsed)

(* The bank transfer of a Cosmos transaction, which may also run out of    *)
(* gas.                                                                    *)
EndCosmosTx ==
  /\ stage = "messages" /\ pos > Len(tx.msgs) /\ tx.send # NoSend
  /\ \/ /\ tx.send.to \notin Blocked /\ cache.bank[tx.send.from] >= tx.send.amount
        /\ \E gas \in 1 .. tx.gas :
             Finish(SendCoins(cache, tx.send.from, tx.send.to, tx.send.amount), gas)
     \/ \E gas \in Overhead : blockGas' = blockGas + gas /\ Fail("failed", gas)

-----------------------------------------------------------------------------
(* Blocks.                                                                 *)

(* BeginBlock: the distribution module takes the fees of the block before. *)
BeginBlock ==
  /\ stage = "idle" /\ ~inBlock /\ recheck = <<>>
  /\ inBlock' = TRUE /\ params' \in Params
  /\ state' = SendCoins(state, FeeCollector, Distribution, state.bank[FeeCollector])
  /\ blockGas' = 0 /\ results' = <<>> /\ blockBloom' = {} /\ due' = 0
  /\ UNCHANGED <<check, mempoolVars, included>>
  /\ Idle

(* EndBlock emits the bloom.  Commit clears the transient store, makes the *)
(* state the one CheckTx starts from, and has the mempool checked again.   *)
EndBlock ==
  /\ stage = "idle" /\ inBlock
  /\ inBlock' = FALSE /\ blockBloom' = state.bloom
  /\ state' = resetTransient(state) /\ check' = state'
  /\ mempool' = <<>> /\ recheck' = mempool
  /\ UNCHANGED <<params, blockGas, results, included, due>>
  /\ Idle

genesis == [seq |-> GenesisSeq, bank |-> GenesisBank, txIndex |-> 0, logSize |-> 0,
            bloom |-> {}, gasUsed |-> 0, gasWanted |-> 0]

Init ==
  /\ params \in Params /\ inBlock = FALSE
  /\ state = genesis /\ check = genesis /\ cache = genesis
  /\ mempool = <<>> /\ recheck = <<>>
  /\ stage = "idle" /\ mode = "none" /\ tx = NoTx /\ pos = 1
  /\ events = <<>> /\ done = <<>>
  /\ blockGas = 0 /\ results = <<>> /\ blockBloom = {}
  /\ included = {} /\ paid = <<>> /\ kept = 0 /\ due = 0

Next ==
  \/ BeginBlock \/ EndBlock
  \/ \E t \in Txs : CheckTx(t) \/ DeliverTx(t)
  \/ RecheckTx
  \/ EthGasConsume \/ EthIncrementSenderSequence \/ EthEmitEvent
  \/ ApplyFails \/ EndTx \/ EndCosmosTx
  \/ /\ Executing
     /\ \E r \in evmResult(cache, current), hookErr \in BOOLEAN, more \in HookLogs :
          ApplyTransaction(r, hookErr, more)

Spec == Init /\ [][Next]_vars

-----------------------------------------------------------------------------
(* Properties.                                                             *)

(* The variables stay in their types: in particular no balance and no      *)
(* counter of the transient store ever goes below zero.                    *)
TypeOK ==
  /\ params \in Params /\ inBlock \in BOOLEAN
  /\ state \in Store /\ check \in Store /\ cache \in Store
  /\ stage \in {"idle", "deduct", "increment", "emit", "messages"}
  /\ mode \in {"none", "check", "recheck", "deliver"}
  /\ tx \in Txs \cup {NoTx} /\ (tx = NoTx <=> stage = "idle")
  /\ pos \in Nat \ {0} /\ blockGas \in Nat /\ kept \in Nat /\ due \in Nat
  /\ blockBloom \subseteq Payload

(* RefundGas of ApplyTransaction never finds the fee collector short: what *)
(* the ante handler deducted for the messages still to run is always       *)
(* there, although the price a fee is deducted at and the price gas is     *)
(* refunded at are computed apart, and other messages were refunded from   *)
(* the same account in between.                                            *)
RefundCovered == \A i \in DOMAIN results : results[i].code # "refund failed"

(* Between transactions the fee collector holds exactly the gas each       *)
(* executed message used, at its effective price, plus the whole fee of    *)
(* every message of a transaction that failed after its ante handler, and  *)
(* of every Cosmos transaction:                                            *)
(* "Return EVM tokens for remaining gas, exchanged at the original rate"   *)
(* (RefundGas).                                                            *)
FeesMatchGas ==
  inBlock /\ stage = "idle" => state.bank[FeeCollector] = due

(* The nonce of a message or Cosmos transaction that was in a block,       *)
(* executed or failed, is below the sequence of its sender for good: the   *)
(* ante handler spends it and no execution gives it back, so none is in    *)
(* two blocks.                                                             *)
NoncesSpent ==
  \A m \in included : m.nonce < state.seq[m.from]

(* CheckTx and RecheckTx keep the pending messages of a sender gapless:    *)
(* from the committed sequence on, up to the sequence CheckTx expects      *)
(* next.  (State and check store agree between blocks.)  For a sender with *)
(* a Cosmos transaction pending it need not hold, as that one stays after  *)
(* its sequence has passed.                                                *)
pendingOf(a) == {m \in UNION {spentBy(mempool[k]) : k \in DOMAIN mempool} : m.from = a}
Gapless(a) ==
  LET from == IF state.seq[a] = NoAccount THEN 0 ELSE state.seq[a]
  IN check.seq[a] # NoAccount => {m.nonce : m \in pendingOf(a)} = from .. (check.seq[a] - 1)

PendingGapless ==
  ~inBlock /\ stage = "idle" /\ recheck = <<>> =>
    \A a \in Sender : pendingOf(a) \cap send = {} => Gapless(a)

(* The same for every sender: what eth_getTransactionCount of the pending  *)
(* block counts on.                                                        *)
EveryPendingGapless ==
  ~inBlock /\ stage = "idle" /\ recheck = <<>> => \A a \in Sender : Gapless(a)

=============================================================================
