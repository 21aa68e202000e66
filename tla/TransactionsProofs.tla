------------------------- MODULE TransactionsProofs -------------------------
(***************************************************************************)
(* Proofs about Transactions, for any senders, transactions, parameters,   *)
(* block gas limit and results of the EVM: the fee collector can pay every *)
(* refund, the pending nonces of a sender stay gapless, what is collected  *)
(* between transactions matches the gas, and included nonces stay spent.   *)
(***************************************************************************)
EXTENDS Transactions, TLAPS

(* Zenon is tried first, the SMT solver on what it leaves, then both again *)
(* with more time.                                                         *)
USE ZenonT(5), SMTT(20), Z3T(20), ZenonT(30), SMTT(30)

(* Stores, with balances of any sign: none is claimed to stay positive but *)
(* that of the fee collector.                                              *)
Ledger == [seq : [Sender -> Nat \cup {NoAccount}], bank : [Address -> Int],
           txIndex : Int, logSize : Int, bloom : SUBSET Payload, gasUsed : Int,
           gasWanted : Int]

TypeInv ==
  /\ params \in Params /\ inBlock \in BOOLEAN
  /\ state \in Ledger /\ check \in Ledger /\ cache \in Ledger
  /\ mempool \in Seq(Txs) /\ recheck \in Seq(Txs)
  /\ stage \in {"idle", "deduct", "increment", "emit", "messages"}
  /\ pos \in Nat \ {0} /\ paid \in Seq(Nat)
  /\ stage = "idle" => pos = 1
  /\ stage # "idle" => tx \in Txs /\ mode \in {"check", "recheck", "deliver"}
  /\ stage # "idle" /\ mode = "deliver" => inBlock
  /\ stage # "idle" /\ mode = "recheck" => recheck # <<>>
  /\ stage \in {"deduct", "increment", "emit"} => tx.option = "ethereum"
  /\ stage \in {"deduct", "increment"} => pos <= Len(tx.msgs)
  /\ stage = "emit" => pos = 1
  /\ stage = "messages" => mode = "deliver" /\ (tx.option = "ethereum" \/ tx.msgs = <<>>)

(* The fees of the running transaction are those deducted for its messages *)
(* so far, summed up.                                                      *)
before(i) == IF i = 1 THEN 0 ELSE paid[i - 1]

FeeInv ==
  /\ stage = "idle" => paid = <<>>
  /\ stage = "deduct" => Len(paid) = pos - 1
  /\ stage \in {"increment", "emit"} => Len(paid) = Len(tx.msgs)
  /\ stage = "messages" /\ tx.option = "ethereum" => Len(paid) = Len(tx.msgs)
  /\ stage # "idle" /\ tx.option = "ethereum" =>
       \A i \in 1 .. Len(paid) : paid[i] = DeductedFee(tx.msgs[i]) + before(i)
  /\ \A i, j \in 1 .. Len(paid) : i <= j => paid[i] <= paid[j]

(* What the ante handler deducted for the messages still to run is with    *)
(* the fee collector.                                                      *)
CollectorInv ==
  /\ state.bank[FeeCollector] >= 0 /\ check.bank[FeeCollector] >= 0
  /\ cache.bank[FeeCollector] >= 0
  /\ stage = "deduct" => cache.bank[FeeCollector] >= before(pos)
  /\ stage \in {"increment", "emit"} => cache.bank[FeeCollector] >= paid[Len(paid)]
  /\ stage = "messages" /\ pos <= Len(tx.msgs) =>
       cache.bank[FeeCollector] >= paid[Len(paid)] - before(pos)

(* The sequence of a store, counted from 0 also without an account.        *)
base(s, a) == IF s.seq[a] = NoAccount THEN 0 ELSE s.seq[a]

(* In CheckTx the sequence of a sender has moved over the nonces of those  *)
(* messages that EthIncrementSenderSequence has seen.                      *)
seen == CASE stage = "increment" -> pos - 1 [] stage = "emit" -> Len(tx.msgs) [] OTHER -> 0
seenNonces(a) == {tx.msgs[i].nonce : i \in {j \in 1 .. seen : tx.msgs[j].from = a}}

RunInv ==
  stage # "idle" /\ mode # "deliver" =>
    \A a \in Sender :
      /\ cache.seq[a] >= check.seq[a]
      /\ seenNonces(a) = base(check, a) .. (base(cache, a) - 1)
      /\ \A i \in 1 .. Len(tx.msgs) : tx.msgs[i].from = a => cache.seq[a] # NoAccount

(* Between blocks the check store is ahead of the state by what is pending.*)
PoolInv ==
  ~inBlock =>
    \A a \in Sender :
      /\ check.seq[a] >= state.seq[a]
      /\ check.seq[a] = NoAccount => pendingOf(a) = {}
      /\ pendingOf(a) \cap send = {} =>
           {m.nonce : m \in pendingOf(a)} = base(state, a) .. (base(check, a) - 1)

IInv == TypeInv /\ FeeInv /\ CollectorInv /\ RunInv /\ PoolInv

-----------------------------------------------------------------------------
(* Operators.                                                              *)

(* The module accounts are addresses and no senders.                       *)
LEMMA AddressFacts ==
  /\ Sender \subseteq Address /\ Other \subseteq Address
  /\ FeeCollector \in Address /\ Distribution \in Address /\ Contract \in Address
  /\ FeeCollector \notin Sender /\ FeeCollector # Distribution
BY AddressAssumption DEF Address

(* What TxAssumption says of a transaction, by its option.                 *)
LEMMA TxFacts ==
  ASSUME NEW t \in Txs
  PROVE  /\ t.msgs \in Seq(message) /\ Len(t.msgs) \in Nat
         /\ \A i \in 1 .. Len(t.msgs) : t.msgs[i] \in message /\ t.msgs[i].tip <= t.msgs[i].cap
         /\ t.option = "ethereum" => t.msgs # <<>> /\ Len(t.msgs) > 0 /\ t.send = NoSend
         /\ t.option # "ethereum" => t.send \in send
         /\ t.option \in {"ethereum", "web3", "none", "unknown"}
BY TxAssumption

(* SendCoins keeps the type of the store and its sequences.                *)
LEMMA SendCoinsFacts ==
  ASSUME NEW s \in Ledger, NEW from \in Address, NEW to \in Address, NEW amount \in Int
  PROVE  /\ SendCoins(s, from, to, amount) \in Ledger
         /\ SendCoins(s, from, to, amount).seq = s.seq
BY DEF SendCoins, Ledger

(* Sequences are numbers, that of a missing account too.                   *)
LEMMA SeqNumbers ==
  ASSUME NEW s \in Ledger
  PROVE  /\ s.seq \in [Sender -> Nat \cup {NoAccount}]
         /\ \A a \in Sender : s.seq[a] \in Int
BY DEF Ledger, NoAccount

(* Seen from the fee collector: it pays or receives.                       *)
LEMMA CollectorFacts ==
  ASSUME NEW s \in Ledger, NEW from \in Address, NEW to \in Address, NEW amount \in Int
  PROVE  /\ s.bank[FeeCollector] \in Int
         /\ from # FeeCollector /\ to # FeeCollector =>
              SendCoins(s, from, to, amount).bank[FeeCollector] = s.bank[FeeCollector]
         /\ from # FeeCollector /\ to = FeeCollector =>
              SendCoins(s, from, to, amount).bank[FeeCollector] = s.bank[FeeCollector] + amount
         /\ from = FeeCollector /\ to # FeeCollector =>
              SendCoins(s, from, to, amount).bank[FeeCollector] = s.bank[FeeCollector] - amount
<1>1. s.bank[FeeCollector] \in Int
  BY AddressFacts DEF Ledger
<1>2. SendCoins(s, from, to, amount).bank[FeeCollector] =
        s.bank[FeeCollector] - (IF FeeCollector = from THEN amount ELSE 0)
                             + (IF FeeCollector = to THEN amount ELSE 0)
  BY AddressFacts DEF SendCoins, Ledger
<1> QED
  BY <1>1, <1>2

(* Fees are natural numbers, and the price of a refund is at most the cap. *)
LEMMA FeeFacts ==
  ASSUME params \in Params, NEW m \in message
  PROVE  /\ GetBaseFee \in Nat
         /\ GetEffectiveGasPrice(m) \in Nat /\ GetEffectiveGasPrice(m) <= m.cap
         /\ DeductedFee(m) \in Nat
<1>1. params.baseFee \in Nat /\ params.feeMarket \in BOOLEAN
  BY ParamsAssumption
<1>2. GetBaseFee \in Nat
  BY <1>1 DEF GetBaseFee
<1>3. m.cap \in Nat /\ m.tip \in Nat /\ m.gas \in Nat
  BY DEF message
<1>4. GetEffectiveGasPrice(m) \in Nat /\ GetEffectiveGasPrice(m) <= m.cap
  BY <1>2, <1>3 DEF GetEffectiveGasPrice, smaller
<1>5. Fee(m) \in Nat /\ EffectiveFee(m) \in Nat
  BY <1>3, <1>4 DEF Fee, EffectiveFee
<1> QED
  BY <1>2, <1>4, <1>5 DEF DeductedFee

(* RefundGas: the refund of a message is at most what was deducted for it. *)
LEMMA RefundBounded ==
  ASSUME params \in Params, NEW m \in message, NEW gas \in Nat
  PROVE  remaining(m, gas) \in Int /\ remaining(m, gas) <= DeductedFee(m)
<1> DEFINE price == GetEffectiveGasPrice(m)
<1>1. price \in Nat /\ m.cap \in Nat /\ price <= m.cap /\ m.gas \in Nat
  BY FeeFacts DEF message
<1> HIDE DEF price
<1>2. (m.gas - gas) * price <= m.gas * price /\ (m.gas - gas) * price \in Int
  BY <1>1
<1>3. m.gas * price <= m.cap * m.gas /\ m.gas * price = price * m.gas
  BY <1>1
<1>4. DeductedFee(m) \in {price * m.gas, m.cap * m.gas}
  BY DEF DeductedFee, EffectiveFee, Fee, price
<1>5. remaining(m, gas) = (m.gas - gas) * price
  BY DEF remaining, price
<1>6. m.gas * price \in Int /\ m.cap * m.gas \in Int
  BY <1>1
<1> QED
  BY <1>2, <1>3, <1>4, <1>5, <1>6

(* The gas a message used is a natural number.                             *)
LEMMA ResponseGasNat ==
  ASSUME NEW m \in message, NEW s, NEW r \in evmResult(s, m)
  PROVE  ResponseGas(m, r) \in Nat
<1>1. m.gas \in Nat /\ m.intrinsic \in Nat
  BY DEF message
<1>2. r.left \in 0 .. (m.gas - m.intrinsic) /\ r.refund \in Nat
  <2>1. CASE r \in [left : 0 .. (m.gas - m.intrinsic), failed : {TRUE}, refund : {0},
                     logs : {<<>>}]
    BY <2>1
  <2>2. CASE r \in [left : 0 .. (m.gas - m.intrinsic), failed : {FALSE}, refund : Refunds,
                     logs : EvmLogs]
    BY <2>2, GasAssumption, ZenonT(30)
  <2> QED
    BY <2>1, <2>2, ZenonT(30) DEF evmResult
<1>3. m.gas - r.left \in Nat
  BY <1>1, <1>2
<1> DEFINE used == m.gas - r.left
<1>4. /\ GasToRefund(r.refund, used, RefundQuotient) \in Int
      /\ GasToRefund(r.refund, used, RefundQuotient) <= used
  <2>1. used \div 5 \in Int /\ used \div 5 <= used /\ used \div 2 \in Int /\ used \div 2 <= used
    BY <1>3
  <2> QED
    BY <1>2, <1>3, <2>1 DEF GasToRefund, RefundQuotient, smaller
<1>5. (m.gas * Multiplier.num) \div Multiplier.den \in Int
  <2>1. m.gas * Multiplier.num \in Int /\ Multiplier.den \in Nat \ {0}
    BY <1>1, GasAssumption
  <2> QED
    BY <2>1
<1> QED
  BY <1>3, <1>4, <1>5 DEF ResponseGas, larger

(* The stores of Prepared, CosmosDeducted and of the end of a message.     *)
LEMMA PreparedFacts ==
  ASSUME NEW m, NEW s \in Ledger, NEW t
  PROVE  Prepared(m, s, t) \in Ledger /\ Prepared(m, s, t).bank = s.bank
<1> DEFINE q == [a \in Sender |->
                   IF /\ IsCheckTx(m) /\ s.seq[a] = NoAccount
                      /\ \E i \in DOMAIN t.msgs : t.msgs[i].from = a
                   THEN 0 ELSE s.seq[a]]
<1>1. q \in [Sender -> Nat \cup {NoAccount}]
  BY DEF Ledger
<1>2. Prepared(m, s, t) = [s EXCEPT !.gasUsed = 0, !.seq = q]
  BY DEF Prepared
<1> HIDE DEF q
<1>3. [s EXCEPT !.gasUsed = 0] \in Ledger
  BY DEF Ledger
<1>4. ASSUME NEW u \in Ledger, NEW f \in [Sender -> Nat \cup {NoAccount}]
      PROVE  [u EXCEPT !.seq = f] \in Ledger
  BY DEF Ledger
<1>5. [s EXCEPT !.gasUsed = 0, !.seq = q] \in Ledger
  BY <1>1, <1>3, <1>4, ZenonT(30)
<1>6. [s EXCEPT !.gasUsed = 0, !.seq = q].bank = s.bank
  BY DEF Ledger
<1> QED
  BY <1>2, <1>5, <1>6

(* EthAccountVerification gives new senders the sequence 0.                *)
LEMMA PreparedSeq ==
  ASSUME NEW m, NEW s \in Ledger, NEW t, NEW a \in Sender
  PROVE  Prepared(m, s, t).seq[a] =
           IF /\ IsCheckTx(m) /\ s.seq[a] = NoAccount
              /\ \E i \in DOMAIN t.msgs : t.msgs[i].from = a
           THEN 0 ELSE s.seq[a]
BY DEF Prepared, Ledger

(* One more on a sequence keeps the type and the balances.                 *)
LEMMA IncrementFacts ==
  ASSUME NEW s \in Ledger, NEW a \in Sender, s.seq[a] # NoAccount
  PROVE  /\ [s EXCEPT !.seq[a] = @ + 1] \in Ledger
         /\ [s EXCEPT !.seq[a] = @ + 1].bank = s.bank
         /\ [s EXCEPT !.seq[a] = @ + 1].seq = [s.seq EXCEPT ![a] = @ + 1]
<1>1. s.seq[a] + 1 \in Nat
  BY DEF Ledger
<1>2. [s EXCEPT !.seq[a] = @ + 1] \in Ledger
  BY <1>1 DEF Ledger
<1> QED
  BY <1>2 DEF Ledger

(* The fee of a Cosmos transaction goes to the fee collector.              *)
LEMMA CosmosDeductedFacts ==
  ASSUME NEW s \in Ledger, NEW t \in Txs, t.send \in send,
         s.seq[t.send.from] # NoAccount
  PROVE  /\ CosmosDeducted(s, t) \in Ledger
         /\ CosmosDeducted(s, t).seq = [s.seq EXCEPT ![t.send.from] = @ + 1]
         /\ CosmosDeducted(s, t).bank[FeeCollector] = s.bank[FeeCollector] + t.send.fee
         /\ t.send.fee \in Nat /\ t.send.from \in Sender
<1>1. t.send.from \in Sender /\ t.send.fee \in Nat
  BY DEF send
<1> DEFINE moved == [s EXCEPT !.seq[t.send.from] = @ + 1]
<1>2. moved \in Ledger
  BY <1>1, IncrementFacts
<1>3. moved.bank = s.bank /\ moved.seq = [s.seq EXCEPT ![t.send.from] = @ + 1]
  BY <1>1, IncrementFacts
<1> HIDE DEF moved
<1> DEFINE sent == SendCoins(moved, t.send.from, FeeCollector, t.send.fee)
<1>4. t.send.from # FeeCollector /\ t.send.from \in Address
  BY <1>1, AddressFacts
<1>5. FeeCollector \in Address /\ t.send.fee \in Int
  BY <1>1, AddressFacts
<1>6. sent \in Ledger /\ sent.seq = moved.seq
  BY <1>2, <1>4, <1>5, SendCoinsFacts
<1>7. sent.bank[FeeCollector] = moved.bank[FeeCollector] + t.send.fee
  BY <1>2, <1>4, <1>5, CollectorFacts
<1> HIDE DEF sent
<1>8. CosmosDeducted(s, t) = sent
  BY DEF CosmosDeducted, moved, sent
<1> QED
  BY <1>1, <1>3, <1>6, <1>7, <1>8

(* GasWanted counts gas and moves nothing else.                            *)
LEMMA GasWantedFacts ==
  ASSUME NEW s \in Ledger, NEW t \in Txs
  PROVE  /\ GasWanted(s, t) \in Ledger
         /\ GasWanted(s, t).seq = s.seq /\ GasWanted(s, t).bank = s.bank
<1>1. s.gasWanted + t.gas \in Int
  BY TxAssumption DEF Ledger
<1>2. /\ [s EXCEPT !.gasWanted = s.gasWanted + t.gas] \in Ledger
      /\ [s EXCEPT !.gasWanted = s.gasWanted + t.gas].seq = s.seq
      /\ [s EXCEPT !.gasWanted = s.gasWanted + t.gas].bank = s.bank
  BY <1>1 DEF Ledger
<1> QED
  BY <1>2 DEF GasWanted

(* The store a Cosmos transaction leaves when its ante handler succeeds.   *)
LEMMA CosmosPassedFacts ==
  ASSUME NEW s \in Ledger, NEW t \in Txs, t.send \in send,
         s.seq[t.send.from] # NoAccount
  PROVE  /\ CosmosPassed(s, t) \in Ledger
         /\ CosmosPassed(s, t).seq = [s.seq EXCEPT ![t.send.from] = @ + 1]
         /\ CosmosPassed(s, t).bank[FeeCollector] = s.bank[FeeCollector] + t.send.fee
         /\ t.send.fee \in Nat /\ t.send.from \in Sender
BY CosmosDeductedFacts, GasWantedFacts DEF CosmosPassed

(* The EVM run and StateDB.Commit take nothing from the collector.         *)
LEMMA ProcessedFacts ==
  ASSUME NEW s \in Ledger, NEW m \in message, NEW r, NEW hookErr
  PROVE  /\ Processed(s, m, r, hookErr) \in Ledger
         /\ Processed(s, m, r, hookErr).bank[FeeCollector] >= s.bank[FeeCollector]
<1>1. m.from \in Sender /\ m.value \in Nat /\ m.nonce \in Nat /\ recipient(m) \in Address
  BY AddressFacts DEF message, recipient
<1> DEFINE moved == IF r.failed THEN s ELSE SendCoins(s, m.from, recipient(m), m.value)
<1>2. moved \in Ledger /\ moved.bank[FeeCollector] >= s.bank[FeeCollector]
  <2>1. s.bank[FeeCollector] \in Int
    BY AddressFacts DEF Ledger
  <2> DEFINE to == recipient(m)
  <2>2. CASE r.failed
    BY <2>1, <2>2
  <2>3. CASE ~r.failed
    <3>1. moved = SendCoins(s, m.from, to, m.value)
      BY <2>3
    <3> HIDE DEF moved
    <3>2. m.from \in Address /\ FeeCollector # m.from /\ m.value \in Int
      BY <1>1, AddressFacts
    <3>3. CASE to = FeeCollector
      <4>1. moved \in Ledger
        BY <1>1, <3>1, <3>2, SendCoinsFacts
      <4>2. moved.bank[FeeCollector] = s.bank[FeeCollector] + m.value
        BY <1>1, <3>1, <3>2, <3>3, CollectorFacts
      <4> QED
        BY <1>1, <2>1, <4>1, <4>2
    <3>4. CASE to # FeeCollector
      <4>1. moved \in Ledger
        BY <1>1, <3>1, <3>2, SendCoinsFacts
      <4>2. moved.bank[FeeCollector] = s.bank[FeeCollector]
        BY <1>1, <3>1, <3>2, <3>4, CollectorFacts
      <4> QED
        BY <2>1, <4>1, <4>2
    <3> QED
      BY <3>3, <3>4
  <2> QED
    BY <2>2, <2>3
<1> HIDE DEF moved
<1>3. [moved EXCEPT !.seq[m.from] = m.nonce + 1] \in Ledger
      /\ [moved EXCEPT !.seq[m.from] = m.nonce + 1].bank = moved.bank
  BY <1>1, <1>2 DEF Ledger
<1>4. Committed(s, m, r) \in {moved, [moved EXCEPT !.seq[m.from] = m.nonce + 1]}
  BY DEF Committed, moved
<1>5. s.bank[FeeCollector] >= s.bank[FeeCollector]
  BY AddressFacts DEF Ledger
<1> QED
  BY <1>2, <1>3, <1>4, <1>5, ZenonT(30) DEF Processed

(* The transient bloom and log size keep the rest of the store.            *)
LEMMA CountedFacts ==
  ASSUME NEW s \in Ledger, NEW data \in Seq(Payload), NEW more \in Seq(Payload)
  PROVE  /\ Counted(s, data, more) \in Ledger
         /\ Counted(s, data, more).bank = s.bank /\ Counted(s, data, more).seq = s.seq
<1>1. LogsBloom(data) \subseteq Payload
  BY DEF LogsBloom
<1>2. Len(data \o more) \in Nat
  OBVIOUS
<1>3. s.logSize + Len(data \o more) \in Int /\ s.bloom \subseteq Payload
  BY <1>2 DEF Ledger
<1> DEFINE b == IF data = <<>> THEN {} ELSE s.bloom \cup LogsBloom(data)
           n == s.logSize + Len(data \o more)
<1>4. b \in SUBSET Payload /\ n \in Int
  BY <1>1, <1>3
<1>5. Counted(s, data, more) \in {s, [s EXCEPT !.bloom = b, !.logSize = n]}
  BY DEF Counted
<1> HIDE DEF b, n
<1>6. /\ [s EXCEPT !.bloom = b, !.logSize = n] \in Ledger
      /\ [s EXCEPT !.bloom = b, !.logSize = n].bank = s.bank
      /\ [s EXCEPT !.bloom = b, !.logSize = n].seq = s.seq
  BY <1>4, ZenonT(30) DEF Ledger
<1> QED
  BY <1>5, <1>6, ZenonT(30)

(* The transient index and gas keep the rest of the store.                 *)
LEMMA IndexedFacts ==
  ASSUME NEW s \in Ledger, NEW gas \in Nat, NEW failed
  PROVE  /\ Indexed(s, gas, failed) \in Ledger
         /\ Indexed(s, gas, failed).bank = s.bank /\ Indexed(s, gas, failed).seq = s.seq
<1>1. s.txIndex + 1 \in Int /\ s.gasUsed + gas \in Int
  BY DEF Ledger
<1> QED
  BY <1>1, ZenonT(30) DEF Indexed, Ledger

-----------------------------------------------------------------------------
(* The end of a transaction: only what it leaves behind is to be shown.    *)
LEMMA BackToIdle ==
  ASSUME Idle, params' \in Params, inBlock' \in BOOLEAN,
         state' \in Ledger, state'.bank[FeeCollector] >= 0,
         check' \in Ledger, check'.bank[FeeCollector] >= 0,
         mempool' \in Seq(Txs), recheck' \in Seq(Txs), PoolInv'
  PROVE  IInv'
<1>1. TypeInv'
  BY DEF Idle, TypeInv
<1>2. FeeInv'
  BY DEF Idle, FeeInv
<1>3. CollectorInv'
  BY DEF Idle, CollectorInv
<1>4. RunInv'
  BY DEF Idle, RunInv
<1> QED
  BY <1>1, <1>2, <1>3, <1>4 DEF IInv

(* The sequences of the state change in a block only.                      *)
LEMMA PoolKept ==
  ASSUME PoolInv, inBlock' = inBlock, mempool' = mempool, check'.seq = check.seq,
         inBlock \/ state'.seq = state.seq
  PROVE  PoolInv'
BY DEF PoolInv, pendingOf, base, spentBy

(* At genesis nothing runs and nothing is pending.                         *)
LEMMA InitInv == Init => IInv
<1> SUFFICES ASSUME Init PROVE IInv
  OBVIOUS
<1>1. genesis \in Ledger /\ genesis.bank[FeeCollector] >= 0
  BY GenesisAssumption, AddressFacts DEF genesis, Ledger
<1>2. TypeInv
  <2>1. inBlock \in BOOLEAN
    BY ZenonT(30) DEF Init
  <2>2. mempool \in Seq(Txs) /\ recheck \in Seq(Txs) /\ paid \in Seq(Nat)
    BY DEF Init
  <2> QED
    BY <1>1, <2>1, <2>2 DEF Init, TypeInv
<1>3. FeeInv
  BY DEF Init, FeeInv
<1>4. CollectorInv
  BY <1>1 DEF Init, CollectorInv
<1>5. RunInv
  BY DEF Init, RunInv
<1>6. PoolInv
  <2> SUFFICES ASSUME NEW a \in Sender
               PROVE  /\ check.seq[a] >= state.seq[a]
                      /\ pendingOf(a) = {}
                      /\ {} = base(state, a) .. (base(check, a) - 1)
    BY DEF PoolInv
  <2>1. check.seq[a] \in Int /\ state.seq[a] = check.seq[a]
    BY <1>1 DEF Init, Ledger, NoAccount
  <2>2. pendingOf(a) = {}
    BY DEF Init, pendingOf
  <2> QED
    BY <2>1, <2>2 DEF base
<1> QED
  BY <1>2, <1>3, <1>4, <1>5, <1>6 DEF IInv

(* A rejected transaction changes neither store.                           *)
LEMMA RejectStep ==
  ASSUME IInv, NEW m, NEW t, Reject(m, t), m = "recheck" => recheck # <<>>
  PROVE  IInv'
<1>1. PoolInv'
  BY PoolKept DEF Reject, blockVars, IInv
<1>2. recheck' \in Seq(Txs)
  BY DEF Reject, IInv, TypeInv
<1> QED
  BY <1>1, <1>2, BackToIdle DEF Reject, blockVars, IInv, TypeInv, CollectorInv

(* Failed messages leave what the ante handler wrote.                      *)
LEMMA FailStep ==
  ASSUME IInv, NEW code, NEW gas, Fail(code, gas)
  PROVE  IInv'
<1>1. PoolInv'
  BY PoolKept DEF Fail, blockVars, mempoolVars, IInv
<1> QED
  BY <1>1, BackToIdle DEF Fail, blockVars, mempoolVars, IInv, TypeInv, CollectorInv

(* The end of a delivered transaction writes its branch.                   *)
LEMMA FinishStep ==
  ASSUME IInv, inBlock, NEW branch \in Ledger, branch.bank[FeeCollector] >= 0,
         NEW gas, Finish(branch, gas)
  PROVE  IInv'
<1>1. CASE Fail("block gas exceeded", gas)
  BY <1>1, FailStep, ZenonT(30)
<1>2. CASE /\ state' = branch /\ UNCHANGED <<blockVars, check, mempoolVars>> /\ Idle
  <2>1. PoolInv'
    BY <1>2, PoolKept DEF blockVars, mempoolVars, IInv
  <2> QED
    BY <1>2, <2>1, BackToIdle DEF blockVars, mempoolVars, IInv, TypeInv, CollectorInv
<1> QED
  BY <1>1, <1>2, ZenonT(30) DEF Finish

(* BeginBlock sends the fees away; PoolInv is about the time between       *)
(* blocks.                                                                 *)
LEMMA BeginBlockStep ==
  ASSUME IInv, BeginBlock
  PROVE  IInv'
<1>1. state.bank[FeeCollector] \in Int /\ state \in Ledger
  BY AddressFacts DEF IInv, TypeInv, Ledger
<1>2. state' \in Ledger
  BY <1>1, AddressFacts, SendCoinsFacts DEF BeginBlock
<1>3. state'.bank[FeeCollector] = state.bank[FeeCollector] - state.bank[FeeCollector]
  BY <1>1, AddressFacts, CollectorFacts DEF BeginBlock
<1>4. state'.bank[FeeCollector] >= 0
  BY <1>1, <1>3
<1>5. PoolInv'
  BY DEF BeginBlock, PoolInv
<1> QED
  BY <1>2, <1>4, <1>5, BackToIdle DEF BeginBlock, mempoolVars, IInv, TypeInv, CollectorInv

(* Commit clears the transient store only.                                 *)
LEMMA ResetFacts ==
  ASSUME NEW s \in Ledger
  PROVE  /\ resetTransient(s) \in Ledger
         /\ resetTransient(s).bank = s.bank /\ resetTransient(s).seq = s.seq
<1> DEFINE s1 == [s EXCEPT !.txIndex = 0]
           s2 == [s1 EXCEPT !.logSize = 0]
           s3 == [s2 EXCEPT !.bloom = {}]
           s4 == [s3 EXCEPT !.gasUsed = 0]
           s5 == [s4 EXCEPT !.gasWanted = 0]
<1>1. s1 \in Ledger /\ s1.bank = s.bank /\ s1.seq = s.seq
  BY DEF Ledger
<1> HIDE DEF s1
<1>2. s2 \in Ledger /\ s2.bank = s.bank /\ s2.seq = s.seq
  BY <1>1 DEF Ledger
<1> HIDE DEF s2
<1>3. s3 \in Ledger /\ s3.bank = s.bank /\ s3.seq = s.seq
  BY <1>2 DEF Ledger
<1> HIDE DEF s3
<1>4. s4 \in Ledger /\ s4.bank = s.bank /\ s4.seq = s.seq
  BY <1>3 DEF Ledger
<1> HIDE DEF s4
<1>5. s5 \in Ledger /\ s5.bank = s.bank /\ s5.seq = s.seq
  BY <1>4 DEF Ledger
<1> HIDE DEF s5
<1>6. resetTransient(s) = s5
  BY DEF resetTransient, s1, s2, s3, s4, s5
<1> QED
  BY <1>5, <1>6

(* EndBlock and Commit: the check store is the state again, and nothing    *)
(* is pending before the recheck.                                          *)
LEMMA EndBlockStep ==
  ASSUME IInv, EndBlock
  PROVE  IInv'
<1>1. state \in Ledger
  BY DEF IInv, TypeInv
<1>2. state' \in Ledger /\ check' = state' /\ state'.bank = state.bank
  BY <1>1, ResetFacts DEF EndBlock
<1>3. PoolInv'
  <2> SUFFICES ASSUME NEW a \in Sender
               PROVE  /\ check'.seq[a] >= state'.seq[a]
                      /\ pendingOf(a)' = {}
                      /\ {} = base(state', a) .. (base(check', a) - 1)
    BY DEF PoolInv
  <2>1. check'.seq[a] \in Int /\ state'.seq[a] = check'.seq[a]
    BY <1>2 DEF EndBlock, Ledger, NoAccount
  <2>2. pendingOf(a)' = {}
    BY DEF EndBlock, pendingOf
  <2> QED
    BY <2>1, <2>2 DEF base
<1>4. inBlock' \in BOOLEAN
  BY ZenonT(30) DEF EndBlock
<1>5. mempool' \in Seq(Txs) /\ recheck' \in Seq(Txs) /\ params' \in Params /\ Idle
  BY DEF EndBlock, IInv, TypeInv
<1>6. state'.bank[FeeCollector] >= 0 /\ check'.bank[FeeCollector] >= 0
  BY <1>2 DEF IInv, CollectorInv
<1> QED
  BY <1>2, <1>3, <1>4, <1>5, <1>6, BackToIdle

-----------------------------------------------------------------------------
(* Admission to the mempool.                                               *)

spentFrom(t, a) == {m \in spentBy(t) : m.from = a}

(* What is pending once a transaction is appended to the mempool.          *)
LEMMA PendingAppended ==
  ASSUME mempool \in Seq(Txs), NEW t \in Txs, mempool' = Append(mempool, t), NEW a
  PROVE  pendingOf(a)' = pendingOf(a) \cup spentFrom(t, a)
<1> DEFINE n == Len(mempool)
<1>1. n \in Nat /\ DOMAIN mempool = 1 .. n
  OBVIOUS
<1>2. /\ DOMAIN mempool' = 1 .. (n + 1) /\ mempool'[n + 1] = t
      /\ \A k \in 1 .. n : mempool'[k] = mempool[k]
  OBVIOUS
<1> HIDE DEF n
<1>3. DOMAIN mempool' = DOMAIN mempool \cup {n + 1}
  BY <1>1, <1>2
<1> DEFINE P == {spentBy(mempool[k]) : k \in DOMAIN mempool}
<1>4. {spentBy(mempool'[k]) : k \in DOMAIN mempool'} = P \cup {spentBy(t)}
  BY <1>1, <1>2, <1>3, ZenonT(30)
<1> QED
  BY <1>4 DEF pendingOf, spentFrom, spentBy

(* Adjacent intervals of nonces make one.                                  *)
LEMMA IntervalSplit ==
  ASSUME NEW x \in Nat, NEW y \in Nat, NEW z \in Nat, x <= y, y <= z
  PROVE  x .. (z - 1) = (x .. (y - 1)) \cup (y .. (z - 1))
OBVIOUS

(* PoolInv is kept when the check store moves over the nonces that the     *)
(* admitted transaction spends.                                            *)
LEMMA AdmitPool ==
  ASSUME IInv, NEW t \in Txs, mempool' = Append(mempool, t),
         state' = state, inBlock' = inBlock, check' \in Ledger,
         \A a \in Sender :
           /\ check'.seq[a] >= check.seq[a]
           /\ spentFrom(t, a) # {} => check'.seq[a] # NoAccount
           /\ spentFrom(t, a) \cap send = {} =>
                {m.nonce : m \in spentFrom(t, a)} = base(check, a) .. (base(check', a) - 1)
  PROVE  PoolInv'
<1> SUFFICES ASSUME ~inBlock, NEW a \in Sender
             PROVE  /\ check'.seq[a] >= state.seq[a]
                    /\ check'.seq[a] = NoAccount => pendingOf(a)' = {}
                    /\ pendingOf(a)' \cap send = {} =>
                         {m.nonce : m \in pendingOf(a)'}
                           = base(state, a) .. (base(check', a) - 1)
  BY DEF PoolInv
<1> DEFINE old == state.seq[a]
           mid == check.seq[a]
           new == check'.seq[a]
           pending == pendingOf(a)
           more == spentFrom(t, a)
<1>1. old \in Nat \cup {NoAccount} /\ mid \in Nat \cup {NoAccount}
      /\ new \in Nat \cup {NoAccount}
  BY ZenonT(30) DEF IInv, TypeInv, Ledger
<1>2. pendingOf(a)' = pending \cup more
  BY PendingAppended DEF IInv, TypeInv
<1>3. mid >= old /\ new >= mid
  BY DEF IInv, PoolInv
<1>4. (mid = NoAccount => pending = {}) /\ (more # {} => new # NoAccount)
  BY DEF IInv, PoolInv
<1>5. /\ pending \cap send = {} =>
           {m.nonce : m \in pending} = base(state, a) .. (base(check, a) - 1)
      /\ more \cap send = {} =>
           {m.nonce : m \in more} = base(check, a) .. (base(check', a) - 1)
  BY DEF IInv, PoolInv
<1>6. /\ base(state, a) = IF old = NoAccount THEN 0 ELSE old
      /\ base(check, a) = IF mid = NoAccount THEN 0 ELSE mid
      /\ base(check', a) = IF new = NoAccount THEN 0 ELSE new
  BY DEF base
<1> HIDE DEF old, mid, new, pending, more
<1> DEFINE from(x) == IF x = NoAccount THEN 0 ELSE x
<1>7. /\ from(old) \in Nat /\ from(mid) \in Nat /\ from(new) \in Nat
      /\ from(old) <= from(mid) /\ from(mid) <= from(new)
      /\ new >= old /\ (new = NoAccount => mid = NoAccount)
  BY <1>1, <1>3 DEF NoAccount
<1>8. from(old) .. (from(new) - 1)
        = (from(old) .. (from(mid) - 1)) \cup (from(mid) .. (from(new) - 1))
  <2> HIDE DEF from
  <2> QED
    BY <1>7, IntervalSplit
<1>9. {m.nonce : m \in pending \cup more}
        = {m.nonce : m \in pending} \cup {m.nonce : m \in more}
  BY ZenonT(30)
<1>10. new = NoAccount => pending \cup more = {}
  BY <1>4, <1>7, ZenonT(30)
<1>11. (pending \cup more) \cap send = {} => pending \cap send = {} /\ more \cap send = {}
  OBVIOUS
<1>12. (pending \cup more) \cap send = {} =>
         {m.nonce : m \in pending \cup more} = base(state, a) .. (base(check', a) - 1)
  BY <1>5, <1>6, <1>8, <1>9, <1>11, ZenonT(30)
<1> QED
  BY <1>2, <1>7, <1>10, <1>12 DEF old, new

-----------------------------------------------------------------------------
(* The ante handlers.                                                      *)

(* CheckTx of a Cosmos transaction moves the sequence of its sender.       *)
LEMMA CosmosAdmitStep ==
  ASSUME IInv, NEW m, NEW t \in Txs, t.option # "ethereum", inBlock' = inBlock,
         params' = params, m = "recheck" => recheck # <<>>,
         check.seq[t.send.from] # NoAccount, Admit(m, t, CosmosPassed(check, t))
  PROVE  IInv'
<1>1. t.send \in send /\ check \in Ledger /\ spentBy(t) = {t.send}
  BY TxAssumption DEF IInv, TypeInv, spentBy
<1>2. /\ check' \in Ledger /\ t.send.from \in Sender /\ t.send.fee \in Nat
      /\ check'.bank[FeeCollector] = check.bank[FeeCollector] + t.send.fee
  BY <1>1, CosmosPassedFacts, ZenonT(30) DEF Admit
<1>3. check'.seq = [check.seq EXCEPT ![t.send.from] = @ + 1]
  BY <1>1, CosmosPassedFacts DEF Admit
<1>4. ASSUME NEW a \in Sender
      PROVE  /\ check'.seq[a] >= check.seq[a]
             /\ spentFrom(t, a) # {} => check'.seq[a] # NoAccount
             /\ spentFrom(t, a) \cap send = {} =>
                  {s.nonce : s \in spentFrom(t, a)} = base(check, a) .. (base(check', a) - 1)
  <2>1. check.seq \in [Sender -> Nat \cup {NoAccount}]
    BY <1>1 DEF Ledger
  <2>2. CASE a = t.send.from
    <3>1. check.seq[a] \in Nat /\ check'.seq[a] = check.seq[a] + 1
      BY <1>2, <1>3, <2>1, <2>2
    <3>2. t.send \in spentFrom(t, a) \cap send
      BY <1>1, <2>2 DEF spentFrom
    <3> QED
      BY <3>1, <3>2 DEF NoAccount
  <2>3. CASE a # t.send.from
    <3>1. check.seq[a] \in Int /\ check'.seq[a] = check.seq[a]
      BY <1>2, <1>3, <2>1, <2>3 DEF NoAccount
    <3>2. spentFrom(t, a) = {}
      BY <1>1, <2>3 DEF spentFrom
    <3>3. base(check, a) = base(check', a) /\ base(check, a) \in Int
      BY <3>1 DEF base
    <3> QED
      BY <3>1, <3>2, <3>3
  <2> QED
    BY <2>2, <2>3
<1>5. PoolInv'
  BY <1>2, <1>4, AdmitPool DEF Admit
<1>6. check'.bank[FeeCollector] >= 0
  <2>1. check.bank[FeeCollector] >= 0
    BY ZenonT(30) DEF IInv, CollectorInv
  <2>2. check.bank[FeeCollector] \in Int
    BY <1>1, AddressFacts DEF Ledger
  <2> QED
    BY <1>2, <2>1, <2>2
<1>7. recheck' \in Seq(Txs) /\ mempool' \in Seq(Txs)
  BY DEF Admit, IInv, TypeInv
<1> QED
  BY <1>2, <1>5, <1>6, <1>7, BackToIdle DEF Admit, IInv, TypeInv, CollectorInv

(* DeliverTx of a Cosmos transaction, whose fee stays with the collector.  *)
LEMMA CosmosDeliverStep ==
  ASSUME IInv, stage = "idle", inBlock, NEW t \in Txs, t.option # "ethereum", t.msgs = <<>>,
         state.seq[t.send.from] # NoAccount,
         mode' = "deliver" /\ tx' = t /\ stage' = "messages",
         state' = CosmosPassed(state, t), cache' = CosmosPassed(state, t),
         paid' = <<t.send.fee>>,
         UNCHANGED <<params, inBlock, check, mempoolVars, pos>>
  PROVE  IInv'
<1>1. t.send \in send /\ state \in Ledger
  BY TxAssumption DEF IInv, TypeInv
<1>2. /\ state' \in Ledger /\ cache' = state' /\ t.send.fee \in Nat
      /\ state'.bank[FeeCollector] = state.bank[FeeCollector] + t.send.fee
  BY <1>1, CosmosPassedFacts, ZenonT(30)
<1>3. paid' \in Seq(Nat) /\ Len(paid') = 1 /\ paid'[1] \in Nat /\ pos' = 1 /\ Len(tx'.msgs) = 0
  BY <1>2 DEF IInv, TypeInv
<1>4. TypeInv'
  BY <1>2, <1>3 DEF IInv, TypeInv, mempoolVars
<1>5. FeeInv'
  <2>1. \A i, j \in 1 .. Len(paid') : paid'[i] <= paid'[j]
    BY <1>3
  <2> QED
    BY <2>1 DEF FeeInv
<1>6. CollectorInv'
  <2>1. state.bank[FeeCollector] \in Int
    BY <1>1, AddressFacts DEF Ledger
  <2> QED
    BY <1>2, <1>3, <2>1 DEF IInv, CollectorInv
<1>7. RunInv' /\ PoolInv'
  BY DEF RunInv, PoolInv
<1> QED
  BY <1>4, <1>5, <1>6, <1>7 DEF IInv

(* The Ethereum ante handler starts, on a branch with the same balances.   *)
LEMMA EthStartStep ==
  ASSUME IInv, stage = "idle", NEW m \in {"check", "recheck", "deliver"},
         m = "deliver" => inBlock, m = "recheck" => recheck # <<>>,
         NEW t \in Txs, t.option = "ethereum",
         mode' = m /\ tx' = t /\ stage' = "deduct",
         cache' = Prepared(m, branchOf(m), t),
         UNCHANGED <<params, inBlock, state, check, mempoolVars, pos, paid>>
  PROVE  IInv'
<1>1. branchOf(m) \in Ledger /\ branchOf(m).bank[FeeCollector] >= 0
  BY DEF branchOf, IInv, TypeInv, CollectorInv
<1>2. cache' \in Ledger /\ cache'.bank = branchOf(m).bank
  BY <1>1, PreparedFacts
<1>3. pos' = 1 /\ paid' = <<>> /\ Len(paid') = 0 /\ Len(t.msgs) \in Nat /\ Len(t.msgs) > 0
  BY TxFacts DEF IInv, TypeInv, FeeInv
<1>4. TypeInv'
  BY <1>2, <1>3 DEF IInv, TypeInv, mempoolVars
<1>5. FeeInv'
  BY <1>3 DEF FeeInv
<1>6. CollectorInv'
  BY <1>1, <1>2, <1>3 DEF IInv, CollectorInv, before
<1>7. RunInv'
  <2> SUFFICES ASSUME m # "deliver", NEW a \in Sender
               PROVE  /\ cache'.seq[a] >= check.seq[a]
                      /\ seenNonces(a)' = base(check, a) .. (base(cache', a) - 1)
                      /\ \A i \in 1 .. Len(t.msgs) : t.msgs[i].from = a =>
                            cache'.seq[a] # NoAccount
    BY DEF RunInv
  <2>1. IsCheckTx(m) /\ branchOf(m) = check /\ check \in Ledger
    BY DEF IsCheckTx, branchOf, IInv, TypeInv
  <2>2. cache'.seq[a] = IF /\ check.seq[a] = NoAccount
                           /\ \E i \in DOMAIN t.msgs : t.msgs[i].from = a
                        THEN 0 ELSE check.seq[a]
    BY <2>1, PreparedSeq
  <2>3. check.seq[a] \in Nat \cup {NoAccount} /\ DOMAIN t.msgs = 1 .. Len(t.msgs)
    BY <2>1, TxFacts DEF Ledger
  <2>4. base(cache', a) = base(check, a) /\ base(check, a) \in Nat
    BY <2>2, <2>3 DEF base, NoAccount
  <2>5. seenNonces(a)' = {}
    BY DEF seenNonces, seen
  <2>6. cache'.seq[a] >= check.seq[a]
    BY <2>2, <2>3 DEF NoAccount
  <2>7. \A i \in 1 .. Len(t.msgs) : t.msgs[i].from = a => cache'.seq[a] # NoAccount
    BY <2>2, <2>3 DEF NoAccount
  <2>8. base(check, a) .. (base(cache', a) - 1) = {}
    BY <2>4
  <2> QED
    BY <2>5, <2>6, <2>7, <2>8
<1>8. PoolInv'
  BY PoolKept DEF IInv, mempoolVars
<1> QED
  BY <1>4, <1>5, <1>6, <1>7, <1>8 DEF IInv

(* The ante handler as CheckTx, RecheckTx and DeliverTx call it.           *)
LEMMA AnteHandlerStep ==
  ASSUME IInv, stage = "idle", NEW m \in {"check", "recheck", "deliver"},
         m = "deliver" => inBlock, m = "recheck" => recheck # <<>>,
         NEW t \in Txs, AnteHandler(m, t)
  PROVE  IInv'
<1>1. CASE t.option = "ethereum" /\ EthAnte(m, t)
  <2>1. CASE Reject(m, t)
    BY <2>1, RejectStep
  <2>2. CASE /\ mode' = m /\ tx' = t /\ stage' = "deduct"
             /\ cache' = Prepared(m, branchOf(m), t)
             /\ UNCHANGED <<blockVars, state, check, mempoolVars, pos, historyVars>>
    BY <1>1, <2>2, EthStartStep DEF blockVars, historyVars
  <2> QED
    BY <1>1, <2>1, <2>2 DEF EthAnte
<1>2. CASE t.option \in {"web3", "none"} /\ CosmosAnte(m, t)
  <2>1. CASE Reject(m, t)
    BY <2>1, RejectStep
  <2>2. CASE CosmosVerified(m, branchOf(m), t) /\ ~Reject(m, t)
    <3>1. t.option # "ethereum" /\ t.msgs = <<>>
          /\ branchOf(m).seq[t.send.from] # NoAccount
      BY <1>2, <2>2 DEF CosmosVerified, RejectMessages
    <3>2. params' = params /\ inBlock' = inBlock
      BY <1>2, <2>2 DEF CosmosAnte, blockVars
    <3>3. CASE m = "deliver"
      <4>1. branchOf(m) = state /\ inBlock
        BY <3>3 DEF branchOf
      <4>2. /\ mode' = "deliver" /\ tx' = t /\ stage' = "messages"
            /\ state' = CosmosPassed(state, t) /\ cache' = CosmosPassed(state, t)
            /\ paid' = <<t.send.fee>> /\ UNCHANGED <<check, mempoolVars, pos>>
        BY <1>2, <2>2, <3>3, <4>1 DEF CosmosAnte
      <4> QED
        BY <3>1, <3>2, <4>1, <4>2, CosmosDeliverStep
    <3>4. CASE m # "deliver"
      <4>1. branchOf(m) = check
        BY <3>4 DEF branchOf
      <4>2. Admit(m, t, CosmosPassed(check, t))
        BY <1>2, <2>2, <3>4, <4>1 DEF CosmosAnte
      <4> QED
        BY <3>1, <3>2, <4>1, <4>2, CosmosAdmitStep, ZenonT(30)
    <3> QED
      BY <3>3, <3>4
  <2> QED
    BY <1>2, <2>1, <2>2 DEF CosmosAnte
<1>3. CASE t.option = "unknown" /\ Reject(m, t)
  BY <1>3, RejectStep
<1> QED
  BY <1>1, <1>2, <1>3 DEF AnteHandler

(* RecheckTx drops the head of its list or checks it again.                *)
LEMMA RecheckTxStep ==
  ASSUME IInv, RecheckTx
  PROVE  IInv'
<1>1. recheck \in Seq(Txs) /\ recheck # <<>> /\ stage = "idle"
  BY DEF RecheckTx, IInv, TypeInv
<1>2. Head(recheck) \in Txs /\ Tail(recheck) \in Seq(Txs)
  BY <1>1
<1>3. CASE AnteHandler("recheck", Head(recheck))
  BY <1>1, <1>2, <1>3, AnteHandlerStep
<1>4. CASE /\ recheck' = Tail(recheck)
           /\ UNCHANGED <<blockVars, state, check, runVars, mempool>>
  <2>1. TypeInv'
    BY <1>1, <1>2, <1>4 DEF IInv, TypeInv, blockVars, runVars
  <2>2. FeeInv' /\ CollectorInv'
    BY <1>4, ZenonT(30) DEF IInv, FeeInv, CollectorInv, before, blockVars, runVars, DeductedFee,
                EffectiveFee, GetEffectiveGasPrice, GetBaseFee
  <2>3. RunInv'
    BY <1>1, <1>4 DEF RunInv, runVars
  <2>4. PoolInv'
    BY <1>4, PoolKept DEF IInv, blockVars
  <2> QED
    BY <2>1, <2>2, <2>3, <2>4 DEF IInv
<1> QED
  BY <1>3, <1>4 DEF RecheckTx

(* A transaction that finds no block gas left changes nothing here.        *)
LEMMA UnchangedStep ==
  ASSUME IInv, stage = "idle", UNCHANGED <<blockVars, state, check, mempoolVars, runVars>>
  PROVE  IInv'
<1>1. TypeInv'
  BY DEF IInv, TypeInv, blockVars, runVars, mempoolVars
<1>2. FeeInv' /\ CollectorInv'
  BY DEF IInv, FeeInv, CollectorInv, runVars
<1>3. RunInv'
  BY DEF RunInv, runVars
<1>4. PoolInv'
  BY PoolKept DEF IInv, blockVars, mempoolVars
<1> QED
  BY <1>1, <1>2, <1>3, <1>4 DEF IInv

-----------------------------------------------------------------------------
(* The steps of the Ethereum ante handler and of the messages.             *)

(* What EthGasConsume does when it deducts the fee of the message at pos.  *)
LEMMA DeductFacts ==
  ASSUME IInv, EthGasConsume, ~Reject(mode, tx)
  PROVE  LET n == Len(tx.msgs)
             fee == DeductedFee(current)
             sum == fee + before(pos)
         IN /\ cache' = SendCoins(cache, current.from, FeeCollector, fee)
            /\ pos' = IF pos = n THEN 1 ELSE pos + 1
            /\ stage' = IF pos = n THEN "increment" ELSE "deduct"
            /\ UNCHANGED <<params, inBlock, state, check, mempool, recheck, mode, tx, included,
                           kept, due>>
            /\ stage = "deduct" /\ tx \in Txs /\ tx.option = "ethereum"
            /\ n \in Nat /\ pos \in 1 .. n /\ current \in message
            /\ paid \in Seq(Nat) /\ Len(paid) = pos - 1 /\ cache \in Ledger /\ params \in Params
            /\ fee \in Nat /\ before(pos) \in Nat /\ sum \in Nat /\ sum >= before(pos)
            /\ cache' \in Ledger /\ cache'.seq = cache.seq
            /\ cache'.bank[FeeCollector] = cache.bank[FeeCollector] + fee
            /\ cache.bank[FeeCollector] \in Int
            /\ paid' \in Seq(Nat) /\ Len(paid') = pos /\ paid'[pos] = sum
            /\ \A i \in 1 .. (pos - 1) : paid'[i] = paid[i]
<1> DEFINE n == Len(tx.msgs)
           fee == DeductedFee(current)
           sum == fee + before(pos)
<1>1. /\ cache' = SendCoins(cache, current.from, FeeCollector, fee)
      /\ paid' = Append(paid, sum)
      /\ pos' = IF pos = n THEN 1 ELSE pos + 1
      /\ stage' = IF pos = n THEN "increment" ELSE "deduct"
      /\ UNCHANGED <<params, inBlock, state, check, mempool, recheck, mode, tx, included,
                     kept, due>>
  BY DEF EthGasConsume, blockVars, mempoolVars, txVars, before
<1>2. /\ stage = "deduct" /\ tx \in Txs /\ tx.option = "ethereum"
      /\ n \in Nat /\ pos \in 1 .. n /\ current \in message
      /\ paid \in Seq(Nat) /\ Len(paid) = pos - 1 /\ cache \in Ledger /\ params \in Params
  BY TxFacts DEF EthGasConsume, IInv, TypeInv, FeeInv, current
<1>3. fee \in Nat /\ current.from \in Address /\ current.from # FeeCollector
  BY <1>2, FeeFacts, AddressFacts DEF message
<1>4. before(pos) \in Nat /\ sum \in Nat /\ sum >= before(pos)
  BY <1>2, <1>3 DEF before
<1>5. /\ cache' \in Ledger /\ cache'.seq = cache.seq
      /\ cache'.bank[FeeCollector] = cache.bank[FeeCollector] + fee
      /\ cache.bank[FeeCollector] \in Int
  <2> DEFINE from == current.from
  <2>1. cache' = SendCoins(cache, from, FeeCollector, fee)
    BY <1>1
  <2>2. /\ cache \in Ledger /\ from \in Address /\ from # FeeCollector
        /\ FeeCollector \in Address /\ fee \in Int
    BY <1>2, <1>3, AddressFacts
  <2> HIDE DEF fee, from
  <2>3. cache' \in Ledger /\ cache'.seq = cache.seq
    BY <2>1, <2>2, SendCoinsFacts
  <2>4. /\ cache'.bank[FeeCollector] = cache.bank[FeeCollector] + fee
        /\ cache.bank[FeeCollector] \in Int
    BY <2>1, <2>2, CollectorFacts
  <2> QED
    BY <2>3, <2>4
<1>6. /\ paid' \in Seq(Nat) /\ Len(paid') = pos /\ paid'[pos] = sum
      /\ \A i \in 1 .. (pos - 1) : paid'[i] = paid[i]
  BY <1>1, <1>2, <1>4
<1> QED
  BY <1>1, <1>2, <1>3, <1>4, <1>5, <1>6

(* EthGasConsume: the fee of the message at pos is deducted.               *)
LEMMA EthGasConsumeStep ==
  ASSUME IInv, EthGasConsume
  PROVE  IInv'
<1>1. CASE Reject(mode, tx)
  BY <1>1, RejectStep DEF EthGasConsume, IInv, TypeInv
<1>2. CASE Deductible(cache, current) /\ ~Reject(mode, tx)
  <2> DEFINE n == Len(tx.msgs)
             fee == DeductedFee(current)
             sum == fee + before(pos)
  <2>1. /\ cache' = SendCoins(cache, current.from, FeeCollector, fee)
        /\ pos' = IF pos = n THEN 1 ELSE pos + 1
        /\ stage' = IF pos = n THEN "increment" ELSE "deduct"
        /\ UNCHANGED <<params, inBlock, state, check, mempool, recheck, mode, tx>>
    BY <1>2, DeductFacts
  <2>2. /\ stage = "deduct" /\ tx \in Txs /\ tx.option = "ethereum"
        /\ n \in Nat /\ pos \in 1 .. n /\ current \in message
        /\ paid \in Seq(Nat) /\ Len(paid) = pos - 1 /\ cache \in Ledger /\ params \in Params
    BY <1>2, DeductFacts
  <2>3. fee \in Nat
    BY <1>2, DeductFacts
  <2>4. before(pos) \in Nat /\ sum \in Nat /\ sum >= before(pos)
    BY <1>2, DeductFacts
  <2>5. /\ cache' \in Ledger /\ cache'.seq = cache.seq
        /\ cache'.bank[FeeCollector] = cache.bank[FeeCollector] + fee
        /\ cache.bank[FeeCollector] \in Int
    BY <1>2, DeductFacts
  <2>6. /\ paid' \in Seq(Nat) /\ Len(paid') = pos /\ paid'[pos] = sum
        /\ \A i \in 1 .. (pos - 1) : paid'[i] = paid[i]
    BY <1>2, DeductFacts
  <2>7. \A i : DeductedFee(tx.msgs[i])' = DeductedFee(tx.msgs[i])
    BY <2>1 DEF DeductedFee, EffectiveFee, Fee, GetEffectiveGasPrice, GetBaseFee
  <2> HIDE DEF fee, sum
  <2>8. TypeInv'
    BY <2>1, <2>2, <2>5, <2>6 DEF IInv, TypeInv
  <2>9. FeeInv'
    <3>1. \A i \in 1 .. pos : before(i)' = before(i)
      BY <2>2, <2>6 DEF before
    <3>2. ASSUME NEW i \in 1 .. Len(paid')
          PROVE  (paid[i] = DeductedFee(tx.msgs[i]) + before(i))'
      <4>1. i \in 1 .. pos
        BY <2>6
      <4>2. CASE i = pos
        BY <2>6, <2>7, <3>1, <4>1, <4>2 DEF sum, fee, current
      <4>3. CASE i # pos
        <5>1. i \in 1 .. (pos - 1)
          BY <2>2, <4>1, <4>3
        <5>2. paid[i] = DeductedFee(tx.msgs[i]) + before(i)
          BY <2>2, <5>1 DEF IInv, FeeInv
        <5> QED
          BY <2>6, <2>7, <3>1, <4>1, <5>1, <5>2
      <4> QED
        BY <4>2, <4>3
    <3>3. ASSUME NEW i \in 1 .. Len(paid'), NEW j \in 1 .. Len(paid'), i <= j
          PROVE  paid'[i] <= paid'[j]
      <4>1. \A k \in 1 .. (pos - 1) : paid[k] \in Nat /\ paid[k] <= before(pos)
        <5>1. pos > 1 => before(pos) = paid[pos - 1] /\ pos - 1 \in 1 .. Len(paid)
          BY <2>2 DEF before
        <5> QED
          BY <2>2, <5>1 DEF IInv, FeeInv
      <4>2. CASE j = pos
        BY <2>2, <2>4, <2>6, <3>3, <4>1, <4>2
      <4>3. CASE j # pos
        <5>1. i \in 1 .. (pos - 1) /\ j \in 1 .. (pos - 1)
          BY <2>2, <2>6, <3>3, <4>3
        <5>2. paid[i] <= paid[j]
          BY <2>2, <3>3, <5>1 DEF IInv, FeeInv
        <5> QED
          BY <2>6, <5>1, <5>2
      <4> QED
        BY <4>2, <4>3
    <3> QED
      BY <2>1, <2>2, <2>6, <3>2, <3>3 DEF FeeInv
  <2>10. CollectorInv'
    <3>1. cache'.bank[FeeCollector] >= sum /\ sum >= 0
      BY <2>2, <2>3, <2>4, <2>5 DEF IInv, CollectorInv, sum
    <3>2. pos' # 1 => before(pos)' = sum
      BY <2>1, <2>2, <2>6 DEF before
    <3>3. stage' = "increment" => paid'[Len(paid')] = sum
      BY <2>1, <2>6
    <3>4. stage' = "deduct" => pos' # 1
      BY <2>1, <2>2
    <3>5. state'.bank[FeeCollector] >= 0 /\ check'.bank[FeeCollector] >= 0
      BY <2>1 DEF IInv, CollectorInv
    <3>6. cache'.bank[FeeCollector] >= 0
      BY <2>3, <2>4, <2>5, <3>1
    <3>7. stage' \in {"deduct", "increment"}
      BY <2>1
    <3> QED
      BY <3>1, <3>2, <3>3, <3>4, <3>5, <3>6, <3>7 DEF CollectorInv
  <2>11. RunInv'
    <3>1. \A a \in Sender : base(cache', a) = base(cache, a)
      BY <2>5 DEF base
    <3>2. \A a \in Sender : seenNonces(a) = {} /\ seenNonces(a)' = {}
      BY <2>1, <2>2 DEF seenNonces, seen
    <3> QED
      BY <2>1, <2>2, <2>5, <3>1, <3>2, ZenonT(30) DEF IInv, RunInv, base
  <2>12. PoolInv'
    BY <2>1, PoolKept DEF IInv
  <2> QED
    BY <2>8, <2>9, <2>10, <2>11, <2>12 DEF IInv
<1> QED
  BY <1>1, <1>2 DEF EthGasConsume

(* EthIncrementSenderSequence moves one sequence over one nonce.           *)
LEMMA EthIncrementStep ==
  ASSUME IInv, EthIncrementSenderSequence
  PROVE  IInv'
<1>1. CASE Reject(mode, tx)
  BY <1>1, RejectStep DEF EthIncrementSenderSequence, IInv, TypeInv
<1>2. CASE NonceMatches(cache, current) /\ ~Reject(mode, tx)
  <2> DEFINE n == Len(tx.msgs)
             from == current.from
             nonce == current.nonce
  <2>1. /\ cache' = [cache EXCEPT !.seq[from] = @ + 1]
        /\ pos' = IF pos = n THEN 1 ELSE pos + 1
        /\ stage' = IF pos = n THEN "emit" ELSE "increment"
        /\ UNCHANGED <<params, inBlock, state, check, mempool, recheck, mode, tx, paid>>
    BY <1>2 DEF EthIncrementSenderSequence, blockVars, mempoolVars, txVars, historyVars
  <2>2. /\ stage = "increment" /\ tx \in Txs /\ tx.option = "ethereum"
        /\ n \in Nat /\ pos \in 1 .. n /\ current \in message
        /\ paid \in Seq(Nat) /\ Len(paid) = n /\ cache \in Ledger
    BY TxFacts DEF EthIncrementSenderSequence, IInv, TypeInv, FeeInv, current
  <2>3. from \in Sender /\ nonce \in Nat /\ cache.seq[from] = nonce
    BY <1>2, <2>2 DEF message, NonceMatches
  <2> HIDE DEF from, nonce
  <2>4. cache.seq[from] # NoAccount
    BY <2>3 DEF NoAccount
  <2>5. /\ cache' \in Ledger /\ cache'.bank = cache.bank
        /\ cache'.seq = [cache.seq EXCEPT ![from] = nonce + 1]
    BY <2>1, <2>2, <2>3, <2>4, IncrementFacts, ZenonT(30)
  <2>6. TypeInv'
    BY <2>1, <2>2, <2>5 DEF IInv, TypeInv
  <2>7. FeeInv'
    <3>1. \A i : DeductedFee(tx.msgs[i])' = DeductedFee(tx.msgs[i])
      BY <2>1 DEF DeductedFee, EffectiveFee, Fee, GetEffectiveGasPrice, GetBaseFee
    <3> QED
      BY <2>1, <2>2, <3>1 DEF IInv, FeeInv, before
  <2>8. CollectorInv'
    BY <2>1, <2>2, <2>5 DEF IInv, CollectorInv
  <2>9. RunInv'
    <3> SUFFICES ASSUME mode # "deliver", NEW a \in Sender
                 PROVE  /\ cache'.seq[a] >= check.seq[a]
                        /\ seenNonces(a)' = base(check, a) .. (base(cache', a) - 1)
                        /\ \A i \in 1 .. n : tx.msgs[i].from = a => cache'.seq[a] # NoAccount
      BY <2>1 DEF RunInv
    <3> DEFINE old == base(check, a)
               mid == base(cache, a)
               new == base(cache', a)
    <3>1. /\ cache.seq[a] >= check.seq[a] /\ seenNonces(a) = old .. (mid - 1)
          /\ \A i \in 1 .. n : tx.msgs[i].from = a => cache.seq[a] # NoAccount
      BY <2>2 DEF IInv, RunInv
    <3>2. /\ seenNonces(a) = {tx.msgs[i].nonce : i \in {j \in 1 .. (pos - 1) : tx.msgs[j].from = a}}
          /\ seenNonces(a)' = {tx.msgs[i].nonce : i \in {j \in 1 .. pos : tx.msgs[j].from = a}}
      BY <2>1, <2>2 DEF seenNonces, seen
    <3>3. 1 .. pos = (1 .. (pos - 1)) \cup {pos}
      BY <2>2
    <3>4. check.seq[a] \in Nat \cup {NoAccount} /\ cache.seq[a] \in Nat \cup {NoAccount}
      BY <2>2 DEF IInv, TypeInv, Ledger
    <3>5. CASE a = from
      <4>1. tx.msgs[pos].from = a /\ tx.msgs[pos].nonce = nonce
        BY <3>5 DEF current, from, nonce
      <4>2. seenNonces(a)' = seenNonces(a) \cup {nonce}
        BY <3>2, <3>3, <4>1, ZenonT(30)
      <4>3. cache.seq[a] = nonce /\ cache'.seq[a] = nonce + 1
        BY <2>2, <2>3, <2>5, <3>5 DEF Ledger
      <4>4. mid = nonce /\ new = nonce + 1 /\ old \in Nat /\ old <= nonce
        BY <2>3, <3>1, <3>4, <4>3 DEF base, NoAccount
      <4> HIDE DEF old, mid, new
      <4>5. old .. (new - 1) = (old .. (mid - 1)) \cup {nonce}
        BY <2>3, <4>4
      <4>6. cache'.seq[a] >= check.seq[a] /\ cache'.seq[a] # NoAccount
        BY <2>3, <3>1, <3>4, <4>3 DEF NoAccount
      <4> QED
        BY <3>1, <4>2, <4>5, <4>6 DEF old, new
    <3>6. CASE a # from
      <4>1. tx.msgs[pos].from # a
        BY <3>6 DEF current, from
      <4>2. seenNonces(a)' = seenNonces(a)
        <5>1. {j \in 1 .. pos : tx.msgs[j].from = a}
                = {j \in 1 .. (pos - 1) : tx.msgs[j].from = a}
          BY <3>3, <4>1
        <5> QED
          BY <3>2, <5>1
      <4>3. cache'.seq[a] = cache.seq[a]
        BY <2>2, <2>5, <3>6 DEF Ledger
      <4>4. new = mid
        BY <4>3 DEF base
      <4> QED
        BY <3>1, <4>2, <4>3, <4>4
    <3> QED
      BY <3>5, <3>6
  <2>10. PoolInv'
    BY <2>1, PoolKept DEF IInv
  <2> QED
    BY <2>6, <2>7, <2>8, <2>9, <2>10 DEF IInv
<1> QED
  BY <1>1, <1>2 DEF EthIncrementSenderSequence

(* EthEmitEvent: the branch is written, to the state or to CheckTx, with   *)
(* the gas wanted counted.                                                 *)
LEMMA EthEmitEventStep ==
  ASSUME IInv, EthEmitEvent
  PROVE  IInv'
<1>1. /\ stage = "emit" /\ tx \in Txs /\ tx.option = "ethereum" /\ tx.send = NoSend
      /\ pos = 1 /\ Len(paid) = Len(tx.msgs) /\ Len(tx.msgs) \in Nat /\ Len(tx.msgs) > 0
      /\ DOMAIN tx.msgs = 1 .. Len(tx.msgs) /\ cache \in Ledger
      /\ UNCHANGED <<params, inBlock>>
  BY TxFacts DEF EthEmitEvent, IInv, TypeInv, FeeInv, blockVars
<1> DEFINE branch == GasWanted(cache, tx)
<1>2. branch \in Ledger /\ branch.seq = cache.seq /\ branch.bank = cache.bank
  BY <1>1, GasWantedFacts
<1> HIDE DEF branch
<1>3. CASE mode = "deliver"
  <2>1. /\ stage' = "messages" /\ inBlock /\ state' = branch /\ cache' = branch
        /\ UNCHANGED <<check, mempool, recheck, mode, tx, pos, paid>>
    BY <1>1, <1>3 DEF EthEmitEvent, mempoolVars, txVars, IInv, TypeInv, branch
  <2>2. TypeInv'
    BY <1>1, <1>2, <1>3, <2>1 DEF IInv, TypeInv
  <2>3. FeeInv'
    <3>1. \A i : DeductedFee(tx.msgs[i])' = DeductedFee(tx.msgs[i])
      BY <1>1, <2>1 DEF DeductedFee, EffectiveFee, Fee, GetEffectiveGasPrice, GetBaseFee
    <3> QED
      BY <1>1, <2>1, <3>1 DEF IInv, FeeInv, before
  <2>4. CollectorInv'
    <3>1. paid[Len(paid)] \in Nat
      BY <1>1 DEF IInv, TypeInv
    <3>2. before(pos)' = 0
      BY <1>1, <2>1 DEF before
    <3> QED
      BY <1>1, <1>2, <2>1, <3>1, <3>2 DEF IInv, CollectorInv
  <2>5. RunInv' /\ PoolInv'
    BY <1>1, <1>3, <2>1 DEF RunInv, PoolInv
  <2> QED
    BY <2>2, <2>3, <2>4, <2>5 DEF IInv
<1>4. CASE mode # "deliver"
  <2>1. Admit(mode, tx, branch)
    BY <1>4 DEF EthEmitEvent, branch
  <2>2. ASSUME NEW a \in Sender
        PROVE  /\ check'.seq[a] >= check.seq[a]
               /\ spentFrom(tx, a) # {} => check'.seq[a] # NoAccount
               /\ spentFrom(tx, a) \cap send = {} =>
                    {m.nonce : m \in spentFrom(tx, a)} = base(check, a) .. (base(check', a) - 1)
    <3>1. /\ cache.seq[a] >= check.seq[a]
          /\ seenNonces(a) = base(check, a) .. (base(cache, a) - 1)
          /\ \A i \in 1 .. Len(tx.msgs) : tx.msgs[i].from = a => cache.seq[a] # NoAccount
      BY <1>1, <1>4 DEF IInv, RunInv
    <3>2. spentFrom(tx, a) = {tx.msgs[i] : i \in {j \in 1 .. Len(tx.msgs) : tx.msgs[j].from = a}}
      BY <1>1 DEF spentFrom, spentBy
    <3>3. seenNonces(a) = {m.nonce : m \in spentFrom(tx, a)}
      <4>1. seenNonces(a)
              = {tx.msgs[i].nonce : i \in {j \in 1 .. Len(tx.msgs) : tx.msgs[j].from = a}}
        BY <1>1 DEF seenNonces, seen
      <4> QED
        BY <3>2, <4>1, ZenonT(30)
    <3>4. check'.seq = cache.seq /\ base(check', a) = base(cache, a)
      BY <1>2, <2>1 DEF Admit, base
    <3> QED
      BY <3>1, <3>2, <3>3, <3>4
  <2>3. PoolInv'
    BY <1>1, <1>2, <2>1, <2>2, AdmitPool DEF Admit
  <2>4. recheck' \in Seq(Txs) /\ mempool' \in Seq(Txs)
    BY <1>1, <2>1 DEF Admit, IInv, TypeInv
  <2> QED
    BY <1>1, <1>2, <2>1, <2>3, <2>4, BackToIdle DEF Admit, IInv, TypeInv, CollectorInv
<1> QED
  BY <1>3, <1>4

-----------------------------------------------------------------------------
(* The messages.                                                           *)

(* What is known while a message is to be executed.                        *)
LEMMA ExecutingFacts ==
  ASSUME IInv, Executing
  PROVE  /\ tx \in Txs /\ tx.option = "ethereum" /\ mode = "deliver" /\ inBlock
         /\ stage = "messages" /\ pos \in 1 .. Len(tx.msgs) /\ Len(tx.msgs) \in Nat
         /\ current \in message /\ cache \in Ledger /\ params \in Params
         /\ paid \in Seq(Nat) /\ Len(paid) = Len(tx.msgs)
<1>1. stage = "messages" /\ pos <= Len(tx.msgs) /\ tx \in Txs /\ pos \in Nat \ {0}
  BY DEF Executing, IInv, TypeInv
<1>2. Len(tx.msgs) \in Nat /\ tx.msgs # <<>>
  BY <1>1, TxFacts
<1>3. tx.option = "ethereum"
  BY <1>1, <1>2 DEF IInv, TypeInv
<1>4. current \in message
  BY <1>1, <1>2, TxFacts DEF current
<1> QED
  BY <1>1, <1>2, <1>3, <1>4 DEF IInv, TypeInv, FeeInv

(* The heart of the refund: what is left with the collector after message  *)
(* number pos is paid for covers the fees of the messages after it.        *)
LEMMA RefundCoveredHere ==
  ASSUME IInv, Executing, NEW r \in evmResult(cache, current), NEW hookErr
  PROVE  LET s == Processed(cache, current, r, hookErr)
             refund == remaining(current, ResponseGas(current, r))
         IN /\ s \in Ledger /\ s.bank[FeeCollector] \in Int /\ refund \in Int
            /\ paid[pos] \in Nat /\ paid[Len(paid)] \in Nat /\ paid[pos] <= paid[Len(paid)]
            /\ s.bank[FeeCollector] - refund >= paid[Len(paid)] - paid[pos]
<1> DEFINE s == Processed(cache, current, r, hookErr)
           refund == remaining(current, ResponseGas(current, r))
           n == Len(paid)
           fee == DeductedFee(current)
           held == cache.bank[FeeCollector]
<1>1. /\ pos \in 1 .. n /\ n \in Nat /\ paid \in Seq(Nat) /\ params \in Params
      /\ current \in message /\ cache \in Ledger
  BY ExecutingFacts
<1>2. s \in Ledger /\ s.bank[FeeCollector] >= held
  BY <1>1, ProcessedFacts
<1>3. held \in Int /\ s.bank[FeeCollector] \in Int
  BY <1>1, <1>2, AddressFacts DEF Ledger
<1>4. ResponseGas(current, r) \in Nat
  BY <1>1, ResponseGasNat
<1>5. refund \in Int /\ refund <= fee
  BY <1>1, <1>4, RefundBounded
<1>6. fee \in Nat
  BY <1>1, FeeFacts
<1>7. paid[pos] = fee + before(pos) /\ paid[pos] <= paid[n]
  BY <1>1, ExecutingFacts DEF IInv, FeeInv, current
<1>8. paid[pos] \in Nat /\ paid[n] \in Nat /\ before(pos) \in Nat
  BY <1>1 DEF before
<1>9. held >= paid[n] - before(pos)
  BY DEF Executing, IInv, CollectorInv
<1> HIDE DEF s, refund, n, fee, held
<1>10. s.bank[FeeCollector] - refund >= paid[n] - paid[pos]
  BY <1>2, <1>3, <1>5, <1>6, <1>7, <1>8, <1>9
<1> QED
  BY <1>2, <1>3, <1>5, <1>7, <1>8, <1>10 DEF s, refund, n

(* The logs of an EVM run are a sequence of payloads.                      *)
LEMMA ResultLogs ==
  ASSUME NEW s, NEW m, NEW r \in evmResult(s, m)
  PROVE  r.logs \in Seq(Payload)
<1>1. CASE r \in [left : 0 .. (m.gas - m.intrinsic), failed : {TRUE}, refund : {0},
                   logs : {<<>>}]
  <2>1. r.logs = <<>>
    BY <1>1
  <2> QED
    BY <2>1
<1>2. CASE r \in [left : 0 .. (m.gas - m.intrinsic), failed : {FALSE}, refund : Refunds,
                   logs : EvmLogs]
  BY <1>2, LogAssumption
<1> QED
  BY <1>1, <1>2, ZenonT(30) DEF evmResult

(* ApplyTransaction keeps IInv and never ends in a failed refund.          *)
LEMMA ApplyTransactionStep ==
  ASSUME IInv, Executing, NEW r \in evmResult(cache, current), NEW hookErr \in BOOLEAN,
         NEW more \in HookLogs, ApplyTransaction(r, hookErr, more)
  PROVE  IInv' /\ results' = results
<1> DEFINE s == Processed(cache, current, r, hookErr)
           gas == ResponseGas(current, r)
           refund == remaining(current, gas)
           failed == r.failed \/ hookErr
           n == Len(paid)
           sent == SendCoins(s, FeeCollector, current.from, refund)
           counted == Counted(sent, r.logs, more)
<1>1. /\ s \in Ledger /\ s.bank[FeeCollector] \in Int /\ refund \in Int
      /\ paid[pos] \in Nat /\ paid[n] \in Nat /\ paid[pos] <= paid[n]
      /\ s.bank[FeeCollector] - refund >= paid[n] - paid[pos]
  BY RefundCoveredHere
<1>2. /\ tx \in Txs /\ mode = "deliver" /\ inBlock /\ stage = "messages"
      /\ pos \in 1 .. n /\ n \in Nat /\ n = Len(tx.msgs) /\ current \in message
      /\ tx.option = "ethereum"
  BY ExecutingFacts
<1>3. gas \in Nat /\ r.logs \in Seq(Payload) /\ more \in Seq(Payload)
  BY <1>2, ResponseGasNat, ResultLogs, LogAssumption
<1>4. current.from \in Address /\ current.from # FeeCollector /\ FeeCollector \in Address
  BY <1>2, AddressFacts DEF message
<1>5. /\ cache' = Indexed(counted, gas, failed) /\ pos' = pos + 1
      /\ UNCHANGED <<blockVars, state, check, mempoolVars, stage, txVars, results, paid>>
  <2>1. ~(s.bank[FeeCollector] < refund)
    BY <1>1
  <2> QED
    BY <2>1, ZenonT(30) DEF ApplyTransaction
<1>6. /\ cache' \in Ledger
      /\ cache'.bank[FeeCollector] = s.bank[FeeCollector] - refund
  <2> HIDE DEF s, gas, refund, failed
  <2>1. sent \in Ledger
    BY <1>1, <1>4, SendCoinsFacts
  <2>2. sent.bank[FeeCollector] = s.bank[FeeCollector] - refund
    BY <1>1, <1>4, CollectorFacts
  <2> HIDE DEF sent
  <2>3. counted \in Ledger /\ counted.bank = sent.bank
    BY <1>3, <2>1, CountedFacts
  <2> HIDE DEF counted
  <2>4. cache' \in Ledger /\ cache'.bank = counted.bank
    BY <1>3, <1>5, <2>3, IndexedFacts
  <2> QED
    BY <2>2, <2>3, <2>4
<1> HIDE DEF s, gas, refund, failed, sent, counted
<1>7. TypeInv'
  BY <1>2, <1>5, <1>6 DEF IInv, TypeInv, blockVars, mempoolVars, txVars
<1>8. FeeInv'
  <2>1. \A i : DeductedFee(tx.msgs[i])' = DeductedFee(tx.msgs[i])
    BY <1>5 DEF blockVars, txVars, DeductedFee, EffectiveFee, Fee, GetEffectiveGasPrice,
                GetBaseFee
  <2> QED
    BY <1>2, <1>5, <2>1 DEF IInv, FeeInv, before, txVars
<1>9. CollectorInv'
  <2>1. before(pos)' = paid[pos]
    BY <1>2, <1>5 DEF before
  <2>2. cache'.bank[FeeCollector] >= paid[n] - paid[pos] /\ cache'.bank[FeeCollector] >= 0
    BY <1>1, <1>6
  <2> QED
    BY <1>2, <1>5, <2>1, <2>2 DEF IInv, CollectorInv
<1>10. RunInv' /\ PoolInv'
  BY <1>2, <1>5 DEF RunInv, PoolInv, blockVars, txVars
<1> QED
  BY <1>5, <1>7, <1>8, <1>9, <1>10 DEF IInv

(* The end of an Ethereum transaction.                                     *)
LEMMA EndTxStep ==
  ASSUME IInv, EndTx
  PROVE  IInv'
<1>1. inBlock /\ cache \in Ledger /\ cache.bank[FeeCollector] >= 0
  BY DEF EndTx, IInv, TypeInv, CollectorInv
<1> QED
  BY <1>1, FinishStep DEF EndTx

(* The end of a Cosmos transaction, whose transfer cannot touch the        *)
(* collector as that one is blocked.                                       *)
LEMMA EndCosmosTxStep ==
  ASSUME IInv, EndCosmosTx
  PROVE  IInv'
<1>1. /\ inBlock /\ cache \in Ledger /\ cache.bank[FeeCollector] >= 0
      /\ tx \in Txs /\ tx.send # NoSend
  BY DEF EndCosmosTx, IInv, TypeInv, CollectorInv
<1>2. tx.send \in send
  BY <1>1, TxAssumption
<1> DEFINE from == tx.send.from
           to == tx.send.to
           amount == tx.send.amount
<1>3. from \in Address /\ from # FeeCollector /\ to \in Address /\ amount \in Int
  BY <1>2, AddressFacts DEF send
<1>4. ASSUME NEW gas, to \notin Blocked, Finish(SendCoins(cache, from, to, amount), gas)
      PROVE  IInv'
  <2>1. to # FeeCollector
    BY <1>4, AddressAssumption
  <2> HIDE DEF from, to, amount
  <2>2. SendCoins(cache, from, to, amount) \in Ledger
    BY <1>1, <1>3, SendCoinsFacts
  <2>3. SendCoins(cache, from, to, amount).bank[FeeCollector] = cache.bank[FeeCollector]
    BY <1>1, <1>3, <2>1, CollectorFacts
  <2> QED
    BY <1>1, <1>4, <2>2, <2>3, FinishStep
<1>5. ASSUME NEW gas, Fail("failed", gas)
      PROVE  IInv'
  BY <1>5, FailStep
<1> QED
  BY <1>4, <1>5 DEF EndCosmosTx

(* Every step keeps IInv.                                                  *)
LEMMA NextInv == IInv /\ [Next]_vars => IInv'
<1> SUFFICES ASSUME IInv, [Next]_vars PROVE IInv'
  OBVIOUS
<1>1. CASE BeginBlock
  BY <1>1, BeginBlockStep
<1>2. CASE EndBlock
  BY <1>2, EndBlockStep
<1>3. ASSUME NEW t \in Txs, CheckTx(t)
      PROVE  IInv'
  BY <1>3, AnteHandlerStep DEF CheckTx
<1>4. ASSUME NEW t \in Txs, DeliverTx(t)
      PROVE  IInv'
  <2>1. CASE AnteHandler("deliver", t)
    BY <1>4, <2>1, AnteHandlerStep, ZenonT(30) DEF DeliverTx
  <2>2. CASE ~AnteHandler("deliver", t)
    BY <1>4, <2>2, UnchangedStep, ZenonT(30) DEF DeliverTx
  <2> QED
    BY <2>1, <2>2
<1>5. CASE RecheckTx
  BY <1>5, RecheckTxStep
<1>6. CASE EthGasConsume
  BY <1>6, EthGasConsumeStep
<1>7. CASE EthIncrementSenderSequence
  BY <1>7, EthIncrementStep
<1>8. CASE EthEmitEvent
  BY <1>8, EthEmitEventStep
<1>9. CASE ApplyFails
  BY <1>9, FailStep DEF ApplyFails
<1>10. CASE EndTx
  BY <1>10, EndTxStep
<1>11. CASE EndCosmosTx
  BY <1>11, EndCosmosTxStep
<1>12. CASE /\ Executing
            /\ \E r \in evmResult(cache, current), hookErr \in BOOLEAN, more \in HookLogs :
                 ApplyTransaction(r, hookErr, more)
  BY <1>12, ApplyTransactionStep
<1>13. CASE UNCHANGED vars
  <2>1. TypeInv'
    BY <1>13 DEF vars, IInv, TypeInv
  <2>2. FeeInv'
    BY <1>13 DEF vars, IInv, FeeInv, before, DeductedFee, EffectiveFee, Fee,
                 GetEffectiveGasPrice, GetBaseFee
  <2>3. CollectorInv'
    BY <1>13 DEF vars, IInv, CollectorInv, before
  <2>4. RunInv'
    BY <1>13 DEF vars, IInv, RunInv, seenNonces, seen, base
  <2>5. PoolInv'
    BY <1>13, PoolKept DEF vars, IInv
  <2> QED
    BY <2>1, <2>2, <2>3, <2>4, <2>5 DEF IInv
<1> QED
  BY <1>1, <1>2, <1>3, <1>4, <1>5, <1>6, <1>7, <1>8, <1>9, <1>10, <1>11, <1>12, <1>13
  DEF Next

-----------------------------------------------------------------------------
(* Responses of the block.                                                 *)

covered(q) == /\ q \in Seq({q[i] : i \in DOMAIN q})
              /\ \A i \in DOMAIN q : q[i].code # "refund failed"
extended(q, e) == Append(q, e)

ResultsInv == covered(results)

grown(S, q, e, p) ==
  /\ p \in Seq(S \cup {e}) /\ DOMAIN p = DOMAIN q \cup {Len(q) + 1}
  /\ p[Len(q) + 1] = e /\ \A i \in DOMAIN q : p[i] = q[i]

(* Append, in the form the next lemmas use.                                *)
LEMMA AppendFacts ==
  ASSUME NEW S, NEW q \in Seq(S), NEW e
  PROVE  grown(S, q, e, extended(q, e))
<1> DEFINE T == S \cup {e}
           p == extended(q, e)
<1>1. Len(q) \in Nat /\ DOMAIN q = 1 .. Len(q)
  OBVIOUS
<1>2. S \subseteq T /\ e \in T
  OBVIOUS
<1> HIDE DEF T
<1>3. q \in Seq(T)
  BY <1>2
<1>4. /\ p \in Seq(T) /\ DOMAIN p = 1 .. (Len(q) + 1) /\ p[Len(q) + 1] = e
      /\ \A i \in 1 .. Len(q) : p[i] = q[i]
  BY <1>2, <1>3 DEF extended
<1> HIDE DEF p
<1>5. DOMAIN p = DOMAIN q \cup {Len(q) + 1}
  BY <1>1, <1>4
<1>6. grown(S, q, e, p)
  BY <1>1, <1>4, <1>5 DEF T, grown
<1> QED
  BY <1>6 DEF p

(* A block starts without responses.                                       *)
LEMMA CoveredEmpty == covered(<<>>)
<1>1. \A S : <<>> \in Seq(S)
  OBVIOUS
<1>2. DOMAIN <<>> = {}
  OBVIOUS
<1> QED
  BY <1>1, <1>2, ZenonT(30) DEF covered

(* One more response that is no failed refund.                             *)
LEMMA CoveredExtended ==
  ASSUME NEW q, covered(q), NEW e, e.code # "refund failed"
  PROVE  covered(extended(q, e))
<1> DEFINE S == {q[i] : i \in DOMAIN q}
           T == S \cup {e}
           n == Len(q)
           p == extended(q, e)
<1>1. q \in Seq(S)
  BY ZenonT(30) DEF covered
<1>2. /\ p \in Seq(T) /\ DOMAIN p = DOMAIN q \cup {n + 1}
      /\ p[n + 1] = e /\ \A i \in DOMAIN q : p[i] = q[i]
  <2> HIDE DEF S, p
  <2>1. grown(S, q, e, p)
    BY <1>1, AppendFacts, ZenonT(30) DEF p
  <2> QED
    BY <2>1, ZenonT(30) DEF grown
<1> HIDE DEF S, n, p
<1>3. {p[i] : i \in DOMAIN p} = T
  BY <1>2, ZenonT(30) DEF S
<1> HIDE DEF T
<1>4. \A i \in DOMAIN p : p[i].code # "refund failed"
  BY <1>2, ZenonT(30) DEF covered
<1>5. covered(p)
  BY <1>2, <1>3, <1>4, ZenonT(30) DEF covered
<1> QED
  BY <1>5, ZenonT(30) DEF p

(* A response of DeliverTx.                                                *)
LEMMA RespondStep ==
  ASSUME ResultsInv, NEW code, code # "refund failed", NEW t, NEW evs, NEW gas, NEW what,
         Respond(code, t, evs, gas, what)
  PROVE  ResultsInv'
<1> DEFINE e == [code |-> code, msgs |-> t.msgs, send |-> t.send, events |-> evs,
                 gasWanted |-> t.gas, gasUsed |-> gas, done |-> what]
<1>1. results' = extended(results, e) /\ e.code # "refund failed"
  BY ZenonT(30) DEF Respond, extended
<1> HIDE DEF e
<1> QED
  BY <1>1, CoveredExtended, ZenonT(30) DEF ResultsInv

(* A rejected transaction answers "rejected" or not at all.                *)
LEMMA RejectResults ==
  ASSUME ResultsInv, NEW m, NEW t, Reject(m, t)
  PROVE  ResultsInv'
<1>1. CASE results' = results
  BY <1>1 DEF ResultsInv
<1>2. CASE \E gas \in Overhead : Respond("rejected", t, <<>>, gas, <<>>)
  BY <1>2, RespondStep, ZenonT(30)
<1> QED
  BY <1>1, <1>2 DEF Reject

(* The ante handler answers by Reject only.                                *)
LEMMA AnteResults ==
  ASSUME ResultsInv, NEW m, NEW t, AnteHandler(m, t)
  PROVE  ResultsInv'
<1>1. CASE results' = results
  BY <1>1 DEF ResultsInv
<1>2. CASE Reject(m, t)
  BY <1>2, RejectResults
<1> QED
  BY <1>1, <1>2 DEF AnteHandler, EthAnte, CosmosAnte

(* Failed messages answer with the code they are given.                    *)
LEMMA FailResults ==
  ASSUME ResultsInv, NEW code, code # "refund failed", NEW gas, Fail(code, gas)
  PROVE  ResultsInv'
BY RespondStep, ZenonT(30) DEF Fail

(* The end of a transaction answers "ok" or "block gas exceeded".          *)
LEMMA FinishResults ==
  ASSUME ResultsInv, NEW branch, NEW gas, Finish(branch, gas)
  PROVE  ResultsInv'
<1>1. CASE Fail("block gas exceeded", gas)
  BY <1>1, FailResults, ZenonT(30)
<1>2. CASE Respond("ok", tx, events, gas, done)
  BY <1>2, RespondStep, ZenonT(30)
<1> QED
  BY <1>1, <1>2, ZenonT(30) DEF Finish

(* No step answers with a failed refund.                                   *)
LEMMA NextResults == IInv /\ ResultsInv /\ [Next]_vars => ResultsInv'
<1> SUFFICES ASSUME IInv, ResultsInv, [Next]_vars PROVE ResultsInv'
  OBVIOUS
<1>1. CASE results' = results
  BY <1>1 DEF ResultsInv
<1>2. CASE BeginBlock
  <2>1. results' = <<>>
    BY <1>2 DEF BeginBlock
  <2> QED
    BY <2>1, CoveredEmpty DEF ResultsInv
<1>3. ASSUME NEW t \in Txs, CheckTx(t)
      PROVE  ResultsInv'
  BY <1>3, AnteResults DEF CheckTx
<1>4. ASSUME NEW t \in Txs, DeliverTx(t)
      PROVE  ResultsInv'
  BY <1>4, AnteResults, RespondStep, ZenonT(30) DEF DeliverTx
<1>5. CASE RecheckTx
  BY <1>1, <1>5, AnteResults DEF RecheckTx
<1>6. CASE EthGasConsume
  BY <1>1, <1>6, RejectResults DEF EthGasConsume
<1>7. CASE EthIncrementSenderSequence
  BY <1>1, <1>7, RejectResults DEF EthIncrementSenderSequence
<1>8. CASE ApplyFails
  BY <1>8, FailResults, ZenonT(30) DEF ApplyFails
<1>9. CASE EndTx
  BY <1>9, FinishResults DEF EndTx
<1>10. CASE EndCosmosTx
  BY <1>10, FinishResults, FailResults, ZenonT(30) DEF EndCosmosTx
<1>11. CASE /\ Executing
            /\ \E r \in evmResult(cache, current), hookErr \in BOOLEAN, more \in HookLogs :
                 ApplyTransaction(r, hookErr, more)
  BY <1>1, <1>11, ApplyTransactionStep
<1>12. CASE EndBlock \/ EthEmitEvent \/ UNCHANGED vars
  BY <1>1, <1>12 DEF EndBlock, EthEmitEvent, vars
<1> QED
  BY <1>2, <1>3, <1>4, <1>5, <1>6, <1>7, <1>8, <1>9, <1>10, <1>11, <1>12 DEF Next

-----------------------------------------------------------------------------
(* RefundGas of ApplyTransaction never finds the fee collector short, for  *)
(* any transactions, parameters and results of the EVM.                    *)
THEOREM RefundAlwaysCovered == Spec => []RefundCovered
<1>1. Init => IInv /\ ResultsInv
  <2>1. Init => ResultsInv
    BY CoveredEmpty DEF Init, ResultsInv
  <2> QED
    BY <2>1, InitInv
<1>2. IInv /\ ResultsInv /\ [Next]_vars => (IInv /\ ResultsInv)'
  BY NextInv, NextResults
<1>3. ResultsInv => RefundCovered
  BY ZenonT(30) DEF ResultsInv, covered, RefundCovered
<1> QED
  BY <1>1, <1>2, <1>3, PTL DEF Spec

(* Between blocks, once the recheck is over, the pending nonces of every   *)
(* sender without a pending Cosmos transaction run without a gap from the  *)
(* committed sequence to the one CheckTx expects next.                     *)
THEOREM PendingStaysGapless == Spec => []PendingGapless
<1>1. IInv => PendingGapless
  <2> SUFFICES ASSUME IInv, ~inBlock, NEW a \in Sender, pendingOf(a) \cap send = {}
               PROVE  Gapless(a)
    BY DEF PendingGapless
  <2>1. {m.nonce : m \in pendingOf(a)} = base(state, a) .. (base(check, a) - 1)
    BY DEF IInv, PoolInv
  <2> QED
    BY <2>1 DEF Gapless, base
<1> QED
  BY <1>1, InitInv, NextInv, PTL DEF Spec

-----------------------------------------------------------------------------
(* The fees of a block.                                                    *)

(* Every message is refunded at the price it paid: the one exception is a  *)
(* dynamic-fee message under London while the fee market is off.           *)
OriginalRate == London => \A p \in Params : p.feeMarket

(* The fee collector holds what is due, and what the running transaction   *)
(* has paid so far: of its finished messages only what they keep.          *)
HeldInv ==
  /\ due \in Int /\ kept \in Int
  /\ inBlock /\ stage # "messages" => state.bank[FeeCollector] = due
  /\ stage # "messages" => kept = 0
  /\ stage = "deduct" /\ mode = "deliver" => cache.bank[FeeCollector] = due + before(pos)
  /\ stage \in {"increment", "emit"} /\ mode = "deliver" =>
       cache.bank[FeeCollector] = due + paid[Len(paid)]
  /\ stage = "messages" =>
       Len(paid) > 0 /\ state.bank[FeeCollector] = due + paid[Len(paid)]
  /\ stage = "messages" /\ tx.option = "ethereum" =>
       /\ pos <= Len(tx.msgs) + 1
       /\ cache.bank[FeeCollector] = due + kept + paid[Len(paid)] - before(pos)
  /\ stage = "messages" /\ tx.option # "ethereum" => cache.bank[FeeCollector] = due + kept

(* The fee of a message is its gas at the price of its refund.             *)
LEMMA FeeAtRate ==
  ASSUME OriginalRate, params \in Params, NEW m \in message, ~m.dynamic => m.tip = m.cap
  PROVE  DeductedFee(m) = m.gas * GetEffectiveGasPrice(m)
<1>1. params.baseFee \in Nat /\ (London => params.feeMarket)
  BY ParamsAssumption DEF OriginalRate
<1>2. m.cap \in Nat /\ m.tip \in Nat /\ m.gas \in Nat
  BY DEF message
<1> DEFINE price == GetEffectiveGasPrice(m)
<1>3. price \in Nat
  BY FeeFacts
<1>4. CASE London /\ m.dynamic
  <2>1. DeductedFee(m) = price * m.gas
    BY <1>1, <1>4 DEF DeductedFee, EffectiveFee
  <2> HIDE DEF price
  <2>2. price * m.gas = m.gas * price
    BY <1>2, <1>3
  <2> QED
    BY <2>1, <2>2 DEF price
<1>5. CASE ~(London /\ m.dynamic)
  <2>1. price = m.cap
    <3>1. CASE ~London
      BY <3>1 DEF GetEffectiveGasPrice
    <3>2. CASE London /\ ~m.dynamic
      <4>1. GetBaseFee \in Nat /\ m.tip = m.cap
        BY <3>2, FeeFacts
      <4> QED
        BY <1>2, <3>2, <4>1 DEF GetEffectiveGasPrice, smaller
    <3> QED
      BY <1>5, <3>1, <3>2
  <2>2. DeductedFee(m) = m.cap * m.gas
    BY <1>5 DEF DeductedFee, Fee
  <2>3. m.cap * m.gas = m.gas * m.cap
    BY <1>2
  <2> QED
    BY <2>1, <2>2, <2>3
<1> QED
  BY <1>4, <1>5

(* What a message keeps and what RefundGas returns are its fee.            *)
LEMMA FeeSplit ==
  ASSUME OriginalRate, params \in Params, NEW m \in message, ~m.dynamic => m.tip = m.cap,
         NEW gas \in Nat
  PROVE  /\ gas * GetEffectiveGasPrice(m) \in Int /\ remaining(m, gas) \in Int
         /\ gas * GetEffectiveGasPrice(m) + remaining(m, gas) = DeductedFee(m)
<1> DEFINE price == GetEffectiveGasPrice(m)
<1>1. price \in Nat /\ m.gas \in Nat
  BY FeeFacts DEF message
<1>2. DeductedFee(m) = m.gas * price /\ remaining(m, gas) = (m.gas - gas) * price
  BY FeeAtRate DEF remaining
<1> HIDE DEF price
<1>3. gas * price \in Int /\ (m.gas - gas) * price \in Int
      /\ gas * price + (m.gas - gas) * price = m.gas * price
  BY <1>1
<1>4. gas * price \in Int /\ remaining(m, gas) \in Int
      /\ gas * price + remaining(m, gas) = DeductedFee(m)
  BY <1>2, <1>3
<1> QED
  BY <1>4 DEF price

(* The transfer of a message does not reach the collector, which the bank  *)
(* blocks.                                                                 *)
LEMMA ProcessedHeld ==
  ASSUME NEW s \in Ledger, NEW m \in message, NEW r, NEW hookErr, ~CommitFails(m, r)
  PROVE  Processed(s, m, r, hookErr).bank[FeeCollector] = s.bank[FeeCollector]
<1> DEFINE to == recipient(m)
           sent == SendCoins(s, m.from, to, m.value)
           moved == IF r.failed THEN s ELSE sent
<1>1. /\ m.from \in Sender /\ m.value \in Nat /\ m.nonce \in Nat /\ to \in Address
      /\ m.from \in Address /\ m.from # FeeCollector /\ s.bank[FeeCollector] \in Int
  BY AddressFacts DEF message, recipient, Ledger
<1>2. sent \in Ledger
  BY <1>1, SendCoinsFacts
<1>3. ~r.failed => sent.bank[FeeCollector] = s.bank[FeeCollector]
  <2>1. CASE to # FeeCollector
    <3> HIDE DEF to
    <3> QED
      BY <1>1, <2>1, CollectorFacts
  <2>2. CASE to = FeeCollector /\ ~r.failed
    <3>1. m.to = FeeCollector
      BY <2>2, AddressAssumption DEF recipient
    <3>2. m.value = 0
      BY <1>1, <2>2, <3>1, AddressAssumption DEF CommitFails
    <3>3. sent.bank[FeeCollector] = s.bank[FeeCollector] + m.value
      <4> HIDE DEF to
      <4> QED
        BY <1>1, <2>2, CollectorFacts
    <3> QED
      BY <1>1, <3>2, <3>3
  <2> QED
    BY <2>1, <2>2
<1>4. moved \in Ledger /\ moved.bank[FeeCollector] = s.bank[FeeCollector]
  BY <1>2, <1>3
<1> HIDE DEF sent
<1>5. Committed(s, m, r) \in {moved, [moved EXCEPT !.seq[m.from] = m.nonce + 1]}
  BY DEF Committed, sent
<1> HIDE DEF moved
<1>6. [moved EXCEPT !.seq[m.from] = m.nonce + 1].bank = moved.bank
  BY <1>4 DEF Ledger
<1> QED
  BY <1>4, <1>5, <1>6, ZenonT(30) DEF Processed

(* A transaction that ends without its messages leaves the collector.      *)
LEMMA HeldWhenIdle ==
  ASSUME HeldInv, stage # "messages", Idle, UNCHANGED <<inBlock, state, due>>
  PROVE  HeldInv'
BY DEF HeldInv, Idle

(* The ante handler starts, or a transaction of the SDK passes it.         *)
LEMMA AnteHeld ==
  ASSUME IInv, HeldInv, stage = "idle", NEW m \in {"check", "recheck", "deliver"},
         m = "deliver" => inBlock, NEW t \in Txs, AnteHandler(m, t)
  PROVE  HeldInv'
<1>1. /\ due \in Int /\ kept = 0 /\ pos = 1 /\ paid = <<>>
      /\ inBlock => state.bank[FeeCollector] = due
  BY DEF HeldInv, IInv, TypeInv, FeeInv
<1>2. CASE Reject(m, t)
  BY <1>2, HeldWhenIdle DEF Reject, blockVars
<1>3. CASE EthAnte(m, t) /\ ~Reject(m, t)
  <2>1. /\ mode' = m /\ tx' = t /\ stage' = "deduct"
        /\ cache' = Prepared(m, branchOf(m), t)
        /\ UNCHANGED <<inBlock, state, pos, paid, kept, due>>
    BY <1>3 DEF EthAnte, blockVars, historyVars
  <2>2. m = "deliver" => cache'.bank = state.bank
    BY <2>1, PreparedFacts DEF branchOf, IInv, TypeInv
  <2>3. before(pos)' = 0
    BY <1>1, <2>1 DEF before
  <2> QED
    BY <1>1, <2>1, <2>2, <2>3 DEF HeldInv
<1>4. CASE CosmosAnte(m, t) /\ t.option # "ethereum" /\ ~Reject(m, t)
  <2>1. CosmosVerified(m, branchOf(m), t) /\ UNCHANGED <<inBlock, due>>
    BY <1>4 DEF CosmosAnte, blockVars
  <2>2. CASE m # "deliver"
    <3>1. Idle /\ UNCHANGED state
      BY <1>4, <2>2 DEF CosmosAnte, Admit
    <3> QED
      BY <2>1, <3>1, HeldWhenIdle
  <2>3. CASE m = "deliver"
    <3>1. /\ tx' = t /\ stage' = "messages" /\ mode' = m
          /\ state' = CosmosPassed(state, t) /\ cache' = CosmosPassed(state, t)
          /\ paid' = <<t.send.fee>> /\ kept' = t.send.fee
      BY <1>4, <2>3 DEF CosmosAnte, branchOf
    <3>2. t.send \in send /\ state \in Ledger /\ state.seq[t.send.from] # NoAccount
      BY <1>4, <2>1, <2>3, TxFacts DEF CosmosVerified, branchOf, IInv, TypeInv
    <3>3. /\ t.send.fee \in Nat
          /\ CosmosPassed(state, t).bank[FeeCollector] = state.bank[FeeCollector] + t.send.fee
      BY <3>2, CosmosPassedFacts
    <3>4. Len(paid') = 1 /\ paid'[Len(paid')] = t.send.fee /\ kept' \in Int /\ due' \in Int
      BY <1>1, <2>1, <3>1, <3>3
    <3>5. state'.bank[FeeCollector] = due + t.send.fee
      BY <1>1, <2>3, <3>1, <3>3
    <3> QED
      BY <1>4, <2>1, <3>1, <3>4, <3>5 DEF HeldInv
  <2> QED
    BY <2>2, <2>3
<1> QED
  BY <1>2, <1>3, <1>4 DEF AnteHandler

(* A transaction whose messages failed owes all it paid.                   *)
LEMMA FailHeld ==
  ASSUME IInv, HeldInv, stage = "messages", NEW code, NEW gas, Fail(code, gas)
  PROVE  HeldInv'
<1>1. /\ Idle /\ due' = due + paid[Len(paid)] /\ UNCHANGED <<inBlock, state>>
  BY DEF Fail, blockVars
<1>2. /\ due \in Int /\ state.bank[FeeCollector] = due + paid[Len(paid)]
      /\ Len(paid) > 0 /\ paid \in Seq(Nat)
  BY DEF HeldInv, IInv, TypeInv
<1>3. paid[Len(paid)] \in Nat
  BY <1>2
<1>4. due' \in Int /\ state'.bank[FeeCollector] = due'
  BY <1>1, <1>2, <1>3
<1> QED
  BY <1>1, <1>4 DEF HeldInv, Idle

(* The end of a transaction: its branch holds what the transaction keeps.  *)
LEMMA FinishHeld ==
  ASSUME IInv, HeldInv, stage = "messages", NEW branch, NEW gas, Finish(branch, gas),
         branch.bank[FeeCollector] = due + kept
  PROVE  HeldInv'
<1>1. CASE Fail("block gas exceeded", gas)
  BY <1>1, FailHeld, ZenonT(30)
<1>2. CASE state' = branch /\ due' = due + kept /\ Idle
  <2>1. due' \in Int /\ state'.bank[FeeCollector] = due'
    BY <1>2 DEF HeldInv
  <2> QED
    BY <1>2, <2>1 DEF HeldInv, Idle
<1> QED
  BY <1>1, <1>2, ZenonT(30) DEF Finish

(* EthGasConsume: the fee it deducts is added to what was paid before.     *)
LEMMA DeductHeld ==
  ASSUME IInv, HeldInv, EthGasConsume
  PROVE  HeldInv'
<1>1. CASE Reject(mode, tx)
  BY <1>1, HeldWhenIdle DEF EthGasConsume, Reject, blockVars
<1>2. CASE ~Reject(mode, tx)
  <2> DEFINE n == Len(tx.msgs)
             fee == DeductedFee(current)
             held == cache.bank[FeeCollector]
  <2>1. /\ pos' = IF pos = n THEN 1 ELSE pos + 1
        /\ stage' = IF pos = n THEN "increment" ELSE "deduct"
        /\ UNCHANGED <<inBlock, state, mode, kept, due>> /\ stage = "deduct"
        /\ n \in Nat /\ pos \in 1 .. n
    BY <1>2, DeductFacts
  <2>2. /\ fee \in Nat /\ before(pos) \in Nat /\ held \in Int
        /\ cache'.bank[FeeCollector] = held + fee
        /\ Len(paid') = pos /\ paid'[pos] = fee + before(pos)
    BY <1>2, DeductFacts
  <2> HIDE DEF fee
  <2>3. mode = "deliver" => cache'.bank[FeeCollector] = due + (fee + before(pos))
    <3>1. due \in Int /\ (mode = "deliver" => held = due + before(pos))
      BY <2>1 DEF HeldInv
    <3> QED
      BY <2>2, <3>1
  <2>4. stage' = "deduct" => before(pos)' = paid'[pos]
    BY <2>1 DEF before
  <2>5. /\ due' \in Int /\ kept' = 0 /\ (inBlock' => state'.bank[FeeCollector] = due')
    BY <2>1 DEF HeldInv
  <2> QED
    BY <2>1, <2>2, <2>3, <2>4, <2>5 DEF HeldInv
<1> QED
  BY <1>1, <1>2

(* EthIncrementSenderSequence moves no coins.                              *)
LEMMA IncrementHeld ==
  ASSUME IInv, HeldInv, EthIncrementSenderSequence
  PROVE  HeldInv'
<1>1. CASE Reject(mode, tx)
  BY <1>1, HeldWhenIdle DEF EthIncrementSenderSequence, Reject, blockVars
<1>2. CASE ~Reject(mode, tx)
  <2>1. /\ cache' = [cache EXCEPT !.seq[current.from] = @ + 1] /\ stage = "increment"
        /\ stage' \in {"increment", "emit"}
        /\ UNCHANGED <<inBlock, state, mode, paid, kept, due>>
    BY <1>2 DEF EthIncrementSenderSequence, blockVars, txVars, historyVars
  <2>2. cache'.bank = cache.bank
    BY <2>1 DEF IInv, TypeInv, Ledger
  <2> QED
    BY <2>1, <2>2 DEF HeldInv
<1> QED
  BY <1>1, <1>2

(* EthEmitEvent writes the branch with all that was paid.                  *)
LEMMA EmitHeld ==
  ASSUME IInv, HeldInv, EthEmitEvent
  PROVE  HeldInv'
<1>1. /\ stage = "emit" /\ tx \in Txs /\ cache \in Ledger /\ pos = 1 /\ paid \in Seq(Nat)
      /\ Len(paid) = Len(tx.msgs) /\ Len(tx.msgs) \in Nat /\ Len(tx.msgs) > 0
      /\ tx.option = "ethereum" /\ UNCHANGED <<inBlock, due>>
  BY TxFacts DEF EthEmitEvent, IInv, TypeInv, FeeInv, blockVars
<1>2. GasWanted(cache, tx).bank = cache.bank
  BY <1>1, GasWantedFacts
<1>3. CASE mode # "deliver"
  <2>1. Idle /\ UNCHANGED state
    BY <1>3 DEF EthEmitEvent, Admit
  <2> QED
    BY <1>1, <2>1, HeldWhenIdle
<1>4. CASE mode = "deliver"
  <2>1. /\ state' = GasWanted(cache, tx) /\ cache' = GasWanted(cache, tx)
        /\ stage' = "messages" /\ UNCHANGED <<mode, tx, pos, paid, kept>>
    BY <1>4 DEF EthEmitEvent, txVars
  <2>2. /\ due \in Int /\ kept = 0 /\ cache.bank[FeeCollector] = due + paid[Len(paid)]
        /\ paid[Len(paid)] \in Nat
    BY <1>1, <1>4 DEF HeldInv
  <2>3. before(pos)' = 0
    BY <1>1, <2>1 DEF before
  <2>4. /\ state'.bank[FeeCollector] = due' + paid'[Len(paid')] /\ due' \in Int
        /\ cache'.bank[FeeCollector] = due' + kept' + paid'[Len(paid')] - before(pos)'
        /\ kept' \in Int
    BY <1>1, <1>2, <2>1, <2>2, <2>3
  <2>5. pos' <= Len(tx'.msgs) + 1 /\ Len(paid') > 0
    BY <1>1, <2>1
  <2> QED
    BY <1>1, <2>1, <2>4, <2>5 DEF HeldInv
<1> QED
  BY <1>3, <1>4

(* ApplyTransaction: of the fee of a message the collector keeps the gas   *)
(* it used, and returns the rest.                                          *)
LEMMA ApplyHeld ==
  ASSUME OriginalRate, IInv, HeldInv, Executing, NEW r \in evmResult(cache, current),
         NEW hookErr \in BOOLEAN, NEW more \in HookLogs, ApplyTransaction(r, hookErr, more)
  PROVE  HeldInv'
<1> DEFINE s == Processed(cache, current, r, hookErr)
           gas == ResponseGas(current, r)
           refund == remaining(current, gas)
           keeps == gas * GetEffectiveGasPrice(current)
           failed == r.failed \/ hookErr
           held == cache.bank[FeeCollector]
           total == paid[Len(paid)]
           sent == SendCoins(s, FeeCollector, current.from, refund)
           counted == Counted(sent, r.logs, more)
<1>1. /\ s \in Ledger /\ s.bank[FeeCollector] \in Int /\ refund \in Int
      /\ paid[pos] \in Nat /\ total \in Nat /\ paid[pos] <= total
      /\ s.bank[FeeCollector] - refund >= total - paid[pos]
  BY RefundCoveredHere
<1>2. /\ tx \in Txs /\ stage = "messages" /\ pos \in 1 .. Len(tx.msgs) /\ Len(tx.msgs) \in Nat
      /\ current \in message /\ cache \in Ledger /\ params \in Params
      /\ tx.option = "ethereum" /\ paid \in Seq(Nat) /\ Len(paid) = Len(tx.msgs)
  BY ExecutingFacts
<1>3. /\ cache' = Indexed(counted, gas, failed) /\ kept' = kept + keeps /\ pos' = pos + 1
      /\ ~CommitFails(current, r) /\ UNCHANGED <<inBlock, state, stage, mode, tx, paid, due>>
  <2>1. ~(s.bank[FeeCollector] < refund)
    <3> HIDE DEF s, gas, refund, keeps, failed, held, total, sent, counted
    <3> QED
      BY <1>1
  <2> QED
    BY <2>1, ZenonT(30) DEF ApplyTransaction, blockVars, txVars
<1>4. s.bank[FeeCollector] = held /\ held \in Int
  <2>1. cache \in Ledger /\ current \in message /\ ~CommitFails(current, r)
    BY <1>2, <1>3, ZenonT(30)
  <2>2. s.bank[FeeCollector] = held
    BY <2>1, ProcessedHeld
  <2> QED
    BY <1>1, <2>2, ZenonT(30)
<1>5. gas \in Nat /\ r.logs \in Seq(Payload) /\ more \in Seq(Payload)
  BY <1>2, ResponseGasNat, ResultLogs, LogAssumption
<1>6. ~current.dynamic => current.tip = current.cap
  BY <1>2, TxAssumption DEF current
<1>7. keeps \in Int /\ keeps + refund = DeductedFee(current)
  BY <1>2, <1>5, <1>6, FeeSplit
<1>8. DeductedFee(current) \in Nat /\ paid[pos] = DeductedFee(current) + before(pos)
  BY <1>2, FeeFacts DEF IInv, FeeInv, current
<1>9. before(pos) \in Nat
  BY <1>2 DEF before
<1>10. cache'.bank[FeeCollector] = held - refund
  <2>1. current.from \in Address /\ current.from # FeeCollector /\ FeeCollector \in Address
    BY <1>2, AddressFacts DEF message
  <2> HIDE DEF s, gas, refund, failed, held
  <2>2. sent \in Ledger
    BY <1>1, <2>1, SendCoinsFacts
  <2>3. sent.bank[FeeCollector] = s.bank[FeeCollector] - refund
    BY <1>1, <2>1, CollectorFacts
  <2> HIDE DEF sent
  <2>4. counted \in Ledger /\ counted.bank = sent.bank
    BY <1>5, <2>2, CountedFacts
  <2> HIDE DEF counted
  <2>5. cache'.bank = counted.bank
    BY <1>3, <1>5, <2>4, IndexedFacts
  <2> QED
    BY <1>4, <2>3, <2>4, <2>5
<1> HIDE DEF s, gas, refund, keeps, failed, held, total, sent, counted
<1>11. before(pos)' = paid[pos]
  BY <1>2, <1>3 DEF before
<1>12. held = due + kept + total - before(pos) /\ due \in Int /\ kept \in Int
  BY <1>2 DEF HeldInv, held, total
<1>13. cache'.bank[FeeCollector] = due + kept' + total - before(pos)' /\ kept' \in Int
  <2>1. /\ due \in Int /\ kept \in Int /\ total \in Int /\ before(pos) \in Int
        /\ refund \in Int /\ keeps \in Int
    BY <1>1, <1>7, <1>9, <1>12
  <2>2. /\ cache'.bank[FeeCollector] = (due + kept + total - before(pos)) - refund
        /\ before(pos)' = (keeps + refund) + before(pos) /\ kept' = kept + keeps
    BY <1>3, <1>7, <1>8, <1>10, <1>11, <1>12, ZenonT(30)
  <2>3. /\ (due + kept + total - before(pos)) - refund
             = due + (kept + keeps) + total - ((keeps + refund) + before(pos))
        /\ kept + keeps \in Int
    BY <2>1
  <2> QED
    BY <2>2, <2>3, ZenonT(30)
<1>14. pos' <= Len(tx'.msgs) + 1
  BY <1>2, <1>3
<1> QED
  BY <1>2, <1>3, <1>13, <1>14 DEF HeldInv, total

(* The end of the messages.                                                *)
LEMMA EndHeld ==
  ASSUME IInv, HeldInv, EndTx \/ EndCosmosTx
  PROVE  HeldInv'
<1>1. /\ stage = "messages" /\ pos > Len(tx.msgs) /\ tx \in Txs /\ cache \in Ledger
      /\ pos \in Nat /\ due \in Int /\ kept \in Int /\ paid \in Seq(Nat) /\ Len(paid) > 0
  BY DEF EndTx, EndCosmosTx, IInv, TypeInv, HeldInv
<1>2. CASE EndTx
  <2>1. tx.option = "ethereum" /\ Len(tx.msgs) \in Nat /\ Len(tx.msgs) > 0
    BY <1>1, <1>2, TxAssumption, TxFacts DEF EndTx
  <2>2. pos = Len(tx.msgs) + 1 /\ Len(paid) = Len(tx.msgs)
    BY <1>1, <2>1 DEF HeldInv, IInv, FeeInv
  <2>3. before(pos) = paid[Len(paid)] /\ paid[Len(paid)] \in Nat
    BY <1>1, <2>1, <2>2 DEF before
  <2>4. cache.bank[FeeCollector] = due + kept + paid[Len(paid)] - before(pos)
    BY <1>1, <2>1 DEF HeldInv
  <2>5. cache.bank[FeeCollector] = due + kept
    BY <1>1, <2>3, <2>4
  <2> QED
    BY <1>1, <1>2, <2>5, FinishHeld DEF EndTx
<1>3. CASE EndCosmosTx
  <2>1. tx.option # "ethereum" /\ tx.send \in send
    BY <1>1, <1>3, TxAssumption DEF EndCosmosTx
  <2>2. cache.bank[FeeCollector] = due + kept
    BY <1>1, <2>1 DEF HeldInv
  <2> DEFINE from == tx.send.from
             to == tx.send.to
             amount == tx.send.amount
  <2>3. from \in Address /\ from # FeeCollector /\ to \in Address /\ amount \in Int
    BY <2>1, AddressFacts DEF send
  <2>4. ASSUME NEW gas, to \notin Blocked, Finish(SendCoins(cache, from, to, amount), gas)
        PROVE  HeldInv'
    <3>1. to # FeeCollector
      BY <2>4, AddressAssumption
    <3> HIDE DEF from, to, amount
    <3>2. SendCoins(cache, from, to, amount).bank[FeeCollector] = cache.bank[FeeCollector]
      BY <1>1, <2>3, <3>1, CollectorFacts
    <3> QED
      BY <1>1, <2>2, <2>4, <3>2, FinishHeld
  <2> QED
    BY <1>1, <1>3, <2>4, FailHeld DEF EndCosmosTx
<1> QED
  BY <1>2, <1>3

(* BeginBlock empties the collector; EndBlock leaves it.                   *)
LEMMA BlockHeld ==
  ASSUME IInv, HeldInv, BeginBlock \/ EndBlock
  PROVE  HeldInv'
<1>1. CASE EndBlock
  BY <1>1 DEF EndBlock, Idle, HeldInv
<1>2. CASE BeginBlock
  <2>1. state.bank[FeeCollector] \in Int /\ state \in Ledger
    BY AddressFacts DEF IInv, TypeInv, Ledger
  <2>2. state'.bank[FeeCollector] = state.bank[FeeCollector] - state.bank[FeeCollector]
    BY <1>2, <2>1, AddressFacts, CollectorFacts DEF BeginBlock
  <2>3. state'.bank[FeeCollector] = 0
    BY <2>1, <2>2
  <2> QED
    BY <1>2, <2>3 DEF BeginBlock, Idle, HeldInv
<1> QED
  BY <1>1, <1>2

(* Every step keeps HeldInv.                                               *)
LEMMA NextHeld == OriginalRate /\ IInv /\ HeldInv /\ [Next]_vars => HeldInv'
<1> SUFFICES ASSUME OriginalRate, IInv, HeldInv, [Next]_vars PROVE HeldInv'
  OBVIOUS
<1>1. CASE BeginBlock \/ EndBlock
  BY <1>1, BlockHeld
<1>2. ASSUME NEW t \in Txs, CheckTx(t)
      PROVE  HeldInv'
  BY <1>2, AnteHeld DEF CheckTx
<1>3. CASE UNCHANGED <<inBlock, state, runVars, due>>
  BY <1>3 DEF HeldInv, before, runVars
<1>4. ASSUME NEW t \in Txs, DeliverTx(t)
      PROVE  HeldInv'
  <2>1. CASE AnteHandler("deliver", t)
    BY <1>4, <2>1, AnteHeld DEF DeliverTx
  <2>2. CASE ~AnteHandler("deliver", t)
    BY <1>3, <1>4, <2>2 DEF DeliverTx, blockVars
  <2> QED
    BY <2>1, <2>2
<1>5. CASE RecheckTx
  <2>1. CASE AnteHandler("recheck", Head(recheck))
    <3>1. Head(recheck) \in Txs /\ stage = "idle"
      BY <1>5 DEF RecheckTx, IInv, TypeInv
    <3> QED
      BY <2>1, <3>1, AnteHeld
  <2>2. CASE ~AnteHandler("recheck", Head(recheck))
    BY <1>3, <1>5, <2>2 DEF RecheckTx, blockVars
  <2> QED
    BY <2>1, <2>2
<1>6. CASE EthGasConsume
  BY <1>6, DeductHeld
<1>7. CASE EthIncrementSenderSequence
  BY <1>7, IncrementHeld
<1>8. CASE EthEmitEvent
  BY <1>8, EmitHeld
<1>9. CASE ApplyFails
  BY <1>9, FailHeld DEF ApplyFails, Executing
<1>10. CASE EndTx \/ EndCosmosTx
  BY <1>10, EndHeld
<1>11. CASE /\ Executing
            /\ \E r \in evmResult(cache, current), hookErr \in BOOLEAN, more \in HookLogs :
                 ApplyTransaction(r, hookErr, more)
  BY <1>11, ApplyHeld
<1>12. CASE UNCHANGED vars
  BY <1>3, <1>12 DEF vars, runVars
<1> QED
  BY <1>1, <1>2, <1>4, <1>5, <1>6, <1>7, <1>8, <1>9, <1>10, <1>11, <1>12 DEF Next

(* Where fees and refunds have one price, the fee collector holds between  *)
(* the transactions of a block exactly what they owe: the gas each message *)
(* used, and all that a transaction paid whose messages failed.            *)
THEOREM CollectedFeesMatchGas == OriginalRate /\ Spec => []FeesMatchGas
<1>1. Init => HeldInv
  BY DEF Init, HeldInv
<1>2. OriginalRate /\ Init => OriginalRate /\ IInv /\ HeldInv
  BY <1>1, InitInv
<1>3. OriginalRate /\ IInv /\ HeldInv /\ [Next]_vars => (OriginalRate /\ IInv /\ HeldInv)'
  <2>1. OriginalRate => OriginalRate'
    BY DEF OriginalRate
  <2> QED
    BY <2>1, NextInv, NextHeld
<1>4. HeldInv => FeesMatchGas
  BY DEF HeldInv, FeesMatchGas
<1> QED
  BY <1>2, <1>3, <1>4, PTL DEF Spec

-----------------------------------------------------------------------------
(* The nonces that are spent.                                              *)

(* A creation is the last message of its sender in its transaction: it     *)
(* sets the sequence, over what the ante handler counted for later ones.   *)
CreationsLast ==
  \A t \in Txs : \A i, j \in 1 .. Len(t.msgs) :
    i < j /\ t.msgs[i].from = t.msgs[j].from => t.msgs[i].to # Nobody

(* The sequence has passed a message; a creation that sets it again does   *)
(* not move it.                                                            *)
Spent(s, m) == m.nonce < s.seq[m.from] /\ (m.to = Nobody => s.seq[m.from] = m.nonce + 1)

(* What a delivered transaction has spent at each stage: the branch is     *)
(* ahead of the state, the messages the ante handler has seen are spent on *)
(* the branch, and all of them on the state when the messages run.         *)
SpentInv ==
  /\ \A m \in included : m.from \in Sender /\ m.nonce \in Nat /\ m.nonce < state.seq[m.from]
  /\ stage # "idle" /\ mode = "deliver" => \A a \in Sender : cache.seq[a] >= state.seq[a]
  /\ stage \in {"increment", "emit"} /\ mode = "deliver" =>
       \A i \in 1 .. seen : Spent(cache, tx.msgs[i])
  /\ stage = "messages" =>
       /\ cache.seq = state.seq
       /\ \A i \in 1 .. Len(tx.msgs) : Spent(state, tx.msgs[i])
       /\ tx.option # "ethereum" => tx.send.nonce < state.seq[tx.send.from]

(* A transaction that is not in the block leaves what the blocks spent.    *)
LEMMA SpentWhenIdle ==
  ASSUME SpentInv, Idle, included' = included, state'.seq = state.seq
  PROVE  SpentInv'
BY DEF SpentInv, Idle

(* What was spent stays spent as sequences grow.                           *)
LEMMA SpentStays ==
  ASSUME IInv, SpentInv, included' = included, state' \in Ledger,
         \A a \in Sender : state'.seq[a] >= state.seq[a]
  PROVE  \A m \in included' : m.from \in Sender /\ m.nonce \in Nat /\ m.nonce < state'.seq[m.from]
<1> SUFFICES ASSUME NEW m \in included
             PROVE  m.from \in Sender /\ m.nonce \in Nat /\ m.nonce < state'.seq[m.from]
  OBVIOUS
<1>1. m.from \in Sender /\ m.nonce \in Nat /\ m.nonce < state.seq[m.from]
  BY DEF SpentInv
<1>2. state \in Ledger
  BY ZenonT(30) DEF IInv, TypeInv
<1>3. state.seq[m.from] \in Int /\ state'.seq[m.from] \in Int
  BY <1>1, <1>2, SeqNumbers, ZenonT(30)
<1> QED
  BY <1>1, <1>3

(* The ante handler starts, or a transaction of the SDK passes it.         *)
LEMMA AnteSpent ==
  ASSUME IInv, SpentInv, stage = "idle", NEW m \in {"check", "recheck", "deliver"},
         NEW t \in Txs, AnteHandler(m, t)
  PROVE  SpentInv'
<1>1. state \in Ledger
  BY DEF IInv, TypeInv
<1>2. CASE Reject(m, t)
  BY <1>2, SpentWhenIdle DEF Reject
<1>3. CASE EthAnte(m, t) /\ ~Reject(m, t)
  <2>1. /\ mode' = m /\ tx' = t /\ stage' = "deduct"
        /\ cache' = Prepared(m, branchOf(m), t) /\ UNCHANGED <<state, included>>
    BY <1>3 DEF EthAnte, historyVars
  <2>2. ASSUME m = "deliver", NEW a \in Sender
        PROVE  cache'.seq[a] >= state'.seq[a]
    <3>1. cache'.seq[a] = state.seq[a]
      BY <1>1, <2>1, <2>2, PreparedSeq DEF branchOf, IsCheckTx
    <3>2. state.seq[a] \in Int
      BY <1>1, <2>2, SeqNumbers, ZenonT(30)
    <3> QED
      BY <2>1, <3>1, <3>2
  <2> QED
    BY <2>1, <2>2 DEF SpentInv
<1>4. CASE CosmosAnte(m, t) /\ t.option # "ethereum" /\ ~Reject(m, t)
  <2>1. CosmosVerified(m, branchOf(m), t) /\ included' = included
    BY <1>4 DEF CosmosAnte
  <2>2. CASE m # "deliver"
    <3>1. Idle /\ UNCHANGED state
      BY <1>4, <2>2 DEF CosmosAnte, Admit
    <3> QED
      BY <2>1, <3>1, SpentWhenIdle
  <2>3. CASE m = "deliver"
    <3>1. /\ tx' = t /\ stage' = "messages"
          /\ state' = CosmosPassed(state, t) /\ cache' = CosmosPassed(state, t)
      BY <1>4, <2>3 DEF CosmosAnte, branchOf
    <3>2. /\ t.msgs = <<>> /\ state.seq[t.send.from] # NoAccount
          /\ state.seq[t.send.from] = t.send.nonce
      BY <2>1, <2>3 DEF CosmosVerified, RejectMessages, Eip712SigVerification, branchOf
    <3>3. t.send \in send
      BY <1>4, TxFacts
    <3> DEFINE from == t.send.from
               nonce == t.send.nonce
    <3>4. /\ state' \in Ledger /\ from \in Sender /\ nonce \in Nat
          /\ state'.seq = [state.seq EXCEPT ![from] = @ + 1]
      BY <1>1, <3>1, <3>2, <3>3, CosmosPassedFacts DEF send
    <3> HIDE DEF from, nonce
    <3>5. state.seq[from] = nonce
      BY <3>2 DEF from, nonce
    <3>6. state'.seq[from] = nonce + 1
      BY <1>1, <3>4, <3>5 DEF Ledger
    <3>7. ASSUME NEW a \in Sender
          PROVE  state'.seq[a] >= state.seq[a] /\ state'.seq[a] \in Int
      <4>1. state.seq[a] \in Int /\ (a # from => state'.seq[a] = state.seq[a])
        BY <1>1, <3>4 DEF Ledger, NoAccount
      <4> QED
        BY <3>4, <3>5, <3>6, <4>1
    <3>8. \A s \in included' : s.from \in Sender /\ s.nonce \in Nat /\ s.nonce < state'.seq[s.from]
      BY <2>1, <3>4, <3>7, SpentStays
    <3>9. \A a \in Sender : cache'.seq[a] >= state'.seq[a]
      BY <3>1, <3>7
    <3>10. tx'.send.nonce < state'.seq[tx'.send.from]
      BY <3>1, <3>4, <3>6 DEF from, nonce
    <3>11. Len(tx'.msgs) = 0 /\ cache'.seq = state'.seq
      BY <3>1, <3>2
    <3>12. \A i \in 1 .. Len(tx'.msgs) : Spent(state, tx.msgs[i])'
      BY <3>11
    <3> QED
      BY <3>1, <3>8, <3>9, <3>10, <3>11, <3>12 DEF SpentInv
  <2> QED
    BY <2>2, <2>3
<1> QED
  BY <1>2, <1>3, <1>4 DEF AnteHandler

(* A block that takes a transaction in has its nonces spent.               *)
LEMMA IncludedSpent ==
  ASSUME IInv, SpentInv, stage = "messages", included' = included \cup spentBy(tx), Idle,
         state'.seq = state.seq
  PROVE  SpentInv'
<1>1. tx \in Txs /\ DOMAIN tx.msgs = 1 .. Len(tx.msgs)
  BY TxFacts DEF IInv, TypeInv
<1>2. ASSUME NEW m \in spentBy(tx)
      PROVE  m.from \in Sender /\ m.nonce \in Nat /\ m.nonce < state.seq[m.from]
  <2>1. CASE tx.send = NoSend
    <3>1. PICK i \in 1 .. Len(tx.msgs) : m = tx.msgs[i]
      BY <1>1, <1>2, <2>1 DEF spentBy
    <3>2. m \in message
      BY <1>1, <3>1, TxFacts
    <3>3. Spent(state, m)
      BY <3>1 DEF SpentInv
    <3> QED
      BY <3>2, <3>3 DEF Spent, message
  <2>2. CASE tx.send # NoSend
    <3>1. m = tx.send
      BY <1>2, <2>2 DEF spentBy
    <3>2. tx.option # "ethereum" /\ tx.send \in send
      BY <1>1, <2>2, TxFacts
    <3> QED
      BY <3>1, <3>2 DEF SpentInv, send
  <2> QED
    BY <2>1, <2>2
<1> QED
  BY <1>2 DEF SpentInv, Idle

(* The end of a delivered transaction, on a branch with the sequences of   *)
(* the state.                                                              *)
LEMMA FinishSpent ==
  ASSUME IInv, SpentInv, stage = "messages", NEW branch, NEW gas, Finish(branch, gas),
         branch.seq = state.seq
  PROVE  SpentInv'
<1>1. CASE Fail("block gas exceeded", gas)
  BY <1>1, IncludedSpent DEF Fail
<1>2. CASE state' = branch /\ included' = included \cup spentBy(tx) /\ Idle
  BY <1>2, IncludedSpent
<1> QED
  BY <1>1, <1>2, ZenonT(30) DEF Finish

(* EthGasConsume moves no sequence.                                        *)
LEMMA DeductSpent ==
  ASSUME IInv, SpentInv, EthGasConsume
  PROVE  SpentInv'
<1>1. CASE Reject(mode, tx)
  BY <1>1, SpentWhenIdle DEF Reject
<1>2. CASE ~Reject(mode, tx)
  <2>1. /\ pos' = IF pos = Len(tx.msgs) THEN 1 ELSE pos + 1
        /\ stage' = IF pos = Len(tx.msgs) THEN "increment" ELSE "deduct"
        /\ UNCHANGED <<state, mode, tx, included>> /\ stage = "deduct"
        /\ cache'.seq = cache.seq
    BY <1>2, DeductFacts
  <2>2. \A i \in 1 .. seen' : FALSE
    BY <2>1 DEF seen
  <2> QED
    BY <2>1, <2>2 DEF SpentInv
<1> QED
  BY <1>1, <1>2

(* EthIncrementSenderSequence spends the nonce of the message at pos.      *)
LEMMA IncrementSpent ==
  ASSUME CreationsLast, IInv, SpentInv, EthIncrementSenderSequence
  PROVE  SpentInv'
<1>1. CASE Reject(mode, tx)
  BY <1>1, SpentWhenIdle DEF Reject
<1>2. CASE NonceMatches(cache, current) /\ ~Reject(mode, tx)
  <2> DEFINE n == Len(tx.msgs)
             from == current.from
             nonce == current.nonce
  <2>1. /\ cache' = [cache EXCEPT !.seq[from] = @ + 1]
        /\ pos' = IF pos = n THEN 1 ELSE pos + 1
        /\ stage' = IF pos = n THEN "emit" ELSE "increment"
        /\ UNCHANGED <<state, mode, tx, included>>
    BY <1>2 DEF EthIncrementSenderSequence, txVars, historyVars
  <2>2. /\ stage = "increment" /\ tx \in Txs /\ n \in Nat /\ pos \in 1 .. n
        /\ current \in message /\ cache \in Ledger /\ state \in Ledger
    BY TxFacts DEF EthIncrementSenderSequence, IInv, TypeInv, current
  <2>3. from \in Sender /\ nonce \in Nat /\ cache.seq[from] = nonce
    BY <1>2, <2>2 DEF message, NonceMatches
  <2> HIDE DEF from, nonce
  <2>4. cache.seq[from] # NoAccount
    BY <2>3 DEF NoAccount
  <2>5. cache'.seq = [cache.seq EXCEPT ![from] = @ + 1]
    BY <2>1, <2>2, <2>3, <2>4, IncrementFacts
  <2>6. ASSUME NEW a \in Sender
        PROVE  /\ cache.seq[a] \in Int /\ state.seq[a] \in Int
               /\ cache'.seq[a] = IF a = from THEN nonce + 1 ELSE cache.seq[a]
    <3>1. cache.seq[a] \in Int /\ state.seq[a] \in Int
      BY <2>2, <2>6, SeqNumbers, ZenonT(30)
    <3>2. cache.seq \in [Sender -> Nat \cup {NoAccount}]
      BY <2>2, SeqNumbers, ZenonT(30)
    <3> QED
      BY <2>3, <2>5, <3>1, <3>2
  <2>7. ASSUME mode = "deliver", NEW a \in Sender
        PROVE  cache'.seq[a] >= state'.seq[a]
    <3>1. cache.seq[a] >= state.seq[a]
      BY <2>2, <2>7 DEF SpentInv
    <3>2. CASE a = from
      BY <2>1, <2>3, <2>6, <3>1, <3>2
    <3>3. CASE a # from
      BY <2>1, <2>6, <3>1, <3>3
    <3> QED
      BY <3>2, <3>3
  <2>8. seen = pos - 1 /\ seen' = pos
    BY <2>1, <2>2 DEF seen
  <2>9. ASSUME mode = "deliver", NEW i \in 1 .. seen'
        PROVE  Spent(cache', tx.msgs[i])
    <3>1. i \in 1 .. n /\ (i = pos \/ (i \in 1 .. seen /\ i < pos))
      BY <2>2, <2>8
    <3>2. tx.msgs[i].from \in Sender /\ tx.msgs[i].nonce \in Nat
      BY <2>2, <3>1, TxFacts DEF message
    <3>3. CASE i = pos
      <4>1. tx.msgs[i].from = from /\ tx.msgs[i].nonce = nonce
        BY <3>3 DEF current, from, nonce
      <4>2. cache'.seq[from] = nonce + 1
        BY <2>3, <2>6
      <4> QED
        BY <2>3, <4>1, <4>2 DEF Spent
    <3>4. CASE i \in 1 .. seen /\ i < pos
      <4>1. Spent(cache, tx.msgs[i])
        BY <2>2, <2>9, <3>4 DEF SpentInv
      <4>2. CASE tx.msgs[i].from # from
        <5>1. cache'.seq[tx.msgs[i].from] = cache.seq[tx.msgs[i].from]
          BY <2>6, <3>2, <4>2
        <5> QED
          BY <4>1, <5>1 DEF Spent
      <4>3. CASE tx.msgs[i].from = from
        <5>1. tx.msgs[i].to # Nobody
          BY <2>2, <3>1, <3>4, <4>3 DEF CreationsLast, current, from
        <5>2. tx.msgs[i].nonce < nonce
          BY <2>3, <4>1, <4>3 DEF Spent
        <5>3. cache'.seq[from] = nonce + 1
          BY <2>3, <2>6
        <5>4. tx.msgs[i].nonce < cache'.seq[from]
          BY <2>3, <3>2, <5>2, <5>3
        <5> QED
          BY <4>3, <5>1, <5>4 DEF Spent
      <4> QED
        BY <4>2, <4>3
    <3> QED
      BY <3>1, <3>3, <3>4
  <2>10. \A m \in included' : m.from \in Sender /\ m.nonce \in Nat /\ m.nonce < state'.seq[m.from]
    BY <2>1 DEF SpentInv
  <2> QED
    BY <2>1, <2>7, <2>9, <2>10 DEF SpentInv
<1> QED
  BY <1>1, <1>2 DEF EthIncrementSenderSequence

(* EthEmitEvent writes the sequences of the branch.                        *)
LEMMA EmitSpent ==
  ASSUME IInv, SpentInv, EthEmitEvent
  PROVE  SpentInv'
<1>1. /\ stage = "emit" /\ tx \in Txs /\ cache \in Ledger /\ state \in Ledger
      /\ tx.option = "ethereum" /\ included' = included
  BY DEF EthEmitEvent, IInv, TypeInv
<1>2. GasWanted(cache, tx) \in Ledger /\ GasWanted(cache, tx).seq = cache.seq
  BY <1>1, GasWantedFacts
<1>3. CASE mode # "deliver"
  <2>1. Idle /\ UNCHANGED state
    BY <1>3 DEF EthEmitEvent, Admit
  <2> QED
    BY <1>1, <2>1, SpentWhenIdle
<1>4. CASE mode = "deliver"
  <2>1. /\ state' = GasWanted(cache, tx) /\ cache' = GasWanted(cache, tx)
        /\ stage' = "messages" /\ UNCHANGED <<mode, tx>>
    BY <1>4 DEF EthEmitEvent, txVars
  <2>2. state' \in Ledger /\ state'.seq = cache.seq /\ cache'.seq = state'.seq
    BY <1>2, <2>1
  <2>3. \A a \in Sender : cache.seq[a] >= state.seq[a]
    BY <1>1, <1>4 DEF SpentInv
  <2>4. \A a \in Sender : cache'.seq[a] >= state'.seq[a]
    BY <2>2 DEF Ledger, NoAccount
  <2>5. \A m \in included' : m.from \in Sender /\ m.nonce \in Nat /\ m.nonce < state'.seq[m.from]
    BY <1>1, <2>2, <2>3, SpentStays
  <2>6. \A i \in 1 .. Len(tx.msgs) : Spent(cache, tx.msgs[i])
    BY <1>1, <1>4 DEF SpentInv, seen
  <2>7. \A i \in 1 .. Len(tx'.msgs) : Spent(state, tx.msgs[i])'
    BY <2>1, <2>2, <2>6 DEF Spent
  <2> QED
    BY <1>1, <2>1, <2>2, <2>4, <2>5, <2>7 DEF SpentInv
<1> QED
  BY <1>3, <1>4

(* A creation sets the sequence of its sender to what it is already.       *)
LEMMA ProcessedSeq ==
  ASSUME NEW s \in Ledger, NEW m \in message, NEW r, NEW hookErr,
         m.to = Nobody => s.seq[m.from] = m.nonce + 1
  PROVE  Processed(s, m, r, hookErr).seq = s.seq
<1> DEFINE to == recipient(m)
           moved == IF r.failed THEN s ELSE SendCoins(s, m.from, to, m.value)
<1>1. /\ m.from \in Sender /\ m.value \in Int /\ m.from \in Address /\ to \in Address
  BY AddressFacts DEF message, recipient
<1>2. moved \in Ledger /\ moved.seq = s.seq
  <2> HIDE DEF to
  <2> QED
    BY <1>1, SendCoinsFacts
<1>3. Committed(s, m, r) = IF m.to = Nobody THEN [moved EXCEPT !.seq[m.from] = m.nonce + 1]
                                            ELSE moved
  BY DEF Committed
<1> HIDE DEF moved
<1>4. CASE m.to = Nobody
  <2>1. [moved EXCEPT !.seq[m.from] = m.nonce + 1].seq
          = [moved.seq EXCEPT ![m.from] = m.nonce + 1]
    BY <1>2 DEF Ledger
  <2>2. s.seq = [s.seq EXCEPT ![m.from] = m.nonce + 1]
    BY <1>1, <1>4 DEF Ledger
  <2> QED
    BY <1>2, <1>3, <1>4, <2>1, <2>2 DEF Processed
<1>5. CASE m.to # Nobody
  BY <1>2, <1>3, <1>5 DEF Processed
<1> QED
  BY <1>4, <1>5

(* ApplyTransaction leaves the sequences of the branch as they are.        *)
LEMMA ApplySpent ==
  ASSUME IInv, SpentInv, Executing, NEW r \in evmResult(cache, current),
         NEW hookErr \in BOOLEAN, NEW more \in HookLogs, ApplyTransaction(r, hookErr, more)
  PROVE  SpentInv'
<1> DEFINE s == Processed(cache, current, r, hookErr)
           gas == ResponseGas(current, r)
           refund == remaining(current, gas)
           failed == r.failed \/ hookErr
           sent == SendCoins(s, FeeCollector, current.from, refund)
           counted == Counted(sent, r.logs, more)
<1>1. /\ s \in Ledger /\ s.bank[FeeCollector] \in Int /\ refund \in Int
      /\ paid[pos] \in Nat /\ paid[Len(paid)] \in Nat /\ paid[pos] <= paid[Len(paid)]
      /\ s.bank[FeeCollector] - refund >= paid[Len(paid)] - paid[pos]
  BY RefundCoveredHere
<1>2. /\ tx \in Txs /\ stage = "messages" /\ pos \in 1 .. Len(tx.msgs)
      /\ current \in message /\ cache \in Ledger
  BY ExecutingFacts
<1>3. /\ cache' = Indexed(counted, gas, failed)
      /\ UNCHANGED <<state, stage, mode, tx, included>>
  <2>1. ~(s.bank[FeeCollector] < refund)
    BY <1>1
  <2> QED
    BY <2>1, ZenonT(30) DEF ApplyTransaction, txVars
<1>4. cache.seq = state.seq /\ Spent(state, current)
  BY <1>2 DEF SpentInv, current
<1>5. s.seq = cache.seq
  <2>1. current.to = Nobody => cache.seq[current.from] = current.nonce + 1
    BY <1>4 DEF Spent
  <2> QED
    BY <1>2, <2>1, ProcessedSeq
<1>6. gas \in Nat /\ r.logs \in Seq(Payload) /\ more \in Seq(Payload)
  BY <1>2, ResponseGasNat, ResultLogs, LogAssumption
<1>7. cache'.seq = cache.seq
  <2>1. current.from \in Address /\ FeeCollector \in Address
    BY <1>2, AddressFacts DEF message
  <2> HIDE DEF s, gas, refund, failed
  <2>2. sent \in Ledger /\ sent.seq = s.seq
    BY <1>1, <2>1, SendCoinsFacts
  <2> HIDE DEF sent
  <2>3. counted \in Ledger /\ counted.seq = sent.seq
    BY <1>6, <2>2, CountedFacts
  <2> HIDE DEF counted
  <2>4. cache'.seq = counted.seq
    BY <1>3, <1>6, <2>3, IndexedFacts
  <2> QED
    BY <1>5, <2>2, <2>3, <2>4
<1> HIDE DEF s, gas, refund, failed, sent, counted
<1>8. \A i \in 1 .. Len(tx'.msgs) : Spent(state, tx.msgs[i])'
  BY <1>2, <1>3 DEF SpentInv, Spent
<1>9. \A a \in Sender : mode' = "deliver" => cache'.seq[a] >= state'.seq[a]
  BY <1>2, <1>3, <1>7 DEF SpentInv
<1> QED
  BY <1>2, <1>3, <1>4, <1>7, <1>8, <1>9 DEF SpentInv

(* The end of the messages.                                                *)
LEMMA EndSpent ==
  ASSUME IInv, SpentInv, EndTx \/ EndCosmosTx
  PROVE  SpentInv'
<1>1. stage = "messages" /\ tx \in Txs /\ cache \in Ledger /\ cache.seq = state.seq
  BY DEF EndTx, EndCosmosTx, IInv, TypeInv, SpentInv
<1>2. CASE EndTx
  BY <1>1, <1>2, FinishSpent DEF EndTx
<1>3. ASSUME NEW gas, EndCosmosTx,
             Finish(SendCoins(cache, tx.send.from, tx.send.to, tx.send.amount), gas)
      PROVE  SpentInv'
  <2> DEFINE from == tx.send.from
             to == tx.send.to
             amount == tx.send.amount
  <2>1. tx.send \in send
    BY <1>1, <1>3, TxAssumption DEF EndCosmosTx
  <2>2. from \in Address /\ to \in Address /\ amount \in Int
    BY <2>1, AddressFacts DEF send
  <2>3. Finish(SendCoins(cache, from, to, amount), gas)
    BY <1>3
  <2> HIDE DEF from, to, amount
  <2>4. SendCoins(cache, from, to, amount).seq = state.seq
    BY <1>1, <2>2, SendCoinsFacts
  <2> QED
    BY <1>1, <2>3, <2>4, FinishSpent
<1>4. ASSUME NEW gas, Fail("failed", gas)
      PROVE  SpentInv'
  BY <1>1, <1>4, IncludedSpent DEF Fail
<1> QED
  BY <1>2, <1>3, <1>4 DEF EndCosmosTx

(* Every step keeps SpentInv.                                              *)
LEMMA NextSpent == CreationsLast /\ IInv /\ SpentInv /\ [Next]_vars => SpentInv'
<1> SUFFICES ASSUME CreationsLast, IInv, SpentInv, [Next]_vars PROVE SpentInv'
  OBVIOUS
<1>1. CASE BeginBlock \/ EndBlock
  <2>1. state \in Ledger /\ state.bank[FeeCollector] \in Int
    BY AddressFacts DEF IInv, TypeInv, Ledger
  <2>2. SendCoins(state, FeeCollector, Distribution, state.bank[FeeCollector]).seq = state.seq
    BY <2>1, AddressFacts, SendCoinsFacts
  <2>3. resetTransient(state).seq = state.seq
    BY <2>1, ResetFacts
  <2> QED
    BY <1>1, <2>2, <2>3, SpentWhenIdle DEF BeginBlock, EndBlock
<1>2. ASSUME NEW t \in Txs, CheckTx(t)
      PROVE  SpentInv'
  BY <1>2, AnteSpent DEF CheckTx
<1>3. CASE UNCHANGED <<state, runVars, included>>
  BY <1>3 DEF SpentInv, Spent, seen, runVars
<1>4. ASSUME NEW t \in Txs, DeliverTx(t)
      PROVE  SpentInv'
  <2>1. CASE AnteHandler("deliver", t)
    BY <1>4, <2>1, AnteSpent DEF DeliverTx
  <2>2. CASE ~AnteHandler("deliver", t)
    BY <1>3, <1>4, <2>2 DEF DeliverTx
  <2> QED
    BY <2>1, <2>2
<1>5. CASE RecheckTx
  <2>1. CASE AnteHandler("recheck", Head(recheck))
    <3>1. Head(recheck) \in Txs /\ stage = "idle"
      BY <1>5 DEF RecheckTx, IInv, TypeInv
    <3> QED
      BY <2>1, <3>1, AnteSpent
  <2>2. CASE ~AnteHandler("recheck", Head(recheck))
    BY <1>3, <1>5, <2>2 DEF RecheckTx
  <2> QED
    BY <2>1, <2>2
<1>6. CASE EthGasConsume
  BY <1>6, DeductSpent
<1>7. CASE EthIncrementSenderSequence
  BY <1>7, IncrementSpent
<1>8. CASE EthEmitEvent
  BY <1>8, EmitSpent
<1>9. CASE ApplyFails
  BY <1>9, IncludedSpent DEF ApplyFails, Executing, Fail
<1>10. CASE EndTx \/ EndCosmosTx
  BY <1>10, EndSpent
<1>11. CASE /\ Executing
            /\ \E r \in evmResult(cache, current), hookErr \in BOOLEAN, more \in HookLogs :
                 ApplyTransaction(r, hookErr, more)
  BY <1>11, ApplySpent
<1>12. CASE UNCHANGED vars
  BY <1>3, <1>12 DEF vars, runVars
<1> QED
  BY <1>1, <1>2, <1>4, <1>5, <1>6, <1>7, <1>8, <1>9, <1>10, <1>11, <1>12 DEF Next

(* Where a creation is the last message of its sender in its transaction,  *)
(* the nonce of what was in a block, executed or failed, stays below the   *)
(* sequence of its sender: no message is in two blocks.                    *)
THEOREM IncludedNoncesSpent == CreationsLast /\ Spec => []NoncesSpent
<1>1. Init => SpentInv
  BY DEF Init, SpentInv
<1>2. CreationsLast /\ Init => CreationsLast /\ IInv /\ SpentInv
  BY <1>1, InitInv
<1>3. CreationsLast /\ IInv /\ SpentInv /\ [Next]_vars => (CreationsLast /\ IInv /\ SpentInv)'
  <2>1. CreationsLast => CreationsLast'
    BY DEF CreationsLast
  <2> QED
    BY <2>1, NextInv, NextSpent
<1>4. SpentInv => NoncesSpent
  BY DEF SpentInv, NoncesSpent
<1> QED
  BY <1>2, <1>3, <1>4, PTL DEF Spec

=============================================================================
