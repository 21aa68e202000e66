--------------------------- MODULE QueriesProofs ----------------------------
(***************************************************************************)
(* Proofs about the queries of the JSON-RPC server.                        *)
(*                                                                         *)
(* GasEstimation: for every gas cap, block gas limit, gas limit of the     *)
(* caller and every outcome of the message, the search keeps a lower bound *)
(* that fails and an upper bound that succeeds or is the highest limit     *)
(* allowed.                                                                *)
(*                                                                         *)
(* StateQueries, for chains of any length and any number of storage keys:  *)
(* the invariant says how far the application, the results and the block   *)
(* store are apart, and which heights a request may hold: the height of    *)
(* the proofs is fixed when the request starts, while the head moves on.   *)
(*                                                                         *)
(* TxArgs: for every fee market, gas limit and argument, what a request    *)
(* has filled is a function of the arguments it was given and of the base  *)
(* fee it read.                                                            *)
(*                                                                         *)
(* FeeHistory, for chains of any length: every block already fetched is at *)
(* or below the head, so that the entries stay those of their blocks.      *)
(***************************************************************************)
EXTENDS GasEstimation, StateQueries, FeeHistory, TxArgs, FiniteSetTheorems, TLAPS

(* Zenon is tried first, the SMT solver on what it leaves, then both again *)
(* with more time.                                                         *)
USE ZenonT(5), SMTT(20), Z3T(20), ZenonT(30), SMTT(30)

-----------------------------------------------------------------------------
(* The search for the gas a message needs.                                 *)

(* What the loop of BinSearch maintains.                                   *)
SearchInv ==
  stage = "searching" =>
    /\ hi <= cap /\ TxGas - 1 <= lo /\ outcome[lo] # "ok"
    /\ hi = cap \/ (lo < hi /\ outcome[hi] = "ok")
    /\ hi <= lo => hi < TxGas

(* What the end of EstimateGas adds.                                       *)
AnswerInv ==
  /\ EstimateTight
  /\ stage = "estimated" => estimate <= cap /\ estimate # 0
  /\ stage = "failed" => outcome[cap] # "ok"

EstimateInv == EstimateTypeOK /\ SearchInv /\ AnswerInv

(* The middle of two bounds at least two apart lies strictly between them: *)
(* the sum does not wrap.                                                  *)
LEMMA MiddleBetween ==
  ASSUME NEW a \in 0 .. GasCap, NEW b \in 0 .. GasCap, a + 1 < b
  PROVE  middle(a, b) \in 0 .. GasCap /\ a < middle(a, b) /\ middle(a, b) < b
<1>1. a + b \in Nat /\ a + b < Uint64
  BY GasAssumption, WidthAssumption
<1>2. (a + b) % Uint64 = a + b
  BY <1>1, GasAssumption
<1> QED
  BY <1>1, <1>2, GasAssumption DEF middle

(* The highest limit is at most the cap, whatever the caller gives.        *)
LEMMA HighestCapped ==
  ASSUME NEW gas \in GasArg, NEW maxGas \in MaxGas
  PROVE  highest(gas, maxGas) \in 0 .. GasCap
BY GasAssumption, ArgAssumption DEF highest, atMost, NoGas

(* An error is an error for every limit, so the cap fails as well.         *)
LEMMA ErrorEverywhere ==
  ASSUME outcome \in Outcomes, NEW g \in 0 .. GasCap, NEW h \in 0 .. GasCap,
         outcome[g] = "error"
  PROVE  outcome[h] # "ok"
BY DEF Outcomes

(* No limit below TxGas succeeds.                                          *)
LEMMA BelowTxGas ==
  ASSUME outcome \in Outcomes, NEW g \in 0 .. GasCap, g < TxGas
  PROVE  outcome[g] # "ok"
BY DEF Outcomes

(* The invariant holds before a request.                                   *)
LEMMA EstimateInitInv == EstimateInit => EstimateInv
BY GasAssumption
   DEF EstimateInit, Outcomes, Result, EstimateInv, EstimateTypeOK, SearchInv, AnswerInv,
       EstimateTight

(* A request starts below TxGas, where no message succeeds.                *)
LEMMA StartEstimateInv ==
  ASSUME EstimateInv, NEW gas \in GasArg, NEW maxGas \in MaxGas, StartEstimate(gas, maxGas)
  PROVE  EstimateInv'
<1>1. CASE GasCap < TxGas
  BY <1>1 DEF EstimateInv, EstimateTypeOK, SearchInv, AnswerInv, EstimateTight, StartEstimate
<1>2. CASE ~(GasCap < TxGas)
  <2>1. /\ stage' = "searching" /\ lo' = TxGas - 1
        /\ hi' = highest(gas, maxGas) /\ cap' = highest(gas, maxGas)
        /\ outcome' \in Outcomes /\ estimate' = estimate
    BY <1>2 DEF StartEstimate
  <2>2. highest(gas, maxGas) \in 0 .. GasCap
    BY HighestCapped
  <2>3. TxGas - 1 \in 0 .. GasCap
    BY <1>2, GasAssumption
  <2>5. outcome'[TxGas - 1] # "ok"
    BY <2>1, <2>3, GasAssumption DEF Outcomes
  <2>6. EstimateTypeOK'
    BY <2>1, <2>2, <2>3 DEF EstimateInv, EstimateTypeOK
  <2>7. SearchInv'
    BY <2>1, <2>2, <2>5, GasAssumption DEF SearchInv
  <2>8. AnswerInv'
    BY <2>1 DEF AnswerInv, EstimateTight
  <2> QED
    BY <2>6, <2>7, <2>8 DEF EstimateInv
<1> QED
  BY <1>1, <1>2

(* An iteration of BinSearch keeps it and shrinks the interval.            *)
LEMMA ProbeInv ==
  ASSUME EstimateInv, Probe
  PROVE  EstimateInv' /\ (stage' = "searching" => hi' - lo' < hi - lo)
<1> DEFINE mid == middle(lo, hi)
<1>1. /\ stage = "searching" /\ lo + 1 < hi
      /\ outcome' = outcome /\ cap' = cap /\ estimate' = estimate
  BY DEF Probe
<1>2. lo \in 0 .. GasCap /\ hi \in 0 .. GasCap /\ cap \in 0 .. GasCap
      /\ outcome \in Outcomes
  BY DEF EstimateInv, EstimateTypeOK
<1>3. mid \in 0 .. GasCap /\ lo < mid /\ mid < hi
  BY <1>1, <1>2, MiddleBetween
<1>4. /\ hi <= cap /\ TxGas - 1 <= lo /\ outcome[lo] # "ok"
      /\ hi = cap \/ outcome[hi] = "ok"
  BY <1>1 DEF EstimateInv, SearchInv
<1> HIDE DEF mid
<1>5. CASE outcome[mid] = "error"
  <2>1. stage' = "failed" /\ lo' = lo /\ hi' = hi
    BY <1>5 DEF Probe, mid
  <2>2. outcome[cap] # "ok"
    BY <1>2, <1>3, <1>5, ErrorEverywhere
  <2> QED
    BY <1>1, <2>1, <2>2 DEF EstimateInv, EstimateTypeOK, SearchInv, AnswerInv, EstimateTight
<1>6. CASE outcome[mid] # "error" /\ outcome[mid] # "ok"
  <2>1. stage' = "searching" /\ lo' = mid /\ hi' = hi
    BY <1>1, <1>6 DEF Probe, mid
  <2>2. EstimateTypeOK'
    BY <1>1, <1>3, <2>1 DEF EstimateInv, EstimateTypeOK
  <2>3. SearchInv'
    BY <1>1, <1>2, <1>3, <1>4, <1>6, <2>1, GasAssumption DEF SearchInv
  <2>4. AnswerInv'
    BY <2>1 DEF AnswerInv, EstimateTight
  <2> QED
    BY <1>2, <1>3, <2>1, <2>2, <2>3, <2>4 DEF EstimateInv
<1>7. CASE outcome[mid] = "ok"
  <2>1. stage' = "searching" /\ lo' = lo /\ hi' = mid
    BY <1>1, <1>7 DEF Probe, mid
  <2>2. EstimateTypeOK'
    BY <1>1, <1>3, <2>1 DEF EstimateInv, EstimateTypeOK
  <2>3. SearchInv'
    BY <1>1, <1>2, <1>3, <1>4, <1>7, <2>1, GasAssumption DEF SearchInv
  <2>4. AnswerInv'
    BY <2>1 DEF AnswerInv, EstimateTight
  <2> QED
    BY <1>2, <1>3, <2>1, <2>2, <2>3, <2>4 DEF EstimateInv
<1> QED
  BY <1>5, <1>6, <1>7

(* The end of EstimateGas keeps it: the bounds have met.                   *)
LEMMA EndInv ==
  ASSUME EstimateInv, EndSearch
  PROVE  EstimateInv'
<1>1. /\ stage = "searching" /\ lo + 1 >= hi
      /\ outcome' = outcome /\ lo' = lo /\ hi' = hi /\ cap' = cap
  BY DEF EndSearch
<1>2. lo \in 0 .. GasCap /\ hi \in 0 .. GasCap /\ cap \in 0 .. GasCap
      /\ outcome \in Outcomes
  BY DEF EstimateInv, EstimateTypeOK
<1>3. /\ hi <= cap /\ TxGas - 1 <= lo /\ outcome[lo] # "ok"
      /\ hi = cap \/ (lo < hi /\ outcome[hi] = "ok")
      /\ hi <= lo => hi < TxGas
  BY <1>1 DEF EstimateInv, SearchInv
<1>4. CASE hi = cap /\ outcome[hi] # "ok"
  <2>1. stage' = "failed" /\ estimate' = estimate
    BY <1>4 DEF EndSearch
  <2> QED
    BY <1>1, <1>4, <2>1 DEF EstimateInv, EstimateTypeOK, SearchInv, AnswerInv, EstimateTight
<1>5. CASE ~(hi = cap /\ outcome[hi] # "ok")
  <2>1. stage' = "estimated" /\ estimate' = hi
    BY <1>5 DEF EndSearch
  <2>2. outcome[hi] = "ok"
    BY <1>3, <1>5
  <2>3. lo < hi
    BY <1>2, <1>3, <2>2, BelowTxGas
  <2>4. hi - 1 = lo
    BY <1>1, <1>2, <2>3
  <2>5. AnswerInv'
    BY <1>1, <1>2, <1>3, <2>1, <2>2, <2>3, <2>4 DEF AnswerInv, EstimateTight
  <2> QED
    BY <1>1, <1>2, <2>1, <2>5 DEF EstimateInv, EstimateTypeOK, SearchInv
<1> QED
  BY <1>4, <1>5

(* Every step keeps it.                                                    *)
LEMMA EstimateNextInv == EstimateInv /\ [EstimateNext]_estimateVars => EstimateInv'
<1> SUFFICES ASSUME EstimateInv, [EstimateNext]_estimateVars
             PROVE  EstimateInv'
  OBVIOUS
<1>1. CASE \E gas \in GasArg, maxGas \in MaxGas : StartEstimate(gas, maxGas)
  BY <1>1, StartEstimateInv
<1>2. CASE Probe
  BY <1>2, ProbeInv
<1>3. CASE EndSearch
  BY <1>3, EndInv
<1>4. CASE UNCHANGED estimateVars
  BY <1>4 DEF estimateVars, EstimateInv, EstimateTypeOK, SearchInv, AnswerInv, EstimateTight
<1> QED
  BY <1>1, <1>2, <1>3, <1>4 DEF EstimateNext

(* So it always holds.                                                     *)
LEMMA EstimateInductive == EstimateSpec => []EstimateInv
BY EstimateInitInv, EstimateNextInv, PTL DEF EstimateSpec

(* The answer of EstimateGas succeeds, and one less does not, for every    *)
(* cap, block limit, caller's limit and message.                           *)
THEOREM EstimateIsTight == EstimateSpec => []EstimateTight
<1>1. EstimateInv => EstimateTight
  BY DEF EstimateInv, AnswerInv
<1> QED
  BY <1>1, EstimateInductive, PTL

(* For a message that more gas does not hurt, the answer is the least      *)
(* limit it succeeds with, and an error means that there is none.          *)
THEOREM EstimateIsLeast == EstimateSpec => []EstimateLeast
<1>1. EstimateInv => EstimateLeast
  <2> SUFFICES ASSUME EstimateInv, Monotone, NEW g \in 0 .. cap, outcome[g] = "ok"
               PROVE  stage # "failed" /\ (stage = "estimated" => estimate <= g)
    BY DEF EstimateLeast
  <2>1. cap \in 0 .. GasCap /\ estimate \in 0 .. GasCap
    BY DEF EstimateInv, EstimateTypeOK
  <2>2. g \in 0 .. GasCap /\ g <= cap
    BY <2>1, GasAssumption
  <2>3. stage # "failed"
    BY <2>1, <2>2 DEF EstimateInv, AnswerInv, Monotone
  <2>4. ASSUME stage = "estimated", g < estimate
        PROVE  FALSE
    <3>1. outcome[estimate - 1] # "ok"
      BY <2>4 DEF EstimateInv, AnswerInv, EstimateTight
    <3>2. estimate - 1 \in 0 .. GasCap /\ g <= estimate - 1
      BY <2>1, <2>2, <2>4, GasAssumption
    <3> QED
      BY <2>2, <3>1, <3>2 DEF Monotone
  <2> QED
    BY <2>1, <2>2, <2>3, <2>4, GasAssumption
<1> QED
  BY <1>1, EstimateInductive, PTL

(* Every iteration of BinSearch shrinks the interval: the search ends.     *)
THEOREM SearchEnds == EstimateSpec => []SearchShrinks
<1>1. EstimateInv => SearchShrinks
  BY MiddleBetween, GasAssumption DEF EstimateInv, SearchInv, EstimateTypeOK, SearchShrinks
<1> QED
  BY <1>1, EstimateInductive, PTL

-----------------------------------------------------------------------------
(* Blocks, states and proofs at a height.                                  *)

Stage == {"idle", "block", "state", "storage", "account", "answered", "failed", "missing"}

Requests == [stage : Stage, asked : Int, head : Nat, height : Int, keys : Nat,
            storage : Seq(Int), account : Int, proof : Int]

(* The store is at most one block ahead of the application.                *)
ChainInv ==
  /\ chain \in Seq(Block) /\ app \in Nat /\ executed \in Nat
  /\ app <= executed /\ executed <= Len(chain) /\ Len(chain) <= app + 1

(* The first height a request may be answered for, and the last.           *)
FirstHeight == IF query.asked < 0 THEN query.head ELSE Int64(query.asked)
LastHeight == IF query.asked < 0 THEN app ELSE Int64(query.asked)

HeightFixed == query.height = FirstHeight
ProofsBelow == \A i \in DOMAIN query.storage : query.storage[i] = FirstHeight - 1

QueryInv ==
  /\ query \in Requests /\ query.head <= app
  /\ query.stage \in {"block", "storage", "account"} => HeightFixed
  /\ query.stage \in {"storage", "account", "answered"} => ProofsBelow
  /\ query.stage \in {"block", "state"} => query.storage = <<>>
  /\ query.stage \in {"block", "state", "storage", "account"} => query.proof = 0
  /\ query.stage \in {"account", "answered"} => query.account \in FirstHeight .. LastHeight
  /\ query.stage = "answered" => query.proof \in {0, FirstHeight - 1}
  /\ LatestServed

AskedInv == ChainInv /\ QueryInv

-----------------------------------------------------------------------------
(* Before the first block there is no request.                             *)
LEMMA QueryInitInv == ChainInit /\ QueryInit => AskedInv
  BY DEF ChainInit, QueryInit, noQuery, Request, AskedInv, ChainInv, QueryInv, Requests, Stage,
         LatestServed, HeightFixed, ProofsBelow

(* The chain grows, and the blocks of it stay as they are.                 *)
LEMMA ChainGrows ==
  ASSUME ChainInv, ChainNext
  PROVE  /\ ChainInv' /\ app <= app' /\ Len(chain) <= Len(chain')
         /\ \A h \in 1 .. Len(chain) : chain'[h] = chain[h]
<1>1. CASE StoreBlock
  <2>1. PICK b \in Block : chain' = Append(chain, b)
    BY <1>1 DEF StoreBlock
  <2>2. /\ chain' \in Seq(Block) /\ Len(chain') = Len(chain) + 1
        /\ \A h \in 1 .. Len(chain) : chain'[h] = chain[h]
    BY <2>1 DEF ChainInv
  <2> QED
    BY <1>1, <2>2 DEF StoreBlock, ChainInv
<1>2. CASE SaveResults
  BY <1>2 DEF SaveResults, ChainInv
<1>3. CASE CommitApp
  BY <1>3 DEF CommitApp, ChainInv
<1> QED
  BY <1>1, <1>2, <1>3 DEF ChainNext

(* A longer chain leaves every height in its range.                        *)
LEMMA ChainStep == AskedInv /\ ChainNext /\ UNCHANGED query => AskedInv'
<1> SUFFICES ASSUME AskedInv, ChainNext, UNCHANGED query PROVE AskedInv'
  OBVIOUS
<1>1. ChainInv' /\ app <= app'
  BY ChainGrows DEF AskedInv
<1>2. QueryInv'
  BY <1>1 DEF AskedInv, ChainInv, QueryInv, Requests, HeightFixed, ProofsBelow, FirstHeight,
              LastHeight, Int64, LatestServed
<1> QED
  BY <1>1, <1>2 DEF AskedInv

-----------------------------------------------------------------------------
(* A request starts with the head of the moment and nothing read.          *)
LEMMA AskInv ==
  ASSUME AskedInv, UNCHANGED chainVars,
         NEW bn \in Int, NEW st \in Stage, NEW h \in Int, NEW keys \in Nat,
         Ask(st, bn, h, keys),
         st \in {"block", "storage", "state", "missing"},
         st \in {"block", "storage"} => h = IF bn < 0 THEN app ELSE Int64(bn),
         st = "missing" => bn >= 0 \/ app = 0
  PROVE  AskedInv'
<1>1. /\ query'.stage = st /\ query'.asked = bn /\ query'.head = app /\ query'.height = h
      /\ query'.storage = <<>> /\ query'.account = 0 /\ query'.proof = 0
  BY DEF Ask, Request
<1>2. ChainInv'
  BY DEF AskedInv, ChainInv, chainVars
<1>3. app \in Nat /\ app' = app
  BY DEF AskedInv, ChainInv, chainVars
<1>4. query' \in Requests
  <2>1. <<>> \in Seq(Int)
    OBVIOUS
  <2> QED
    BY <1>3, <2>1 DEF Requests, Ask, Request
<1>5. QueryInv'
  <2>1. HeightFixed' <=> h = IF bn < 0 THEN app ELSE Int64(bn)
    BY <1>1 DEF HeightFixed, FirstHeight, Int64
  <2>2. ProofsBelow'
    BY <1>1 DEF ProofsBelow
  <2>3. LatestServed'
    BY <1>1, <1>3 DEF LatestServed
  <2> QED
    BY <1>1, <1>3, <1>4, <2>1, <2>2, <2>3 DEF QueryInv
<1> QED
  BY <1>2, <1>5 DEF AskedInv

(* A request that fails because of what it asked for, not because the      *)
(* latest block is not yet there.                                          *)
LEMMA FailInv ==
  ASSUME AskedInv, UNCHANGED chainVars, QueryFails,
         query.asked < 0 /\ query.head > 0 => query.height \in 1 .. 2
  PROVE  AskedInv'
<1>1. ChainInv' /\ app' = app
  BY DEF AskedInv, ChainInv, chainVars
<1>2. query \in Requests
  BY DEF AskedInv, QueryInv
<1>3. query' = [query EXCEPT !.stage = "failed"]
  BY DEF QueryFails
<1>4. QueryInv'
  BY <1>1, <1>2, <1>3 DEF AskedInv, QueryInv, Requests, Stage, LatestServed
<1> QED
  BY <1>1, <1>4 DEF AskedInv

(* A request for a block, a state or proofs at a number.                   *)
LEMMA StartQueryInv ==
  ASSUME AskedInv, UNCHANGED chainVars, NEW bn \in BlockNumbers, NEW keys \in 0 .. MaxKeys,
         GetBlock(bn) \/ QueryState(bn) \/ GetProof(bn, keys)
  PROVE  AskedInv'
<1>1. bn \in Int /\ keys \in Nat /\ app \in Nat /\ chain \in Seq(Block) /\ app <= Len(chain)
  BY HeightAssumption, KeysAssumption
     DEF BlockNumbers, EthPendingBlockNumber, AskedInv, ChainInv
<1>2. /\ TendermintHeight(bn) = IF bn < 0 THEN app ELSE Int64(bn)
      /\ StateHeight(bn) = IF bn < 0 THEN app ELSE Int64(bn)
      /\ TendermintHeight(bn) \in Int /\ StateHeight(bn) \in Int
  BY <1>1 DEF TendermintHeight, StateHeight, Int64
<1>3. CASE GetBlock(bn)
  <2>1. CASE HasBlock(TendermintHeight(bn))
    <3>1. Ask("block", bn, TendermintHeight(bn), 0)
      BY <1>3, <2>1 DEF GetBlock
    <3> QED
      BY ZenonT(30), <1>1, <1>2, <3>1, AskInv DEF Stage
  <2>2. CASE ~HasBlock(TendermintHeight(bn))
    <3>1. Ask("missing", bn, 0, 0)
      BY <1>3, <2>2 DEF GetBlock
    <3>2. bn >= 0 \/ app = 0
      BY <1>1, <1>2, <2>2 DEF HasBlock
    <3>3. "missing" \in Stage /\ "missing" \notin {"block", "storage"} /\ 0 \in Int /\ 0 \in Nat
      BY DEF Stage
    <3> QED
      BY <1>1, <3>1, <3>2, <3>3, AskInv, ZenonT(30)
  <2> QED
    BY <2>1, <2>2
<1>4. CASE QueryState(bn)
  <2>1. Ask("state", bn, 0, 0)
    BY <1>4 DEF QueryState
  <2>2. /\ "state" \in Stage /\ "state" \notin {"block", "storage"} /\ "state" # "missing"
        /\ 0 \in Int /\ 0 \in Nat
    BY DEF Stage
  <2> QED
    BY <1>1, <2>1, <2>2, AskInv, ZenonT(30)
<1>5. CASE GetProof(bn, keys)
  <2>1. Ask("storage", bn, StateHeight(bn), keys)
    BY <1>5 DEF GetProof
  <2> QED
    BY ZenonT(30), <1>1, <1>2, <2>1, AskInv DEF Stage
<1> QED
  BY <1>3, <1>4, <1>5

(* A request for the state of the block with a hash.                       *)
LEMMA StartByHashInv ==
  ASSUME AskedInv, UNCHANGED chainVars, NEW h \in 1 .. MaxHeight, QueryStateByHash(h)
  PROVE  AskedInv'
<1>1. h \in Int /\ h >= 0
  BY HeightAssumption
<1>2. PICK st \in {"state", "missing"} : Ask(st, h, 0, 0)
  BY DEF QueryStateByHash
<1> QED
  BY <1>1, <1>2, AskInv DEF Stage

-----------------------------------------------------------------------------
(* What a step in the middle of a request keeps.                           *)
LEMMA Kept ==
  ASSUME AskedInv, UNCHANGED chainVars
  PROVE  /\ ChainInv' /\ app' = app /\ app \in Nat /\ query \in Requests
         /\ executed \in Nat /\ app <= executed
         /\ query.head \in Nat /\ query.head <= app /\ query.asked \in Int
         /\ FirstHeight \in Int /\ LastHeight \in Int
         /\ query.asked < 0 => FirstHeight = query.head /\ LastHeight = app
         /\ StateHeight(query.asked) = LastHeight
         /\ FirstHeight <= LastHeight
  BY DEF AskedInv, ChainInv, QueryInv, chainVars, Requests, FirstHeight, LastHeight, StateHeight,
         Int64

(* The block is put together from its results and its state.               *)
LEMMA BlockInv ==
  ASSUME AskedInv, UNCHANGED chainVars, EthBlockFromTendermint
  PROVE  AskedInv'
<1>1. query.height = FirstHeight
  BY DEF AskedInv, QueryInv, HeightFixed, EthBlockFromTendermint
<1>2. CASE HasState(query.height) /\ HasResults(query.height)
  <2>1. query' = [query EXCEPT !.stage = "answered", !.account = query.height]
    BY <1>2 DEF EthBlockFromTendermint
  <2>2. query' \in Requests
    BY ZenonT(30), <2>1, Kept DEF Requests, Stage
  <2>3. /\ FirstHeight' = FirstHeight /\ LastHeight' = LastHeight
        /\ query'.stage = "answered" /\ query'.account = FirstHeight
        /\ query'.head = query.head /\ query'.storage = query.storage
        /\ query'.proof = query.proof
    BY <1>1, <2>1, Kept DEF Requests, FirstHeight, LastHeight
  <2>4. QueryInv'
    BY <2>2, <2>3, Kept DEF AskedInv, QueryInv, ProofsBelow, LatestServed, EthBlockFromTendermint
  <2> QED
    BY <2>4, Kept DEF AskedInv
<1>3. CASE ~(HasState(query.height) /\ HasResults(query.height))
  <2>1. ~(query.asked < 0 /\ query.head > 0)
    BY <1>1, <1>3, Kept DEF HasState, HasResults
  <2> QED
    BY <1>3, <2>1, FailInv DEF EthBlockFromTendermint
<1> QED
  BY <1>2, <1>3

(* The state is read.                                                      *)
LEMMA StateInv ==
  ASSUME AskedInv, UNCHANGED chainVars, ReadState
  PROVE  AskedInv'
<1>1. CASE HasState(StateHeight(query.asked))
  <2>1. query' = [query EXCEPT !.stage = "answered", !.account = StateHeight(query.asked)]
    BY <1>1 DEF ReadState
  <2>2. query' \in Requests
    BY ZenonT(30), <2>1, Kept DEF Requests, Stage
  <2>3. /\ FirstHeight' = FirstHeight /\ LastHeight' = LastHeight
        /\ query'.stage = "answered" /\ query'.account = LastHeight
        /\ query'.head = query.head /\ query'.storage = query.storage
        /\ query'.proof = query.proof
    BY <2>1, Kept DEF Requests, FirstHeight, LastHeight
  <2>4. QueryInv'
    BY <2>2, <2>3, Kept DEF AskedInv, QueryInv, ProofsBelow, LatestServed, ReadState
  <2> QED
    BY <2>4, Kept DEF AskedInv
<1>2. CASE ~HasState(StateHeight(query.asked))
  <2>1. ~(query.asked < 0 /\ query.head > 0)
    BY <1>2, Kept DEF HasState
  <2> QED
    BY <1>2, <2>1, FailInv DEF ReadState
<1> QED
  BY <1>1, <1>2

(* Below the head there is a state from the third height on.               *)
LEMMA Unprovable ==
  ASSUME AskedInv, UNCHANGED chainVars, query.height = FirstHeight, ~ProvableAt(query.height)
  PROVE  query.asked < 0 /\ query.head > 0 => query.height \in 1 .. 2
  BY Kept DEF ProvableAt, HasState

(* The proof of a storage slot.                                            *)
LEMMA SlotInv ==
  ASSUME AskedInv, UNCHANGED chainVars, ProveSlot
  PROVE  AskedInv'
<1>1. query.height = FirstHeight /\ ProofsBelow
  BY DEF AskedInv, QueryInv, HeightFixed, ProveSlot
<1>2. CASE ProvableAt(query.height)
  <2>1. query' = [query EXCEPT !.storage = Append(query.storage, query.height - 1)]
    BY <1>2 DEF ProveSlot
  <2>2. query.storage \in Seq(Int) /\ query.height - 1 \in Int
    BY <1>1, Kept DEF Requests
  <2>3. query' \in Requests
    <3>1. query \in Requests /\ Append(query.storage, query.height - 1) \in Seq(Int)
      BY <2>2, Kept
    <3> QED
      BY ZenonT(30), <2>1, <3>1 DEF Requests
  <2>4. /\ FirstHeight' = FirstHeight /\ LastHeight' = LastHeight
        /\ query'.stage = query.stage /\ query'.height = query.height
        /\ query'.head = query.head /\ query'.proof = query.proof
        /\ query'.storage = Append(query.storage, FirstHeight - 1)
    BY <1>1, <2>1, Kept DEF Requests, FirstHeight, LastHeight
  <2>5. ProofsBelow'
    <3> DEFINE n == Len(query.storage)
    <3>1. /\ DOMAIN query.storage = 1 .. n /\ n \in Nat
          /\ DOMAIN query'.storage = 1 .. n + 1
          /\ \A i \in 1 .. n : query'.storage[i] = query.storage[i]
          /\ query'.storage[n + 1] = FirstHeight - 1
      BY <2>2, <2>4, Kept
    <3>2. \A i \in 1 .. n + 1 : i \in 1 .. n \/ i = n + 1
      BY <3>1
    <3> QED
      BY <1>1, <2>4, <3>1, <3>2 DEF ProofsBelow
  <2>6. QueryInv'
    BY <1>1, <2>3, <2>4, <2>5, Kept
       DEF AskedInv, QueryInv, HeightFixed, LatestServed, ProveSlot
  <2> QED
    BY <2>6, Kept DEF AskedInv
<1>3. CASE ~ProvableAt(query.height)
  BY <1>1, <1>3, Unprovable, FailInv DEF ProveSlot
<1> QED
  BY <1>2, <1>3

(* The account is read, at the height the state has by then.               *)
LEMMA AccountInv ==
  ASSUME AskedInv, UNCHANGED chainVars, ReadAccount
  PROVE  AskedInv'
<1>1. query.height = FirstHeight /\ ProofsBelow
  BY DEF AskedInv, QueryInv, HeightFixed, ReadAccount
<1>2. CASE HasState(StateHeight(query.asked))
  <2>1. query' = [query EXCEPT !.stage = "account", !.account = StateHeight(query.asked)]
    BY <1>2 DEF ReadAccount
  <2>2. query' \in Requests
    BY ZenonT(30), <2>1, Kept DEF Requests, Stage
  <2>3. /\ FirstHeight' = FirstHeight /\ LastHeight' = LastHeight
        /\ query'.stage = "account" /\ query'.account = LastHeight
        /\ query'.head = query.head /\ query'.storage = query.storage
        /\ query'.proof = query.proof /\ query'.height = query.height
    BY <2>1, Kept DEF Requests, FirstHeight, LastHeight
  <2>4. QueryInv'
    BY <1>1, <2>2, <2>3, Kept
       DEF AskedInv, QueryInv, HeightFixed, ProofsBelow, LatestServed, ReadAccount
  <2> QED
    BY <2>4, Kept DEF AskedInv
<1>3. CASE ~HasState(StateHeight(query.asked))
  <2>1. ~(query.asked < 0 /\ query.head > 0)
    BY <1>3, Kept DEF HasState
  <2> QED
    BY <1>3, <2>1, FailInv DEF ReadAccount
<1> QED
  BY <1>2, <1>3

(* The proof of the account.                                               *)
LEMMA ProofInv ==
  ASSUME AskedInv, UNCHANGED chainVars, ProveAccount
  PROVE  AskedInv'
<1>1. query.height = FirstHeight /\ ProofsBelow /\ query.account \in FirstHeight .. LastHeight
  BY DEF AskedInv, QueryInv, HeightFixed, ProveAccount
<1>2. CASE ProvableAt(query.height)
  <2>1. query' = [query EXCEPT !.stage = "answered", !.proof = query.height - 1]
    BY <1>2 DEF ProveAccount
  <2>2. query' \in Requests
    <3>1. query \in Requests /\ query.height - 1 \in Int
      BY <1>1, Kept
    <3> QED
      BY ZenonT(30), <2>1, <3>1 DEF Requests, Stage
  <2>3. /\ FirstHeight' = FirstHeight /\ LastHeight' = LastHeight
        /\ query'.stage = "answered" /\ query'.account = query.account
        /\ query'.head = query.head /\ query'.storage = query.storage
        /\ query'.proof = FirstHeight - 1
    BY <1>1, <2>1, Kept DEF Requests, FirstHeight, LastHeight
  <2>4. QueryInv'
    BY <1>1, <2>2, <2>3, Kept DEF AskedInv, QueryInv, ProofsBelow, LatestServed
  <2> QED
    BY <2>4, Kept DEF AskedInv
<1>3. CASE ~ProvableAt(query.height)
  BY <1>1, <1>3, Unprovable, FailInv DEF ProveAccount
<1> QED
  BY <1>2, <1>3

-----------------------------------------------------------------------------
(* Every step of a request keeps the invariant.                            *)
LEMMA QueryStep == AskedInv /\ QueryNext /\ UNCHANGED chainVars => AskedInv'
<1> SUFFICES ASSUME AskedInv, QueryNext, UNCHANGED chainVars PROVE AskedInv'
  OBVIOUS
<1>1. ASSUME NEW bn \in BlockNumbers, GetBlock(bn) \/ QueryState(bn) PROVE AskedInv'
  <2>1. 0 \in 0 .. MaxKeys
    BY KeysAssumption
  <2> QED
    BY <1>1, <2>1, StartQueryInv
<1>2. ASSUME NEW h \in 1 .. MaxHeight, QueryStateByHash(h) PROVE AskedInv'
  BY <1>2, StartByHashInv
<1>3. ASSUME NEW bn \in BlockNumbers, NEW keys \in 0 .. MaxKeys, GetProof(bn, keys) PROVE AskedInv'
  BY <1>3, StartQueryInv
<1> QED
  BY <1>1, <1>2, <1>3, BlockInv, StateInv, SlotInv, AccountInv, ProofInv, ZenonT(30) DEF QueryNext

(* So does a step of nothing.                                              *)
LEMMA StutterInv == AskedInv /\ UNCHANGED queryVars => AskedInv'
  BY DEF AskedInv, ChainInv, QueryInv, queryVars, chainVars, HeightFixed, ProofsBelow,
         FirstHeight, LastHeight, LatestServed

(* The invariant holds throughout.                                         *)
LEMMA QueryInductive == QuerySpec => []AskedInv
  BY QueryInitInv, ChainStep, QueryStep, StutterInv, PTL DEF QuerySpec

(* It says what an answer is about.                                        *)
LEMMA AnswerFromInv == AskedInv => AnswerOfAskedBlock
  BY DEF AskedInv, QueryInv, AnswerOfAskedBlock, FirstHeight, LastHeight, ProofsBelow, Range

(* The answers of the eth_get... queries and eth_call are about the block  *)
(* asked for or about a head of their time, and the proofs of eth_getProof *)
(* are all of one state, however the chain grows while they are made.      *)
THEOREM AnswersOfAskedBlock == QuerySpec => []AnswerOfAskedBlock
  BY QueryInductive, AnswerFromInv, PTL

(* A request for the latest block or state never meets a block whose       *)
(* results or state are not there yet.                                     *)
THEOREM LatestIsServed == QuerySpec => []LatestServed
<1>1. AskedInv => LatestServed
  BY DEF AskedInv, QueryInv
<1> QED
  BY QueryInductive, <1>1, PTL

-----------------------------------------------------------------------------
(* The arguments of a transaction.                                         *)

(* The quotient of a multiple.                                             *)
LEMMA ExactQuotient ==
  ASSUME NEW x \in Nat, NEW g \in Nat \ {0}
  PROVE  (x * g) \div g = x
<1> DEFINE q == (x * g) \div g
<1>1. q \in Int /\ g * q <= x * g /\ x * g < g * q + g
  BY SMT
<1> HIDE DEF q
<1>2. q = x
  <2>1. CASE q < x
    <3>1. q + 1 <= x
      BY <1>1, <2>1, SMT, Z3
    <3>2. g * (q + 1) <= g * x
      BY <1>1, <3>1, SMT, Z3
    <3> QED
      BY <1>1, <3>2, SMT, Z3
  <2>2. CASE q > x
    <3>1. x + 1 <= q
      BY <1>1, <2>2, SMT, Z3
    <3>2. g * (x + 1) <= g * q
      BY <1>1, <3>1, SMT, Z3
    <3> QED
      BY <1>1, <3>2, SMT, Z3
  <2> QED
    BY <1>1, <2>1, <2>2, SMT, Z3
<1> QED
  BY <1>2 DEF q

(* The tip SuggestGasTipCap gives is the most the base fee can grow by in  *)
(* one block: the gas target cancels out.                                  *)
LEMMA TipIsMaxDelta ==
  ASSUME NEW b \in Nat
  PROVE  SuggestGasTipCap(b) = MaxDelta(b) /\ MaxDelta(b) \in Nat
<1> DEFINE g == FullBlock \div Elasticity
           x == b * (Elasticity - 1)
<1>1. /\ FullBlock \in Nat \ {0} /\ Elasticity \in Nat \ {0} /\ Denominator \in Nat \ {0}
      /\ FullBlock = Elasticity * g
  BY PriceAssumption
<1>2. g \in Int
  BY <1>1, SMT, Z3
<1> HIDE DEF g
<1>3. g \in Nat \ {0}
  BY <1>1, <1>2, SMT, Z3
<1>4. x \in Nat
  BY <1>1, SMT, Z3
<1>5. b * (FullBlock - g) = x * g
  BY <1>1, <1>3, SMT, Z3
<1> HIDE DEF x
<1>6. (b * (FullBlock - g)) \div g = x
  BY <1>3, <1>4, <1>5, ExactQuotient
<1>7. MaxDelta(b) = x \div Denominator
  BY <1>6 DEF MaxDelta, g
<1>8. x \div Denominator \in Nat
  BY <1>1, <1>4, SMT, Z3
<1>9. SuggestGasTipCap(b) = x \div Denominator
  <2>1. b # Nil
    BY BaseFeeAssumption
  <2>2. positive(x \div Denominator) = x \div Denominator
    BY <1>8, SMT, Z3 DEF positive
  <2> QED
    BY <2>1, <2>2 DEF SuggestGasTipCap, x
<1> QED
  BY <1>7, <1>8, <1>9

(* What withFees makes of arguments that are not refused: the rest of them *)
(* and the fees given stay, and either the gas price is set or the two     *)
(* dynamic fees, the tip not above the cap.                                *)
LEMMA FeesFilled ==
  ASSUME NEW a \in Args, NEW b \in Nat \cup {Nil}, ~mixesFees(a), ~feesRefused(a, b),
         NEW d, d = withFees(a, b)
  PROVE  /\ d = [f \in argFields |-> d[f]]
         /\ \A f \in argFields \ feeFields : d[f] = a[f]
         /\ \A f \in feeFields : a[f] \in {Nil, d[f]}
         /\ \/ /\ d.maxFeePerGas = Nil /\ d.maxPriorityFeePerGas = Nil /\ d.gasPrice \in Nat
               /\ b # Nil => a.gasPrice # Nil
            \/ /\ d.gasPrice = Nil
               /\ d.maxFeePerGas \in Nat /\ d.maxPriorityFeePerGas \in Nat
               /\ d.maxPriorityFeePerGas <= d.maxFeePerGas
         /\ b # Nil /\ (\A f \in feeFields : a[f] = Nil) => d.maxFeePerGas = MaxDelta(b) + 2 * b
<1>1. /\ a = [f \in argFields |-> a[f]]
      /\ a.gasPrice \in Nat \cup {Nil} /\ a.maxFeePerGas \in Nat \cup {Nil}
      /\ a.maxPriorityFeePerGas \in Nat \cup {Nil} /\ Nil \notin Nat
  BY ArgsAssumption, BaseFeeAssumption DEF feeFields
<1>2. /\ "gasPrice" \in argFields /\ "maxFeePerGas" \in argFields
      /\ "maxPriorityFeePerGas" \in argFields
      /\ \A f \in feeFields : f \in argFields /\ f \in {"gasPrice", "maxFeePerGas", "maxPriorityFeePerGas"}
  BY DEF argFields, feeFields
<1>3. SuggestGasTipCap(b) \in Nat /\ (b # Nil => SuggestGasTipCap(b) = MaxDelta(b))
  BY TipIsMaxDelta DEF SuggestGasTipCap
<1>4. a.gasPrice # Nil => a.maxFeePerGas = Nil /\ a.maxPriorityFeePerGas = Nil
  BY DEF mixesFees
<1>5. ~(d.maxFeePerGas # Nil /\ d.maxPriorityFeePerGas # Nil /\ d.maxFeePerGas < d.maxPriorityFeePerGas)
  BY DEF feesRefused
<1>6. CASE a.maxPriorityFeePerGas # Nil /\ a.maxFeePerGas # Nil
  <2>1. d = a
    BY <1>6 DEF withFees
  <2>2. a.maxPriorityFeePerGas <= a.maxFeePerGas
    BY <1>1, <1>5, <1>6, <2>1, SMT, Z3
  <2>3. a.gasPrice = Nil
    BY <1>4, <1>6
  <2>4. ~\A f \in feeFields : a[f] = Nil
    BY <1>6 DEF feeFields
  <2>5. a.maxFeePerGas \in Nat /\ a.maxPriorityFeePerGas \in Nat
    BY <1>1, <1>6
  <2> QED
    BY <1>1, <2>1, <2>2, <2>3, <2>4, <2>5
<1>7. CASE /\ ~(a.maxPriorityFeePerGas # Nil /\ a.maxFeePerGas # Nil)
           /\ b # Nil /\ a.gasPrice = Nil
  <2> DEFINE tip == IF a.maxPriorityFeePerGas = Nil THEN SuggestGasTipCap(b) ELSE a.maxPriorityFeePerGas
             max == IF a.maxFeePerGas = Nil THEN tip + 2 * b ELSE a.maxFeePerGas
  <2>1. d = [a EXCEPT !.maxPriorityFeePerGas = tip, !.maxFeePerGas = max]
    BY <1>7 DEF withFees
  <2>2. tip \in Nat
    BY <1>1, <1>3
  <2>3. b \in Nat
    BY <1>7
  <2>4. tip + 2 * b \in Nat
    BY <2>2, <2>3, SMT, Z3
  <2>5. max \in Nat
    BY <1>1, <2>4
  <2>6. a.maxPriorityFeePerGas \in {Nil, tip} /\ a.maxFeePerGas \in {Nil, max}
    OBVIOUS
  <2>7. (\A f \in feeFields : a[f] = Nil) => max = MaxDelta(b) + 2 * b
    <3>1. (\A f \in feeFields : a[f] = Nil) => a.maxPriorityFeePerGas = Nil /\ a.maxFeePerGas = Nil
      BY DEF feeFields
    <3> QED
      BY <1>3, <1>7, <3>1
  <2> HIDE DEF tip, max
  <2>8. /\ d.maxPriorityFeePerGas = tip /\ d.maxFeePerGas = max /\ d.gasPrice = a.gasPrice
        /\ d = [f \in argFields |-> d[f]]
        /\ \A f \in argFields \ {"maxPriorityFeePerGas", "maxFeePerGas"} : d[f] = a[f]
    BY <1>1, <1>2, <2>1
  <2>9. tip <= max
    BY <1>1, <1>5, <2>2, <2>5, <2>8, SMT, Z3
  <2>10. \A f \in argFields \ feeFields : d[f] = a[f]
    BY <2>8 DEF feeFields
  <2>11. \A f \in feeFields : a[f] \in {Nil, d[f]}
    BY <1>2, <2>6, <2>8
  <2> QED
    BY <1>7, <2>2, <2>5, <2>7, <2>8, <2>9, <2>10, <2>11
<1>8. CASE /\ ~(a.maxPriorityFeePerGas # Nil /\ a.maxFeePerGas # Nil)
           /\ ~(b # Nil /\ a.gasPrice = Nil)
  <2> DEFINE price == IF a.gasPrice = Nil THEN SuggestGasTipCap(b) ELSE a.gasPrice
  <2>1. d = [a EXCEPT !.gasPrice = price]
    BY <1>8 DEF withFees
  <2>2. price \in Nat /\ a.gasPrice \in {Nil, price}
    BY <1>1, <1>3
  <2>3. a.maxPriorityFeePerGas = Nil /\ a.maxFeePerGas = Nil
    <3>1. CASE a.gasPrice # Nil
      BY <1>4, <3>1
    <3>2. CASE b = Nil
      <4> DEFINE given == {f \in feeFields \ {"gasPrice"} : a[f] # Nil}
      <4>1. Cardinality(given) # 1
        BY <3>2 DEF feesRefused
      <4>2. CASE a.maxPriorityFeePerGas # Nil /\ a.maxFeePerGas = Nil
        <5>1. given = {"maxPriorityFeePerGas"}
          BY <4>2 DEF feeFields
        <5> QED
          BY <4>1, <5>1, FS_Singleton
      <4>3. CASE a.maxPriorityFeePerGas = Nil /\ a.maxFeePerGas # Nil
        <5>1. given = {"maxFeePerGas"}
          BY <4>3 DEF feeFields
        <5> QED
          BY <4>1, <5>1, FS_Singleton
      <4> QED
        BY <1>8, <4>2, <4>3
    <3> QED
      BY <1>8, <3>1, <3>2
  <2> HIDE DEF price
  <2>4. /\ d.gasPrice = price /\ d.maxFeePerGas = Nil /\ d.maxPriorityFeePerGas = Nil
        /\ d = [f \in argFields |-> d[f]]
        /\ \A f \in argFields \ {"gasPrice"} : d[f] = a[f]
    BY <1>1, <1>2, <2>1, <2>3
  <2>5. \A f \in argFields \ feeFields : d[f] = a[f]
    BY <2>4 DEF feeFields
  <2>6. \A f \in feeFields : a[f] \in {Nil, d[f]}
    BY <1>2, <2>2, <2>3, <2>4
  <2>7. ~(b # Nil /\ \A f \in feeFields : a[f] = Nil)
    BY <1>8 DEF feeFields
  <2> QED
    BY <1>8, <2>2, <2>4, <2>5, <2>6, <2>7
<1> QED
  BY <1>6, <1>7, <1>8

(* What the first conjunct of FilledTxSound says of filled arguments.      *)
SoundFor(a, d, b) ==
  LET tx == ToTransaction(d)
      msg == ToMessage(d, RPCGasCap, b)
      chosen == \A f \in feeFields : a[f] = Nil
  IN /\ Validate(tx)
     /\ \A f \in DOMAIN d : a[f] \in {Nil, d[f]}
     /\ <<tx.to, tx.data, tx.accesses>> = <<msg.to, msg.data, msg.accesses>>
     /\ RPCGasCap = 0 \/ tx.gas <= RPCGasCap => tx.gas = msg.gas
     /\ b # Nil =>
          /\ <<msg.cap, msg.tip>> = <<tx.cap, tx.tip>>
          /\ msg.price = EffectivePrice(tx, b)
          /\ chosen => tx.cap >= b + MaxDelta(b)

(* The filled arguments are sound: the transaction and the message of the  *)
(* simulated call agree on which fees count.                               *)
LEMMA FilledSound ==
  ASSUME NEW a \in Args, NEW b \in Nat \cup {Nil}, ~mixesFees(a), ~feesRefused(a, b),
         NEW gas \in Nat, a.gas \in {Nil, gas},
         NEW d, d = [withFees(a, b) EXCEPT !.gas = gas]
  PROVE  SoundFor(a, d, b)
<1> DEFINE w == withFees(a, b)
<1>1. /\ w = [f \in argFields |-> w[f]]
      /\ \A f \in argFields \ feeFields : w[f] = a[f]
      /\ \A f \in feeFields : a[f] \in {Nil, w[f]}
      /\ \/ /\ w.maxFeePerGas = Nil /\ w.maxPriorityFeePerGas = Nil /\ w.gasPrice \in Nat
            /\ b # Nil => a.gasPrice # Nil
         \/ /\ w.gasPrice = Nil
            /\ w.maxFeePerGas \in Nat /\ w.maxPriorityFeePerGas \in Nat
            /\ w.maxPriorityFeePerGas <= w.maxFeePerGas
      /\ b # Nil /\ (\A f \in feeFields : a[f] = Nil) => w.maxFeePerGas = MaxDelta(b) + 2 * b
  BY FeesFilled
<1>2. d = [w EXCEPT !.gas = gas]
  OBVIOUS
<1> HIDE DEF w
<1>3. /\ "gas" \in argFields /\ "gas" \notin feeFields /\ feeFields \subseteq argFields
      /\ "gasPrice" \in feeFields /\ "maxFeePerGas" \in feeFields
      /\ "maxPriorityFeePerGas" \in feeFields
  BY DEF argFields, feeFields
<1>4. d.gas = gas /\ DOMAIN d = argFields /\ \A f \in argFields \ {"gas"} : d[f] = w[f]
  BY <1>1, <1>2, <1>3
<1>5. d.gasPrice = w.gasPrice /\ d.maxFeePerGas = w.maxFeePerGas
      /\ d.maxPriorityFeePerGas = w.maxPriorityFeePerGas
  BY <1>3, <1>4
<1>6. \A f \in DOMAIN d : a[f] \in {Nil, d[f]}
  <2>1. ASSUME NEW f \in argFields
        PROVE  a[f] \in {Nil, d[f]}
    <3>1. CASE f = "gas"
      BY <1>4, <3>1
    <3>2. CASE f # "gas" /\ f \in feeFields
      BY <1>1, <1>4, <3>2
    <3>3. CASE f # "gas" /\ f \notin feeFields
      BY <1>1, <1>4, <3>3
    <3> QED
      BY <3>1, <3>2, <3>3
  <2> QED
    BY <1>4, <2>1
<1> DEFINE tx == ToTransaction(d)
           msg == ToMessage(d, RPCGasCap, b)
           value(f) == IF d[f] = Nil THEN 0 ELSE d[f]
           feeCap == value("maxFeePerGas")
           tipCap == value("maxPriorityFeePerGas")
           dynamic == b # Nil /\ d.gasPrice = Nil
<1>7. /\ tx.type = IF d.maxFeePerGas # Nil THEN "dynamic" ELSE IF d.accessList # Nil THEN "accessList" ELSE "legacy"
      /\ tx.cap = IF d.maxFeePerGas # Nil THEN d.maxFeePerGas ELSE d.gasPrice
      /\ tx.tip = IF d.maxFeePerGas # Nil THEN d.maxPriorityFeePerGas ELSE d.gasPrice
      /\ tx.to = d.to /\ tx.gas = gas /\ tx.data = GetData(d)
      /\ tx.accesses = IF d.accessList = Nil THEN <<>> ELSE d.accessList
  BY <1>4 DEF ToTransaction
<1>8. /\ msg.to = d.to /\ msg.data = GetData(d)
      /\ msg.gas = IF RPCGasCap = 0 THEN gas ELSE least(gas, RPCGasCap)
      /\ msg.price = IF ~dynamic THEN value("gasPrice")
                     ELSE IF feeCap = 0 /\ tipCap = 0 THEN 0 ELSE least(tipCap + b, feeCap)
      /\ msg.cap = IF dynamic THEN feeCap ELSE value("gasPrice")
      /\ msg.tip = IF dynamic THEN tipCap ELSE value("gasPrice")
      /\ msg.accesses = IF d.accessList = Nil THEN <<>> ELSE d.accessList
  BY <1>4 DEF ToMessage
<1> HIDE DEF tx, msg
<1>9. <<tx.to, tx.data, tx.accesses>> = <<msg.to, msg.data, msg.accesses>>
  BY <1>7, <1>8
<1>10. RPCGasCap = 0 \/ tx.gas <= RPCGasCap => tx.gas = msg.gas
  <2>1. CASE RPCGasCap = 0
    BY <1>7, <1>8, <2>1
  <2>2. CASE RPCGasCap # 0
    BY <1>7, <1>8, <2>2 DEF least
  <2> QED
    BY <2>1, <2>2
<1>11. Nil \notin Nat
  BY BaseFeeAssumption
<1>12. CASE /\ d.maxFeePerGas = Nil /\ d.maxPriorityFeePerGas = Nil /\ d.gasPrice \in Nat
            /\ b # Nil => a.gasPrice # Nil
  <2>1. /\ tx.cap = d.gasPrice /\ tx.tip = d.gasPrice /\ tx.type # "dynamic"
        /\ value("gasPrice") = d.gasPrice /\ ~dynamic
    BY <1>7, <1>11, <1>12
  <2>2. Validate(tx)
    BY <1>12, <2>1, SMT, Z3 DEF Validate
  <2>3. <<msg.cap, msg.tip>> = <<tx.cap, tx.tip>> /\ msg.price = d.gasPrice
    BY <1>8, <2>1
  <2>4. msg.price = EffectivePrice(tx, b)
    BY <2>1, <2>3 DEF EffectivePrice
  <2>5. b # Nil => ~\A f \in feeFields : a[f] = Nil
    BY <1>3, <1>12
  <2> QED
    BY <1>6, <1>9, <1>10, <2>2, <2>3, <2>4, <2>5 DEF SoundFor, tx, msg
<1>13. CASE /\ d.gasPrice = Nil
            /\ d.maxFeePerGas \in Nat /\ d.maxPriorityFeePerGas \in Nat
            /\ d.maxPriorityFeePerGas <= d.maxFeePerGas
  <2>1. /\ tx.cap = d.maxFeePerGas /\ tx.tip = d.maxPriorityFeePerGas /\ tx.type = "dynamic"
        /\ feeCap = d.maxFeePerGas /\ tipCap = d.maxPriorityFeePerGas
    BY <1>7, <1>11, <1>13
  <2>2. Validate(tx)
    BY <1>13, <2>1, SMT, Z3 DEF Validate
  <2> HIDE DEF feeCap, tipCap
  <2>3. ASSUME b # Nil
        PROVE  /\ <<msg.cap, msg.tip>> = <<tx.cap, tx.tip>>
               /\ msg.price = EffectivePrice(tx, b)
               /\ (\A f \in feeFields : a[f] = Nil) => tx.cap >= b + MaxDelta(b)
    <3>1. dynamic /\ b \in Nat
      BY <1>13, <2>3
    <3>2. <<msg.cap, msg.tip>> = <<tx.cap, tx.tip>>
      BY <1>8, <2>1, <3>1
    <3>3. msg.price = IF feeCap = 0 /\ tipCap = 0 THEN 0 ELSE least(tipCap + b, feeCap)
      BY <1>8, <3>1
    <3>4. feeCap = 0 /\ tipCap = 0 => least(tipCap + b, feeCap) = 0
      BY <3>1, SMT, Z3 DEF least
    <3>5. msg.price = EffectivePrice(tx, b)
      BY <2>1, <3>3, <3>4 DEF EffectivePrice
    <3>6. ASSUME \A f \in feeFields : a[f] = Nil
          PROVE  tx.cap >= b + MaxDelta(b)
      <4>1. tx.cap = MaxDelta(b) + 2 * b
        BY <1>1, <1>5, <2>1, <2>3, <3>6
      <4>2. MaxDelta(b) \in Nat
        BY <3>1, TipIsMaxDelta
      <4> QED
        BY <3>1, <4>1, <4>2, SMT, Z3
    <3> QED
      BY <3>2, <3>5, <3>6
  <2> QED
    BY <1>6, <1>9, <1>10, <2>2, <2>3 DEF SoundFor, tx, msg
<1> QED
  BY <1>1, <1>5, <1>12, <1>13

(* eth_gasPrice pays the base fee of the block after the head.             *)
LEMMA SuggestionSound ==
  ASSUME NEW b \in Nat
  PROVE  GasPrice(b) >= b + MaxDelta(b)
<1>1. b # Nil
  BY BaseFeeAssumption
<1> DEFINE result == SuggestGasTipCap(b) + b
           low == MinGasPriceParam * DecScale
<1>2. result = MaxDelta(b) + b /\ MaxDelta(b) \in Nat
  BY TipIsMaxDelta
<1>3. low \in Nat
  BY PriceAssumption, SMT, Z3
<1>4. GasPrice(b) = IF result < low THEN low ELSE result
  BY <1>1 DEF GasPrice
<1> HIDE DEF result, low
<1> QED
  BY <1>2, <1>3, <1>4, SMT, Z3

(* A request has its arguments from the client and the base fee of a head; *)
(* what it has filled is what withFees gives, and the gas.                 *)
Filling ==
  /\ fill = [stage |-> fill.stage, given |-> fill.given, args |-> fill.args,
             baseFee |-> fill.baseFee, state |-> fill.state, price |-> fill.price]
  /\ fill.stage \in {"defaults", "estimate", "filled"} =>
       fill.given \in Args /\ ~mixesFees(fill.given) /\ fill.baseFee \in Nat \cup {Nil}
  /\ fill.stage = "defaults" => fill.args = fill.given
  /\ fill.stage \in {"estimate", "filled"} => ~feesRefused(fill.given, fill.baseFee)
  /\ fill.stage = "estimate" =>
       fill.given.gas = Nil /\ fill.args = withFees(fill.given, fill.baseFee)
  /\ fill.stage = "filled" =>
       \E gas \in Nat : /\ fill.given.gas \in {Nil, gas}
                        /\ fill.args = [withFees(fill.given, fill.baseFee) EXCEPT !.gas = gas]
  /\ fill.stage = "suggested" =>
       fill.baseFee \in Nat \cup {Nil} /\ fill.price = GasPrice(fill.baseFee)

FillInv == ChainInv /\ Filling

(* The base fee of the head is that of a block.                            *)
LEMMA HeadHasBaseFee ==
  ASSUME ChainInv, HasHead
  PROVE  HeadBaseFee \in Nat \cup {Nil}
<1>1. TendermintHeight(EthLatestBlockNumber) = app
  BY SMT DEF TendermintHeight, EthLatestBlockNumber, Int64
<1>2. app \in 1 .. Len(chain)
  BY <1>1, SMT, Z3 DEF HasHead, HasState, ChainInv
<1>3. chain[app] \in Block
  BY <1>2 DEF ChainInv
<1> QED
  BY <1>1, <1>3, BaseFeeAssumption DEF HeadBaseFee

(* A request that fails says nothing of its arguments.                     *)
LEMMA FillFailsInv ==
  ASSUME FillInv, UNCHANGED chainVars, FillFails
  PROVE  FillInv'
<1>1. ChainInv'
  BY DEF FillInv, ChainInv, chainVars
<1>2. /\ fill' = [stage |-> "failed", given |-> fill.given, args |-> fill.args,
                  baseFee |-> fill.baseFee, state |-> fill.state, price |-> fill.price]
  BY DEF FillInv, Filling, FillFails
<1> QED
  BY <1>1, <1>2 DEF FillInv, Filling

(* SetTxDefaults and SuggestGasPrice take the base fee of the head.        *)
LEMMA StartFillInv ==
  ASSUME FillInv, UNCHANGED chainVars, SuggestGasPrice \/ \E a \in Args : SetTxDefaults(a)
  PROVE  FillInv'
<1>1. ChainInv' /\ ChainInv
  BY DEF FillInv, ChainInv, chainVars
<1>2. CASE SuggestGasPrice
  <2>1. HeadBaseFee \in Nat \cup {Nil}
    BY <1>1, <1>2, HeadHasBaseFee DEF SuggestGasPrice
  <2>2. fill' = [stage |-> "suggested", given |-> fill.given, args |-> fill.args,
                 baseFee |-> HeadBaseFee, state |-> fill.state, price |-> GasPrice(HeadBaseFee)]
    BY <1>2 DEF FillInv, Filling, SuggestGasPrice
  <2> QED
    BY <1>1, <2>1, <2>2 DEF FillInv, Filling
<1>3. ASSUME NEW a \in Args, SetTxDefaults(a)
      PROVE  FillInv'
  <2>1. CASE FillFails
    BY <2>1, FillFailsInv
  <2>2. CASE ~FillFails
    <3>1. ~mixesFees(a) /\ HasHead
          /\ fill' = [fill EXCEPT !.stage = "defaults", !.given = a, !.args = a, !.baseFee = HeadBaseFee]
      BY <1>3, <2>2 DEF SetTxDefaults
    <3>2. HeadBaseFee \in Nat \cup {Nil}
      BY <1>1, <3>1, HeadHasBaseFee
    <3>3. fill' = [stage |-> "defaults", given |-> a, args |-> a,
                   baseFee |-> HeadBaseFee, state |-> fill.state, price |-> fill.price]
      BY <3>1 DEF FillInv, Filling
    <3> QED
      BY <1>1, <1>3, <3>1, <3>2, <3>3 DEF FillInv, Filling
  <2> QED
    BY <2>1, <2>2
<1> QED
  BY <1>2, <1>3

(* Filling the fees.  Without an estimate the gas is the caller's.         *)
LEMMA FillDefaultsInv ==
  ASSUME FillInv, UNCHANGED chainVars, FillDefaults
  PROVE  FillInv'
<1>1. ChainInv'
  BY DEF FillInv, ChainInv, chainVars
<1>2. CASE FillFails
  BY <1>2, FillFailsInv
<1>3. CASE ~FillFails
  <2> DEFINE a == fill.given
             b == fill.baseFee
             w == withFees(a, b)
             next == IF a.gas = Nil THEN "estimate" ELSE "filled"
  <2>1. fill.stage = "defaults" /\ fill.args = a /\ a \in Args /\ ~mixesFees(a)
        /\ b \in Nat \cup {Nil}
    BY DEF FillInv, Filling, FillDefaults
  <2>2. ~feesRefused(a, b) /\ fill' = [fill EXCEPT !.args = w, !.stage = next]
    BY <1>3, <2>1 DEF FillDefaults
  <2>3. w = [f \in argFields |-> w[f]] /\ \A f \in argFields \ feeFields : w[f] = a[f]
    BY <2>1, <2>2, FeesFilled
  <2>4. a.gas # Nil => \E gas \in Nat : a.gas \in {Nil, gas} /\ w = [w EXCEPT !.gas = gas]
    <3>1. "gas" \in argFields \ feeFields
      BY DEF argFields, feeFields
    <3>2. a.gas # Nil => a.gas \in Nat /\ w.gas = a.gas
      BY <2>1, <2>3, <3>1, ArgsAssumption
    <3> HIDE DEF w
    <3>3. w = [w EXCEPT !.gas = w.gas]
      BY <2>3
    <3> QED
      BY <3>2, <3>3
  <2> HIDE DEF w, next
  <2>5. fill' = [stage |-> next, given |-> a, args |-> w,
                 baseFee |-> b, state |-> fill.state, price |-> fill.price]
    BY <2>2 DEF FillInv, Filling
  <2>6. fill'.stage = next /\ fill'.given = a /\ fill'.args = w /\ fill'.baseFee = b
        /\ fill'.state = fill.state /\ fill'.price = fill.price
    BY <2>5
  <2>7. next \in {"estimate", "filled"} /\ (next = "estimate" => a.gas = Nil)
        /\ (next = "filled" => a.gas # Nil)
    BY DEF next
  <2> HIDE DEF a, b
  <2>8. w = withFees(a, b)
    BY DEF w
  <2>9. fill' = [stage |-> fill'.stage, given |-> fill'.given, args |-> fill'.args,
                 baseFee |-> fill'.baseFee, state |-> fill'.state, price |-> fill'.price]
    BY <2>5, <2>6
  <2>10. fill'.stage = "filled" =>
           \E gas \in Nat : /\ fill'.given.gas \in {Nil, gas}
                            /\ fill'.args = [withFees(fill'.given, fill'.baseFee) EXCEPT !.gas = gas]
    BY <2>4, <2>6, <2>7, <2>8
  <2> QED
    BY <1>1, <2>1, <2>2, <2>6, <2>7, <2>8, <2>9, <2>10 DEF FillInv, Filling
<1> QED
  BY <1>2, <1>3

(* The estimate of the gas.                                                *)
LEMMA EstimateDefaultInv ==
  ASSUME FillInv, UNCHANGED chainVars, EstimateDefault
  PROVE  FillInv'
<1>1. ChainInv'
  BY DEF FillInv, ChainInv, chainVars
<1>2. CASE FillFails
  BY <1>2, FillFailsInv
<1>3. ASSUME NEW gas \in GasLimits,
             fill' = [fill EXCEPT !.args.gas = gas, !.stage = "filled", !.state = Int64(0)]
      PROVE  FillInv'
  <2> DEFINE a == fill.given
             b == fill.baseFee
  <2>1. fill.stage = "estimate" /\ a \in Args /\ ~mixesFees(a) /\ b \in Nat \cup {Nil}
        /\ ~feesRefused(a, b) /\ a.gas = Nil /\ fill.args = withFees(a, b)
    BY DEF FillInv, Filling, EstimateDefault
  <2>2. gas \in Nat
    BY PriceAssumption
  <2>3. fill' = [stage |-> "filled", given |-> a, args |-> [withFees(a, b) EXCEPT !.gas = gas],
                 baseFee |-> b, state |-> Int64(0), price |-> fill.price]
    BY <1>3, <2>1 DEF FillInv, Filling
  <2> HIDE DEF a, b
  <2> QED
    BY <1>1, <2>1, <2>2, <2>3 DEF FillInv, Filling
<1> QED
  BY <1>2, <1>3 DEF EstimateDefault

(* The invariant of a request that fills arguments.                        *)
LEMMA FillInductive == FillSpec => []FillInv
<1>1. ChainInit /\ FillInit => FillInv
  BY DEF ChainInit, FillInit, noFill, FillInv, ChainInv, Filling
<1>2. ASSUME FillInv, ChainNext, UNCHANGED fill
      PROVE  FillInv'
  <2>1. ChainInv'
    BY <1>2, ChainGrows DEF FillInv
  <2> QED
    BY <1>2, <2>1 DEF FillInv, Filling
<1>3. ASSUME FillInv, FillNext, UNCHANGED chainVars
      PROVE  FillInv'
  BY <1>3, StartFillInv, FillDefaultsInv, EstimateDefaultInv DEF FillNext
<1>4. ASSUME FillInv, UNCHANGED fillVars
      PROVE  FillInv'
  BY <1>4 DEF FillInv, ChainInv, Filling, fillVars, chainVars
<1> QED
  BY <1>1, <1>2, <1>3, <1>4, PTL DEF FillSpec

(* Filled arguments make a transaction that validates and a simulated call *)
(* that agrees with it, and the prices the node chooses pay the base fee   *)
(* of the next block, for every fee market, price and argument.            *)
THEOREM FilledTransactionsSound == FillSpec => []FilledTxSound
<1>1. ASSUME FillInv
      PROVE  FilledTxSound
  <2>1. ASSUME fill.stage = "filled"
        PROVE  SoundFor(fill.given, fill.args, fill.baseFee)
    <3>1. PICK gas \in Nat :
            /\ fill.given.gas \in {Nil, gas}
            /\ fill.args = [withFees(fill.given, fill.baseFee) EXCEPT !.gas = gas]
      BY <1>1, <2>1 DEF FillInv, Filling
    <3>2. fill.given \in Args /\ ~mixesFees(fill.given) /\ fill.baseFee \in Nat \cup {Nil}
          /\ ~feesRefused(fill.given, fill.baseFee)
      BY <1>1, <2>1 DEF FillInv, Filling
    <3> QED
      BY <3>1, <3>2, FilledSound
  <2>2. ASSUME fill.stage = "suggested", fill.baseFee # Nil
        PROVE  fill.price >= fill.baseFee + MaxDelta(fill.baseFee)
    <3>1. fill.baseFee \in Nat /\ fill.price = GasPrice(fill.baseFee)
      BY <1>1, <2>2 DEF FillInv, Filling
    <3> QED
      BY <3>1, SuggestionSound
  <2> QED
    BY <2>1, <2>2 DEF FilledTxSound, SoundFor
<1> QED
  BY <1>1, FillInductive, PTL

-----------------------------------------------------------------------------
(* The fee history.                                                        *)

(* The height of the block a number of the range stands for.               *)
HeightOf(number) == IF number = 0 THEN 1 ELSE number

(* The entries of a request are those of the blocks of its range up to the *)
(* next one, and the head has passed these blocks.                         *)
Fetched ==
  /\ history.oldest \in Nat /\ history.end \in Nat
  /\ history.next \in history.oldest .. history.end
  /\ history.entries \in Seq(Range(history.entries))
  /\ Len(history.entries) = history.next - history.oldest
  /\ \A i \in 1 .. Len(history.entries) :
       LET h == HeightOf(history.oldest + i - 1)
       IN /\ h \in 1 .. app
          /\ history.entries[i].baseFee = chain[h].baseFee
          /\ history.entries[i].gasUsed = GasUsed(chain[h].txs)

HistoryInv ==
  /\ ChainInv
  /\ history = [stage |-> history.stage, oldest |-> history.oldest, end |-> history.end,
                next |-> history.next, percentiles |-> history.percentiles,
                entries |-> history.entries]
  /\ history.stage = "idle" => history.entries = <<>>
  /\ history.stage \in {"fetching", "answered"} => Fetched
  /\ history.stage = "answered" => history.next = history.end

(* Appending to a sequence, whatever its elements are.                     *)
LEMMA AppendedEntry ==
  ASSUME NEW s, s \in Seq(Range(s)), NEW e
  PROVE  /\ Append(s, e) \in Seq(Range(Append(s, e)))
         /\ Len(Append(s, e)) = Len(s) + 1
         /\ \A i \in 1 .. Len(s) : Append(s, e)[i] = s[i]
         /\ Append(s, e)[Len(s) + 1] = e
<1> DEFINE S == Range(s) \cup {e}
           t == Append(s, e)
<1>1. s \in Seq(S)
  OBVIOUS
<1>2. t \in Seq(S) /\ Len(t) = Len(s) + 1
      /\ (\A i \in 1 .. Len(s) : t[i] = s[i]) /\ t[Len(s) + 1] = e
  BY <1>1
<1>3. t \in Seq(Range(t))
  <2> HIDE DEF t
  <2>1. Len(t) \in Nat /\ t \in [1 .. Len(t) -> S]
    BY <1>2
  <2>2. t \in [1 .. Len(t) -> Range(t)]
    BY <2>1 DEF Range
  <2> QED
    BY <2>1, <2>2
<1> QED
  BY <1>2, <1>3

(* The chain grows: the blocks fetched stay what they were.                *)
LEMMA HistoryChainStep ==
  ASSUME HistoryInv, ChainNext, UNCHANGED history
  PROVE  HistoryInv'
<1>1. ChainInv' /\ app <= app' /\ app \in Nat /\ app' \in Nat /\ app <= Len(chain)
      /\ \A h \in 1 .. Len(chain) : chain'[h] = chain[h]
  <2>1. ChainInv
    BY DEF HistoryInv
  <2>2. ChainInv' /\ app <= app' /\ \A h \in 1 .. Len(chain) : chain'[h] = chain[h]
    BY <2>1, ChainGrows
  <2> QED
    BY <2>1, <2>2, SMT, Z3 DEF ChainInv
<1>2. ASSUME Fetched
      PROVE  Fetched'
  <2>1. ASSUME NEW i \in 1 .. Len(history.entries), NEW h, h = HeightOf(history.oldest + i - 1)
        PROVE  /\ h \in 1 .. app'
               /\ history.entries[i].baseFee = chain'[h].baseFee
               /\ history.entries[i].gasUsed = GasUsed(chain'[h].txs)
    <3>1. h \in 1 .. app /\ history.entries[i].baseFee = chain[h].baseFee
          /\ history.entries[i].gasUsed = GasUsed(chain[h].txs)
      BY <1>2, <2>1 DEF Fetched
    <3>2. h \in 1 .. app' /\ h \in 1 .. Len(chain)
      <4>1. Len(chain) \in Nat
        BY SMT DEF HistoryInv, ChainInv
      <4> QED
        BY <1>1, <3>1, <4>1, SMT, Z3
    <3>3. chain'[h] = chain[h]
      BY <1>1, <3>2
    <3> QED
      BY <3>1, <3>2, <3>3
  <2> QED
    BY <1>2, <2>1 DEF Fetched, HeightOf
<1> QED
  BY <1>1, <1>2 DEF HistoryInv

(* A request that fails keeps its entries to itself.                       *)
LEMMA HistoryFails ==
  ASSUME HistoryInv, UNCHANGED chainVars, history' = [history EXCEPT !.stage = "failed"]
  PROVE  HistoryInv'
<1>1. ChainInv'
  BY DEF HistoryInv, ChainInv, chainVars
<1>2. history' = [stage |-> "failed", oldest |-> history.oldest, end |-> history.end,
                  next |-> history.next, percentiles |-> history.percentiles,
                  entries |-> history.entries]
  BY DEF HistoryInv
<1> QED
  BY <1>1, <1>2 DEF HistoryInv

(* The range of a request is not empty backwards.                          *)
LEMMA StartHistoryInv ==
  ASSUME HistoryInv, UNCHANGED chainVars,
         NEW count \in 0 .. FeeHistoryCap + 1, NEW lastBlock \in BlockNumbers, NEW p,
         StartHistory(count, lastBlock, p)
  PROVE  HistoryInv'
<1>1. ChainInv' /\ app \in Nat
  BY DEF HistoryInv, ChainInv, chainVars
<1> DEFINE end == IF lastBlock <= 0 THEN app ELSE lastBlock
           start == IF end - count < 0 THEN 0 ELSE end - count
<1>2. end \in Nat /\ start \in Nat /\ start <= end
  <2>1. count \in Nat /\ lastBlock \in Int
    BY HeightAssumption, HistoryAssumption, SMT, Z3 DEF BlockNumbers, EthPendingBlockNumber
  <2> QED
    BY <1>1, <2>1, SMT, Z3
<1> HIDE DEF end, start
<1>3. CASE count > FeeHistoryCap
  <2>1. history' = [history EXCEPT !.stage = "failed"]
    BY <1>3 DEF StartHistory
  <2> QED
    BY <2>1, HistoryFails
<1>4. CASE ~(count > FeeHistoryCap)
  <2>1. history' = [history EXCEPT !.stage = "fetching", !.oldest = start,
                      !.end = end, !.next = start, !.percentiles = p]
    BY <1>4 DEF StartHistory, start, end
  <2>2. history.entries = <<>>
    BY DEF StartHistory, HistoryInv
  <2>3. history' = [stage |-> "fetching", oldest |-> start, end |-> end,
                    next |-> start, percentiles |-> p, entries |-> <<>>]
    BY <2>1, <2>2 DEF HistoryInv
  <2>4. <<>> \in Seq(Range(<<>>)) /\ Len(<<>>) = 0
    OBVIOUS
  <2>5. history'.stage = "fetching" /\ history'.oldest = start /\ history'.end = end
        /\ history'.next = start /\ history'.percentiles = p /\ history'.entries = <<>>
    BY <2>3
  <2>6. Fetched'
    <3>1. start \in start .. end /\ start - start = 0 /\ 1 .. 0 = {}
      BY <1>2, SMT, Z3
    <3> QED
      BY <1>2, <2>4, <2>5, <3>1 DEF Fetched
  <2> QED
    BY <1>1, <2>3, <2>5, <2>6 DEF HistoryInv
<1> QED
  BY <1>3, <1>4

(* A block fetched has a state, so that the head has passed it.            *)
LEMMA FetchBlockInv ==
  ASSUME HistoryInv, UNCHANGED chainVars, FetchBlock
  PROVE  HistoryInv'
<1> DEFINE h == TendermintHeight(history.next)
           e == processBlock(h, history.percentiles)
           s == history.entries
<1>1. ChainInv'
  BY DEF HistoryInv, ChainInv, chainVars
<1>2. CASE ~HasState(h)
  BY <1>2, HistoryFails DEF FetchBlock
<1>3. CASE HasState(h)
  <2>1. Fetched /\ history.stage = "fetching" /\ history.next < history.end
    BY DEF FetchBlock, HistoryInv
  <2>2. history.oldest \in Nat /\ history.end \in Nat /\ history.next \in Nat
        /\ history.oldest <= history.next /\ Len(s) = history.next - history.oldest
    BY <2>1, SMT, Z3 DEF Fetched
  <2>3. h = HeightOf(history.next) /\ h \in 1 .. app
    BY <1>3, <2>2, SMT, Z3 DEF TendermintHeight, Int64, HeightOf, HasState
  <2>4. e.baseFee = chain[h].baseFee /\ e.gasUsed = GasUsed(chain[h].txs)
    BY DEF processBlock
  <2>5. history' = [history EXCEPT !.next = @ + 1, !.entries = Append(@, e)]
    BY <1>3 DEF FetchBlock
  <2> HIDE DEF h, e
  <2>6. history' = [stage |-> "fetching", oldest |-> history.oldest, end |-> history.end,
                    next |-> history.next + 1, percentiles |-> history.percentiles,
                    entries |-> Append(s, e)]
    BY <2>1, <2>5 DEF HistoryInv
  <2>7. history'.stage = "fetching" /\ history'.oldest = history.oldest
        /\ history'.end = history.end /\ history'.next = history.next + 1
        /\ history'.percentiles = history.percentiles /\ history'.entries = Append(s, e)
    BY <2>6
  <2>8. /\ Append(s, e) \in Seq(Range(Append(s, e)))
        /\ Len(Append(s, e)) = Len(s) + 1
        /\ \A i \in 1 .. Len(s) : Append(s, e)[i] = s[i]
        /\ Append(s, e)[Len(s) + 1] = e
    BY <2>1, AppendedEntry DEF Fetched
  <2>9. ASSUME NEW i \in 1 .. Len(Append(s, e)),
               NEW g, g = HeightOf(history.oldest + i - 1)
        PROVE  /\ g \in 1 .. app
               /\ Append(s, e)[i].baseFee = chain[g].baseFee
               /\ Append(s, e)[i].gasUsed = GasUsed(chain[g].txs)
    <3>1. CASE i \in 1 .. Len(s)
      BY <2>1, <2>8, <2>9, <3>1 DEF Fetched
    <3>2. CASE i = Len(s) + 1
      <4>1. history.oldest + i - 1 = history.next
        BY <2>2, <3>2, SMT, Z3
      <4>2. g = h
        BY <2>3, <2>9, <4>1
      <4> QED
        BY <2>3, <2>4, <2>8, <3>2, <4>2
    <3> QED
      BY <2>2, <2>8, <3>1, <3>2, SMT, Z3
  <2>10. Fetched'
    <3>1. app' = app /\ chain' = chain
      BY DEF chainVars
    <3>2. history.next + 1 \in history.oldest .. history.end
          /\ Len(s) + 1 = history.next + 1 - history.oldest
      BY <2>1, <2>2, SMT, Z3
    <3>3. \A i \in 1 .. Len(history'.entries) :
            LET g == HeightOf(history'.oldest + i - 1)
            IN /\ g \in 1 .. app'
               /\ history'.entries[i].baseFee = chain'[g].baseFee
               /\ history'.entries[i].gasUsed = GasUsed(chain'[g].txs)
      BY <2>7, <2>9, <3>1
    <3>4. history'.next \in history'.oldest .. history'.end
          /\ history'.entries \in Seq(Range(history'.entries))
          /\ Len(history'.entries) = history'.next - history'.oldest
          /\ history'.oldest \in Nat /\ history'.end \in Nat
      BY <2>2, <2>7, <2>8, <3>2
    <3> QED
      BY <3>3, <3>4 DEF Fetched, HeightOf
  <2> QED
    BY <1>1, <2>6, <2>7, <2>10 DEF HistoryInv
<1> QED
  BY <1>2, <1>3

(* An answer has the whole range.                                          *)
LEMMA EndHistoryInv ==
  ASSUME HistoryInv, UNCHANGED chainVars, EndHistory
  PROVE  HistoryInv'
<1>1. ChainInv' /\ app' = app /\ chain' = chain
  BY DEF HistoryInv, ChainInv, chainVars
<1>2. Fetched /\ history.next = history.end
  BY DEF EndHistory, HistoryInv
<1>3. history' = [stage |-> "answered", oldest |-> history.oldest, end |-> history.end,
                  next |-> history.next, percentiles |-> history.percentiles,
                  entries |-> history.entries]
  BY DEF EndHistory, HistoryInv
<1>4. history'.stage = "answered" /\ history'.oldest = history.oldest
      /\ history'.end = history.end /\ history'.next = history.next
      /\ history'.percentiles = history.percentiles /\ history'.entries = history.entries
  BY <1>3
<1>5. Fetched'
  BY <1>1, <1>2, <1>4 DEF Fetched
<1> QED
  BY <1>1, <1>2, <1>3, <1>4, <1>5 DEF HistoryInv

(* The invariant of a request for the fee history.                         *)
LEMMA HistoryInductive == HistorySpec => []HistoryInv
<1>1. ChainInit /\ HistoryInit => HistoryInv
  BY DEF ChainInit, HistoryInit, noHistory, HistoryInv, ChainInv
<1>2. ASSUME HistoryInv, HistoryNext, UNCHANGED chainVars
      PROVE  HistoryInv'
  BY <1>2, StartHistoryInv, FetchBlockInv, EndHistoryInv DEF HistoryNext
<1>3. ASSUME HistoryInv, UNCHANGED historyVars
      PROVE  HistoryInv'
  BY <1>3 DEF HistoryInv, ChainInv, Fetched, historyVars, chainVars
<1> QED
  BY <1>1, <1>2, <1>3, HistoryChainStep, PTL DEF HistorySpec

(* Every entry of an answer of eth_feeHistory is about the block its       *)
(* client reads it as, for chains and ranges of any length, though the     *)
(* chain grows while FeeHistory fetches the blocks.                        *)
THEOREM HistoryOfItsBlocks == HistorySpec => []EntriesOfTheirBlocks
<1>1. ASSUME HistoryInv
      PROVE  EntriesOfTheirBlocks
  <2>1. SUFFICES ASSUME history.stage = "answered"
                 PROVE  /\ Len(history.entries) = history.end - history.oldest
                        /\ \A i \in DOMAIN history.entries :
                             LET h == HeightOf(history.oldest + i - 1)
                             IN /\ history.entries[i].baseFee = chain[h].baseFee
                                /\ history.entries[i].gasUsed = GasUsed(chain[h].txs)
    BY DEF EntriesOfTheirBlocks, HeightOf
  <2>2. Fetched /\ history.next = history.end
    BY <1>1, <2>1 DEF HistoryInv
  <2>3. DOMAIN history.entries = 1 .. Len(history.entries)
    BY <2>2 DEF Fetched
  <2> QED
    BY <2>2, <2>3 DEF Fetched
<1> QED
  BY <1>1, HistoryInductive, PTL

=============================================================================
