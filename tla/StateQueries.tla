---------------------------- MODULE StateQueries ----------------------------
(***************************************************************************)
(* The queries of rpc/namespaces/ethereum/eth/api.go about one block or    *)
(* one state: eth_getBlockBy..., eth_getBlockTransactionCountBy...,        *)
(* eth_getBalance, eth_getCode, eth_getStorageAt, eth_call and             *)
(* eth_getProof, with EthBlockFromTendermint of rpc/backend/evm_backend.go *)
(* and GetProof of rpc/types/query_client.go.                              *)
(*                                                                         *)
(* An answer is recorded by the height of the state it comes from.         *)
(***************************************************************************)
EXTENDS Chain

CONSTANT MaxKeys  \* bound on the storage keys of eth_getProof

ASSUME KeysAssumption == MaxKeys \in Nat

VARIABLES
  query  \* the request: number asked for, head at its start, height and answer

Request(stage, bn, head, h, keys) ==
  [stage |-> stage, asked |-> bn, head |-> head, height |-> h, keys |-> keys,
   storage |-> <<>>, account |-> 0, proof |-> 0]

noQuery == Request("idle", 0, 0, 0, 0)

QueryInit == query = noQuery

Ask(stage, bn, h, keys) == query' = Request(stage, bn, app, h, keys)
QueryFails == query' = [query EXCEPT !.stage = "failed"]

-----------------------------------------------------------------------------
(* GetBlockByNumber, GetBlockByHash and the transaction counts: the block, *)
(* and then what EthBlockFromTendermint reads for its height, base fee and *)
(* validator from the state, transactions and gas from the results.        *)
GetBlock(bn) ==
  LET h == TendermintHeight(bn)
  IN /\ query.stage = "idle"
     /\ IF HasBlock(h) THEN Ask("block", bn, h, 0) ELSE Ask("missing", bn, 0, 0)

EthBlockFromTendermint ==
  /\ query.stage = "block"
  /\ IF HasState(query.height) /\ HasResults(query.height)
     THEN query' = [query EXCEPT !.stage = "answered", !.account = query.height]
     ELSE QueryFails

-----------------------------------------------------------------------------
(* getBlockNumber: a number as it is, and a hash by its header.            *)
QueryState(bn) ==
  /\ query.stage = "idle"
  /\ Ask("state", bn, 0, 0)

QueryStateByHash(h) ==
  /\ query.stage = "idle"
  /\ Ask(IF HasBlock(h) /\ HasState(h) THEN "state" ELSE "missing", h, 0, 0)

(* A gRPC query in a ContextWithHeight: 0 is the latest state.             *)
StateHeight(bn) == IF Int64(bn) = 0 THEN app ELSE Int64(bn)

ReadState ==
  /\ query.stage = "state"
  /\ IF HasState(StateHeight(query.asked))
     THEN query' = [query EXCEPT !.stage = "answered", !.account = StateHeight(query.asked)]
     ELSE QueryFails

-----------------------------------------------------------------------------
(* GetProof fixes the height of the proofs once ...                        *)
GetProof(bn, keys) ==
  /\ query.stage = "idle"
  /\ Ask("storage", bn, StateHeight(bn), keys)

(* ... which are read at one below it, from the third height on.           *)
ProvableAt(h) == h > 2 /\ HasState(h - 1)

ProveSlot_latest ==   \* faulty variant: the head is read for every key
  /\ query.stage = "storage" /\ Len(query.storage) < query.keys
  /\ IF ProvableAt(StateHeight(query.asked))
     THEN query' = [query EXCEPT !.storage = Append(@, StateHeight(query.asked) - 1)]
     ELSE QueryFails

ProveSlot ==
  /\ query.stage = "storage" /\ Len(query.storage) < query.keys
  /\ IF ProvableAt(query.height)
     THEN query' = [query EXCEPT !.storage = Append(@, query.height - 1)]
     ELSE QueryFails

(* The account is asked for with the number of the request.                *)
ReadAccount ==
  /\ query.stage = "storage" /\ Len(query.storage) = query.keys
  /\ IF HasState(StateHeight(query.asked))
     THEN query' = [query EXCEPT !.stage = "account", !.account = StateHeight(query.asked)]
     ELSE QueryFails

ProveAccount ==
  /\ query.stage = "account"
  /\ IF ProvableAt(query.height)
     THEN query' = [query EXCEPT !.stage = "answered", !.proof = query.height - 1]
     ELSE QueryFails

QueryNext ==
  \/ \E bn \in BlockNumbers : GetBlock(bn) \/ QueryState(bn)
  \/ \E h \in 1 .. MaxHeight : QueryStateByHash(h)
  \/ \E bn \in BlockNumbers, keys \in 0 .. MaxKeys : GetProof(bn, keys)
  \/ EthBlockFromTendermint \/ ReadState \/ ProveSlot \/ ReadAccount \/ ProveAccount

queryVars == <<chainVars, query>>

(* A query on its own, while the chain grows.                              *)
QuerySpec ==
  /\ ChainInit /\ QueryInit
  /\ [][\/ ChainNext /\ UNCHANGED query
        \/ QueryNext /\ UNCHANGED chainVars]_queryVars

-----------------------------------------------------------------------------
(* An answer is about the block asked for; for latest and pending it is    *)
(* about a block that was the head while the request was served.  All      *)
(* proofs of an answer are of one state, the one before the head of its    *)
(* start or before the block asked for.                                    *)
AnswerOfAskedBlock ==
  query.stage = "answered" =>
    LET first == IF query.asked < 0 THEN query.head ELSE Int64(query.asked)
        last == IF query.asked < 0 THEN app ELSE Int64(query.asked)
    IN /\ query.account \in first .. last
       /\ Range(query.storage) \subseteq {first - 1}
       /\ query.proof \in {0, first - 1}

(* BlockNumber: "it's more stable for the client to use the latest block   *)
(* number in abci app state": once there is a state, no request for the    *)
(* latest block or its state fails because a block is stored before its    *)
(* results and its state are there.  Proofs start with the third block.    *)
LatestServed ==
  query.stage \in {"failed", "missing"} /\ query.asked < 0 /\ query.head > 0 =>
    query.height \in 1 .. 2

(* eth_getProof "returns an account object with proof": account and proof  *)
(* are of one state.                                                       *)
ProofOfAccount ==
  query.stage = "answered" /\ query.proof # 0 => query.proof = query.account

=============================================================================
