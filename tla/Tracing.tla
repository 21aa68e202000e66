------------------------------- MODULE Tracing -------------------------------
(***************************************************************************)
(* debug_traceTransaction and debug_traceBlockBy...: the API of            *)
(* rpc/namespaces/ethereum/debug/api.go with TraceTx, TraceBlock and       *)
(* traceTx of x/evm/keeper/grpc_query.go.  A trace runs messages of a      *)
(* block again on the state of an earlier height.                          *)
(*                                                                         *)
(* A state is the sequence of the messages that made it.  The tracer asked *)
(* for is one that can be made.                                            *)
(***************************************************************************)
EXTENDS Chain

CONSTANT Refused  \* the messages ApplyMessageWithConfig answers with an error

VARIABLES
  trace  \* the request: the number asked for, its block, progress and results

noTrace == [stage |-> "idle", kind |-> "none", asked |-> 0, height |-> 0, ctx |-> 0,
            todo |-> <<>>, state |-> <<>>, done |-> 0, logIndex |-> 0, results |-> <<>>]

TraceInit == trace = noTrace

-----------------------------------------------------------------------------
(* The state after a block.                                                *)
StateAfter(h) == FlattenSeq([i \in 1 .. h |-> Effects(i)])

(* GetTxByEthHash: the ante handler, once passed, leaves an event with the *)
(* hash of each message, whatever becomes of the transaction.              *)
Positions(h) ==
  UNION {{<<i, j>> : j \in DOMAIN chain[h].txs[i].msgs} :
           i \in {k \in DOMAIN chain[h].txs : chain[h].txs[k].code # "full"}}
MessageAt(h, p) == chain[h].txs[p[1]].msgs[p[2]]

(* The messages before one in its block, those that failed included.       *)
Predecessors(h, p) ==
  Messages(SubSeq(chain[h].txs, 1, p[1] - 1)) \o SubSeq(chain[h].txs[p[1]].msgs, 1, p[2] - 1)

contextHeight(h) == IF h - 1 < 1 THEN 1 ELSE h - 1

(* TraceTransaction, up to the predecessors of TraceTx.                    *)
TraceTransaction(h, p) ==
  /\ trace.stage = "idle"
  /\ HasResults(h) /\ p \in Positions(h)
  /\ trace' = IF ~HasState(contextHeight(h)) THEN [trace EXCEPT !.stage = "failed"]
              ELSE [trace EXCEPT !.stage = "replaying", !.kind = "tx", !.asked = h,
                      !.height = h, !.ctx = contextHeight(h),
                      !.state = StateAfter(contextHeight(h)),
                      !.todo = Append(Predecessors(h, p), MessageAt(h, p))]

(* traceBlock, up to the messages of TraceBlock: the context comes from    *)
(* the number it is given, the messages from the block.                    *)
traceBlock(bn, h) ==
  trace' = IF ~HasBlock(h) THEN [trace EXCEPT !.stage = "failed"]
           ELSE IF chain[h].txs = <<>> THEN [trace EXCEPT !.stage = "answered"]
           ELSE IF ~HasState(contextHeight(bn)) THEN [trace EXCEPT !.stage = "failed"]
           ELSE [trace EXCEPT !.stage = "replaying", !.kind = "block", !.asked = bn,
                   !.height = h, !.ctx = contextHeight(bn),
                   !.state = StateAfter(contextHeight(bn)), !.todo = Messages(chain[h].txs)]

TraceBlockByHash(h) == trace.stage = "idle" /\ traceBlock(h, h)

TraceBlockByNumber(bn) ==
  /\ trace.stage = "idle"
  /\ IF bn = 0 THEN trace' = [trace EXCEPT !.stage = "failed"]
     ELSE traceBlock(bn, TendermintHeight(bn))

(* A predecessor in TraceTx: committed, and left out if it is refused.     *)
Replay ==
  LET m == Head(trace.todo)
      next == [trace EXCEPT !.todo = Tail(@), !.done = @ + 1]
  IN /\ trace.stage = "replaying" /\ trace.kind = "tx" /\ Len(trace.todo) > 1
     /\ trace' = IF m \in Refused THEN next
                 ELSE [next EXCEPT !.state = Append(@, m), !.logIndex = @ + Len(m.logs)]

(* A trace: its message, the state it ran on, the index of its transaction *)
(* and that of its first log.                                              *)
TraceOf(m, index) ==
  [msg |-> m, state |-> trace.state, index |-> index, logIndex |-> trace.logIndex]

(* The message of TraceTx itself: its index is one more than the last one  *)
(* set, even if none was.  The tracer may have no result.                  *)
TraceMessage ==
  LET m == Head(trace.todo)
      index == IF trace.done = 0 THEN 1 ELSE trace.done
  IN /\ trace.stage = "replaying" /\ trace.kind = "tx" /\ Len(trace.todo) = 1
     /\ \/ trace' = [trace EXCEPT !.stage = "failed"]
        \/ /\ m \notin Refused
           /\ trace' = [trace EXCEPT !.stage = "answered", !.todo = <<>>,
                          !.results = <<TraceOf(m, index)>>]

TraceNextMessage_uncommitted ==   \* faulty variant: no message is committed
  LET m == Head(trace.todo)
      next == [trace EXCEPT !.todo = Tail(@), !.done = @ + 1]
  IN /\ trace.stage = "replaying" /\ trace.kind = "block" /\ trace.todo # <<>>
     /\ IF m \in Refused THEN trace' = next
        ELSE trace' = [next EXCEPT !.logIndex = @ + Len(m.logs),
                                   !.results = Append(@, TraceOf(m, trace.done))]

(* A message in TraceBlock: committed and traced.  A message that is       *)
(* refused has no result, and neither has one whose tracer fails after it. *)
TraceNextMessage ==
  LET m == Head(trace.todo)
      next == [trace EXCEPT !.todo = Tail(@), !.done = @ + 1]
      run == [next EXCEPT !.state = Append(@, m)]
  IN /\ trace.stage = "replaying" /\ trace.kind = "block" /\ trace.todo # <<>>
     /\ IF m \in Refused THEN trace' = next
        ELSE \/ trace' = run
             \/ trace' = [run EXCEPT !.logIndex = @ + Len(m.logs),
                                     !.results = Append(@, TraceOf(m, trace.done))]

EndTrace ==
  /\ trace.stage = "replaying" /\ trace.todo = <<>>
  /\ trace' = [trace EXCEPT !.stage = "answered"]

TraceNext ==
  \/ \E h \in DOMAIN chain : \E p \in Positions(h) : TraceTransaction(h, p)
  \/ \E h \in 1 .. MaxHeight : TraceBlockByHash(h)
  \/ \E bn \in BlockNumbers : TraceBlockByNumber(bn)
  \/ Replay \/ TraceMessage \/ TraceNextMessage \/ EndTrace

-----------------------------------------------------------------------------
(* A trace of a message of a block from the second on, asked for by hash   *)
(* or by a height, runs on the state the block gave the message and not on *)
(* a later one, at its index and that of its first log, if the             *)
(* transactions up to it succeeded.  TraceTransaction and TraceBlock thus  *)
(* agree on it, but for the index of a first message.  The first log is    *)
(* known if no tracer before failed.                                       *)
TraceOnOwnState ==
  trace.asked > 1 =>
    \A r \in Range(trace.results), p \in Positions(trace.height) :
      LET before == Predecessors(trace.height, p)
          numbered == {<<i, trace.results[i]>> : i \in DOMAIN trace.results}
      IN /\ r.msg = MessageAt(trace.height, p)
         /\ \A i \in 1 .. p[1] : chain[trace.height].txs[i].code = "ok"
         => /\ r.state = StateAfter(trace.height - 1) \o before
            /\ r.index = IF trace.kind = "tx" /\ before = <<>> THEN 1 ELSE Len(before)
            /\ trace.kind = "tx" \/ <<Len(before) + 1, r>> \in numbered =>
                 r.logIndex = Len(LogsOf(before))

(* traceBlock: "minus one to get the context at the beginning of the       *)
(* block", however the block was asked for.                                *)
TraceFromBlockBeginning ==
  trace.kind = "block" /\ trace.height > 1 => trace.ctx = trace.height - 1

=============================================================================
