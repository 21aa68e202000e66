------------------------------- MODULE Queries -------------------------------
(***************************************************************************)
(* A JSON-RPC query against a chain that grows.  The queries only read,    *)
(* and share nothing but the chain: one at a time meets every order of     *)
(* their steps and the chain's.  A gas estimate reads the state of one     *)
(* height throughout, so nothing is lost if the chain waits for it.        *)
(***************************************************************************)
EXTENDS GasEstimation, LogSearch, FeeHistory, Tracing, StateQueries, TxArgs

requests == <<search, history, trace, query, fill>>
vars == <<chainVars, estimateVars, requests>>

Init ==
  /\ ChainInit /\ EstimateInit
  /\ SearchInit /\ HistoryInit /\ TraceInit /\ QueryInit /\ FillInit

Only(others) == others = <<noSearch, noHistory, noTrace, noQuery, noFill>>

Next ==
  \/ /\ stage = "idle"
     /\ ChainNext /\ UNCHANGED <<estimateVars, requests>>
  \/ /\ chain = <<>> /\ Only(requests)
     /\ EstimateNext /\ UNCHANGED <<chainVars, requests>>
  \/ /\ stage = "idle" /\ Only(<<noSearch, history, trace, query, fill>>)
     /\ SearchNext /\ UNCHANGED <<chainVars, estimateVars, history, trace, query, fill>>
  \/ /\ stage = "idle" /\ Only(<<search, noHistory, trace, query, fill>>)
     /\ HistoryNext /\ UNCHANGED <<chainVars, estimateVars, search, trace, query, fill>>
  \/ /\ stage = "idle" /\ Only(<<search, history, noTrace, query, fill>>)
     /\ TraceNext /\ UNCHANGED <<chainVars, estimateVars, search, history, query, fill>>
  \/ /\ stage = "idle" /\ Only(<<search, history, trace, noQuery, fill>>)
     /\ QueryNext /\ UNCHANGED <<chainVars, estimateVars, search, history, trace, fill>>
  \/ /\ stage = "idle" /\ Only(<<search, history, trace, query, noFill>>)
     /\ FillNext /\ UNCHANGED <<chainVars, estimateVars, search, history, trace, query>>

Spec == Init /\ [][Next]_vars

=============================================================================
