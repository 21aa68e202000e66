----------------------------- MODULE MCFilterAPI -----------------------------
(* FilterAPI for TLC: which subscription is to which topic.                *)
EXTENDS FilterAPI

MCLogs == [s \in Sub |-> "evmEvents"]
MCHeaders == [s \in Sub |-> "headerEvents"]
MCPending == [s \in Sub |-> "txEvents"]

=============================================================================
