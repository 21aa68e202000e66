---------------------------- MODULE MCWebsockets ----------------------------
(* Websockets for TLC: which subscription is to which topic.               *)
EXTENDS Websockets, TLC

MCLogs == [s \in Sub |-> "evmEvents"]
MCHeaders == [s \in Sub |-> "headerEvents"]
Symmetry == Permutations(Conn)

=============================================================================
