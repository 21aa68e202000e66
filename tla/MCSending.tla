------------------------------ MODULE MCSending ------------------------------
(* Sending for TLC.                                                        *)
EXTENDS Sending

Symmetry == Permutations(Account) \cup Permutations(Caller)

=============================================================================
