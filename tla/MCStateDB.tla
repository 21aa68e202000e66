------------------------------ MODULE MCStateDB ------------------------------
(* Instances of StateDB for TLC.                                           *)
EXTENDS EVMGenesis

\* A contract, a user, and a non-Ethereum account of another module.
MCContract == [eth |-> TRUE, nonce |-> 1, balance |-> 1, codeHash |-> "c1"]
MCUser == [eth |-> TRUE, nonce |-> 0, balance |-> 1, codeHash |-> NoCode]
MCModule == [eth |-> FALSE, nonce |-> 0, balance |-> 1, codeHash |-> NoCode]

MCGenesis == {MCContract, MCUser, MCModule}
MCUsers == {MCUser}
=============================================================================
