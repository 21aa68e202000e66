-------------------------- MODULE StateDBRefinement --------------------------
(***************************************************************************)
(* x/evm/statedb implements the contract of vm.StateDB: StateDB with its   *)
(* journal, its caches and its loops refines EVMState.                     *)
(*                                                                         *)
(* The world of EVMState is what the getters of StateDB answer, except     *)
(* while a loop runs.  RevertToSnapshot takes effect at once: the undoing  *)
(* that follows must lead to the world the snapshot saw.  Commit takes     *)
(* effect when its loop ends.                                              *)
(***************************************************************************)
EXTENDS StateDB

CONSTANT Unwritten

(* The accounts of the EVM; the answer for an absent one is none of them.  *)
evmAccount == [nonce : Nat, balance : Nat, code : CodeHash, suicided : BOOLEAN,
               state : [Key -> Value], committed : [Key -> Value]]
ASSUME EVMAccountAssumption == NoAccount \notin evmAccount

(* An account as the EVM sees it: a code hash is the hash of the code.     *)
EVMAccount(view) ==
  IF view = NoAccount THEN NoAccount
  ELSE [nonce |-> view.nonce, balance |-> view.balance, code |-> view.code,
        suicided |-> view.suicided, state |-> view.state, committed |-> view.committed]

EVMWorld(w) ==
  [accounts |-> [a \in Addr |-> EVMAccount(w.accounts[a])],
   refund |-> w.refund, logs |-> w.logs, warm |-> w.warm]

evmWorld ==
  CASE phase = "reverting" -> EVMWorld(saved[revertTo])
    [] phase \in {"committing", "committed", "failed"} -> EVMWorld(saved[1])
    [] OTHER -> EVMWorld(World)

evmSnapshots ==
  LET valid == CASE phase = "running" -> Len(validRevisions)
                 [] phase = "reverting" -> revertTo - 1
                 [] OTHER -> 0
  IN [i \in 1 .. valid |-> [id |-> validRevisions[i].id, world |-> EVMWorld(saved[i])]]

evmWritten ==
  IF phase # "committed" THEN Unwritten
  ELSE [a \in Addr |-> IF accounts[a] = NoAccount THEN NoAccount ELSE KeeperView(a)]

evm == INSTANCE EVMState
         WITH world <- evmWorld, snapshots <- evmSnapshots, nextID <- nextRevisionID,
              status <- IF phase \in {"running", "reverting"} THEN "open" ELSE phase,
              written <- evmWritten

(* The EVM cannot tell the StateDB from a plain world with copies for      *)
(* snapshots: every call changes what the getters answer as the call says  *)
(* and nothing else, reads change nothing, a revert leads exactly to the   *)
(* copy, no nil is dereferenced, and Commit writes what the getters showed.*)
ImplementsEVMState == evm!Spec

=============================================================================
