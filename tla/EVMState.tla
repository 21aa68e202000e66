------------------------------ MODULE EVMState ------------------------------
(***************************************************************************)
(* What the EVM relies on when it drives a state database: the contract of *)
(* the vm.StateDB interface, with neither journal nor caches.  A call acts *)
(* on a plain world of accounts, refund counter, logs and warm addresses   *)
(* and slots.  Snapshot puts a copy of the world on a stack, reverting     *)
(* takes it back, and Commit writes the world out once.                    *)
(*                                                                         *)
(* StateDBRefinement shows that x/evm/statedb implements this.             *)
(***************************************************************************)
EXTENDS Integers, Sequences

CONSTANTS
  Addr, Key, Value, ZeroHash, Code, NoCode, NoAccount,
  Amount, Nonce, Gas, Log,
  Genesis,    \* nonce, balance and code an account may have at the start
  Unwritten   \* nothing was written out yet

VARIABLES
  world,      \* what the getters answer
  snapshots,  \* the valid snapshots: identifier and world
  nextID,     \* the next identifier
  status,     \* "open" until Commit or a panic
  written     \* what Commit wrote: nonce, balance and storage by address

vars == <<world, snapshots, nextID, status, written>>

zeroState == [k \in Key |-> ZeroHash]
emptyAccount == [nonce |-> 0, balance |-> 0, code |-> NoCode, suicided |-> FALSE,
                 state |-> zeroState, committed |-> zeroState]
orNew(a) == IF world.accounts[a] = NoAccount THEN emptyAccount ELSE world.accounts[a]

(* At the start no account is destroyed, and its storage is the committed  *)
(* one; only contracts have any.                                           *)
Initial(acct) ==
  \/ acct = NoAccount
  \/ \E g \in Genesis, s \in [Key -> Value] :
       /\ g.codeHash = NoCode => s = zeroState
       /\ acct = [nonce |-> g.nonce, balance |-> g.balance, code |-> g.codeHash,
                  suicided |-> FALSE, state |-> s, committed |-> s]

Init ==
  /\ \A a \in Addr : Initial(world.accounts[a])
  /\ world = [accounts |-> [a \in Addr |-> world.accounts[a]],
              refund |-> 0, logs |-> << >>, warm |-> {}]
  /\ snapshots = << >> /\ nextID = 0 /\ status = "open" /\ written = Unwritten

-----------------------------------------------------------------------------
Change(w) ==
  /\ status = "open"
  /\ world' = w
  /\ UNCHANGED <<snapshots, nextID, status, written>>

Put(a, acct) == Change([world EXCEPT !.accounts[a] = acct])

(* A new account over an old one keeps the balance.                        *)
CreateAccount(a) ==
  /\ orNew(a).nonce = 0 /\ orNew(a).code = NoCode
  /\ Put(a, [emptyAccount EXCEPT !.balance = orNew(a).balance,
                                 !.state = orNew(a).committed,
                                 !.committed = orNew(a).committed])

AddBalance(a, amount) == Put(a, [orNew(a) EXCEPT !.balance = @ + amount])

SubBalance(a, amount) ==
  amount <= orNew(a).balance /\ Put(a, [orNew(a) EXCEPT !.balance = @ - amount])

SetNonce(a, n) == Put(a, [orNew(a) EXCEPT !.nonce = n])
SetCode(a, c) == Put(a, [orNew(a) EXCEPT !.code = c])
SetState(a, k, v) == Put(a, [orNew(a) EXCEPT !.state[k] = v])

Suicide(a) ==
  /\ world.accounts[a] # NoAccount
  /\ Put(a, [world.accounts[a] EXCEPT !.suicided = TRUE, !.balance = 0])

AddRefund(gas) == Change([world EXCEPT !.refund = @ + gas])
SubRefund(gas) == gas <= world.refund /\ Change([world EXCEPT !.refund = @ - gas])
AddLog(l) == Change([world EXCEPT !.logs = Append(@, l)])
AddAddressToAccessList(a) == Change([world EXCEPT !.warm = @ \cup {<<a>>}])
AddSlotToAccessList(a, k) == Change([world EXCEPT !.warm = @ \cup {<<a>>, <<a, k>>}])

Snapshot ==
  /\ status = "open"
  /\ snapshots' = Append(snapshots, [id |-> nextID, world |-> world])
  /\ nextID' = nextID + 1
  /\ UNCHANGED <<world, status, written>>

(* The snapshot and those taken after it are no longer valid.              *)
RevertToSnapshot(i) ==
  /\ status = "open"
  /\ world' = snapshots[i].world
  /\ snapshots' = SubSeq(snapshots, 1, i - 1)
  /\ UNCHANGED <<nextID, status, written>>

(* More gas is taken back than was refunded, or a snapshot is not valid.   *)
Panic ==
  /\ status = "open"
  /\ \/ \E gas \in Gas : gas > world.refund
     \/ \E id \in 0 .. nextID - 1 : \A i \in DOMAIN snapshots : snapshots[i].id # id
  /\ status' = "panicked" /\ snapshots' = << >>
  /\ UNCHANGED <<world, nextID, written>>

Commit ==
  /\ status = "open"
  /\ status' = "committing" /\ snapshots' = << >>
  /\ UNCHANGED <<world, nextID, written>>

(* Destroyed accounts are gone, the others are as the getters showed them. *)
Write ==
  /\ status = "committing"
  /\ \/ /\ status' = "committed"
        /\ written' = [a \in Addr |->
             LET acct == world.accounts[a]
             IN IF acct = NoAccount THEN NoAccount ELSE IF acct.suicided THEN NoAccount
                ELSE [nonce |-> acct.nonce, balance |-> acct.balance, state |-> acct.state]]
     \/ status' = "failed" /\ UNCHANGED written
  /\ UNCHANGED <<world, snapshots, nextID>>

Next ==
  \/ \E a \in Addr :
       \/ CreateAccount(a) \/ Suicide(a) \/ AddAddressToAccessList(a)
       \/ \E amount \in Amount : AddBalance(a, amount) \/ SubBalance(a, amount)
       \/ \E n \in Nonce : SetNonce(a, n)
       \/ \E c \in Code \cup {NoCode} : SetCode(a, c)
       \/ \E k \in Key : AddSlotToAccessList(a, k) \/ \E v \in Value : SetState(a, k, v)
  \/ \E gas \in Gas : AddRefund(gas) \/ SubRefund(gas)
  \/ \E l \in Log : AddLog(l)
  \/ Snapshot \/ (\E i \in DOMAIN snapshots : RevertToSnapshot(i))
  \/ Panic \/ Commit \/ Write

Spec == Init /\ [][Next]_vars

=============================================================================
