------------------------------- MODULE StateDB -------------------------------
(***************************************************************************)
(* The journaled state database of x/evm/statedb: the cache of state       *)
(* objects, the journal with its dirty counts, the refund counter, the     *)
(* logs, the access list, snapshots, and the commit to the keeper.         *)
(*                                                                         *)
(* One transaction drives one StateDB from a single goroutine.  A call of  *)
(* the vm.StateDB interface is one action, except for the two loops:       *)
(* journal.revert undoes one entry per step (phase "reverting") and Commit *)
(* writes one account per step (phase "committing"); nothing else is       *)
(* enabled while a loop runs.                                              *)
(*                                                                         *)
(* A code and its Keccak hash are the same value.  The keeper's bank       *)
(* balance is kept in its account record.                                  *)
(***************************************************************************)
EXTENDS AccessList

CONSTANTS
  Value,        \* storage words
  ZeroHash,     \* the zero word
  NoValue,      \* no entry in a storage map
  Code,         \* contract codes
  NoCode,       \* nil code, and the empty code hash
  NoAccount,    \* a nil account
  NoObject,     \* a nil state object
  Amount,       \* amounts the EVM moves
  Nonce,        \* nonces the EVM sets
  Gas,          \* amounts of refund gas
  Log,          \* log payloads
  Blocked,      \* addresses the bank module may not send to
  Genesis,      \* accounts the keeper may hold at the start
  MaxEntries,   \* bound on the journal
  MaxRevisions  \* bound on the snapshots taken

ASSUME AddrAssumption == Addr \subseteq Nat
ASSUME ValueAssumption == ZeroHash \in Value /\ NoValue \notin Value
ASSUME CodeAssumption == NoCode \notin Code
ASSUME AmountAssumption == Amount \subseteq Nat
ASSUME NonceAssumption == Nonce \subseteq Nat
ASSUME GasAssumption == Gas \subseteq Nat
ASSUME BoundAssumption == MaxEntries \in Nat /\ MaxRevisions \in Nat

CodeHash == Code \cup {NoCode}
Word == Value \cup {NoValue}

Account == [eth : BOOLEAN, nonce : Nat, balance : Nat, codeHash : CodeHash]

stateObject == [nonce : Nat, balance : Nat, codeHash : CodeHash,
                code : CodeHash, origin : [Key -> Word], dirty : [Key -> Word],
                dirtyCode : BOOLEAN, suicided : BOOLEAN]

revision == [id : Nat, journalIndex : Nat]

(* What the getters answer about an account that exists.                   *)
accountView == [nonce : Nat, balance : Nat, codeHash : CodeHash, code : CodeHash,
                suicided : BOOLEAN, state : [Key -> Value], committed : [Key -> Value]]

ASSUME GenesisAssumption ==
  Genesis \subseteq {acct \in Account : ~acct.eth => acct.codeHash = NoCode}
ASSUME AccountAssumption == NoAccount \notin Account \cup accountView
ASSUME ObjectAssumption == NoObject \notin stateObject

VARIABLES
  accounts,        \* keeper: auth account and bank balance of each address
  codes,           \* keeper: the codes stored under their hash
  storage,         \* keeper: storage words of each address
  stateObjects,    \* StateDB.stateObjects
  journal,         \* StateDB.journal: entries and dirties
  refund,          \* StateDB.refund
  logs,            \* StateDB.logs
  accessList,      \* StateDB.accessList
  validRevisions,  \* StateDB.validRevisions
  nextRevisionID,  \* StateDB.nextRevisionID
  phase,           \* what the StateDB is doing
  revertTo,        \* position in validRevisions the revert loop aims at
  pending,         \* dirty addresses the commit loop has yet to write
  saved            \* history: the world seen at each valid revision, and,
                   \* once Commit has begun, the world it was called on

keeperVars == <<accounts, codes, storage>>
revisionVars == <<validRevisions, nextRevisionID, saved>>
loopVars == <<phase, revertTo, pending>>
vars == <<accounts, codes, storage, stateObjects, journal, refund, logs,
          accessList, validRevisions, nextRevisionID, phase, revertTo,
          pending, saved>>

-----------------------------------------------------------------------------
(* Reads.                                                                  *)

newObject(acct) ==
  [nonce |-> acct.nonce, balance |-> acct.balance, codeHash |-> acct.codeHash,
   code |-> NoCode,
   origin |-> [k \in Key |-> NoValue], dirty |-> [k \in Key |-> NoValue],
   dirtyCode |-> FALSE, suicided |-> FALSE]

emptyAccount == [eth |-> TRUE, nonce |-> 0, balance |-> 0, codeHash |-> NoCode]

getStateObject(a) ==
  IF stateObjects[a] # NoObject THEN stateObjects[a]
  ELSE IF accounts[a] # NoAccount THEN newObject(accounts[a])
  ELSE NoObject

(* Keeper.GetState: an absent key reads as the zero word.                  *)
keeperState(a, k) == IF storage[a][k] = NoValue THEN ZeroHash ELSE storage[a][k]

(* Keeper.GetCode: nil when the hash is not in the store.                  *)
keeperCode(h) == IF h \in codes THEN h ELSE NoCode

CodeOf(obj) == IF obj.code # NoCode THEN obj.code ELSE keeperCode(obj.codeHash)

GetCommittedState(a, obj, k) ==
  IF obj.origin[k] # NoValue THEN obj.origin[k] ELSE keeperState(a, k)

GetState(a, obj, k) ==
  IF obj.dirty[k] # NoValue THEN obj.dirty[k] ELSE GetCommittedState(a, obj, k)

(* GetCommittedState leaves the word it read in originStorage; GetState    *)
(* gets there only when the key is not dirty.                              *)
CacheState(a, obj, k) ==
  IF obj.dirty[k] # NoValue THEN obj
  ELSE [obj EXCEPT !.origin[k] = GetCommittedState(a, obj, k)]

(* Everything the getters of vm.StateDB answer about an address.           *)
AccountView(a, obj) ==
  IF obj = NoObject THEN NoAccount
  ELSE [nonce |-> obj.nonce, balance |-> obj.balance, codeHash |-> obj.codeHash,
        code |-> CodeOf(obj), suicided |-> obj.suicided,
        state |-> [k \in Key |-> GetState(a, obj, k)],
        committed |-> [k \in Key |-> GetCommittedState(a, obj, k)]]

World ==
  [accounts |-> [a \in Addr |-> AccountView(a, getStateObject(a))],
   refund   |-> refund, logs |-> logs, warm |-> Warm(accessList)]

-----------------------------------------------------------------------------
(* The journal.                                                            *)

createObjectChange(a) == [op |-> "createObject", addr |-> a]
resetObjectChange(a, obj) == [op |-> "resetObject", addr |-> a, prev |-> obj]
suicideChange(a, obj) ==
  [op |-> "suicide", addr |-> a, prev |-> obj.suicided, prevbalance |-> obj.balance]
balanceChange(a, obj) == [op |-> "balance", addr |-> a, prev |-> obj.balance]
nonceChange(a, obj) == [op |-> "nonce", addr |-> a, prev |-> obj.nonce]
storageChange(a, k, v) == [op |-> "storage", addr |-> a, key |-> k, prevalue |-> v]
codeChange(a, obj) ==
  [op |-> "code", addr |-> a, prevcode |-> CodeOf(obj), prevhash |-> obj.codeHash]
refundChange(r) == [op |-> "refund", prev |-> r]
addLogChange == [op |-> "addLog"]
accessListAddAccountChange(a) == [op |-> "accessListAddAccount", addr |-> a]
accessListAddSlotChange(a, k) == [op |-> "accessListAddSlot", addr |-> a, slot |-> k]

JournalEntry ==
  [op : {"createObject"}, addr : Addr]
    \cup [op : {"resetObject"}, addr : Addr, prev : stateObject]
    \cup [op : {"suicide"}, addr : Addr, prev : BOOLEAN, prevbalance : Nat]
    \cup [op : {"balance"}, addr : Addr, prev : Nat]
    \cup [op : {"nonce"}, addr : Addr, prev : Nat]
    \cup [op : {"storage"}, addr : Addr, key : Key, prevalue : Value]
    \cup [op : {"code"}, addr : Addr, prevcode : CodeHash, prevhash : CodeHash]
    \cup [op : {"refund"}, prev : Nat]
    \cup [op : {"addLog"}]
    \cup [op : {"accessListAddAccount"}, addr : Addr]
    \cup [op : {"accessListAddSlot"}, addr : Addr, slot : Key]

(* dirtied: whether the entry counts towards dirties[entry.addr].          *)
Dirties(entry) ==
  entry.op \in {"createObject", "suicide", "balance", "nonce", "storage", "code"}

(* Faulty variant: marks the address instead of counting its changes.      *)
append_marks(j, entry) ==
  [entries |-> Append(j.entries, entry),
   dirties |-> IF Dirties(entry) THEN [j.dirties EXCEPT ![entry.addr] = 1]
               ELSE j.dirties]

(* journal.append                                                          *)
append(j, entry) ==
  [entries |-> Append(j.entries, entry),
   dirties |-> IF Dirties(entry) THEN [j.dirties EXCEPT ![entry.addr] = @ + 1]
               ELSE j.dirties]

(* The journal once the loop of journal.revert has undone its last entry.  *)
pop(j) ==
  LET entry == j.entries[Len(j.entries)]
  IN  [entries |-> SubSeq(j.entries, 1, Len(j.entries) - 1),
       dirties |-> IF Dirties(entry) THEN [j.dirties EXCEPT ![entry.addr] = @ - 1]
                   ELSE j.dirties]

dirtyAddrs == {a \in Addr : journal.dirties[a] > 0}

Room == Len(journal.entries) + 2 <= MaxEntries
-----------------------------------------------------------------------------
Init ==
  /\ accounts \in [Addr -> Genesis \cup {NoAccount}]
  /\ codes = {accounts[a].codeHash : a \in {x \in Addr : accounts[x] # NoAccount}} \ {NoCode}
  /\ storage \in [Addr -> [Key -> Word]]
  /\ \A a \in Addr :   \* only a contract has storage
       (accounts[a] = NoAccount \/ accounts[a].codeHash = NoCode)
         => storage[a] = [k \in Key |-> NoValue]
  /\ stateObjects = [a \in Addr |-> NoObject]
  /\ journal = [entries |-> << >>, dirties |-> [a \in Addr |-> 0]]
  /\ refund = 0
  /\ logs = << >>
  /\ accessList = newAccessList
  /\ validRevisions = << >>
  /\ nextRevisionID = 0
  /\ phase = "running"
  /\ revertTo = 0
  /\ pending = {}
  /\ saved = << >>

(* Store obj under a, with journal j.                                      *)
SetObject(a, obj, j) ==
  /\ stateObjects' = [stateObjects EXCEPT ![a] = obj]
  /\ journal' = j
  /\ UNCHANGED <<keeperVars, refund, logs, accessList, revisionVars, loopVars>>

(* A read of an account loads it into the live set.                        *)
ReadAccount(a) ==
  /\ phase = "running"
  /\ getStateObject(a) # NoObject
  /\ SetObject(a, getStateObject(a), journal)

ReadCode(a) ==
  /\ phase = "running"
  /\ getStateObject(a) # NoObject
  /\ LET obj == getStateObject(a)
     IN  SetObject(a, [obj EXCEPT !.code = CodeOf(obj)], journal)

ReadState(a, k) ==
  /\ phase = "running"
  /\ getStateObject(a) # NoObject
  /\ SetObject(a, CacheState(a, getStateObject(a), k), journal)

ReadCommittedState(a, k) ==
  /\ phase = "running"
  /\ getStateObject(a) # NoObject
  /\ LET obj == getStateObject(a)
     IN  SetObject(a, [obj EXCEPT !.origin[k] = GetCommittedState(a, obj, k)], journal)

(* getOrNewStateObject: the object, and the journal after createObject.    *)
orNewObject(a) ==
  IF getStateObject(a) = NoObject THEN newObject(emptyAccount) ELSE getStateObject(a)
orNewJournal(a) ==
  IF getStateObject(a) = NoObject THEN append(journal, createObjectChange(a)) ELSE journal

(* The EVM calls CreateAccount for an address it found absent, or without  *)
(* nonce and code (the collision check of its create).                     *)
Creatable(obj) == obj # NoObject => obj.nonce = 0 /\ obj.codeHash = NoCode

CreateAccount_poor(a) ==   \* faulty variant: the balance is not carried over
  /\ phase = "running"
  /\ Room
  /\ Creatable(getStateObject(a))
  /\ LET prev == getStateObject(a)
     IN  SetObject(a, newObject(emptyAccount),
                   append(journal, IF prev = NoObject THEN createObjectChange(a)
                                   ELSE resetObjectChange(a, prev)))

CreateAccount(a) ==
  /\ phase = "running"
  /\ Room
  /\ Creatable(getStateObject(a))
  /\ LET prev == getStateObject(a)
     IN  IF prev = NoObject
         THEN SetObject(a, newObject(emptyAccount), append(journal, createObjectChange(a)))
         ELSE SetObject(a, [newObject(emptyAccount) EXCEPT !.balance = prev.balance],
                        append(journal, resetObjectChange(a, prev)))

SetBalance(a, obj, b) ==
  SetObject(a, [obj EXCEPT !.balance = b], append(orNewJournal(a), balanceChange(a, obj)))

AddBalance(a, amount) ==
  /\ phase = "running"
  /\ Room
  /\ LET obj == orNewObject(a)
     IN  IF amount = 0 THEN SetObject(a, obj, orNewJournal(a))
         ELSE SetBalance(a, obj, obj.balance + amount)

(* The EVM subtracts only what CanTransfer found in the balance.           *)
SubBalance(a, amount) ==
  /\ phase = "running"
  /\ Room
  /\ LET obj == orNewObject(a)
     IN  /\ amount <= obj.balance
         /\ IF amount = 0 THEN SetObject(a, obj, orNewJournal(a))
            ELSE SetBalance(a, obj, obj.balance - amount)

SetNonce(a, n) ==
  /\ phase = "running"
  /\ Room
  /\ LET obj == orNewObject(a)
     IN  SetObject(a, [obj EXCEPT !.nonce = n], append(orNewJournal(a), nonceChange(a, obj)))

(* Faulty variant: does not mark the code dirty.                           *)
SetCode_clean(a, c) ==
  /\ phase = "running"
  /\ Room
  /\ LET obj == orNewObject(a)
     IN  SetObject(a, [obj EXCEPT !.code = c, !.codeHash = c],
                   append(orNewJournal(a), codeChange(a, obj)))

SetCode(a, c) ==
  /\ phase = "running"
  /\ Room
  /\ LET obj == orNewObject(a)
     IN  SetObject(a, [obj EXCEPT !.code = c, !.codeHash = c, !.dirtyCode = TRUE],
                   append(orNewJournal(a), codeChange(a, obj)))

SetState(a, k, v) ==
  /\ phase = "running"
  /\ Room
  /\ LET obj == CacheState(a, orNewObject(a), k)
         prev == GetState(a, obj, k)
     IN  IF prev = v THEN SetObject(a, obj, orNewJournal(a))
         ELSE SetObject(a, [obj EXCEPT !.dirty[k] = v],
                        append(orNewJournal(a), storageChange(a, k, prev)))

Suicide(a) ==
  /\ phase = "running"
  /\ Room
  /\ getStateObject(a) # NoObject
  /\ LET obj == getStateObject(a)
     IN  SetObject(a, [obj EXCEPT !.suicided = TRUE, !.balance = 0],
                   append(journal, suicideChange(a, obj)))

AddRefund(gas) ==
  /\ phase = "running"
  /\ Room
  /\ refund' = refund + gas
  /\ journal' = append(journal, refundChange(refund))
  /\ UNCHANGED <<keeperVars, stateObjects, logs, accessList, revisionVars, loopVars>>

(* Faulty variant: journals the value after the change.                    *)
SubRefund_late(gas) ==
  /\ phase = "running"
  /\ Room
  /\ gas <= refund
  /\ refund' = refund - gas
  /\ journal' = append(journal, refundChange(refund'))
  /\ UNCHANGED <<keeperVars, stateObjects, logs, accessList, revisionVars, loopVars>>

(* The entry is journaled before the check that may panic.                 *)
SubRefund(gas) ==
  /\ phase = "running"
  /\ Room
  /\ journal' = append(journal, refundChange(refund))
  /\ IF gas > refund
     THEN phase' = "panicked" /\ UNCHANGED refund
     ELSE refund' = refund - gas /\ UNCHANGED phase
  /\ UNCHANGED <<keeperVars, stateObjects, logs, accessList, revisionVars, revertTo, pending>>

AddLog(l) ==
  /\ phase = "running"
  /\ Room
  /\ logs' = Append(logs, l)
  /\ journal' = append(journal, addLogChange)
  /\ UNCHANGED <<keeperVars, stateObjects, refund, accessList, revisionVars, loopVars>>

AddAddressToAccessList(a) ==
  /\ phase = "running"
  /\ Room
  /\ accessList' = AddAddress(accessList, a)
  /\ journal' = IF ContainsAddress(accessList, a) THEN journal
                ELSE append(journal, accessListAddAccountChange(a))
  /\ UNCHANGED <<keeperVars, stateObjects, refund, logs, revisionVars, loopVars>>

(* Faulty variant: journals the slot before its address.                   *)
AddSlotToAccessList_swapped(a, k) ==
  /\ phase = "running"
  /\ Room
  /\ accessList' = AddSlot(accessList, a, k)
  /\ LET j == IF Contains(accessList, a, k) THEN journal
              ELSE append(journal, accessListAddSlotChange(a, k))
     IN  journal' = IF ContainsAddress(accessList, a) THEN j
                    ELSE append(j, accessListAddAccountChange(a))
  /\ UNCHANGED <<keeperVars, stateObjects, refund, logs, revisionVars, loopVars>>

AddSlotToAccessList(a, k) ==
  /\ phase = "running"
  /\ Room
  /\ accessList' = AddSlot(accessList, a, k)
  /\ LET j == IF ContainsAddress(accessList, a) THEN journal
              ELSE append(journal, accessListAddAccountChange(a))
     IN  journal' = IF Contains(accessList, a, k) THEN j
                    ELSE append(j, accessListAddSlotChange(a, k))
  /\ UNCHANGED <<keeperVars, stateObjects, refund, logs, revisionVars, loopVars>>

-----------------------------------------------------------------------------
(* Snapshots.                                                              *)

Snapshot ==
  /\ phase = "running"
  /\ nextRevisionID < MaxRevisions
  /\ nextRevisionID' = nextRevisionID + 1
  /\ validRevisions' = Append(validRevisions,
                        [id |-> nextRevisionID, journalIndex |-> Len(journal.entries)])
  /\ saved' = Append(saved, World)
  /\ UNCHANGED <<keeperVars, stateObjects, journal, refund, logs, accessList, loopVars>>

(* sort.Search: a position before which every id is smaller than revid,    *)
(* and whose own id, if there is one, is not.                              *)
SearchesTo(revid, idx) ==
  /\ \A i \in 1 .. idx - 1 : validRevisions[i].id < revid
  /\ idx <= Len(validRevisions) => validRevisions[idx].id >= revid

RevertToSnapshot(revid) ==
  /\ phase = "running"
  /\ \E idx \in 1 .. Len(validRevisions) + 1 :
       /\ SearchesTo(revid, idx)
       /\ IF idx = Len(validRevisions) + 1 \/ validRevisions[idx].id # revid
          THEN phase' = "panicked" /\ UNCHANGED revertTo
          ELSE phase' = "reverting" /\ revertTo' = idx
  /\ UNCHANGED <<keeperVars, stateObjects, journal, refund, logs, accessList,
                 revisionVars, pending>>

(* journalEntry.revert, on the state object of the entry.                  *)
UndoObject(entry, obj) ==
  CASE entry.op = "suicide" -> [obj EXCEPT !.suicided = entry.prev, !.balance = entry.prevbalance]
    [] entry.op = "balance" -> [obj EXCEPT !.balance = entry.prev]
    [] entry.op = "nonce" -> [obj EXCEPT !.nonce = entry.prev]
    [] entry.op = "code" -> [obj EXCEPT !.code = entry.prevcode, !.codeHash = entry.prevhash,
                                        !.dirtyCode = TRUE]
    [] entry.op = "storage" -> [obj EXCEPT !.dirty[entry.key] = entry.prevalue]

UndoObjects(entry) ==
  CASE entry.op = "createObject" -> [stateObjects EXCEPT ![entry.addr] = NoObject]
    [] entry.op = "resetObject" -> [stateObjects EXCEPT ![entry.addr] = entry.prev]
    [] entry.op \in {"suicide", "balance", "nonce", "code", "storage"} ->
         [stateObjects EXCEPT ![entry.addr] = UndoObject(entry, getStateObject(entry.addr))]
    [] OTHER -> stateObjects

UndoAccessList(entry) ==
  CASE entry.op = "accessListAddAccount" -> DeleteAddress(accessList, entry.addr)
    [] entry.op = "accessListAddSlot" -> DeleteSlot(accessList, entry.addr, entry.slot)
    [] OTHER -> accessList

(* A revert of an entry dereferences the object of its account, and        *)
(* DeleteSlot indexes the slot sets.  suicideChange.revert checks for nil. *)
UndoFaults(entry) ==
  \/ /\ entry.op \in {"balance", "nonce", "code", "storage"}
     /\ getStateObject(entry.addr) = NoObject
  \/ entry.op = "accessListAddSlot" /\ DeleteSlotFaults(accessList, entry.addr)
  \/ entry.op = "addLog" /\ logs = << >>

lastEntry == journal.entries[Len(journal.entries)]

(* One turn of the loop of journal.revert.                                 *)
RevertEntry ==
  /\ phase = "reverting"
  /\ Len(journal.entries) > validRevisions[revertTo].journalIndex
  /\ IF UndoFaults(lastEntry)
     THEN /\ phase' = "fault"
          /\ UNCHANGED <<stateObjects, journal, refund, logs, accessList>>
     ELSE /\ stateObjects' =
               IF lastEntry.op = "suicide" /\ getStateObject(lastEntry.addr) = NoObject
               THEN stateObjects ELSE UndoObjects(lastEntry)
          /\ journal' = pop(journal)
          /\ refund' = IF lastEntry.op = "refund" THEN lastEntry.prev ELSE refund
          /\ logs' = IF lastEntry.op = "addLog" THEN SubSeq(logs, 1, Len(logs) - 1) ELSE logs
          /\ accessList' = UndoAccessList(lastEntry)
          /\ UNCHANGED phase
  /\ UNCHANGED <<keeperVars, revisionVars, revertTo, pending>>

RevertDone ==
  /\ phase = "reverting"
  /\ Len(journal.entries) <= validRevisions[revertTo].journalIndex
  /\ phase' = "running"
  /\ validRevisions' = SubSeq(validRevisions, 1, revertTo - 1)
  /\ saved' = SubSeq(saved, 1, revertTo - 1)
  /\ revertTo' = 0
  /\ UNCHANGED <<keeperVars, stateObjects, journal, refund, logs, accessList,
                 nextRevisionID, pending>>
-----------------------------------------------------------------------------
(* Commit.                                                                 *)

Commit ==
  /\ phase = "running"
  /\ phase' = "committing"
  /\ pending' = dirtyAddrs
  /\ saved' = <<World>>
  /\ UNCHANGED <<keeperVars, stateObjects, journal, refund, logs, accessList,
                 validRevisions, nextRevisionID, revertTo>>

(* Faulty variant: clears the balance and leaves the account behind.       *)
DeleteAccount_keepsAccount(a) ==
  IF accounts[a] = NoAccount THEN UNCHANGED <<keeperVars, phase>>
  ELSE /\ codes' = codes \ {accounts[a].codeHash}
       /\ storage' = [storage EXCEPT ![a] = [k \in Key |-> NoValue]]
       /\ accounts' = [accounts EXCEPT ![a].balance = 0]
       /\ UNCHANGED phase

(* Keeper.DeleteAccount: clear the balance, the code stored under the      *)
(* account's hash and the storage, and remove the auth account.            *)
DeleteAccount(a) ==
  CASE accounts[a] = NoAccount ->
         UNCHANGED <<keeperVars, phase>>
    [] accounts[a] # NoAccount /\ ~accounts[a].eth ->
         phase' = "failed" /\ UNCHANGED keeperVars
    [] OTHER ->
         /\ codes' = codes \ {accounts[a].codeHash}
         /\ storage' = [storage EXCEPT ![a] = [k \in Key |-> NoValue]]
         /\ accounts' = [accounts EXCEPT ![a] = NoAccount]
         /\ UNCHANGED phase

(* Keeper.SetAccount before its call of SetBalance: only an EthAccount     *)
(* has a code hash, and NewAccountWithAddress makes one.                   *)
SetSequenceAndCodeHash(acct, obj) ==
  [eth      |-> acct.eth, nonce |-> obj.nonce, balance |-> acct.balance,
   codeHash |-> IF acct.eth THEN obj.codeHash ELSE acct.codeHash]

(* Keeper.SetBalance mints the difference and sends it to the account,     *)
(* which the bank module refuses for a blocked address.                    *)
SetBalanceFails(a, acct, obj) == obj.balance > acct.balance /\ a \in Blocked

(* Commit skips a dirty word equal to the cached committed one; a missing  *)
(* cache entry reads as the zero word.                                     *)
OriginWord(obj, k) == IF obj.origin[k] = NoValue THEN ZeroHash ELSE obj.origin[k]

WriteObject(a, obj) ==
  LET acct == IF accounts[a] = NoAccount THEN emptyAccount ELSE accounts[a]
      written == SetSequenceAndCodeHash(acct, obj)
  IN  /\ codes' = IF obj.code # NoCode /\ obj.dirtyCode THEN codes \cup {obj.codeHash} ELSE codes
      /\ IF SetBalanceFails(a, acct, obj)
         THEN /\ accounts' = [accounts EXCEPT ![a] = written]
              /\ phase' = "failed"
              /\ UNCHANGED storage
         ELSE /\ accounts' = [accounts EXCEPT ![a] = [written EXCEPT !.balance = obj.balance]]
              /\ storage' = [storage EXCEPT ![a] = [k \in Key |->
                              IF obj.dirty[k] \in {NoValue, OriginWord(obj, k)}
                              THEN storage[a][k] ELSE obj.dirty[k]]]
              /\ UNCHANGED phase

(* One turn of the loop of Commit, over the dirty addresses in order.      *)
CommitAccount(a) ==
  /\ phase = "committing"
  /\ a \in pending
  /\ \A b \in pending : a <= b
  /\ pending' = pending \ {a}
  /\ LET obj == stateObjects[a]
     IN  CASE obj = NoObject -> phase' = "fault" /\ UNCHANGED keeperVars
           [] obj # NoObject /\ obj.suicided -> DeleteAccount(a)
           [] OTHER -> WriteObject(a, obj)
  /\ UNCHANGED <<stateObjects, journal, refund, logs, accessList, revisionVars, revertTo>>

CommitDone ==
  /\ phase = "committing"
  /\ pending = {}
  /\ phase' = "committed"
  /\ UNCHANGED <<keeperVars, stateObjects, journal, refund, logs, accessList,
                 revisionVars, revertTo, pending>>

-----------------------------------------------------------------------------
AccountStep(a) ==
  \/ ReadAccount(a)
  \/ ReadCode(a)
  \/ \E k \in Key : ReadState(a, k) \/ ReadCommittedState(a, k)
  \/ CreateAccount(a)
  \/ \E amount \in Amount : AddBalance(a, amount) \/ SubBalance(a, amount)
  \/ \E n \in Nonce : SetNonce(a, n)
  \/ \E c \in CodeHash : SetCode(a, c)
  \/ \E k \in Key, v \in Value : SetState(a, k, v)
  \/ Suicide(a)

OtherStep ==
  \/ \E gas \in Gas : AddRefund(gas) \/ SubRefund(gas)
  \/ \E l \in Log : AddLog(l)
  \/ \E a \in Addr : AddAddressToAccessList(a)
  \/ \E a \in Addr, k \in Key : AddSlotToAccessList(a, k)

LoopStep ==
  \/ Snapshot
  \/ \E id \in 0 .. nextRevisionID - 1 : RevertToSnapshot(id)
  \/ RevertEntry
  \/ RevertDone
  \/ Commit
  \/ \E a \in Addr : CommitAccount(a)
  \/ CommitDone

Next == (\E a \in Addr : AccountStep(a)) \/ OtherStep \/ LoopStep

Spec == Init /\ [][Next]_vars

-----------------------------------------------------------------------------
(* Properties.                                                             *)

Phases == {"running", "reverting", "committing", "committed", "failed", "panicked", "fault"}

(* Every variable of the StateDB and of the keeper has its Go type, and    *)
(* the revert loop aims at an existing revision.                           *)
TypeOK ==
  /\ accounts \in [Addr -> Account \cup {NoAccount}]
  /\ codes \subseteq Code
  /\ storage \in [Addr -> [Key -> Word]]
  /\ stateObjects \in [Addr -> stateObject \cup {NoObject}]
  /\ journal \in [entries : Seq(JournalEntry), dirties : [Addr -> Int]]
  /\ refund \in Nat
  /\ logs \in Seq(Log)
  /\ accessList \in AccessLists
  /\ validRevisions \in Seq(revision)
  /\ nextRevisionID \in Nat
  /\ phase \in Phases
  /\ revertTo \in 0 .. Len(validRevisions)
  /\ pending \subseteq Addr

(* RevertToSnapshot restores everything the getters of vm.StateDB answered *)
(* when Snapshot was called: accounts, storage, code, suicides, refund,    *)
(* logs and access list, whatever calls came in between.                   *)
RevertRestoresWorld ==
  [][phase = "reverting" /\ phase' = "running" => World' = saved[revertTo]]_vars

(* Reverting a journal entry never dereferences a nil state object or      *)
(* indexes the slot sets out of range, and Commit finds an object for      *)
(* every dirty address.                                                    *)
NoFault == phase # "fault"

(* journal.dirties[a] is the number of entries that dirty a, so that       *)
(* journal.revert forgets an address exactly when its last change is gone. *)
DirtiesCountEntries ==
  \A a \in Addr : journal.dirties[a] =
     Cardinality({i \in 1 .. Len(journal.entries) :
                   Dirties(journal.entries[i]) /\ journal.entries[i].addr = a})

(* The revision stack is sorted by id, which the binary search of          *)
(* RevertToSnapshot needs, and nested in the journal: a later revision     *)
(* never points before an earlier one or past the end.                     *)
RevisionsNested ==
  /\ \A i \in 1 .. Len(validRevisions) :
       /\ validRevisions[i].id < nextRevisionID
       /\ (phase # "reverting" \/ i <= revertTo)
             => validRevisions[i].journalIndex <= Len(journal.entries)
  /\ \A i, j \in 1 .. Len(validRevisions) : i < j =>
       /\ validRevisions[i].id < validRevisions[j].id
       /\ validRevisions[i].journalIndex <= validRevisions[j].journalIndex

(* The journal agrees with what is derived from it: the dirty counts that  *)
(* tell Commit where to write, and the revisions that tell                 *)
(* RevertToSnapshot where to stop.                                         *)
JournalConsistent == DirtiesCountEntries /\ RevisionsNested

(* The access list's index is a bijection between the addresses that have  *)
(* slots and the slot sets, none of which is empty: the claim of           *)
(* DeleteSlot that truncating the slice never disturbs another address.    *)
AccessListIndexed == Indexed(accessList)

(* What a later transaction reads about a from the keeper.                 *)
KeeperView(a) ==
  [nonce |-> accounts[a].nonce, balance |-> accounts[a].balance,
   state |-> [k \in Key |-> keeperState(a, k)]]

(* After Commit the keeper holds the nonce, balance and storage that the   *)
(* StateDB answered when Commit was called; a suicided account is gone     *)
(* with its storage.  This includes an account that CreateAccount          *)
(* overwrote, though resetObjectChange itself dirties no address.          *)
CommitWritesWorld ==
  phase = "committed" =>
    \A a \in Addr :
      LET seen == saved[1].accounts[a]
      IN  IF seen = NoAccount \/ seen.suicided
          THEN accounts[a] = NoAccount /\ \A k \in Key : storage[a][k] = NoValue
          ELSE /\ accounts[a] # NoAccount
               /\ KeeperView(a) = [nonce |-> seen.nonce, balance |-> seen.balance,
                                   state |-> seen.state]

(* After Commit the keeper answers with the code the StateDB showed, for   *)
(* every EthAccount that shares its code with no suicided account.         *)
CommitWritesCode ==
  phase = "committed" =>
    \A a \in Addr :
      LET seen == saved[1].accounts[a]
      IN  (/\ seen # NoAccount /\ ~seen.suicided /\ accounts[a].eth
           /\ \A b \in Addr : saved[1].accounts[b] # NoAccount =>
                 ~saved[1].accounts[b].suicided)
          => accounts[a].codeHash = seen.codeHash /\ keeperCode(accounts[a].codeHash) = seen.code

(* "Commit writes the dirty states to keeper": the code the keeper returns *)
(* for an address that nothing dirtied is what it was before.              *)
CommitKeepsCodeOfOthers ==
  phase = "committed" =>
    \A a \in Addr : journal.dirties[a] = 0 /\ saved[1].accounts[a] # NoAccount =>
      keeperCode(accounts[a].codeHash) = saved[1].accounts[a].code

=============================================================================
