-------------------------- MODULE StateDBStepProofs --------------------------
(***************************************************************************)
(* What every step of StateDB keeps, for every value of the constants.     *)
(*                                                                         *)
(* SafeInv: the chain of shadows leads back to the world of every          *)
(* snapshot, and an entry that dirties an address is about an object that  *)
(* is live, so Commit finds it.  That an address is dirty only through an  *)
(* entry (DirtyByEntry) is a matter of counting, which StateDBTheorems     *)
(* adds.                                                                   *)
(*                                                                         *)
(* Committable: Commit writes the world that the StateDB showed.  It       *)
(* visits only the addresses with dirty counts and skips the words that    *)
(* equal the cached committed ones.  Three facts make that enough.  An     *)
(* address without an entry that dirties it looks as the keeper has it, at *)
(* every point the journal can be undone to (CleanChain).  A cached        *)
(* committed word is the keeper's word (Coherent).  A dirty word always    *)
(* has its committed word in the cache, also after undoing has put an      *)
(* older dirty word or an older object back (CacheChain).                  *)
(***************************************************************************)
EXTENDS StateDBProofs

(* Zenon is tried first, the SMT solver on what it leaves, then both again *)
(* with more time.                                                         *)
USE ZenonT(5), SMTT(20), Z3T(20), ZenonT(30), SMTT(30)

-----------------------------------------------------------------------------
(* Dirty addresses.                                                        *)

(* A dirty address has a live object.                                      *)
DirtyLive ==
  \A i \in 1 .. Len(journal.entries) :
    Dirties(journal.entries[i]) => stateObjects[journal.entries[i].addr] # NoObject

(* An entry is appended for an address that is live after the call.        *)
Appends(j, j2) ==
  \/ j2 = j
  \/ \E e \in Entry : /\ j2 = append(j, e)
                      /\ Dirties(e) => stateObjects'[e.addr] # NoObject

CallAppends ==
  /\ \E j : Appends(journal, j) /\ Appends(j, journal')
  /\ \A a \in Addr : stateObjects[a] # NoObject => stateObjects'[a] # NoObject

LiveAfter(j) ==
  \A i \in 1 .. Len(j.entries) : Dirties(j.entries[i]) => stateObjects'[j.entries[i].addr] # NoObject

(* Entries are appended about live objects.                                *)
LEMMA AppendsKeeps ==
  ASSUME NEW j \in Journals, NEW j2, Appends(j, j2), LiveAfter(j)
  PROVE  j2 \in Journals /\ LiveAfter(j2)
<1>1. CASE j2 = j
  BY <1>1
<1>2. ASSUME NEW e \in Entry, j2 = append(j, e), Dirties(e) => stateObjects'[e.addr] # NoObject
      PROVE  j2 \in Journals /\ LiveAfter(j2)
  <2>1. j2 \in Journals
    BY <1>2, AppendType
  <2>2. PICK n \in Nat : n = Len(j.entries)
    BY DEF Journals
  <2>3. j2.entries = Append(j.entries, e) /\ j.entries \in Seq(Entry)
    BY <1>2 DEF append, Journals
  <2>4. Len(j2.entries) = n + 1 /\ j2.entries[n + 1] = e
        /\ \A i \in 1 .. n : j2.entries[i] = j.entries[i]
    BY <2>2, <2>3
  <2>5. \A i \in 1 .. n + 1 : i \in 1 .. n \/ i = n + 1
    BY <2>2
  <2>6. LiveAfter(j2)
    BY <1>2, <2>2, <2>4, <2>5 DEF LiveAfter
  <2> QED BY <2>1, <2>6
<1> QED BY <1>1, <1>2 DEF Appends

(* A call leaves dirty addresses live.                                     *)
LEMMA CallKeepsDirty ==
  ASSUME TypeInv, DirtyLive, CallAppends
  PROVE  DirtyLive'
<1>1. PICK j : Appends(journal, j) /\ Appends(j, journal')
  BY DEF CallAppends
<1>2. journal \in Journals
  BY JournalType
<1>3. LiveAfter(journal)
  <2> SUFFICES ASSUME NEW i \in 1 .. Len(journal.entries), Dirties(journal.entries[i])
               PROVE  stateObjects'[journal.entries[i].addr] # NoObject
    BY DEF LiveAfter
  <2>1. journal.entries[i] \in JournalEntry
    BY <1>2, EntrySubset DEF Journals
  <2>2. journal.entries[i].addr \in Addr
    BY <2>1, DirtiedAddr
  <2> QED BY <2>2 DEF DirtyLive, CallAppends
<1>4. j \in Journals /\ LiveAfter(j)
  BY <1>1, <1>2, <1>3, AppendsKeeps
<1>5. LiveAfter(journal')
  BY <1>1, <1>4, AppendsKeeps
<1> QED BY <1>5 DEF DirtyLive, LiveAfter

(* Storing an object appends for its own address only.                     *)
LEMMA SetObjectLive ==
  ASSUME TypeInv, NEW a \in Addr, NEW obj \in Object, NEW j, SetObject(a, obj, j)
  PROVE  /\ stateObjects'[a] # NoObject
         /\ \A b \in Addr : stateObjects[b] # NoObject => stateObjects'[b] # NoObject
         /\ journal' = j
BY ObjectAssumption DEF SetObject, TypeInv, Object

(* A journaled setter appends at most a creation and its entry.            *)
LEMMA SetterAppends ==
  ASSUME TypeInv, NEW a \in Addr, NEW obj \in Object, NEW e \in Entry, Dirties(e) => e.addr = a,
         \/ SetObject(a, obj, append(orNewJournal(a), e))
         \/ SetObject(a, obj, append(journal, e))
         \/ SetObject(a, obj, orNewJournal(a))
         \/ SetObject(a, obj, journal)
  PROVE  CallAppends
<1>1. /\ stateObjects'[a] # NoObject
      /\ \A b \in Addr : stateObjects[b] # NoObject => stateObjects'[b] # NoObject
  BY SetObjectLive
<1>2. createObjectChange(a) \in Entry /\ createObjectChange(a).addr = a
  BY EntryTypes, NewObjectType, EmptyAccountType DEF createObjectChange
<1>3. Appends(journal, orNewJournal(a)) /\ Appends(journal, journal)
  BY <1>1, <1>2 DEF Appends, orNewJournal
<1>4. \A j : Appends(j, j) /\ Appends(j, append(j, e))
  BY <1>1 DEF Appends
<1>5. journal' \in {append(orNewJournal(a), e), append(journal, e), orNewJournal(a), journal}
  BY SetObjectLive
<1> QED BY <1>1, <1>3, <1>4, <1>5 DEF CallAppends

(* Operations on an account only append to the journal.                    *)
LEMMA AccountStepAppends ==
  ASSUME TypeInv, NEW a \in Addr, AccountStep(a)
  PROVE  CallAppends
<1> DEFINE obj == orNewObject(a)
           cur == getStateObject(a)
           any == createObjectChange(a)
<1>1. obj \in Object /\ cur \in Object \cup {NoObject}
  BY GetObjectType
<1>2. any \in Entry /\ any.addr = a
  BY <1>1, EntryTypes DEF createObjectChange
<1>3. ASSUME NEW o \in Object, SetObject(a, o, journal) \/ SetObject(a, o, orNewJournal(a))
      PROVE  CallAppends
  <2> HIDE DEF any
  <2> QED BY <1>2, <1>3, SetterAppends
<1>4. CASE ReadAccount(a)
  BY <1>1, <1>3, <1>4 DEF ReadAccount
<1>5. CASE ReadCode(a)
  BY <1>1, <1>3, <1>5, CacheCodeType DEF ReadCode
<1>6. ASSUME NEW k \in Key, ReadState(a, k) PROVE CallAppends
  BY <1>1, <1>3, <1>6, ReadTypes, ZenonT(30) DEF ReadState
<1>7. ASSUME NEW k \in Key, ReadCommittedState(a, k) PROVE CallAppends
  BY <1>1, <1>3, <1>7, ReadTypes DEF ReadCommittedState
<1>8. CASE CreateAccount(a)
  <2>1. newObject(emptyAccount) \in Object
    BY NewObjectType, EmptyAccountType
  <2>2. CASE cur = NoObject
    BY <1>2, <1>8, <2>1, <2>2, SetterAppends DEF CreateAccount
  <2>3. CASE cur # NoObject
    <3>1. [newObject(emptyAccount) EXCEPT !.balance = cur.balance] \in Object
      BY <1>1, <2>1, <2>3 DEF Object, stateObject, CachedCode
    <3>2. resetObjectChange(a, cur) \in Entry /\ resetObjectChange(a, cur).addr = a
      BY <1>1, <2>3, EntryTypes DEF resetObjectChange
    <3> QED BY <1>8, <2>3, <3>1, <3>2, SetterAppends DEF CreateAccount
  <2> QED BY <2>2, <2>3
<1>9. ASSUME NEW b \in Nat, SetBalance(a, obj, b) PROVE CallAppends
  <2>1. [obj EXCEPT !.balance = b] \in Object
    BY <1>1, BalanceJournaled
  <2>2. balanceChange(a, obj) \in Entry /\ balanceChange(a, obj).addr = a
    BY <1>1, EntryTypes DEF balanceChange
  <2> QED BY <1>9, <2>1, <2>2, SetterAppends DEF SetBalance
<1>10. ASSUME NEW amount \in Amount, AddBalance(a, amount) PROVE CallAppends
  <2>1. obj.balance + amount \in Nat
    BY <1>1, AmountAssumption DEF Object, stateObject
  <2> QED BY <1>1, <1>3, <1>9, <1>10, <2>1 DEF AddBalance
<1>11. ASSUME NEW amount \in Amount, SubBalance(a, amount) PROVE CallAppends
  <2>1. obj.balance - amount \in Nat
    BY <1>1, <1>11, AmountAssumption DEF Object, stateObject, SubBalance
  <2> QED BY <1>1, <1>3, <1>9, <1>11, <2>1 DEF SubBalance
<1>12. ASSUME NEW n \in Nonce, SetNonce(a, n) PROVE CallAppends
  <2>1. [obj EXCEPT !.nonce = n] \in Object
    BY <1>1, NonceAssumption, NonceJournaled
  <2>2. nonceChange(a, obj) \in Entry /\ nonceChange(a, obj).addr = a
    BY <1>1, EntryTypes DEF nonceChange
  <2> QED BY <1>12, <2>1, <2>2, SetterAppends DEF SetNonce
<1>13. ASSUME NEW c \in CodeHash, SetCode(a, c) PROVE CallAppends
  <2>1. [obj EXCEPT !.code = c, !.codeHash = c, !.dirtyCode = TRUE] \in Object
    BY <1>1, CodeJournaled, ZenonT(30)
  <2>2. codeChange(a, obj) \in Entry /\ codeChange(a, obj).addr = a
    BY <1>1, EntryTypes DEF codeChange
  <2> QED BY <1>13, <2>1, <2>2, SetterAppends DEF SetCode
<1>14. ASSUME NEW k \in Key, NEW v \in Value, SetState(a, k, v) PROVE CallAppends
  <2> DEFINE o == CacheState(a, obj, k)
             prev == GetState(a, o, k)
  <2>1. o \in Object /\ prev \in Value
    BY <1>1, ReadTypes, ZenonT(30)
  <2>2. [o EXCEPT !.dirty[k] = v] \in Object
    BY <2>1, StorageJournaled
  <2>3. storageChange(a, k, prev) \in Entry /\ storageChange(a, k, prev).addr = a
    BY <2>1, EntryTypes DEF storageChange
  <2>4. \/ SetObject(a, o, orNewJournal(a))
        \/ SetObject(a, [o EXCEPT !.dirty[k] = v],
                     append(orNewJournal(a), storageChange(a, k, prev)))
    BY <1>14 DEF SetState
  <2> HIDE DEF o, prev
  <2> QED BY <1>3, <2>1, <2>2, <2>3, <2>4, SetterAppends
<1>15. CASE Suicide(a)
  <2>1. cur \in Object
    BY <1>1, <1>15 DEF Suicide
  <2>2. [cur EXCEPT !.suicided = TRUE, !.balance = 0] \in Object
    BY <2>1, SuicideJournaled, ZenonT(30)
  <2>3. suicideChange(a, cur) \in Entry /\ suicideChange(a, cur).addr = a
    BY <2>1, EntryTypes DEF suicideChange
  <2> QED BY <1>15, <2>2, <2>3, SetterAppends DEF Suicide
<1> QED
  BY <1>4, <1>5, <1>6, <1>7, <1>8, <1>10, <1>11, <1>12, <1>13, <1>14, <1>15 DEF AccountStep

(* So do the operations not on an account.                                 *)
LEMMA OtherStepAppends ==
  ASSUME TypeInv, OtherStep
  PROVE  CallAppends
<1>1. UNCHANGED stateObjects
  BY DEF OtherStep, AddRefund, SubRefund, AddLog, AddAddressToAccessList, AddSlotToAccessList
<1>2. ASSUME NEW e \in Entry, ~Dirties(e) PROVE \A j : Appends(j, append(j, e))
  BY <1>2 DEF Appends
<1>3. \A j : Appends(j, j)
  BY DEF Appends
<1>4. ASSUME NEW gas \in Gas, AddRefund(gas) \/ SubRefund(gas) PROVE CallAppends
  <2>1. refundChange(refund) \in Entry /\ ~Dirties(refundChange(refund))
    BY OtherEntryTypes DEF TypeInv, TypeOK, refundChange, Dirties
  <2> QED BY <1>1, <1>2, <1>3, <1>4, <2>1 DEF CallAppends, AddRefund, SubRefund
<1>5. ASSUME NEW l \in Log, AddLog(l) PROVE CallAppends
  <2>1. addLogChange \in Entry /\ ~Dirties(addLogChange)
    BY OtherEntryTypes DEF addLogChange, Dirties
  <2> QED BY <1>1, <1>2, <1>3, <1>5, <2>1 DEF CallAppends, AddLog
<1>6. ASSUME NEW a \in Addr PROVE accessListAddAccountChange(a) \in Entry
                                  /\ ~Dirties(accessListAddAccountChange(a))
  BY OtherEntryTypes DEF accessListAddAccountChange, Dirties
<1>7. ASSUME NEW a \in Addr, AddAddressToAccessList(a) PROVE CallAppends
  BY <1>1, <1>2, <1>3, <1>6, <1>7 DEF CallAppends, AddAddressToAccessList
<1>8. ASSUME NEW a \in Addr, NEW k \in Key, AddSlotToAccessList(a, k) PROVE CallAppends
  <2>1. accessListAddSlotChange(a, k) \in Entry /\ ~Dirties(accessListAddSlotChange(a, k))
    BY OtherEntryTypes DEF accessListAddSlotChange, Dirties
  <2> DEFINE j == IF ContainsAddress(accessList, a) THEN journal
                  ELSE append(journal, accessListAddAccountChange(a))
  <2>2. Appends(journal, j)
    BY <1>2, <1>3, <1>6
  <2>3. Appends(j, journal')
    BY <1>2, <1>3, <1>8, <2>1 DEF AddSlotToAccessList
  <2> QED BY <1>1, <2>2, <2>3 DEF CallAppends
<1> QED BY <1>4, <1>5, <1>7, <1>8 DEF OtherStep

-----------------------------------------------------------------------------
(* The inductive invariant.                                                *)

(* One world is saved for every valid revision until Commit.               *)
SavedInv ==
  phase \in {"running", "reverting"} =>
    /\ \E S : saved \in Seq(S)
    /\ Len(saved) = Len(validRevisions)

(* Commit works on live objects.                                           *)
PendingLive == phase = "committing" => \A a \in pending : stateObjects[a] # NoObject

SafeInv ==
  /\ TypeInv
  /\ RevisionsNested
  /\ AccessListIndexed
  /\ SavedInv
  /\ ChainInv
  /\ DirtyLive
  /\ PendingLive
  /\ NoFault

(* The revisions are a sequence of records.                                *)
LEMMA RevisionType ==
  ASSUME TypeInv, NEW i \in 1 .. Len(validRevisions)
  PROVE  validRevisions[i].id \in Nat /\ validRevisions[i].journalIndex \in Nat
<1>1. validRevisions[i] \in revision
  BY DEF TypeInv, TypeOK
<1> QED BY <1>1 DEF revision

(* A new StateDB satisfies the invariant.                                  *)
LEMMA InitSafe ==
  ASSUME Init
  PROVE  SafeInv
<1>1. TypeInv
  BY InitType
<1>2. journal.entries = << >> /\ validRevisions = << >> /\ saved = << >> /\ phase = "running"
  BY DEF Init
<1>3. RevisionsNested
  BY <1>2 DEF RevisionsNested
<1>4. AccessListIndexed
  <2>1. accessList.slots = << >> /\ \A a \in Addr : accessList.addresses[a] = Absent
    BY DEF Init, newAccessList
  <2>2. {a \in Addr : accessList.addresses[a] \notin {Absent, NoSlots}} = {}
    BY <2>1
  <2> QED BY <2>1, <2>2 DEF AccessListIndexed, Indexed
<1>5. SavedInv
  <2>1. saved \in Seq({}) /\ Len(saved) = Len(validRevisions)
    BY <1>2
  <2> QED BY <2>1 DEF SavedInv
<1>6. ChainInv
  <2>1. PICK h : h = [i \in {0} |-> Shadow]
    BY ZenonT(30)
  <2>2. h[0] = Shadow /\ Len(journal.entries) = 0 /\ Len(validRevisions) = 0
    BY <1>2, <2>1
  <2>3. ChainOver(h, journal.entries, Shadow) /\ RevisionsSaved(h)
    BY <2>2 DEF ChainOver, RevisionsSaved, Grown
  <2> QED BY <2>3 DEF ChainInv
<1>7. DirtyLive /\ PendingLive /\ NoFault
  BY <1>2 DEF DirtyLive, PendingLive, NoFault
<1> QED BY <1>1, <1>3, <1>4, <1>5, <1>6, <1>7 DEF SafeInv

(* A call of the running phase.                                            *)
LEMMA CallSafe ==
  ASSUME SafeInv, TypeInv', phase = "running", phase' \in {"running", "panicked"},
         UNCHANGED <<keeperVars, revisionVars>>, CallExtends, CallAppends, AccessListIndexed'
  PROVE  SafeInv'
<1> USE DEF revisionVars
<1>1. ChainInv'
  BY CallKeepsChain DEF SafeInv
<1>2. DirtyLive'
  BY CallKeepsDirty DEF SafeInv
<1>3. SavedInv' /\ PendingLive' /\ NoFault'
  BY DEF SafeInv, SavedInv, PendingLive, NoFault
<1>4. RevisionsNested'
  <2>1. PICK h : ChainOver(h, journal.entries, Shadow)
    BY DEF SafeInv, ChainInv
  <2>2. PICK was, old, now, fin : /\ was = Shadow /\ old = journal.entries
                                  /\ now = Shadow' /\ fin = journal'.entries
    OBVIOUS
  <2>3. PICK es, mid : Extends(old, was, es, mid) /\ Extends(es, mid, fin, now)
    BY <2>2 DEF CallExtends
  <2>4. old \in Seq(Entry) /\ fin \in Seq(Entry)
    BY <2>2 DEF SafeInv, TypeInv
  <2>5. ChainOver(h, old, was)
    BY <2>1, <2>2, ZenonT(30)
  <2>6. /\ es \in Seq(Entry) /\ Len(old) <= Len(es)
        /\ \E g : ChainOver(g, es, mid)
    <3>1. Extends(old, was, es, mid) /\ old \in Seq(Entry)
      BY <2>3, <2>4, ZenonT(30)
    <3> QED BY <2>5, <3>1, ChainExtends
  <2>7. Len(es) <= Len(fin)
    BY <2>3, <2>6, ChainExtends, ZenonT(30)
  <2>8. Len(old) \in Nat /\ Len(es) \in Nat /\ Len(fin) \in Nat
    BY <2>4, <2>6
  <2>9. Len(journal.entries) <= Len(journal'.entries)
    BY <2>2, <2>6, <2>7, <2>8
  <2>10. \A i \in 1 .. Len(validRevisions) : validRevisions[i].journalIndex \in Nat
    BY RevisionType DEF SafeInv
  <2>11. PICK n \in Nat, m \in Nat : n = Len(journal.entries) /\ m = Len(journal'.entries) /\ n <= m
    BY <2>2, <2>8, <2>9
  <2>12. ASSUME NEW i \in 1 .. Len(validRevisions) PROVE validRevisions[i].journalIndex <= m
    <3>1. validRevisions[i].journalIndex <= n
      BY <2>11 DEF SafeInv, RevisionsNested
    <3> QED BY <2>10, <2>11, <3>1
  <2> QED BY <2>11, <2>12 DEF SafeInv, RevisionsNested
<1> QED BY <1>1, <1>2, <1>3, <1>4 DEF SafeInv

(* Snapshot preserves the invariant: it saves the last shadow.             *)
LEMMA SnapshotSafe ==
  ASSUME SafeInv, TypeInv', Snapshot
  PROVE  SafeInv'
<1>1. PICK m, n \in Nat : m = Len(validRevisions) /\ n = Len(journal.entries)
  BY DEF SafeInv, TypeInv, TypeOK
<1>2. PICK r : r = [id |-> nextRevisionID, journalIndex |-> n]
  BY ZenonT(30)
<1>3. validRevisions' = Append(validRevisions, r) /\ saved' = Append(saved, World)
      /\ r.id = nextRevisionID /\ r.journalIndex = n
  BY <1>1, <1>2 DEF Snapshot
<1>4. validRevisions \in Seq(revision) /\ r \in revision /\ nextRevisionID \in Nat
  BY <1>1, <1>2 DEF SafeInv, TypeInv, TypeOK, revision
<1>5. /\ Len(validRevisions') = m + 1 /\ validRevisions'[m + 1] = r
      /\ \A i \in 1 .. m : validRevisions'[i] = validRevisions[i]
  BY <1>1, <1>3, <1>4
<1>6. \A i \in 1 .. m + 1 : i \in 1 .. m \/ i = m + 1
  BY <1>1
<1>7. phase = "running" /\ phase' = "running" /\ UNCHANGED <<journal, stateObjects, accessList>>
      /\ UNCHANGED keeperVars /\ nextRevisionID' = nextRevisionID + 1
  BY DEF Snapshot, loopVars
<1>8. RevisionsNested'
  <2>1. \A i \in 1 .. m : /\ validRevisions[i].id \in Nat /\ validRevisions[i].id < nextRevisionID
                          /\ validRevisions[i].journalIndex <= n
    BY <1>1, <1>7, RevisionType DEF SafeInv, RevisionsNested
  <2>2. \A i \in 1 .. m + 1 : /\ validRevisions'[i].id < nextRevisionID + 1
                              /\ validRevisions'[i].journalIndex <= n
    BY <1>3, <1>4, <1>5, <1>6, <2>1
  <2>3. ASSUME NEW i \in 1 .. m + 1, NEW j \in 1 .. m + 1, i < j
        PROVE  /\ validRevisions'[i].id < validRevisions'[j].id
               /\ validRevisions'[i].journalIndex <= validRevisions'[j].journalIndex
    <3>1. i \in 1 .. m
      BY <1>1, <2>3
    <3>2. CASE j = m + 1
      BY <1>3, <1>5, <2>1, <3>1, <3>2
    <3>3. CASE j \in 1 .. m
      BY <1>1, <1>5, <2>3, <3>1, <3>3 DEF SafeInv, RevisionsNested
    <3> QED BY <1>6, <3>2, <3>3
  <2> QED BY <1>1, <1>5, <1>7, <2>2, <2>3 DEF RevisionsNested
<1>9. Len(saved) = m /\ \E S : saved \in Seq(S)
  BY <1>1, <1>7 DEF SafeInv, SavedInv
<1>10. PICK S : saved \in Seq(S)
  BY <1>9
<1>11. PICK w : w = World
  OBVIOUS
<1>12. PICK T : T = S \cup {w}
  BY ZenonT(30)
<1>13. saved \in Seq(T) /\ w \in T
  BY <1>10, <1>12
<1>14. /\ saved' \in Seq(T) /\ Len(saved') = m + 1 /\ saved'[m + 1] = w
       /\ \A i \in 1 .. m : saved'[i] = saved[i]
  BY <1>1, <1>3, <1>9, <1>11, <1>13
<1>15. SavedInv'
  BY <1>5, <1>14 DEF SavedInv
<1>16. ChainInv'
  <2>1. PICK h : ChainOver(h, journal.entries, Shadow) /\ RevisionsSaved(h)
    BY <1>7 DEF SafeInv, ChainInv
  <2>2. PICK s, es : s = Shadow /\ es = journal.entries
    OBVIOUS
  <2>3. ChainOver(h, es, s)'
    BY <1>7, <2>1, <2>2, ChainStable
  <2>4. Shadow' = s /\ journal'.entries = es
    <3>1. refund' = refund /\ logs' = logs /\ accessList' = accessList
      BY DEF Snapshot
    <3> QED BY <1>7, <2>2, <3>1, OtherShadow DEF Shadow
  <2>5. ChainOver(h, journal.entries, Shadow)'
    BY <2>3, <2>4 DEF ChainOver
  <2>6. h[n] = Shadow /\ w = WorldOf(h[n])
    BY <1>1, <1>11, <2>1, WorldIsShadow DEF ChainOver
  <2>7. \A i \in 1 .. m : saved[i] = WorldOf(h[validRevisions[i].journalIndex])
    BY <1>1, <1>7, <2>1 DEF RevisionsSaved
  <2>8. \A i \in 1 .. m + 1 : saved'[i] = WorldOf(h[validRevisions'[i].journalIndex])
    BY <1>3, <1>5, <1>6, <1>14, <2>6, <2>7
  <2>9. RevisionsSaved(h)'
    BY <1>5, <2>8 DEF RevisionsSaved
  <2> QED BY <2>5, <2>9 DEF ChainInv
<1>17. AccessListIndexed' /\ DirtyLive' /\ PendingLive' /\ NoFault'
  BY <1>7 DEF SafeInv, AccessListIndexed, DirtyLive, PendingLive, NoFault
<1> QED BY <1>8, <1>15, <1>16, <1>17 DEF SafeInv

(* The start of RevertToSnapshot preserves the invariant.                  *)
LEMMA RevertToSnapshotSafe ==
  ASSUME SafeInv, TypeInv', NEW id, RevertToSnapshot(id)
  PROVE  SafeInv'
<1>1. /\ phase = "running" /\ phase' \in {"panicked", "reverting"}
      /\ UNCHANGED <<keeperVars, stateObjects, journal, refund, logs, accessList,
                     validRevisions, nextRevisionID, saved, pending>>
  BY DEF RevertToSnapshot, revisionVars
<1>2. ChainInv'
  <2>1. PICK h : ChainOver(h, journal.entries, Shadow) /\ RevisionsSaved(h)
    BY <1>1 DEF SafeInv, ChainInv
  <2>2. PICK s, es : s = Shadow /\ es = journal.entries
    OBVIOUS
  <2>3. ChainOver(h, es, s)'
    BY <1>1, <2>1, <2>2, ChainStable
  <2>4. Shadow' = s /\ journal'.entries = es
    BY <1>1, <2>2, OtherShadow, ZenonT(30) DEF Shadow
  <2>5. ChainOver(h, journal.entries, Shadow)'
    BY <2>3, <2>4 DEF ChainOver
  <2>6. RevisionsSaved(h)'
    BY <1>1, <2>1 DEF RevisionsSaved
  <2> QED BY <2>5, <2>6 DEF ChainInv
<1>3. RevisionsNested' /\ SavedInv'
  BY <1>1 DEF SafeInv, RevisionsNested, SavedInv
<1>4. AccessListIndexed' /\ DirtyLive' /\ PendingLive' /\ NoFault'
  BY <1>1 DEF SafeInv, AccessListIndexed, DirtyLive, PendingLive, NoFault
<1> QED BY <1>2, <1>3, <1>4 DEF SafeInv

(* The position the revert loop aims at.                                   *)
LEMMA RevertTarget ==
  ASSUME SafeInv, phase = "reverting"
  PROVE  /\ revertTo \in 1 .. Len(validRevisions)
         /\ validRevisions \in Seq(revision)
         /\ validRevisions[revertTo].journalIndex \in Nat
         /\ validRevisions[revertTo].journalIndex <= Len(journal.entries)
         /\ Len(journal.entries) \in Nat
<1>1. revertTo \in 1 .. Len(validRevisions) /\ validRevisions \in Seq(revision)
  BY DEF SafeInv, TypeInv, TypeOK
<1>2. validRevisions[revertTo] \in revision
  BY <1>1
<1>3. Len(journal.entries) \in Nat
  BY DEF SafeInv, TypeInv
<1>4. revertTo <= revertTo
  BY <1>1
<1> QED BY <1>1, <1>2, <1>3, <1>4 DEF SafeInv, RevisionsNested, revision

(* A step of journal.revert preserves the invariant: the chain loses its   *)
(* last link, and no earlier entry is about an object createObject made.   *)
LEMMA RevertEntrySafe ==
  ASSUME SafeInv, TypeInv', RevertEntry
  PROVE  SafeInv'
<1>1. phase = "reverting"
  BY DEF RevertEntry
<1>2. PICK n \in Nat : n = Len(journal.entries)
  BY <1>1, RevertTarget
<1>3. PICK es, was, e : es = journal.entries /\ was = Shadow /\ e = lastEntry
  OBVIOUS
<1>4. n > 0 /\ n > validRevisions[revertTo].journalIndex
  BY <1>1, <1>2, RevertTarget DEF RevertEntry
<1>5. es \in Seq(Entry) /\ Len(es) = n /\ Len(es) > 0 /\ e = es[n]
  BY <1>2, <1>3, <1>4 DEF SafeInv, TypeInv, lastEntry
<1>6. e \in Entry
  BY <1>5, Popped
<1>7. PICK h : ChainOver(h, es, was) /\ RevisionsSaved(h)
  BY <1>1, <1>3 DEF SafeInv, ChainInv
<1>8. PICK rest : rest = SubSeq(es, 1, n - 1)
  BY ZenonT(30)
<1>9. Linked(e, h[n - 1], was) /\ ChainOver(h, rest, h[n - 1])
  BY <1>5, <1>7, <1>8, ChainShrinks
<1>10. Len(rest) = n - 1 /\ \A i \in 1 .. n - 1 : rest[i] = es[i]
  BY <1>5, <1>8, Popped
<1>11. ~UndoFaults(e)
  BY <1>3, <1>6, <1>9, UndoableNoFault DEF Linked
<1>12. Shadow' = h[n - 1]
  <2>1. Undoable(e, Shadow) /\ UndoShadow(e, Shadow) = h[n - 1]
    BY <1>3, <1>9 DEF Linked
  <2>2. TypeInv
    BY DEF SafeInv
  <2> QED BY <1>3, <1>6, <2>1, <2>2, UndoCommutes
<1>13. /\ journal' = pop(journal) /\ journal'.entries = rest /\ phase' = "reverting"
       /\ UNCHANGED <<keeperVars, revisionVars, revertTo, pending>>
  BY <1>1, <1>2, <1>3, <1>8, <1>11 DEF RevertEntry, pop
<1>14. ChainInv'
  <2>1. PICK now : now = h[n - 1]
    OBVIOUS
  <2>2. ChainOver(h, rest, now)'
    BY <1>9, <1>13, <2>1, ChainStable
  <2>3. ChainOver(h, journal.entries, Shadow)'
    BY <1>12, <1>13, <2>1, <2>2 DEF ChainOver
  <2>4. RevisionsSaved(h)'
    BY <1>1, <1>7, <1>13 DEF RevisionsSaved, revisionVars
  <2> QED BY <2>3, <2>4 DEF ChainInv
<1>15. AccessListIndexed'
  <2>1. Indexed(h[n - 1].al) /\ Shadow'.al = accessList'
    BY <1>9 DEF Linked, Shadow
  <2> QED BY <1>12, <2>1 DEF AccessListIndexed
<1>16. RevisionsNested'
  <2>1. ASSUME NEW i \in 1 .. Len(validRevisions), i <= revertTo
        PROVE  validRevisions[i].journalIndex <= n - 1
    <3>1. /\ validRevisions[i].journalIndex \in Nat
          /\ validRevisions[revertTo].journalIndex \in Nat
          /\ revertTo \in 1 .. Len(validRevisions)
      BY <1>1, RevertTarget, RevisionType, ZenonT(30) DEF SafeInv
    <3>2. validRevisions[i].journalIndex <= validRevisions[revertTo].journalIndex
      <4>1. CASE i = revertTo
        BY <3>1, <4>1
      <4>2. CASE i # revertTo
        <5>1. i < revertTo
          BY <2>1, <3>1, <4>2
        <5> QED BY <3>1, <5>1 DEF SafeInv, RevisionsNested
      <4> QED BY <4>1, <4>2
    <3> QED BY <1>4, <3>1, <3>2
  <2>2. Len(journal'.entries) = n - 1 /\ UNCHANGED <<validRevisions, nextRevisionID, revertTo>>
    BY <1>10, <1>13 DEF revisionVars
  <2> QED BY <1>13, <2>1, <2>2 DEF SafeInv, RevisionsNested
<1>17. SavedInv'
  BY <1>1, <1>13 DEF SafeInv, SavedInv, revisionVars
<1>18. DirtyLive'
  <2> SUFFICES ASSUME NEW i \in 1 .. n - 1, Dirties(es[i])
               PROVE  stateObjects'[es[i].addr] # NoObject
    BY <1>10, <1>13 DEF DirtyLive
  <2> DEFINE a == es[i].addr
  <2>1. i \in 1 .. n /\ es[i] \in Entry
    BY <1>2, <1>5
  <2>2. a \in Addr
    BY <2>1, DirtiedAddr DEF Entry
  <2>3. stateObjects[a] # NoObject
    BY <1>2, <1>3, <2>1 DEF SafeInv, DirtyLive
  <2>4. Linked(es[i], h[i - 1], h[i])
    BY <1>5, <1>7, <2>1 DEF ChainOver
  <2>5. es[i].op \in ObjectOps \cup {"createObject", "resetObject"}
    BY DEF Dirties, ObjectOps
  <2>6. h[i].live[a]
    BY <2>4, <2>5 DEF Linked, Undoable
  <2>7. Grown(h[i], h[n - 1])
    <3>1. i \in 0 .. n /\ n - 1 \in 0 .. n /\ i <= n - 1
      BY <1>2, <1>4
    <3> QED BY <1>5, <1>7, <3>1 DEF ChainOver
  <2>8. h[n - 1].live[a]
    BY <2>2, <2>6, <2>7 DEF Grown
  <2>9. stateObjects' = UndoObjects(e)
    BY <1>3, <1>6, <1>9, <1>11, UndoableNoFault, ZenonT(30) DEF RevertEntry, Linked, ObjectOps
  <2>10. stateObjects \in [Addr -> Object \cup {NoObject}] /\ NoObject \notin Object
    BY ObjectAssumption DEF SafeInv, TypeInv, Object
  <2>11. CASE e.op = "createObject"
    <3>1. e.addr \in Addr
      BY <1>6, <2>11, ObjectEntryAddr
    <3>2. h[n - 1].live = [was.live EXCEPT ![e.addr] = FALSE]
      <4>1. h[n - 1] = UndoShadow(e, was)
        BY <1>9 DEF Linked
      <4>2. UndoShadow(e, was).live = [was.live EXCEPT ![e.addr] = FALSE]
        BY <2>11 DEF UndoShadow
      <4> QED BY <4>1, <4>2
    <3>3. a # e.addr
      BY <1>3, <2>8, <3>1, <3>2, ZenonT(30) DEF Shadow
    <3> QED BY <2>2, <2>3, <2>9, <2>10, <2>11, <3>3 DEF UndoObjects
  <2>12. CASE e.op = "resetObject"
    <3>1. e.prev \in Object
      BY <1>6, <2>12, ZenonT(30) DEF Entry
    <3> QED BY <2>2, <2>3, <2>9, <2>10, <2>12, <3>1 DEF UndoObjects
  <2>13. CASE e.op \in ObjectOps
    <3>1. e.addr \in Addr /\ getStateObject(e.addr) # NoObject
      BY <1>3, <1>6, <1>9, <2>13, ObjectEntryAddr, UndoableNoFault DEF Linked
    <3>2. getStateObject(e.addr) \in Object
      BY <3>1, GetObjectType DEF SafeInv
    <3>3. UndoObject(e, getStateObject(e.addr)) \in Object
      BY <1>6, <2>13, <3>2, UndoObjectType DEF ObjectOps
    <3>4. stateObjects' = [stateObjects EXCEPT ![e.addr] = UndoObject(e, getStateObject(e.addr))]
      BY <2>9, <2>13 DEF UndoObjects, ObjectOps
    <3> QED BY <2>2, <2>3, <2>10, <3>3, <3>4
  <2>14. CASE e.op \notin ObjectOps \cup {"createObject", "resetObject"}
    BY <2>3, <2>9, <2>14 DEF UndoObjects, ObjectOps
  <2> QED BY <2>11, <2>12, <2>13, <2>14
<1>19. PendingLive' /\ NoFault'
  BY <1>13 DEF PendingLive, NoFault
<1> QED BY <1>14, <1>15, <1>16, <1>17, <1>18, <1>19 DEF SafeInv

(* At the end of the loop the world is the one the revision saved.         *)
LEMMA RevertDoneRestores ==
  ASSUME SafeInv, RevertDone
  PROVE  World' = saved[revertTo]
<1>1. phase = "reverting"
  BY DEF RevertDone
<1>2. Len(journal.entries) = validRevisions[revertTo].journalIndex
  BY <1>1, RevertTarget DEF RevertDone
<1>3. PICK h : ChainOver(h, journal.entries, Shadow) /\ RevisionsSaved(h)
  BY <1>1 DEF SafeInv, ChainInv
<1>4. h[Len(journal.entries)] = Shadow
  BY <1>3 DEF ChainOver
<1>5. revertTo \in 1 .. Len(validRevisions) /\ revertTo <= revertTo
  BY <1>1, RevertTarget
<1>6. saved[revertTo] = WorldOf(Shadow)
  BY <1>1, <1>2, <1>3, <1>4, <1>5 DEF RevisionsSaved
<1>7. PICK s : s = Shadow
  OBVIOUS
<1>8. Shadow' = s
  BY <1>7, OtherShadow, ZenonT(30) DEF RevertDone, Shadow
<1>9. World' = WorldOf(s)
  <2>1. World' = WorldOf(Shadow)'
    BY DEF World, WorldOf, Shadow
  <2> QED BY <1>8, <2>1 DEF WorldOf, Warm, Contains, ContainsAddress
<1> QED BY <1>6, <1>7, <1>9

(* So does its end, which drops the revisions from the target on.          *)
LEMMA RevertDoneSafe ==
  ASSUME SafeInv, TypeInv', RevertDone
  PROVE  SafeInv'
<1>1. /\ phase = "reverting" /\ phase' = "running"
      /\ UNCHANGED <<keeperVars, stateObjects, journal, refund, logs, accessList,
                     nextRevisionID, pending>>
  BY DEF RevertDone
<1>2. PICK r \in Nat : r = revertTo /\ r >= 1
  BY <1>1, RevertTarget
<1>3. /\ validRevisions' = SubSeq(validRevisions, 1, r - 1) /\ saved' = SubSeq(saved, 1, r - 1)
      /\ r <= Len(validRevisions) /\ validRevisions \in Seq(revision)
      /\ Len(validRevisions) \in Nat
  BY <1>1, <1>2, RevertTarget DEF RevertDone
<1>4. \A i \in 1 .. r - 1 : i \in 1 .. Len(validRevisions) /\ validRevisions[i] \in revision
  BY <1>2, <1>3
<1>5. /\ Len(validRevisions') = r - 1
      /\ \A i \in 1 .. r - 1 : validRevisions'[i] = validRevisions[i]
  <2>1. 1 \in Int /\ r - 1 \in Int
    BY <1>2
  <2>2. /\ Len(validRevisions') = IF 1 <= r - 1 THEN r - 1 - 1 + 1 ELSE 0
        /\ \A i \in 1 .. r - 1 - 1 + 1 : validRevisions'[i] = validRevisions[1 + i - 1]
    BY <1>3, <1>4, <2>1
  <2> QED BY <1>2, <2>2
<1>6. PICK S : saved \in Seq(S) /\ Len(saved) = Len(validRevisions)
  BY <1>1 DEF SafeInv, SavedInv
<1>7. \A i \in 1 .. r - 1 : saved[i] \in S
  BY <1>2, <1>3, <1>6
<1>8. /\ saved' \in Seq(S) /\ Len(saved') = r - 1
      /\ \A i \in 1 .. r - 1 : saved'[i] = saved[i]
  <2>1. 1 \in Int /\ r - 1 \in Int
    BY <1>2
  <2>2. /\ saved' \in Seq(S)
        /\ Len(saved') = IF 1 <= r - 1 THEN r - 1 - 1 + 1 ELSE 0
        /\ \A i \in 1 .. r - 1 - 1 + 1 : saved'[i] = saved[1 + i - 1]
    BY <1>3, <1>7, <2>1
  <2> QED BY <1>2, <2>2
<1>9. SavedInv'
  BY <1>5, <1>8 DEF SavedInv
<1>10. \A i \in 1 .. r - 1 : i <= revertTo
  BY <1>2
<1>11. RevisionsNested'
  <2>1. \A i \in 1 .. r - 1 : /\ validRevisions[i].id < nextRevisionID
                              /\ validRevisions[i].journalIndex <= Len(journal.entries)
    BY <1>4, <1>10 DEF SafeInv, RevisionsNested
  <2>2. \A i, j \in 1 .. r - 1 : i < j =>
          /\ validRevisions[i].id < validRevisions[j].id
          /\ validRevisions[i].journalIndex <= validRevisions[j].journalIndex
    BY <1>4 DEF SafeInv, RevisionsNested
  <2> QED BY <1>1, <1>5, <2>1, <2>2 DEF RevisionsNested
<1>12. ChainInv'
  <2>1. PICK h : ChainOver(h, journal.entries, Shadow) /\ RevisionsSaved(h)
    BY <1>1 DEF SafeInv, ChainInv
  <2>2. PICK s, es : s = Shadow /\ es = journal.entries
    OBVIOUS
  <2>3. ChainOver(h, es, s)'
    BY <1>1, <2>1, <2>2, ChainStable
  <2>4. Shadow' = s /\ journal'.entries = es
    BY <1>1, <2>2, OtherShadow, ZenonT(30) DEF Shadow
  <2>5. ChainOver(h, journal.entries, Shadow)'
    BY <2>3, <2>4 DEF ChainOver
  <2>6. \A i \in 1 .. r - 1 : saved[i] = WorldOf(h[validRevisions[i].journalIndex])
    BY <1>4, <1>10, <2>1 DEF RevisionsSaved
  <2>7. RevisionsSaved(h)'
    BY <1>5, <1>8, <2>6 DEF RevisionsSaved
  <2> QED BY <2>5, <2>7 DEF ChainInv
<1>13. AccessListIndexed' /\ DirtyLive' /\ PendingLive' /\ NoFault'
  BY <1>1 DEF SafeInv, AccessListIndexed, DirtyLive, PendingLive, NoFault
<1> QED BY <1>9, <1>11, <1>12, <1>13 DEF SafeInv

-----------------------------------------------------------------------------
(* Commit.                                                                 *)

(* An address is dirty because of an entry.                                *)
DirtyByEntry ==
  \A a \in dirtyAddrs : \E i \in 1 .. Len(journal.entries) :
    Dirties(journal.entries[i]) /\ journal.entries[i].addr = a

(* Commit preserves the invariant.                                         *)
LEMMA CommitSafe ==
  ASSUME SafeInv, DirtyByEntry, TypeInv',
         Commit \/ (\E a \in Addr : CommitAccount(a)) \/ CommitDone
  PROVE  SafeInv'
<1>1. /\ UNCHANGED <<stateObjects, journal, accessList, validRevisions, nextRevisionID>>
      /\ phase # "reverting" /\ phase' \notin {"running", "reverting"}
  <2>1. CASE Commit
    BY <2>1 DEF Commit
  <2>2. ASSUME NEW a \in Addr, CommitAccount(a)
        PROVE  /\ UNCHANGED <<stateObjects, journal, accessList, validRevisions, nextRevisionID>>
               /\ phase # "reverting" /\ phase' \notin {"running", "reverting"}
    <3>1. phase' \in {phase, "fault", "failed"}
      BY <2>2 DEF CommitAccount, DeleteAccount, WriteObject
    <3> QED BY <2>2, <3>1 DEF CommitAccount, revisionVars
  <2>3. CASE CommitDone
    BY <2>3 DEF CommitDone, revisionVars
  <2> QED BY <2>1, <2>2, <2>3
<1>2. RevisionsNested' /\ SavedInv' /\ ChainInv'
  BY <1>1 DEF SafeInv, RevisionsNested, SavedInv, ChainInv
<1>3. AccessListIndexed' /\ DirtyLive'
  BY <1>1 DEF SafeInv, AccessListIndexed, DirtyLive
<1>4. PendingLive' /\ NoFault'
  <2>1. CASE Commit
    BY <2>1 DEF Commit, PendingLive, NoFault, SafeInv, DirtyByEntry, DirtyLive
  <2>2. ASSUME NEW a \in Addr, CommitAccount(a) PROVE PendingLive' /\ NoFault'
    <3>1. phase = "committing" /\ a \in pending /\ pending' = pending \ {a}
      BY <2>2 DEF CommitAccount
    <3>2. stateObjects[a] # NoObject
      BY <3>1 DEF SafeInv, PendingLive
    <3>3. phase' \in {phase, "failed"}
      BY <2>2, <3>2 DEF CommitAccount, DeleteAccount, WriteObject
    <3> QED BY <1>1, <3>1, <3>3 DEF SafeInv, PendingLive, NoFault
  <2>3. CASE CommitDone
    BY <2>3 DEF CommitDone, PendingLive, NoFault
  <2> QED BY <2>1, <2>2, <2>3
<1> QED BY <1>2, <1>3, <1>4 DEF SafeInv

-----------------------------------------------------------------------------

(* SafeInv is preserved.                                                   *)
LEMMA NextSafe ==
  ASSUME SafeInv, DirtyByEntry, TypeInv', [Next]_vars
  PROVE  SafeInv'
<1>1. TypeInv /\ AccessListIndexed
  BY DEF SafeInv
<1>2. ASSUME NEW a \in Addr, AccountStep(a) PROVE SafeInv'
  <2>1. /\ phase = "running"
        /\ UNCHANGED <<keeperVars, accessList, revisionVars, loopVars>>
    BY <1>2, ZenonT(30) DEF AccountStep, ReadAccount, ReadCode, ReadState, ReadCommittedState, CreateAccount,
                AddBalance, SubBalance, SetNonce, SetCode, SetState, Suicide, SetBalance, SetObject
  <2>2. phase' = "running" /\ AccessListIndexed'
    BY <1>1, <2>1 DEF AccessListIndexed, loopVars
  <2>3. CallExtends /\ CallAppends
    BY <1>1, <1>2, AccountStepExtends, AccountStepAppends
  <2> QED BY <2>1, <2>2, <2>3, CallSafe
<1>3. CASE OtherStep
  <2>1. /\ phase = "running" /\ phase' \in {"running", "panicked"}
        /\ UNCHANGED <<keeperVars, revisionVars>>
    BY <1>3 DEF OtherStep, AddRefund, SubRefund, AddLog, AddAddressToAccessList,
                AddSlotToAccessList, loopVars
  <2>2. CallExtends /\ CallAppends /\ AccessListIndexed'
    BY <1>1, <1>3, OtherStepExtends, OtherStepAppends
  <2> QED BY <2>1, <2>2, CallSafe
<1>4. CASE LoopStep
  BY <1>4, SnapshotSafe, RevertToSnapshotSafe, RevertEntrySafe, RevertDoneSafe, CommitSafe
     DEF LoopStep
<1>5. CASE UNCHANGED vars
  <2>1. UNCHANGED <<keeperVars, stateObjects, journal, refund, logs, accessList>>
        /\ UNCHANGED <<validRevisions, nextRevisionID, saved, phase, revertTo, pending>>
    BY <1>5 DEF vars, keeperVars
  <2>2. ChainInv'
    <3> SUFFICES ASSUME phase \in {"running", "reverting"} PROVE ChainInv'
      BY <2>1 DEF ChainInv
    <3>1. PICK h : ChainOver(h, journal.entries, Shadow) /\ RevisionsSaved(h)
      BY DEF SafeInv, ChainInv
    <3>2. PICK s, es : s = Shadow /\ es = journal.entries
      OBVIOUS
    <3>3. ChainOver(h, es, s)'
      BY <2>1, <3>1, <3>2, ChainStable
    <3>4. Shadow' = s /\ journal'.entries = es
      BY <2>1, <3>2, OtherShadow, ZenonT(30) DEF Shadow
    <3>5. ChainOver(h, journal.entries, Shadow)' /\ RevisionsSaved(h)'
      BY <2>1, <3>1, <3>3, <3>4, ZenonT(30) DEF ChainOver, RevisionsSaved
    <3> QED BY <3>5 DEF ChainInv
  <2>3. RevisionsNested' /\ SavedInv' /\ AccessListIndexed' /\ DirtyLive' /\ PendingLive' /\ NoFault'
    BY <2>1, ZenonT(30) DEF SafeInv, RevisionsNested, SavedInv, AccessListIndexed, DirtyLive, PendingLive,
                NoFault
  <2> QED BY <2>2, <2>3 DEF SafeInv
<1> QED BY <1>2, <1>3, <1>4, <1>5 DEF Next

-----------------------------------------------------------------------------
(* Clean addresses.                                                        *)

Touches(e, a) == Dirties(e) /\ e.addr = a

CleanChain(h, es) ==
  \A i \in 0 .. Len(es), a \in Addr :
    (\A j \in 1 .. i : ~Touches(es[j], a)) => Clean(a, h[i].acc[a])

CleanInv == \E h : ChainOver(h, journal.entries, Shadow) /\ CleanChain(h, journal.entries)

(* What Commit relies on.                                                  *)
Committable ==
  HashesStored /\ ObjectsSound /\ EntriesSound(journal.entries) /\ CleanInv /\ CacheInv

-----------------------------------------------------------------------------
(* The chains grow and shrink with the journal.                            *)

(* A chain of clean views stays one while the keeper is not written to.    *)
LEMMA CleanStable ==
  ASSUME UNCHANGED keeperVars, NEW h, NEW es, CleanChain(h, es)
  PROVE  CleanChain(h, es)'
<1>1. \A a, v : Clean(a, v)' <=> Clean(a, v)
  BY SoundStable
<1> QED BY <1>1 DEF CleanChain, Touches, Dirties

(* An entry that does not dirty an account leaves it clean.                *)
LeavesClean(e, s, t) ==
  \A a \in Addr : ~Touches(e, a) /\ Clean(a, s.acc[a]) => Clean(a, t.acc[a])

(* All entries but resetObjectChange leave the other accounts alone.       *)
LEMMA LinkLeavesClean ==
  ASSUME NEW e \in Entry, NEW s, NEW t, Linked(e, s, t), DOMAIN s.acc = Addr
  PROVE  /\ DOMAIN t.acc = Addr
         /\ e.op # "resetObject" => LeavesClean(e, s, t)
<1>1. s.acc = UndoAcc(e, t.acc)
  BY DEF Linked, UndoShadow
<1>2. CASE e.op = "createObject"
  BY <1>1, <1>2, ZenonT(30) DEF UndoAcc, LeavesClean, Touches, Dirties
<1>3. CASE e.op = "resetObject"
  BY <1>1, <1>3, ZenonT(30) DEF UndoAcc
<1>4. CASE e.op \in ObjectOps
  <2>1. s.acc = [t.acc EXCEPT ![e.addr] = UndoView(e, t.acc[e.addr])]
    BY <1>1, <1>4, ZenonT(30) DEF UndoAcc, ObjectOps
  <2>2. Dirties(e)
    BY <1>4 DEF Dirties, ObjectOps
  <2> QED BY <2>1, <2>2, ZenonT(30) DEF LeavesClean, Touches
<1>5. CASE e.op \notin ObjectOps \cup {"createObject", "resetObject"}
  <2>1. s.acc = t.acc
    BY <1>1, <1>5 DEF UndoAcc
  <2> QED BY <2>1 DEF LeavesClean
<1> QED BY <1>2, <1>3, <1>4, <1>5

(* A chain of clean views grows by an entry that leaves them clean.        *)
LEMMA CleanGrows ==
  ASSUME NEW h, NEW es \in Seq(Entry), NEW s, NEW e \in Entry, NEW t,
         ChainOver(h, es, s), CleanChain(h, es), Linked(e, s, t), LeavesClean(e, s, t)
  PROVE  \E g : ChainOver(g, Append(es, e), t) /\ CleanChain(g, Append(es, e))
<1>1. PICK g : ChainOver(g, Append(es, e), t) /\ \A i \in 0 .. Len(es) : g[i] = h[i]
  BY ChainGrows
<1>2. PICK new : new = Append(es, e) /\ ChainOver(g, new, t)
  BY <1>1, ZenonT(30)
<1>3. PICK n \in Nat : n = Len(es)
  OBVIOUS
<1>4. Len(new) = n + 1 /\ new[n + 1] = e /\ \A i \in 1 .. n : new[i] = es[i]
  BY <1>2, <1>3
<1>5. g[n + 1] = t /\ h[n] = s
  BY <1>2, <1>3, <1>4 DEF ChainOver
<1>6. ASSUME NEW i \in 0 .. n + 1, NEW a \in Addr, \A j \in 1 .. i : ~Touches(new[j], a)
      PROVE  Clean(a, g[i].acc[a])
  <2>1. CASE i \in 0 .. n
    <3>1. \A j \in 1 .. i : ~Touches(es[j], a)
      BY <1>3, <1>4, <1>6, <2>1
    <3>2. Clean(a, h[i].acc[a])
      BY <1>3, <2>1, <3>1 DEF CleanChain
    <3> QED BY <1>1, <1>3, <2>1, <3>2
  <2>2. CASE i = n + 1
    <3>1. \A j \in 1 .. n : ~Touches(es[j], a)
      BY <1>3, <1>4, <1>6, <2>2
    <3>2. n \in 0 .. Len(es) /\ n + 1 \in 1 .. i
      BY <1>3, <2>2
    <3>3. Clean(a, s.acc[a])
      BY <1>5, <3>1, <3>2 DEF CleanChain
    <3>4. ~Touches(e, a)
      BY <1>4, <1>6, <3>2
    <3> QED BY <1>5, <2>2, <3>3, <3>4 DEF LeavesClean
  <2> QED BY <1>3, <2>1, <2>2
<1>7. CleanChain(g, new)
  BY <1>4, <1>6 DEF CleanChain
<1> QED BY <1>2, <1>7

(* The clean views of a shorter journal.                                   *)
LEMMA CleanShrinks ==
  ASSUME NEW h, NEW es \in Seq(Entry), Len(es) > 0, CleanChain(h, es)
  PROVE  CleanChain(h, SubSeq(es, 1, Len(es) - 1))
<1>1. PICK n \in Nat : n = Len(es) /\ n > 0
  BY Popped
<1>2. PICK s : s = SubSeq(es, 1, n - 1)
  BY ZenonT(30)
<1>3. Len(s) = n - 1 /\ \A i \in 1 .. n - 1 : s[i] = es[i]
  BY <1>1, <1>2, Popped
<1>4. ASSUME NEW i \in 0 .. n - 1, NEW a \in Addr, \A j \in 1 .. i : ~Touches(s[j], a)
      PROVE  Clean(a, h[i].acc[a])
  <2>1. \A j \in 1 .. i : ~Touches(es[j], a)
    BY <1>1, <1>3, <1>4
  <2>2. i \in 0 .. n
    BY <1>1
  <2> QED BY <1>1, <2>1, <2>2 DEF CleanChain
<1>5. CleanChain(h, s)
  BY <1>3, <1>4 DEF CleanChain
<1> QED BY <1>1, <1>2, <1>5

-----------------------------------------------------------------------------
(* What the operations on an account store and journal.                    *)

(* A setter or a getter: the object stored is sound and keeps the cache of *)
(* the old one, and a storage entry is about a cached word.                *)
Setter(a) ==
  \E obj \in Object :
    /\ Sound(a, obj) /\ CachedKeys(stateObjects[a]) \subseteq CachedKeys(obj)
    /\ \/ SetObject(a, obj, journal)
       \/ SetObject(a, obj, orNewJournal(a))
       \/ \E e \in Entry :
            /\ e.op \in ObjectOps /\ e.addr = a /\ EntrySound(e)
            /\ e.op = "storage" => e.key \in CachedKeys(obj)
            /\ SetObject(a, obj, append(orNewJournal(a), e))

(* CreateAccount over an account that exists.                              *)
overwritten(a) == [newObject(emptyAccount) EXCEPT !.balance = getStateObject(a).balance]

Resetter(a) ==
  /\ getStateObject(a) # NoObject
  /\ getStateObject(a).nonce = 0 /\ getStateObject(a).codeHash = NoCode
  /\ SetObject(a, overwritten(a), append(journal, resetObjectChange(a, getStateObject(a))))

(* SetCode marks the code dirty, and its entry holds a code the keeper     *)
(* need not have.                                                          *)
LEMMA SetCodeSound ==
  ASSUME NEW a \in Addr, NEW obj \in Object, Sound(a, obj), NEW c \in CodeHash
  PROVE  /\ Sound(a, [obj EXCEPT !.code = c, !.codeHash = c, !.dirtyCode = TRUE])
         /\ CachedKeys([obj EXCEPT !.code = c, !.codeHash = c, !.dirtyCode = TRUE])
              = CachedKeys(obj)
         /\ EntrySound(codeChange(a, obj))
<1> DEFINE o == [obj EXCEPT !.code = c, !.codeHash = c, !.dirtyCode = TRUE]
<1>1. o \in Object
  BY CodeJournaled, ZenonT(30)
<1>2. /\ o.origin = obj.origin /\ o.dirty = obj.dirty /\ o.codeHash = c
      /\ o.code = c /\ o.dirtyCode = TRUE
  BY DEF Object, stateObject
<1>3. EntrySound(codeChange(a, obj))
  BY ReadCodeSound, ZenonT(30) DEF EntrySound, codeChange
<1> HIDE DEF o
<1>4. Sound(a, o) /\ CachedKeys(o) = CachedKeys(obj)
  BY <1>1, <1>2, ObjectAssumption DEF Sound, Coherent, CodeSound, CachedKeys, Object
<1> QED BY <1>3, <1>4 DEF o

(* SetState caches the committed word before it sets the dirty one.        *)
LEMMA SetStateSound ==
  ASSUME TypeInv, NEW a \in Addr, NEW obj \in Object, Sound(a, obj), NEW k \in Key, NEW v \in Value,
         k \in CachedKeys(obj)
  PROVE  /\ Sound(a, [obj EXCEPT !.dirty[k] = v])
         /\ CachedKeys([obj EXCEPT !.dirty[k] = v]) = CachedKeys(obj)
<1> DEFINE o == [obj EXCEPT !.dirty[k] = v]
<1>1. o \in Object
  BY StorageJournaled
<1>2. /\ o.origin = obj.origin /\ o.dirty = [obj.dirty EXCEPT ![k] = v]
      /\ o.codeHash = obj.codeHash /\ o.code = obj.code /\ o.dirtyCode = obj.dirtyCode
      /\ obj.dirty \in [Key -> Word]
  BY DEF Object, stateObject
<1>3. obj # NoObject /\ o # NoObject
  BY <1>1, ObjectAssumption DEF Object
<1>4. obj.origin[k] # NoValue
  BY <1>3 DEF CachedKeys
<1> HIDE DEF o
<1>5. Sound(a, o) /\ CachedKeys(o) = CachedKeys(obj)
  BY <1>2, <1>3, <1>4 DEF Sound, Coherent, CodeSound, CachedKeys
<1> QED BY <1>5 DEF o

(* Every operation on an account is of one of the two forms.               *)
LEMMA AccountStepShape ==
  ASSUME TypeInv, HashesStored, NEW a \in Addr,
         stateObjects[a] # NoObject => Sound(a, stateObjects[a]),
         AccountStep(a)
  PROVE  Setter(a) \/ Resetter(a)
<1> DEFINE obj == orNewObject(a)
           cur == getStateObject(a)
<1>1. obj \in Object /\ cur \in Object \cup {NoObject} /\ (cur # NoObject => obj = cur)
  BY GetObjectType, ZenonT(30) DEF orNewObject
<1>2. Sound(a, obj)
  BY LoadedSound
<1>3. CachedKeys(stateObjects[a]) \subseteq CachedKeys(obj)
  BY DEF CachedKeys, orNewObject, getStateObject
<1>4. ASSUME NEW o \in Object, Sound(a, o), CachedKeys(obj) \subseteq CachedKeys(o),
             SetObject(a, o, journal) \/ SetObject(a, o, orNewJournal(a))
      PROVE  Setter(a)
  BY <1>3, <1>4, ZenonT(30) DEF Setter
<1>5. ASSUME NEW o \in Object, Sound(a, o), CachedKeys(obj) \subseteq CachedKeys(o), NEW e \in Entry,
             e.op \in ObjectOps, e.addr = a, EntrySound(e),
             e.op = "storage" => e.key \in CachedKeys(o),
             SetObject(a, o, append(orNewJournal(a), e))
      PROVE  Setter(a)
  <2>1. CachedKeys(stateObjects[a]) \subseteq CachedKeys(o)
    BY <1>3, <1>5
  <2> QED BY <1>5, <2>1, ZenonT(30) DEF Setter
<1> HIDE DEF obj
<1>6. CASE ReadAccount(a)
  BY <1>1, <1>2, <1>4, <1>6 DEF ReadAccount
<1>7. CASE ReadCode(a)
  <2>1. [obj EXCEPT !.code = CodeOf(obj)] \in Object
    BY <1>1, CacheCodeType
  <2>2. SetObject(a, [obj EXCEPT !.code = CodeOf(obj)], journal)
    BY <1>1, <1>7 DEF ReadCode
  <2> QED BY <1>1, <1>2, <1>4, <2>1, <2>2, ReadCodeSound
<1>8. ASSUME NEW k \in Key, ReadState(a, k) PROVE Setter(a)
  <2>1. CacheState(a, obj, k) \in Object
    BY <1>1, ReadTypes, ZenonT(30)
  <2>2. SetObject(a, CacheState(a, obj, k), journal)
    BY <1>1, <1>8, ZenonT(30) DEF ReadState
  <2>3. Sound(a, CacheState(a, obj, k)) /\ CachedKeys(obj) \subseteq CachedKeys(CacheState(a, obj, k))
    BY <1>1, <1>2, ReadSound, ZenonT(30)
  <2> QED BY <1>4, <2>1, <2>2, <2>3
<1>9. ASSUME NEW k \in Key, ReadCommittedState(a, k) PROVE Setter(a)
  <2>1. [obj EXCEPT !.origin[k] = GetCommittedState(a, obj, k)] \in Object
    BY <1>1, ReadTypes
  <2>2. SetObject(a, [obj EXCEPT !.origin[k] = GetCommittedState(a, obj, k)], journal)
    BY <1>1, <1>9 DEF ReadCommittedState
  <2> QED BY <1>1, <1>2, <1>4, <2>1, <2>2, ReadSound
<1>10. CASE CreateAccount(a)
  <2>1. CASE cur = NoObject
    <3>1. SetObject(a, obj, orNewJournal(a))
      BY <1>10, <2>1 DEF CreateAccount, obj, orNewObject, orNewJournal
    <3> QED BY <1>1, <1>2, <1>4, <3>1
  <2>2. CASE cur # NoObject
    BY <1>10, <2>2 DEF CreateAccount, Creatable, Resetter, overwritten
  <2> QED BY <2>1, <2>2
<1>11. ASSUME NEW b \in Nat, SetBalance(a, obj, b) PROVE Setter(a)
  <2> DEFINE o == [obj EXCEPT !.balance = b]
             e == balanceChange(a, obj)
  <2>1. o \in Object /\ Sound(a, o) /\ CachedKeys(o) = CachedKeys(obj)
    BY <1>1, <1>2, BalanceJournaled, FieldsSound, ZenonT(30)
  <2>2. e \in Entry /\ e.op = "balance" /\ e.addr = a
    BY <1>1, EntryTypes DEF balanceChange
  <2>3. SetObject(a, o, append(orNewJournal(a), e))
    BY <1>11 DEF SetBalance
  <2> HIDE DEF o, e
  <2> QED BY <1>5, <2>1, <2>2, <2>3 DEF ObjectOps, EntrySound
<1>12. ASSUME NEW amount \in Amount, AddBalance(a, amount) PROVE Setter(a)
  <2>1. obj.balance + amount \in Nat
    BY <1>1, AmountAssumption DEF Object, stateObject
  <2> QED BY <1>1, <1>2, <1>4, <1>11, <1>12, <2>1 DEF AddBalance, obj
<1>13. ASSUME NEW amount \in Amount, SubBalance(a, amount) PROVE Setter(a)
  <2>1. obj.balance - amount \in Nat
    BY <1>1, <1>13, AmountAssumption DEF Object, stateObject, SubBalance, obj
  <2> QED BY <1>1, <1>2, <1>4, <1>11, <1>13, <2>1 DEF SubBalance, obj
<1>14. ASSUME NEW n \in Nonce, SetNonce(a, n) PROVE Setter(a)
  <2> DEFINE o == [obj EXCEPT !.nonce = n]
             e == nonceChange(a, obj)
  <2>1. o \in Object /\ Sound(a, o) /\ CachedKeys(o) = CachedKeys(obj)
    <3>1. n \in Nat
      BY NonceAssumption
    <3> QED BY <1>1, <1>2, <3>1, NonceJournaled, FieldsSound, ZenonT(30)
  <2>2. e \in Entry /\ e.op = "nonce" /\ e.addr = a
    BY <1>1, EntryTypes DEF nonceChange
  <2>3. SetObject(a, o, append(orNewJournal(a), e))
    BY <1>14 DEF SetNonce, obj
  <2> HIDE DEF o, e
  <2> QED BY <1>5, <2>1, <2>2, <2>3 DEF ObjectOps, EntrySound
<1>15. ASSUME NEW c \in CodeHash, SetCode(a, c) PROVE Setter(a)
  <2> DEFINE o == [obj EXCEPT !.code = c, !.codeHash = c, !.dirtyCode = TRUE]
             e == codeChange(a, obj)
  <2>1. o \in Object /\ Sound(a, o) /\ CachedKeys(o) = CachedKeys(obj) /\ EntrySound(e)
    BY <1>1, <1>2, CodeJournaled, SetCodeSound, ZenonT(30)
  <2>2. e \in Entry /\ e.op = "code" /\ e.addr = a
    BY <1>1, EntryTypes DEF codeChange
  <2>3. SetObject(a, o, append(orNewJournal(a), e))
    BY <1>15 DEF SetCode, obj
  <2> HIDE DEF o, e
  <2> QED BY <1>5, <2>1, <2>2, <2>3 DEF ObjectOps
<1>16. ASSUME NEW k \in Key, NEW v \in Value, SetState(a, k, v) PROVE Setter(a)
  <2> DEFINE o == CacheState(a, obj, k)
             prev == GetState(a, o, k)
             new == [o EXCEPT !.dirty[k] = v]
             e == storageChange(a, k, prev)
  <2>1. o \in Object /\ prev \in Value
    BY <1>1, ReadTypes, ZenonT(30)
  <2>2. Sound(a, o) /\ CachedKeys(obj) \cup {k} \subseteq CachedKeys(o)
    BY <1>1, <1>2, ReadSound, ZenonT(30)
  <2>3. \/ SetObject(a, o, orNewJournal(a))
        \/ SetObject(a, new, append(orNewJournal(a), e))
    BY <1>16 DEF SetState, obj
  <2>4. e \in Entry /\ e.op = "storage" /\ e.addr = a /\ e.key = k
    BY <2>1, EntryTypes DEF storageChange
  <2> HIDE DEF o, prev, e
  <2>5. new \in Object /\ Sound(a, new) /\ CachedKeys(new) = CachedKeys(o)
    BY <2>1, <2>2, StorageJournaled, SetStateSound
  <2> HIDE DEF new
  <2> QED BY <1>4, <1>5, <2>1, <2>2, <2>3, <2>4, <2>5 DEF ObjectOps, EntrySound
<1>17. CASE Suicide(a)
  <2> DEFINE o == [obj EXCEPT !.suicided = TRUE, !.balance = 0]
             e == suicideChange(a, obj)
  <2>1. cur # NoObject /\ orNewJournal(a) = journal
    BY <1>17 DEF Suicide, orNewJournal
  <2>2. o \in Object /\ Sound(a, o) /\ CachedKeys(o) = CachedKeys(obj)
    <3>1. 0 \in Nat /\ TRUE \in BOOLEAN
      OBVIOUS
    <3> QED BY <1>1, <1>2, <3>1, SuicideJournaled, FieldsSound, ZenonT(30)
  <2>3. e \in Entry /\ e.op = "suicide" /\ e.addr = a
    BY <1>1, EntryTypes DEF suicideChange
  <2>4. SetObject(a, o, append(orNewJournal(a), e))
    BY <1>1, <1>17, <2>1 DEF Suicide
  <2> HIDE DEF o, e
  <2> QED BY <1>5, <2>2, <2>3, <2>4 DEF ObjectOps, EntrySound
<1> QED BY <1>6, <1>7, <1>8, <1>9, <1>10, <1>12, <1>13, <1>14, <1>15, <1>16, <1>17
        DEF AccountStep

-----------------------------------------------------------------------------
(* The calls keep the invariant.                                           *)

(* An entry that resets no object extends the chain of clean views.        *)
LEMMA ExtendsClean ==
  ASSUME NEW h, NEW es \in Seq(Entry), NEW s, NEW es2, NEW t,
         ChainOver(h, es, s), CleanChain(h, es), DOMAIN s.acc = Addr, Extends(es, s, es2, t),
         \A e \in Entry : es2 = Append(es, e) => e.op # "resetObject"
  PROVE  /\ es2 \in Seq(Entry) /\ DOMAIN t.acc = Addr
         /\ \E g : ChainOver(g, es2, t) /\ CleanChain(g, es2)
<1>1. CASE es2 = es /\ t = s
  BY <1>1
<1>2. ASSUME NEW e \in Entry, es2 = Append(es, e), Linked(e, s, t)
      PROVE  /\ es2 \in Seq(Entry) /\ DOMAIN t.acc = Addr
             /\ \E g : ChainOver(g, es2, t) /\ CleanChain(g, es2)
  <2>1. DOMAIN t.acc = Addr /\ LeavesClean(e, s, t)
    BY <1>2, LinkLeavesClean
  <2>2. es2 \in Seq(Entry)
    BY <1>2
  <2> QED BY <1>2, <2>1, <2>2, CleanGrows
<1> QED BY <1>1, <1>2 DEF Extends

(* The chain of clean views over the next journal.                         *)
LEMMA CleanNext ==
  ASSUME UNCHANGED keeperVars, NEW g, NEW es, NEW now, es = journal'.entries, now = Shadow',
         ChainOver(g, es, now), CleanChain(g, es)
  PROVE  CleanInv'
<1>1. ChainOver(g, es, now)' /\ CleanChain(g, es)'
  BY ChainStable, CleanStable
<1>2. ChainOver(g, journal.entries, Shadow)' /\ CleanChain(g, journal.entries)'
  BY <1>1 DEF ChainOver, CleanChain
<1> QED BY <1>2 DEF CleanInv

NoNewReset ==
  \A i \in Len(journal.entries) + 1 .. Len(journal'.entries) :
    journal'.entries[i].op # "resetObject"

(* A call that resets no object keeps the chain of clean views.            *)
LEMMA CallKeepsClean ==
  ASSUME TypeInv, CleanInv, UNCHANGED keeperVars, CallExtends, NoNewReset
  PROVE  CleanInv'
<1>1. PICK was, old : was = Shadow /\ old = journal.entries
  OBVIOUS
<1>2. PICK now, fin : now = Shadow' /\ fin = journal'.entries
  OBVIOUS
<1>3. PICK h : ChainOver(h, old, was) /\ CleanChain(h, old)
  BY <1>1 DEF CleanInv
<1>4. old \in Seq(Entry) /\ DOMAIN was.acc = Addr
  BY <1>1 DEF TypeInv, Shadow
<1>5. PICK es, mid : Extends(old, was, es, mid) /\ Extends(es, mid, fin, now)
  BY <1>1, <1>2 DEF CallExtends
<1>6. \A i \in Len(old) + 1 .. Len(fin) : fin[i].op # "resetObject"
  BY <1>1, <1>2 DEF NoNewReset
<1>7. PICK n \in Nat : n = Len(old)
  BY <1>4
<1>8. es \in Seq(Entry) /\ Len(es) \in {n, n + 1}
  BY <1>4, <1>5, <1>7 DEF Extends
<1>9. ASSUME NEW e \in Entry, fin = Append(es, e) PROVE e.op # "resetObject"
  <2>1. Len(fin) = Len(es) + 1 /\ fin[Len(es) + 1] = e
    BY <1>8, <1>9
  <2>2. Len(es) + 1 \in n + 1 .. Len(fin)
    BY <1>8, <2>1
  <2> QED BY <1>6, <1>7, <2>1, <2>2
<1>10. ASSUME NEW e \in Entry, es = Append(old, e) PROVE e.op # "resetObject"
  <2>1. Len(es) = n + 1 /\ es[n + 1] = e
    BY <1>4, <1>7, <1>10
  <2>2. Len(fin) >= n + 1 /\ Len(fin) \in Nat /\ fin[n + 1] = e
    <3>1. CASE fin = es
      BY <2>1, <3>1
    <3>2. ASSUME NEW f \in Entry, fin = Append(es, f)
          PROVE  Len(fin) >= n + 1 /\ Len(fin) \in Nat /\ fin[n + 1] = e
      BY <1>8, <2>1, <3>2
    <3> QED BY <1>5, <3>1, <3>2 DEF Extends
  <2>3. n + 1 \in n + 1 .. Len(fin)
    BY <2>2
  <2> QED BY <1>6, <1>7, <2>2, <2>3
<1>11. PICK g : DOMAIN mid.acc = Addr /\ ChainOver(g, es, mid) /\ CleanChain(g, es)
  BY <1>3, <1>4, <1>5, <1>10, ExtendsClean
<1>12. PICK f : ChainOver(f, fin, now) /\ CleanChain(f, fin)
  BY <1>5, <1>8, <1>9, <1>11, ExtendsClean
<1> QED BY <1>2, <1>12, CleanNext

(* What Commit relies on, for the next journal and objects.                *)
LEMMA CommittableNext ==
  ASSUME UNCHANGED keeperVars, HashesStored, CleanInv', NEW es, NEW objs,
         es = journal'.entries, objs = stateObjects',
         EntriesSound(es), \E c : CacheChain(c, es, objs),
         \A b \in Addr : objs[b] # NoObject => Sound(b, objs[b])
  PROVE  Committable'
<1>1. /\ \A e : EntrySound(e)' <=> EntrySound(e)
      /\ \A b, obj : Sound(b, obj)' <=> Sound(b, obj)
      /\ HashesStored'
  BY SoundStable
<1>2. EntriesSound(journal.entries)'
  BY <1>1 DEF EntriesSound
<1>3. ObjectsSound'
  BY <1>1 DEF ObjectsSound
<1>4. PICK c : CacheChain(c, es, objs)
  OBVIOUS
<1>5. CacheChain(c, journal.entries, stateObjects)'
  BY <1>4 DEF CacheChain, CacheLink, CachedKeys
<1> QED BY <1>1, <1>2, <1>3, <1>5 DEF Committable, CacheInv

(* A call that only appends keeps what Commit relies on.                   *)
LEMMA AppendedKeeps ==
  ASSUME TypeInv, Committable, UNCHANGED keeperVars, CallExtends,
         Appended(Len(journal.entries), journal'.entries, stateObjects'),
         \A b \in Addr : stateObjects'[b] # NoObject => Sound(b, stateObjects'[b])
  PROVE  Committable'
<1>1. CleanInv'
  BY CallKeepsClean DEF Committable, Appended, NoResetAfter, NoNewReset
<1>2. PICK es, objs : es = journal'.entries /\ objs = stateObjects'
  BY ZenonT(30)
<1>3. /\ EntriesSound(es) /\ \E c : CacheChain(c, es, objs)
      /\ \A b \in Addr : objs[b] # NoObject => Sound(b, objs[b])
  BY <1>2 DEF Appended
<1> QED BY <1>1, <1>2, <1>3, CommittableNext, ZenonT(30) DEF Committable

(* The setters and getters keep the invariant.                             *)
LEMMA SetterKeeps ==
  ASSUME TypeInv, Committable, NEW a \in Addr, Setter(a), CallExtends
  PROVE  Committable'
<1>1. PICK obj \in Object :
        /\ Sound(a, obj) /\ CachedKeys(stateObjects[a]) \subseteq CachedKeys(obj)
        /\ \/ SetObject(a, obj, journal)
           \/ SetObject(a, obj, orNewJournal(a))
           \/ \E e \in Entry :
                /\ e.op \in ObjectOps /\ e.addr = a /\ EntrySound(e)
                /\ e.op = "storage" => e.key \in CachedKeys(obj)
                /\ SetObject(a, obj, append(orNewJournal(a), e))
  BY ZenonT(30) DEF Setter
<1>2. UNCHANGED keeperVars /\ stateObjects' = [stateObjects EXCEPT ![a] = obj]
  BY <1>1 DEF SetObject
<1>3. PICK n, es, mid, next, create :
        /\ es = journal.entries /\ mid = orNewJournal(a).entries /\ next = stateObjects'
        /\ create = createObjectChange(a) /\ n = Len(es)
  BY ZenonT(30)
<1>4. es \in Seq(Entry) /\ n \in Nat
  BY <1>3 DEF TypeInv
<1>5. /\ create \in Entry /\ create.op = "createObject" /\ create.addr = a
      /\ mid = es \/ (mid = Append(es, create) /\ stateObjects[a] = NoObject)
  BY <1>3, OrNewEntries
<1>6. next[a] = obj /\ \A b \in Addr : b # a => next[b] = stateObjects[b]
  BY <1>2, <1>3 DEF TypeInv
<1>7. \A b \in Addr : CachedKeys(stateObjects[b]) \subseteq CachedKeys(next[b])
  BY <1>1, <1>6
<1>8. Appended(n, es, stateObjects) /\ Appended(n, es, next)
  <2>1. PICK c : CacheChain(c, es, stateObjects)
    BY <1>3 DEF Committable, CacheInv
  <2>2. CacheChain(c, es, next)
    BY <1>7, <2>1, CacheObjects
  <2>3. EntriesSound(es) /\ NoResetAfter(n, es)
    BY <1>3, <1>4 DEF Committable, NoResetAfter
  <2> QED BY <1>4, <2>1, <2>2, <2>3 DEF Appended
<1>9. Appended(n, mid, next)
  <2>1. CASE mid = es
    BY <1>8, <2>1
  <2>2. CASE mid = Append(es, create) /\ stateObjects[a] = NoObject
    <3>1. EntrySound(create)
      BY <1>5 DEF EntrySound
    <3>2. \A b \in Addr : CachedKeys(stateObjects[b]) \subseteq
            (IF create.op = "createObject" /\ create.addr = b THEN {} ELSE CachedKeys(next[b]))
      BY <1>5, <1>7, <2>2 DEF CachedKeys
    <3> QED BY <1>4, <1>5, <1>8, <2>2, <3>1, <3>2, AppendedGrows, ZenonT(30)
  <2> QED BY <1>5, <2>1, <2>2
<1>10. ASSUME NEW e \in Entry, e.op \in ObjectOps, e.addr = a, EntrySound(e),
              e.op = "storage" => e.key \in CachedKeys(obj)
       PROVE  Appended(n, Append(mid, e), next)
  <2>1. e.op # "resetObject" /\ e.op # "createObject"
    BY <1>10 DEF ObjectOps
  <2> QED BY <1>4, <1>6, <1>9, <1>10, <2>1, AppendedGrows
<1>11. Appended(n, journal'.entries, next)
  <2>1. CASE SetObject(a, obj, journal)
    BY <1>3, <1>8, <2>1 DEF SetObject
  <2>2. CASE SetObject(a, obj, orNewJournal(a))
    BY <1>3, <1>9, <2>2 DEF SetObject
  <2>3. ASSUME NEW e \in Entry, e.op \in ObjectOps, e.addr = a, EntrySound(e),
               e.op = "storage" => e.key \in CachedKeys(obj),
               SetObject(a, obj, append(orNewJournal(a), e))
        PROVE  Appended(n, journal'.entries, next)
    <3>1. journal'.entries = Append(mid, e)
      BY <1>3, <2>3 DEF SetObject, append
    <3> QED BY <1>10, <2>3, <3>1
  <2> QED BY <1>1, <2>1, <2>2, <2>3
<1>12. \A b \in Addr : next[b] # NoObject => Sound(b, next[b])
  BY <1>1, <1>6 DEF Committable, ObjectsSound
<1> QED BY <1>2, <1>3, <1>11, <1>12, AppendedKeeps

(* So do the operations that are not on an account.                        *)
LEMMA OtherKeeps ==
  ASSUME TypeInv, Committable, OtherStep, CallExtends
  PROVE  Committable'
<1>1. UNCHANGED keeperVars /\ UNCHANGED stateObjects
  BY DEF OtherStep, AddRefund, SubRefund, AddLog, AddAddressToAccessList, AddSlotToAccessList
<1>2. PICK n, es : es = journal.entries /\ n = Len(es)
  BY ZenonT(30)
<1>3. es \in Seq(Entry) /\ n \in Nat
  BY <1>2 DEF TypeInv
<1>4. Appended(n, es, stateObjects)
  BY <1>2, <1>3 DEF Committable, CacheInv, NoResetAfter, Appended
<1>5. ASSUME NEW s, Appended(n, s, stateObjects), NEW e \in Entry,
             e.op \notin ObjectOps \cup {"createObject", "resetObject"}
      PROVE  Appended(n, Append(s, e), stateObjects)
  <2>1. EntrySound(e) /\ e.op \notin {"resetObject", "createObject", "storage"}
    BY <1>5 DEF EntrySound, ObjectOps
  <2> QED BY <1>3, <1>5, <2>1, AppendedGrows
<1>6. ASSUME NEW gas \in Gas, AddRefund(gas) \/ SubRefund(gas)
      PROVE  Appended(n, journal'.entries, stateObjects)
  <2>1. refundChange(refund) \in Entry /\ refundChange(refund).op = "refund"
    BY OtherEntryTypes DEF TypeInv, TypeOK, refundChange
  <2>2. journal'.entries = Append(es, refundChange(refund))
    BY <1>2, <1>6 DEF AddRefund, SubRefund, append
  <2> QED BY <1>4, <1>5, <2>1, <2>2 DEF ObjectOps
<1>7. ASSUME NEW l \in Log, AddLog(l) PROVE Appended(n, journal'.entries, stateObjects)
  <2>1. addLogChange \in Entry /\ addLogChange.op = "addLog"
    BY OtherEntryTypes DEF addLogChange
  <2>2. journal'.entries = Append(es, addLogChange)
    BY <1>2, <1>7 DEF AddLog, append
  <2> QED BY <1>4, <1>5, <2>1, <2>2 DEF ObjectOps
<1>8. ASSUME NEW a \in Addr, NEW s, Appended(n, s, stateObjects)
      PROVE  Appended(n, Append(s, accessListAddAccountChange(a)), stateObjects)
  <2>1. /\ accessListAddAccountChange(a) \in Entry
        /\ accessListAddAccountChange(a).op = "accessListAddAccount"
    BY OtherEntryTypes DEF accessListAddAccountChange
  <2> QED BY <1>5, <1>8, <2>1 DEF ObjectOps
<1>9. ASSUME NEW a \in Addr, AddAddressToAccessList(a)
      PROVE  Appended(n, journal'.entries, stateObjects)
  <2>1. journal'.entries \in {es, Append(es, accessListAddAccountChange(a))}
    BY <1>2, <1>9 DEF AddAddressToAccessList, append
  <2> QED BY <1>4, <1>8, <2>1, ZenonT(30)
<1>10. ASSUME NEW a \in Addr, NEW k \in Key, AddSlotToAccessList(a, k)
       PROVE  Appended(n, journal'.entries, stateObjects)
  <2> DEFINE e == accessListAddSlotChange(a, k)
             j == IF ContainsAddress(accessList, a) THEN journal
                  ELSE append(journal, accessListAddAccountChange(a))
  <2>1. e \in Entry /\ e.op = "accessListAddSlot"
    BY OtherEntryTypes DEF accessListAddSlotChange
  <2>2. Appended(n, j.entries, stateObjects)
    BY <1>2, <1>4, <1>8 DEF append
  <2>3. journal' = j \/ journal' = append(j, e)
    BY <1>10 DEF AddSlotToAccessList
  <2> HIDE DEF e, j
  <2>4. append(j, e).entries = Append(j.entries, e)
    BY DEF append
  <2>5. Appended(n, Append(j.entries, e), stateObjects)
    BY <1>5, <2>1, <2>2, ZenonT(30) DEF ObjectOps
  <2> QED BY <2>2, <2>3, <2>4, <2>5, ZenonT(30)
<1>11. Appended(n, journal'.entries, stateObjects)
  BY <1>6, <1>7, <1>9, <1>10 DEF OtherStep
<1>12. \A b \in Addr : stateObjects'[b] # NoObject => Sound(b, stateObjects'[b])
  BY <1>1 DEF Committable, ObjectsSound
<1> QED BY <1>1, <1>2, <1>11, <1>12, AppendedKeeps

(* A call that appends one entry is linked by it.                          *)
LEMMA OneEntryLinked ==
  ASSUME NEW es \in Seq(Entry), NEW e \in Entry, NEW s, NEW t, NEW mes, NEW mid,
         Extends(es, s, mes, mid), Extends(mes, mid, Append(es, e), t)
  PROVE  Linked(e, s, t)
<1>1. \A x, y \in Entry : Append(es, x) = Append(es, y) => x = y
  OBVIOUS
<1>2. CASE mes = es /\ mid = s
  <2>1. Append(es, e) # es
    OBVIOUS
  <2> QED BY <1>1, <1>2, <2>1 DEF Extends
<1>3. ASSUME NEW x \in Entry, mes = Append(es, x), Linked(x, s, mid)
      PROVE  Linked(e, s, t)
  <2>1. \A y \in Entry : Len(Append(mes, y)) # Len(Append(es, e))
    BY <1>3
  <2>2. Append(es, e) = mes /\ t = mid
    BY <2>1 DEF Extends
  <2> QED BY <1>1, <1>3, <2>2
<1> QED BY <1>2, <1>3 DEF Extends

(* A fresh object obj with the balance of cur, and the entry e that holds  *)
(* cur: what CreateAccount stores and journals over an account.            *)
Overwrites(a, cur, obj, e) ==
  /\ cur \in Object /\ cur.nonce = 0 /\ cur.codeHash = NoCode /\ Sound(a, cur)
  /\ CachedKeys(stateObjects[a]) \subseteq CachedKeys(cur)
  /\ obj \in Object /\ obj.balance = cur.balance
  /\ obj.nonce = 0 /\ obj.codeHash = NoCode /\ obj.suicided = FALSE
  /\ \A k \in Key : obj.origin[k] = NoValue /\ obj.dirty[k] = NoValue
  /\ e \in Entry /\ e.op = "resetObject" /\ e.addr = a /\ e.prev = cur

(* Where the account was clean, the new object shows what the keeper has.  *)
LEMMA OverwrittenClean ==
  ASSUME TypeInv, NEW a \in Addr, NEW cur, NEW obj, NEW e, Overwrites(a, cur, obj, e),
         Clean(a, AccountView(a, cur))
  PROVE  Clean(a, AccountView(a, obj))
<1>1. cur \in Object /\ obj \in Object
  BY DEF Overwrites
<1>2. AccountView(a, cur) # NoAccount /\ AccountView(a, obj) # NoAccount
  BY <1>1, ViewType
<1>3. /\ AccountView(a, cur).nonce = 0 /\ AccountView(a, cur).balance = cur.balance
      /\ AccountView(a, cur).codeHash = NoCode
  BY <1>1, ViewShows, ZenonT(30) DEF Overwrites
<1>4. /\ accounts[a] # NoAccount /\ accounts[a].nonce = 0
      /\ accounts[a].balance = cur.balance /\ accounts[a].codeHash = NoCode
  BY <1>2, <1>3 DEF Clean
<1>5. /\ AccountView(a, obj).nonce = 0 /\ AccountView(a, obj).balance = cur.balance
      /\ AccountView(a, obj).codeHash = NoCode /\ AccountView(a, obj).suicided = FALSE
      /\ \A k \in Key : AccountView(a, obj).state[k] = GetState(a, obj, k)
  BY <1>1, ViewShows, ZenonT(30) DEF Overwrites
<1>6. \A k \in Key : GetState(a, obj, k) = keeperState(a, k)
  BY DEF GetState, GetCommittedState, Overwrites
<1> QED BY <1>2, <1>4, <1>5, <1>6 DEF Clean

(* The objects and the entry of a CreateAccount over an account.           *)
LEMMA ResetterFields ==
  ASSUME TypeInv, Committable, NEW a \in Addr, Resetter(a), NEW cur, cur = getStateObject(a)
  PROVE  Overwrites(a, cur, overwritten(a), resetObjectChange(a, cur))
<1>1. PICK obj, e : obj = overwritten(a) /\ e = resetObjectChange(a, cur)
  BY ZenonT(30)
<1>2. cur \in Object /\ cur.nonce = 0 /\ cur.codeHash = NoCode /\ Sound(a, cur)
  BY GetObjectType, LoadedSound DEF Resetter, Committable, ObjectsSound
<1>3. e \in Entry /\ e.op = "resetObject" /\ e.addr = a /\ e.prev = cur
  BY <1>1, <1>2, EntryTypes, ZenonT(30) DEF resetObjectChange
<1>4. CachedKeys(stateObjects[a]) \subseteq CachedKeys(cur)
  BY ZenonT(30) DEF CachedKeys, getStateObject
<1>5. newObject(emptyAccount) \in Object /\ emptyAccount \in Account /\ cur.balance \in Nat
  BY <1>2, NewObjectType, EmptyAccountType DEF Object, stateObject
<1>6. obj \in Object
  BY <1>1, <1>5, BalanceJournaled DEF overwritten
<1>7. /\ obj.balance = cur.balance
      /\ obj.nonce = 0 /\ obj.codeHash = NoCode /\ obj.suicided = FALSE
      /\ \A k \in Key : obj.origin[k] = NoValue /\ obj.dirty[k] = NoValue
  BY <1>1, <1>5, NewObjectFields, ZenonT(30) DEF overwritten, emptyAccount, Object, stateObject
<1>8. Overwrites(a, cur, obj, e)
  BY <1>2, <1>3, <1>4, <1>6, <1>7, ZenonT(30) DEF Overwrites
<1> QED BY <1>1, <1>8, ZenonT(30)

(* CreateAccount over an account that exists keeps the clean views.        *)
LEMMA OverwriteKeepsClean ==
  ASSUME TypeInv, Committable, NEW a \in Addr, CallExtends, NEW obj, NEW e, NEW es, NEW fin,
         UNCHANGED keeperVars, Overwrites(a, getStateObject(a), obj, e),
         es = journal.entries, fin = journal'.entries, fin = Append(es, e),
         Shadow' = Put(Shadow, a, AccountView(a, obj))
  PROVE  CleanInv'
<1>1. PICK was, now : was = Shadow /\ now = Shadow'
  BY ZenonT(30)
<1>2. es \in Seq(Entry) /\ e \in Entry
  BY DEF TypeInv, Overwrites
<1>3. Linked(e, was, now)
  BY <1>1, <1>2, OneEntryLinked DEF CallExtends
<1>4. now.acc[a] = AccountView(a, obj) /\ was.acc[a] = AccountView(a, getStateObject(a))
      /\ \A b \in Addr : b # a => now.acc[b] = was.acc[b]
  BY <1>1, ZenonT(30) DEF Put, Shadow
<1>5. Clean(a, was.acc[a]) => Clean(a, now.acc[a])
  BY <1>4, OverwrittenClean, ZenonT(30)
<1>6. LeavesClean(e, was, now)
  BY <1>4, <1>5 DEF LeavesClean
<1>7. PICK h : ChainOver(h, es, was) /\ CleanChain(h, es)
  BY <1>1 DEF Committable, CleanInv
<1>8. PICK g : ChainOver(g, fin, now) /\ CleanChain(g, fin)
  BY <1>2, <1>3, <1>6, <1>7, CleanGrows, ZenonT(30)
<1> QED BY <1>1, <1>8, CleanNext, ZenonT(30)

(* CreateAccount over an account that exists keeps the invariant.          *)
LEMMA ResetterKeeps ==
  ASSUME TypeInv, Committable, NEW a \in Addr, Resetter(a), CallExtends
  PROVE  Committable'
<1>1. PICK obj, e : obj = overwritten(a) /\ e = resetObjectChange(a, getStateObject(a))
  BY ZenonT(30)
<1>2. SetObject(a, obj, append(journal, e)) /\ Overwrites(a, getStateObject(a), obj, e)
  BY <1>1, ResetterFields, ZenonT(30) DEF Resetter
<1>3. /\ UNCHANGED keeperVars /\ stateObjects' = [stateObjects EXCEPT ![a] = obj]
      /\ journal'.entries = Append(journal.entries, e)
  BY <1>2 DEF SetObject, append
<1>4. PICK es, fin, next : es = journal.entries /\ fin = journal'.entries /\ next = stateObjects'
  BY ZenonT(30)
<1>5. /\ es \in Seq(Entry) /\ e \in Entry /\ fin = Append(es, e)
      /\ next[a] = obj /\ \A b \in Addr : b # a => next[b] = stateObjects[b]
  BY <1>2, <1>3, <1>4 DEF TypeInv, Overwrites
<1>6. CleanInv'
  <2>1. Shadow' = Put(Shadow, a, AccountView(a, obj))
    BY <1>2, SetObjectShadow DEF Overwrites
  <2> QED BY <1>2, <1>3, <1>4, <1>5, <2>1, OverwriteKeepsClean, ZenonT(30)
<1>7. Sound(a, obj) /\ EntrySound(e)
  BY <1>2 DEF Sound, Coherent, CodeSound, Stored, EntrySound, Overwrites
<1>8. EntriesSound(fin)
  BY <1>4, <1>5, <1>7, EntriesAppend, ZenonT(30) DEF Committable
<1>9. \A b \in Addr : next[b] # NoObject => Sound(b, next[b])
  BY <1>5, <1>7 DEF Committable, ObjectsSound
<1>10. \E d : CacheChain(d, fin, next)
  <2>1. \A b \in Addr : CachedKeys(stateObjects[b]) \subseteq
           (IF e.op = "resetObject" /\ e.addr = b THEN CachedKeys(e.prev)
            ELSE IF e.op = "createObject" /\ e.addr = b THEN {} ELSE CachedKeys(next[b]))
    BY <1>2, <1>5 DEF Overwrites
  <2>2. (\E c : CacheChain(c, es, stateObjects)) /\ e.op # "storage"
    BY <1>2, <1>4 DEF Committable, CacheInv, Overwrites
  <2> QED BY <1>5, <2>1, <2>2, CacheAppend, ZenonT(30)
<1> QED BY <1>3, <1>4, <1>6, <1>8, <1>9, <1>10, CommittableNext, ZenonT(30) DEF Committable

-----------------------------------------------------------------------------
(* Undoing keeps the invariant.                                            *)

(* Undoing an entry about an object keeps it sound, and keeps its cache.   *)
LEMMA UndoSound ==
  ASSUME TypeInv, NEW a \in Addr, NEW obj \in Object, Sound(a, obj),
         NEW e \in Entry, e.op \in ObjectOps, EntrySound(e),
         e.op = "storage" => e.key \in CachedKeys(obj)
  PROVE  Sound(a, UndoObject(e, obj)) /\ CachedKeys(UndoObject(e, obj)) = CachedKeys(obj)
<1>1. PICK o : o = UndoObject(e, obj) /\ o \in Object
  BY UndoObjectType DEF ObjectOps
<1>2. CASE e.op \in {"suicide", "balance", "nonce"}
  <2>1. \/ o = [obj EXCEPT !.suicided = e.prev, !.balance = e.prevbalance]
        \/ o = [obj EXCEPT !.balance = e.prev]
        \/ o = [obj EXCEPT !.nonce = e.prev]
    BY <1>1, <1>2, ZenonT(30) DEF UndoObject
  <2>2. /\ o.origin = obj.origin /\ o.dirty = obj.dirty /\ o.codeHash = obj.codeHash
        /\ o.code = obj.code /\ o.dirtyCode = obj.dirtyCode
    BY <2>1, ZenonT(30) DEF Object, stateObject
  <2>3. Sound(a, o) /\ CachedKeys(o) = CachedKeys(obj)
    BY <1>1, <2>2, SameSound
  <2> QED BY <1>1, <2>3
<1>3. CASE e.op = "code"
  <2>1. o = [obj EXCEPT !.code = e.prevcode, !.codeHash = e.prevhash, !.dirtyCode = TRUE]
    BY <1>1, <1>3, ZenonT(30) DEF UndoObject
  <2>2. /\ o.origin = obj.origin /\ o.dirty = obj.dirty /\ o.codeHash = e.prevhash
        /\ o.code = e.prevcode /\ o.dirtyCode = TRUE
    BY <2>1 DEF Object, stateObject
  <2>3. Sound(a, o) /\ CachedKeys(o) = CachedKeys(obj)
    BY <1>1, <1>3, <2>2, ObjectAssumption
       DEF Sound, Coherent, CodeSound, EntrySound, CachedKeys, Object
  <2> QED BY <1>1, <2>3
<1>4. CASE e.op = "storage"
  <2>1. e.key \in Key /\ e.prevalue \in Value
    BY <1>4 DEF Entry, JournalEntry
  <2> QED BY <1>4, <2>1, SetStateSound DEF UndoObject
<1> QED BY <1>2, <1>3, <1>4 DEF ObjectOps

(* What an entry puts in the place of the cached keys of an account.       *)
UndoneKeys(e, b, keys) ==
  IF e.op = "resetObject" /\ e.addr = b THEN CachedKeys(e.prev)
  ELSE IF e.op = "createObject" /\ e.addr = b THEN {} ELSE keys

(* Undoing an entry keeps the objects sound.                               *)
LEMMA UndoKeepsObjects ==
  ASSUME TypeInv, HashesStored, ObjectsSound, NEW e \in Entry, EntrySound(e),
         e.op \in ObjectOps => getStateObject(e.addr) # NoObject,
         e.op = "storage" => e.key \in CachedKeys(stateObjects[e.addr]),
         NEW next, next = UndoObjects(e), NEW b \in Addr
  PROVE  /\ next[b] # NoObject => Sound(b, next[b])
         /\ UndoneKeys(e, b, CachedKeys(stateObjects[b])) \subseteq CachedKeys(next[b])
<1>1. CASE e.op \in ObjectOps /\ e.addr = b
  <2>1. PICK obj : obj = getStateObject(b)
    BY ZenonT(30)
  <2>2. obj \in Object /\ Sound(b, obj)
    BY <1>1, <2>1, GetObjectType, LoadedSound DEF ObjectsSound
  <2>3. CachedKeys(stateObjects[b]) \subseteq CachedKeys(obj)
    BY <2>1, ZenonT(30) DEF CachedKeys, getStateObject
  <2>4. Sound(b, UndoObject(e, obj)) /\ CachedKeys(UndoObject(e, obj)) = CachedKeys(obj)
    BY <1>1, <2>2, <2>3, UndoSound
  <2>5. next[b] = UndoObject(e, obj)
    BY <1>1, <2>1, ZenonT(30) DEF UndoObjects, ObjectOps, TypeInv
  <2> QED BY <1>1, <2>3, <2>4, <2>5 DEF UndoneKeys, ObjectOps
<1>2. CASE e.op = "createObject" /\ e.addr = b
  <2>1. next[b] = NoObject
    BY <1>2, ZenonT(30) DEF UndoObjects, TypeInv
  <2> QED BY <1>2, <2>1 DEF UndoneKeys, CachedKeys
<1>3. CASE e.op = "resetObject" /\ e.addr = b
  <2>1. next[b] = e.prev
    BY <1>3, ZenonT(30) DEF UndoObjects, TypeInv
  <2> QED BY <1>3, <2>1 DEF UndoneKeys, EntrySound
<1>4. CASE ~(e.op \in ObjectOps \cup {"createObject", "resetObject"} /\ e.addr = b)
  <2>1. next[b] = stateObjects[b]
    BY <1>4, ZenonT(30) DEF UndoObjects, ObjectOps, TypeInv
  <2> QED BY <1>4, <2>1 DEF UndoneKeys, ObjectsSound
<1> QED BY <1>1, <1>2, <1>3, <1>4

(* A turn of the loop of journal.revert.                                   *)
LEMMA RevertEntryKeeps ==
  ASSUME TypeInv, TypeInv', Committable, RevertEntry, Len(journal.entries) > 0
  PROVE  Committable'
<1>1. PICK es, n, e, was : /\ es = journal.entries /\ n = Len(es) /\ e = lastEntry
                           /\ was = Shadow /\ n > 0 /\ es \in Seq(Entry) /\ e = es[n]
  BY DEF lastEntry, TypeInv
<1>2. n \in Nat /\ e \in Entry
  BY <1>1, Popped
<1>3. PICK h : ChainOver(h, es, was) /\ CleanChain(h, es)
  BY <1>1 DEF Committable, CleanInv
<1>4. PICK rest, now : rest = SubSeq(es, 1, n - 1) /\ now = h[n - 1]
  BY ZenonT(30)
<1>5. Linked(e, now, was) /\ ChainOver(h, rest, now) /\ CleanChain(h, rest)
  BY <1>1, <1>3, <1>4, ChainShrinks, CleanShrinks
<1>6. /\ ~UndoFaults(e) /\ (e.op \in ObjectOps => getStateObject(e.addr) # NoObject)
      /\ Shadow' = now
  BY <1>1, <1>2, <1>5, UndoableNoFault, UndoCommutes DEF Linked
<1>7. PICK next, objs : next = stateObjects' /\ objs = stateObjects
  BY ZenonT(30)
<1>8. UNCHANGED keeperVars /\ journal'.entries = rest /\ next = UndoObjects(e)
  BY <1>1, <1>4, <1>6, <1>7 DEF RevertEntry, pop, ObjectOps
<1>9. CleanInv'
  BY <1>5, <1>6, <1>8, CleanNext
<1>10. PICK c : CacheChain(c, es, objs)
  BY <1>1, <1>7 DEF Committable, CacheInv
<1>11. EntrySound(e) /\ EntriesSound(rest)
  <2>1. Len(rest) = n - 1 /\ \A i \in 1 .. n - 1 : rest[i] = es[i]
    BY <1>1, <1>4, Popped
  <2> QED BY <1>1, <1>2, <2>1 DEF Committable, EntriesSound
<1>12. e.op = "storage" => e.key \in CachedKeys(objs[e.addr])
  <2>1. e.op = "storage" => e.addr \in Addr
    BY <1>2, ObjectEntryAddr DEF ObjectOps
  <2>2. CacheLink(e, c[n - 1], c[n]) /\ \A a \in Addr : c[n][a] \subseteq CachedKeys(objs[a])
    BY <1>1, <1>2, <1>10 DEF CacheChain
  <2> QED BY <2>1, <2>2 DEF CacheLink
<1>13. \A b \in Addr : /\ next[b] # NoObject => Sound(b, next[b])
                       /\ UndoneKeys(e, b, CachedKeys(objs[b])) \subseteq CachedKeys(next[b])
  BY <1>2, <1>6, <1>7, <1>8, <1>11, <1>12, UndoKeepsObjects, ZenonT(30) DEF Committable
<1>14. CacheChain(c, rest, next)
  <2>1. ASSUME NEW known, NEW after, CacheLink(e, known, after), NEW b \in Addr,
               \A a \in Addr : after[a] \subseteq CachedKeys(objs[a])
        PROVE  known[b] \subseteq CachedKeys(next[b])
    <3>1. known[b] \subseteq UndoneKeys(e, b, after[b])
      BY <2>1 DEF CacheLink, UndoneKeys
    <3>2. UndoneKeys(e, b, after[b]) \subseteq UndoneKeys(e, b, CachedKeys(objs[b]))
      BY <2>1 DEF UndoneKeys
    <3> QED BY <1>13, <3>1, <3>2
  <2> QED BY <1>1, <1>4, <1>10, <2>1, CacheShrinks, ZenonT(30)
<1> QED BY <1>7, <1>8, <1>9, <1>11, <1>13, <1>14, CommittableNext DEF Committable

(* A step that leaves the objects, the journal and the keeper alone.       *)
LEMMA QuietKeeps ==
  ASSUME Committable,
         UNCHANGED <<keeperVars, stateObjects, journal, refund, logs, accessList>>
  PROVE  Committable'
<1>1. PICK es, objs, now : es = journal.entries /\ objs = stateObjects /\ now = Shadow
  BY ZenonT(30)
<1>2. es = journal'.entries /\ objs = stateObjects' /\ now = Shadow'
  BY <1>1, OtherShadow, ZenonT(30) DEF Shadow
<1>3. PICK h : ChainOver(h, es, now) /\ CleanChain(h, es)
  BY <1>1 DEF Committable, CleanInv
<1>4. CleanInv'
  BY <1>2, <1>3, CleanNext
<1>5. /\ EntriesSound(es) /\ \E c : CacheChain(c, es, objs)
      /\ \A b \in Addr : objs[b] # NoObject => Sound(b, objs[b])
  BY <1>1 DEF Committable, CacheInv, ObjectsSound
<1> QED BY <1>2, <1>4, <1>5, CommittableNext DEF Committable

-----------------------------------------------------------------------------
(* Every step.                                                             *)

(* A step while the StateDB is open keeps Committable.                     *)
LEMMA StepKeeps ==
  ASSUME TypeInv, TypeInv', AccessListIndexed, Committable, [Next]_vars, Running', Running,
         phase = "reverting" => validRevisions[revertTo].journalIndex \in Nat
  PROVE  Committable'
<1>1. ASSUME NEW a \in Addr, AccountStep(a) PROVE Committable'
  <2>1. CallExtends
    BY <1>1, AccountStepExtends
  <2>2. Setter(a) \/ Resetter(a)
    BY <1>1, AccountStepShape DEF Committable, ObjectsSound
  <2> QED BY <2>1, <2>2, SetterKeeps, ResetterKeeps
<1>2. CASE OtherStep
  BY <1>2, OtherStepExtends, OtherKeeps
<1>3. CASE RevertEntry
  <2>1. Len(journal.entries) > 0
    <3>1. Len(journal.entries) \in Nat
      BY DEF TypeInv
    <3> QED BY <1>3, <3>1 DEF RevertEntry
  <2> QED BY <1>3, <2>1, RevertEntryKeeps
<1>4. CASE Snapshot \/ (\E id \in 0 .. nextRevisionID - 1 : RevertToSnapshot(id)) \/ RevertDone
  <2>1. UNCHANGED <<keeperVars, stateObjects, journal, refund, logs, accessList>>
    BY <1>4 DEF Snapshot, RevertToSnapshot, RevertDone
  <2> QED BY <2>1, QuietKeeps
<1>5. CASE Commit \/ (\E a \in Addr : CommitAccount(a)) \/ CommitDone
  <2>1. phase' \in {"committing", "committed", "failed", "fault"}
    BY <1>5 DEF Commit, CommitAccount, CommitDone, DeleteAccount, WriteObject
  <2> QED BY <2>1 DEF Running
<1>6. CASE UNCHANGED vars
  <2>1. UNCHANGED <<keeperVars, stateObjects, journal, refund, logs, accessList>>
    BY <1>6 DEF vars, keeperVars
  <2> QED BY <2>1, QuietKeeps
<1> QED BY <1>1, <1>2, <1>3, <1>4, <1>5, <1>6 DEF Next, LoopStep

-----------------------------------------------------------------------------
(* Before the first call, and when Commit is called.                       *)

(* A new StateDB.                                                          *)
LEMMA InitCommittable ==
  ASSUME Init
  PROVE  Committable /\ NoOrphanStorage
<1>1. /\ TypeInv /\ journal.entries = << >> /\ Len(journal.entries) = 0
      /\ \A a \in Addr : stateObjects[a] = NoObject
  BY InitType DEF Init
<1>2. NoOrphanStorage /\ HashesStored
  BY DEF Init, NoOrphanStorage, HashesStored, Stored
<1>3. ObjectsSound /\ EntriesSound(journal.entries)
  BY <1>1 DEF ObjectsSound, EntriesSound
<1>4. CacheInv
  <2>1. PICK c : c = [i \in {0} |-> [a \in Addr |-> {}]]
    BY ZenonT(30)
  <2>2. CacheChain(c, journal.entries, stateObjects)
    BY <1>1, <2>1 DEF CacheChain
  <2> QED BY <2>2 DEF CacheInv
<1>5. CleanInv
  <2>1. PICK h : h = [i \in {0} |-> Shadow]
    BY ZenonT(30)
  <2>2. h[0] = Shadow
    BY <2>1
  <2>3. ChainOver(h, journal.entries, Shadow)
    BY <1>1, <2>2 DEF ChainOver, Grown
  <2>4. ASSUME NEW a \in Addr PROVE Clean(a, AccountView(a, getStateObject(a)))
    <3>1. CASE accounts[a] = NoAccount
      BY <1>1, <3>1, ZenonT(30) DEF getStateObject, AccountView, Clean
    <3>2. CASE accounts[a] # NoAccount
      <4>1. PICK obj : obj = newObject(accounts[a])
        BY ZenonT(30)
      <4>2. getStateObject(a) = obj /\ accounts[a] \in Account /\ obj \in Object
        BY <1>1, <3>2, <4>1, NewObjectType DEF getStateObject, TypeInv, TypeOK
      <4>3. /\ obj.nonce = accounts[a].nonce /\ obj.balance = accounts[a].balance
            /\ obj.codeHash = accounts[a].codeHash /\ obj.suicided = FALSE
            /\ \A k \in Key : obj.origin[k] = NoValue /\ obj.dirty[k] = NoValue
        BY <4>1, <4>2, NewObjectFields, ZenonT(30)
      <4>4. \A k \in Key : GetState(a, obj, k) = keeperState(a, k)
        BY <4>3 DEF GetState, GetCommittedState
      <4>5. AccountView(a, obj) # NoAccount
        BY <1>1, <4>2, ViewType
      <4>6. Clean(a, AccountView(a, obj))
        BY <3>2, <4>2, <4>3, <4>4, <4>5, ViewShows DEF Clean
      <4> QED BY <4>2, <4>6
    <3> QED BY <3>1, <3>2
  <2>5. \A a \in Addr : Shadow.acc[a] = AccountView(a, getStateObject(a))
    BY DEF Shadow
  <2>6. \A a \in Addr : Clean(a, h[0].acc[a])
    BY <2>2, <2>4, <2>5
  <2>7. CleanChain(h, journal.entries)
    BY <1>1, <2>6 DEF CleanChain
  <2> QED BY <2>3, <2>7 DEF CleanInv
<1> QED BY <1>2, <1>3, <1>4, <1>5 DEF Committable

(* What nothing dirtied needs no writing.                                  *)
LEMMA CleanWritten ==
  ASSUME TypeInv, NoOrphanStorage, NEW a \in Addr, NEW obj \in Object \cup {NoObject}, NEW seen,
         seen = AccountView(a, obj), Clean(a, seen)
  PROVE  Written(a, seen)
<1>1. CASE accounts[a] = NoAccount
  BY <1>1 DEF Clean, Written, NoOrphanStorage
<1>2. CASE accounts[a] # NoAccount
  <2>1. obj \in Object
    BY <1>2, ZenonT(30) DEF Clean, AccountView
  <2>2. seen.state = [k \in Key |-> GetState(a, obj, k)]
    BY <2>1, ViewFields
  <2>3. seen.state = [k \in Key |-> keeperState(a, k)]
    BY <1>2, <2>2 DEF Clean
  <2> QED BY <1>2, <2>3 DEF Clean, Written, KeeperView
<1> QED BY <1>1, <1>2

(* A dirty object waits to be written.                                     *)
LEMMA DirtyWaiting ==
  ASSUME TypeInv, NEW a \in Addr, stateObjects[a] # NoObject, Coherent(a, stateObjects[a])
  PROVE  Waiting(a, AccountView(a, stateObjects[a]))
<1>1. PICK obj \in Object : obj = stateObjects[a]
  BY DEF TypeInv
<1>2. AccountView(a, obj) # NoAccount
  BY ViewType
<1>3. AccountView(a, obj) =
           [nonce |-> obj.nonce, balance |-> obj.balance, codeHash |-> obj.codeHash,
            code |-> CodeOf(obj), suicided |-> obj.suicided,
            state |-> [k \in Key |-> GetState(a, obj, k)],
            committed |-> [k \in Key |-> GetCommittedState(a, obj, k)]]
  BY ViewFields
<1> QED BY <1>1, <1>2, <1>3 DEF Waiting

=============================================================================
