--------------------------- MODULE StateDBTheorems ---------------------------
(***************************************************************************)
(* The theorems about StateDB, for every value of the constants: it never  *)
(* faults, RevertToSnapshot restores what its snapshot saw, Commit writes  *)
(* what the getters showed, a chain restarted from an export has what was  *)
(* written, and the whole implements EVMState.                             *)
(***************************************************************************)
EXTENDS StateDBStepProofs, StateDBRefinementProofs, EVMGenesis, FiniteSetTheorems

(* Zenon is tried first, the SMT solver on what it leaves, then both again *)
(* with more time.                                                         *)
USE ZenonT(5), SMTT(20), Z3T(20), ZenonT(30), SMTT(30)

-----------------------------------------------------------------------------
(* The dirty counts.                                                       *)

(* The entries that dirty an address, which its count should count.        *)
DirtySet(es, a) == {i \in 1 .. Len(es) : Dirties(es[i]) /\ es[i].addr = a}

Counts(j) == \A a \in Addr : j.dirties[a] = Cardinality(DirtySet(j.entries, a))

(* The invariant, as a predicate of the journal.                           *)
LEMMA CountsIsInvariant == DirtiesCountEntries <=> Counts(journal)
BY DEF DirtiesCountEntries, Counts, DirtySet

(* Only finitely many entries dirty an address.                            *)
LEMMA DirtySetFinite ==
  ASSUME NEW es \in Seq(Entry), NEW a
  PROVE  IsFiniteSet(DirtySet(es, a)) /\ Cardinality(DirtySet(es, a)) \in Nat
<1>1. IsFiniteSet(1 .. Len(es))
  BY FS_Interval
<1>2. IsFiniteSet(DirtySet(es, a))
  BY <1>1, FS_Subset DEF DirtySet
<1> QED BY <1>2, FS_CardinalityType

(* append counts the entry it appends.                                     *)
LEMMA AppendCounts ==
  ASSUME NEW j \in Journals, NEW e \in Entry, Counts(j)
  PROVE  Counts(append(j, e))
<1> SUFFICES ASSUME NEW a \in Addr
             PROVE  append(j, e).dirties[a] = Cardinality(DirtySet(append(j, e).entries, a))
  BY DEF Counts
<1>1. PICK n \in Nat : n = Len(j.entries)
  BY DEF Journals
<1>2. PICK new : new = Append(j.entries, e)
  BY ZenonT(30)
<1>3. j.entries \in Seq(Entry) /\ append(j, e).entries = new /\ j.dirties \in [Addr -> Int]
  BY <1>2 DEF append, Journals
<1>4. Len(new) = n + 1 /\ new[n + 1] = e /\ \A i \in 1 .. n : new[i] = j.entries[i]
  BY <1>1, <1>2, <1>3
<1>5. IsFiniteSet(DirtySet(j.entries, a)) /\ n + 1 \notin DirtySet(j.entries, a)
  <2>1. n + 1 \notin 1 .. Len(j.entries)
    BY <1>1
  <2> QED BY <1>3, <2>1, DirtySetFinite, ZenonT(30) DEF DirtySet
<1>6. j.dirties[a] = Cardinality(DirtySet(j.entries, a))
  BY DEF Counts
<1>7. CASE Dirties(e) /\ e.addr = a
  <2>1. DirtySet(new, a) = DirtySet(j.entries, a) \cup {n + 1}
    BY <1>1, <1>4, <1>7 DEF DirtySet
  <2>2. Cardinality(DirtySet(new, a)) = Cardinality(DirtySet(j.entries, a)) + 1
    BY <1>5, <2>1, FS_AddElement, ZenonT(30)
  <2>3. append(j, e).dirties[a] = j.dirties[a] + 1
    BY <1>3, <1>7 DEF append
  <2> QED BY <1>3, <1>6, <2>2, <2>3
<1>8. CASE ~(Dirties(e) /\ e.addr = a)
  <2>1. DirtySet(new, a) = DirtySet(j.entries, a)
    BY <1>1, <1>4, <1>8 DEF DirtySet
  <2>2. append(j, e).dirties[a] = j.dirties[a]
    BY <1>3, <1>8 DEF append
  <2> QED BY <1>3, <1>6, <2>1, <2>2
<1> QED BY <1>7, <1>8

(* The loop of journal.revert uncounts the entry it removes.               *)
LEMMA PopCounts ==
  ASSUME NEW j \in Journals, Len(j.entries) > 0, Counts(j)
  PROVE  Counts(pop(j))
<1> SUFFICES ASSUME NEW a \in Addr
             PROVE  pop(j).dirties[a] = Cardinality(DirtySet(pop(j).entries, a))
  BY DEF Counts
<1>1. PICK n \in Nat : n = Len(j.entries) /\ n > 0
  BY DEF Journals
<1>2. PICK new : new = SubSeq(j.entries, 1, n - 1)
  BY ZenonT(30)
<1>3. PICK e : e = j.entries[n]
  OBVIOUS
<1>4. j.entries \in Seq(Entry) /\ pop(j).entries = new /\ j.dirties \in [Addr -> Int]
  BY <1>1, <1>2 DEF pop, Journals
<1>5. Len(new) = n - 1 /\ \A i \in 1 .. n - 1 : new[i] = j.entries[i]
  BY <1>1, <1>2, <1>4, Popped
<1>6. IsFiniteSet(DirtySet(j.entries, a)) /\ Cardinality(DirtySet(j.entries, a)) \in Nat
  BY <1>4, DirtySetFinite
<1>7. j.dirties[a] = Cardinality(DirtySet(j.entries, a))
  BY DEF Counts
<1>8. CASE Dirties(e) /\ e.addr = a
  <2>1. DirtySet(new, a) = DirtySet(j.entries, a) \ {n} /\ n \in DirtySet(j.entries, a)
    <3>1. \A i : i \in 1 .. n - 1 <=> i \in 1 .. n /\ i # n
      BY <1>1
    <3>2. n \in 1 .. n
      BY <1>1
    <3>3. n \in DirtySet(j.entries, a)
      BY <1>1, <1>3, <1>8, <3>2 DEF DirtySet
    <3>4. ASSUME NEW i PROVE i \in DirtySet(new, a) <=> i \in DirtySet(j.entries, a) /\ i # n
      BY <1>1, <1>5, <3>1 DEF DirtySet
    <3> QED BY <3>3, <3>4
  <2>2. Cardinality(DirtySet(new, a)) = Cardinality(DirtySet(j.entries, a)) - 1
    <3>1. PICK D : D = DirtySet(j.entries, a)
      OBVIOUS
    <3>2. Cardinality(D \ {n}) = IF n \in D THEN Cardinality(D) - 1 ELSE Cardinality(D)
      BY <1>6, <3>1, FS_RemoveElement, ZenonT(30)
    <3> QED BY <2>1, <3>1, <3>2
  <2>3. pop(j).dirties[a] = j.dirties[a] - 1
    BY <1>1, <1>3, <1>4, <1>8 DEF pop
  <2> QED BY <1>4, <1>7, <2>2, <2>3
<1>9. CASE ~(Dirties(e) /\ e.addr = a)
  <2>1. DirtySet(new, a) = DirtySet(j.entries, a)
    BY <1>1, <1>3, <1>5, <1>9 DEF DirtySet
  <2>2. pop(j).dirties[a] = j.dirties[a]
    BY <1>1, <1>3, <1>4, <1>9 DEF pop
  <2> QED BY <1>4, <1>7, <2>1, <2>2
<1> QED BY <1>8, <1>9

(* A new journal counts nothing.                                           *)
LEMMA InitCounts ==
  ASSUME Init
  PROVE  DirtiesCountEntries
<1> SUFFICES ASSUME NEW a \in Addr
             PROVE  journal.dirties[a] = Cardinality(DirtySet(journal.entries, a))
  BY CountsIsInvariant DEF Counts
<1>1. journal.dirties[a] = 0 /\ DirtySet(journal.entries, a) = {}
  BY DEF Init, DirtySet
<1> QED BY <1>1, FS_EmptySet

(* A call counts the entries it appends.                                   *)
LEMMA CallCounts ==
  ASSUME TypeInv, DirtiesCountEntries, CallAppends
  PROVE  DirtiesCountEntries'
<1>1. ASSUME NEW j \in Journals, NEW j2, Appends(j, j2), Counts(j)
      PROVE  j2 \in Journals /\ Counts(j2)
  BY <1>1, AppendType, AppendCounts, ZenonT(30) DEF Appends
<1>2. PICK j : Appends(journal, j) /\ Appends(j, journal')
  BY DEF CallAppends
<1>3. journal \in Journals /\ Counts(journal)
  BY JournalType, CountsIsInvariant
<1>4. Counts(journal')
  BY <1>1, <1>2, <1>3
<1> QED BY <1>4 DEF DirtiesCountEntries, Counts, DirtySet

(* The loop of RevertToSnapshot pops the entries it undoes.                *)
LEMMA RevertCounts ==
  ASSUME SafeInv, DirtiesCountEntries, RevertEntry
  PROVE  DirtiesCountEntries'
<1>1. CASE UNCHANGED journal
  BY <1>1 DEF DirtiesCountEntries
<1>2. CASE journal' = pop(journal)
  <2>1. Len(journal.entries) > 0
    BY RevertTarget DEF RevertEntry
  <2>2. journal \in Journals /\ Counts(journal)
    BY JournalType, CountsIsInvariant DEF SafeInv
  <2>3. Counts(pop(journal))
    BY <2>1, <2>2, PopCounts
  <2> QED BY <1>2, <2>3 DEF DirtiesCountEntries, Counts, DirtySet
<1> QED BY <1>1, <1>2 DEF RevertEntry

(* Every step keeps the counts.                                            *)
LEMMA NextCounts ==
  ASSUME SafeInv, DirtiesCountEntries, [Next]_vars
  PROVE  DirtiesCountEntries'
<1>1. TypeInv
  BY DEF SafeInv
<1>2. CASE \E a \in Addr : AccountStep(a)
  BY <1>1, <1>2, AccountStepAppends, CallCounts
<1>3. CASE OtherStep
  BY <1>1, <1>3, OtherStepAppends, CallCounts
<1>4. CASE RevertEntry
  BY <1>4, RevertCounts
<1>5. CASE UNCHANGED journal
  BY <1>5 DEF DirtiesCountEntries
<1>6. (\E a \in Addr : AccountStep(a)) \/ OtherStep \/ RevertEntry \/ UNCHANGED journal
  BY DEF Next, LoopStep, Snapshot, RevertToSnapshot, RevertDone, Commit, CommitAccount, CommitDone,
         vars
<1> QED BY <1>2, <1>3, <1>4, <1>5, <1>6

(* A dirty address has an entry.                                           *)
LEMMA CountedByEntry ==
  ASSUME TypeInv, DirtiesCountEntries
  PROVE  DirtyByEntry
<1> SUFFICES ASSUME NEW a \in dirtyAddrs
             PROVE  \E i \in 1 .. Len(journal.entries) :
                      Dirties(journal.entries[i]) /\ journal.entries[i].addr = a
  BY DEF DirtyByEntry
<1>1. a \in Addr /\ journal.dirties[a] > 0
  BY DEF dirtyAddrs
<1>2. PICK D : D = DirtySet(journal.entries, a)
  OBVIOUS
<1>3. Cardinality(D) > 0
  BY <1>1, <1>2, CountsIsInvariant DEF Counts
<1>4. D # {}
  BY <1>3, FS_EmptySet
<1> QED BY <1>2, <1>4 DEF DirtySet

(* A dirty address has a live object.                                      *)
LEMMA DirtyAddrLive ==
  ASSUME SafeInv, DirtiesCountEntries, NEW a \in dirtyAddrs
  PROVE  stateObjects[a] # NoObject
BY CountedByEntry DEF SafeInv, DirtyByEntry, DirtyLive

-----------------------------------------------------------------------------
(* Snapshots and reverts.                                                  *)

(* The inductive invariant holds throughout: the journal is a chain of     *)
(* undoable entries that leads from the present back to the world of every *)
(* snapshot, its dirty counts are exact, and dirty objects are live.       *)
THEOREM SafeInvariant == Spec => [](SafeInv /\ DirtiesCountEntries)
<1>1. Init => SafeInv /\ DirtiesCountEntries
  BY InitSafe, InitCounts
<1>2. SafeInv /\ DirtiesCountEntries /\ TypeInv' /\ [Next]_vars => (SafeInv /\ DirtiesCountEntries)'
  <2> SUFFICES ASSUME SafeInv, DirtiesCountEntries, TypeInv', [Next]_vars
               PROVE  SafeInv' /\ DirtiesCountEntries'
    OBVIOUS
  <2>1. DirtyByEntry
    BY CountedByEntry DEF SafeInv
  <2> QED BY <2>1, NextSafe, NextCounts
<1>3. Spec => []TypeInv
  BY TypeCorrect, PTL
<1> QED BY <1>1, <1>2, <1>3, PTL DEF Spec

(* Neither the undoing of a journal entry nor Commit ever dereferences a   *)
(* nil state object or indexes out of range.                               *)
THEOREM NeverFaults == Spec => []NoFault
<1>1. SafeInv => NoFault
  BY DEF SafeInv
<1> QED BY <1>1, SafeInvariant, PTL

(* journal.dirties counts the entries about each address, and the          *)
(* revisions stay sorted by id and nested in the journal, as the search of *)
(* RevertToSnapshot requires.                                              *)
THEOREM JournalStaysConsistent == Spec => []JournalConsistent
<1>1. SafeInv /\ DirtiesCountEntries => JournalConsistent
  BY DEF SafeInv, JournalConsistent
<1> QED BY <1>1, SafeInvariant, PTL

(* The access list's index stays a bijection, across any additions and     *)
(* their undoing.                                                          *)
THEOREM AccessListStaysIndexed == Spec => []AccessListIndexed
<1>1. SafeInv => AccessListIndexed
  BY DEF SafeInv
<1> QED BY <1>1, SafeInvariant, PTL

(* RevertToSnapshot restores the world its snapshot saw.                   *)
THEOREM RevertRestores == Spec => RevertRestoresWorld
<1>1. SafeInv /\ [Next]_vars
        => [phase = "reverting" /\ phase' = "running" => World' = saved[revertTo]]_vars
  <2> SUFFICES ASSUME SafeInv, [Next]_vars, phase = "reverting", phase' = "running"
               PROVE  World' = saved[revertTo]
    OBVIOUS
  <2>1. RevertDone
    <3>1. ~OtherStep /\ ~(\E a \in Addr : AccountStep(a))
      BY DEF OtherStep, AddRefund, SubRefund, AddLog, AddAddressToAccessList, AddSlotToAccessList,
             AccountStep, ReadAccount, ReadCode, ReadState, ReadCommittedState, CreateAccount,
             AddBalance, SubBalance, SetNonce, SetCode, SetState, Suicide
    <3>2. ~RevertEntry
      BY DEF RevertEntry
    <3>3. ~Snapshot /\ ~(\E id \in 0 .. nextRevisionID - 1 : RevertToSnapshot(id)) /\ ~Commit
          /\ ~(\E a \in Addr : CommitAccount(a)) /\ ~CommitDone
      BY DEF Snapshot, RevertToSnapshot, Commit, CommitAccount, CommitDone
    <3>4. ~UNCHANGED vars
      BY DEF vars
    <3> QED BY <3>1, <3>2, <3>3, <3>4 DEF Next, LoopStep
  <2> QED BY <2>1, RevertDoneRestores
<1> QED BY <1>1, SafeInvariant, PTL DEF Spec, RevertRestoresWorld

-----------------------------------------------------------------------------
(* What Commit writes.                                                     *)

(* Commit is called: every account waits or needs no writing.              *)
LEMMA CommitBegins ==
  ASSUME TypeInv, Committable, NoOrphanStorage, Commit,
         \A a \in dirtyAddrs : stateObjects[a] # NoObject,
         \A a \in Addr \ dirtyAddrs :
           \A i \in 1 .. Len(journal.entries) : ~Touches(journal.entries[i], a)
  PROVE  CommitInv' /\ CodeInv'
<1>1. /\ phase' = "committing" /\ pending' = dirtyAddrs /\ saved'[1] = World
      /\ UNCHANGED <<keeperVars, stateObjects>> /\ UNCHANGED <<accounts, codes, storage>>
  BY DEF Commit, keeperVars
<1>2. PICK seen : seen = World.accounts
  BY ZenonT(30)
<1>3. saved'[1].accounts = seen /\ \A a \in Addr : seen[a] = AccountView(a, getStateObject(a))
  BY <1>1, <1>2 DEF World
<1>4. ASSUME NEW a \in Addr, a \notin dirtyAddrs PROVE Clean(a, seen[a])
  <2>0. PICK n \in Nat : n = Len(journal.entries)
    BY DEF TypeInv
  <2>1. PICK h : ChainOver(h, journal.entries, Shadow) /\ CleanChain(h, journal.entries)
    BY ZenonT(30) DEF Committable, CleanInv
  <2>2. h[n] = Shadow /\ n \in 0 .. n
    BY <2>0, <2>1 DEF ChainOver
  <2>3. Clean(a, h[n].acc[a])
    BY <1>4, <2>0, <2>1, <2>2 DEF CleanChain
  <2>4. Shadow.acc[a] = seen[a]
    BY <1>3 DEF Shadow
  <2> QED BY <2>2, <2>3, <2>4
<1>5. ASSUME NEW a \in Addr, a \notin dirtyAddrs PROVE Written(a, seen[a])
  BY <1>3, <1>4, <1>5, GetObjectType, CleanWritten
<1>6. ASSUME NEW a \in dirtyAddrs
      PROVE  Waiting(a, seen[a]) /\ CodeSound(stateObjects[a])
  <2>1. a \in Addr /\ getStateObject(a) = stateObjects[a] /\ Sound(a, stateObjects[a])
    BY DEF dirtyAddrs, getStateObject, Committable, ObjectsSound
  <2> QED BY <1>3, <2>1, DirtyWaiting DEF Sound
<1>7. ASSUME NEW a \in Addr, seen[a] # NoAccount PROVE seen[a].code = seen[a].codeHash
  <2>1. PICK obj : obj = getStateObject(a) /\ obj \in Object /\ Sound(a, obj)
    BY <1>3, <1>7, GetObjectType, LoadedSound, ZenonT(30) DEF Committable, ObjectsSound, AccountView
  <2>2. CodeOf(obj) = obj.codeHash
    BY <2>1, ReadCodeSound, ZenonT(30)
  <2>3. seen[a] = AccountView(a, obj)
    BY <1>3, <2>1
  <2>4. AccountView(a, obj).code = CodeOf(obj) /\ AccountView(a, obj).codeHash = obj.codeHash
    BY <2>1, ViewShows
  <2> QED BY <2>2, <2>3, <2>4, ZenonT(30)
<1>8. CommitInv'
  <2>1. ASSUME NEW a \in Addr, a \in dirtyAddrs PROVE Waiting(a, seen[a])'
    BY <1>1, <1>6, <2>1, WaitingStable
  <2>2. ASSUME NEW a \in Addr, a \notin dirtyAddrs PROVE Written(a, seen[a])'
    BY <1>1, <1>5, <2>2, WrittenStable
  <2> QED BY <1>1, <1>3, <2>1, <2>2 DEF CommitInv
<1>9. CodeInv'
  <2>1. HashesStored' /\ \A obj : CodeSound(obj)' <=> CodeSound(obj)
    BY <1>1 DEF Committable, HashesStored, CodeSound, Stored
  <2>2. ASSUME NEW a \in Addr, a \notin dirtyAddrs, seen[a] # NoAccount, accounts[a].eth
        PROVE  accounts[a].codeHash = seen[a].codeHash
    <3>1. Clean(a, seen[a])
      BY <1>4, <2>2
    <3> QED BY <2>2, <3>1 DEF Clean
  <2> QED BY <1>1, <1>3, <1>6, <1>7, <2>1, <2>2 DEF CodeInv
<1> QED BY <1>8, <1>9

(* The inductive invariant behind the theorems of this module, beside      *)
(* SafeInv: what Commit relies on until it is called, and what it wrote    *)
(* and has still to write from then on.                                    *)
WorldInv ==
  /\ Running => Committable
  /\ NoOrphanStorage
  /\ CommitInv
  /\ CodeInv
  /\ SeenInv

(* WorldInv holds of a new StateDB.                                        *)
LEMMA InitWorld ==
  ASSUME Init
  PROVE  WorldInv
<1>1. phase = "running"
  BY DEF Init
<1> QED BY <1>1, InitCommittable DEF WorldInv, CommitInv, CodeInv, SeenInv

(* An address that Commit does not visit has no entry that dirties it.     *)
LEMMA UndirtiedUntouched ==
  ASSUME TypeInv, DirtiesCountEntries, NEW a \in Addr, a \notin dirtyAddrs,
         NEW i \in 1 .. Len(journal.entries)
  PROVE  ~Touches(journal.entries[i], a)
<1>1. PICK D : D = DirtySet(journal.entries, a)
  OBVIOUS
<1>2. journal.entries \in Seq(Entry) /\ journal.dirties[a] = Cardinality(D)
  BY <1>1, CountsIsInvariant DEF TypeInv, Counts
<1>3. IsFiniteSet(D) /\ Cardinality(D) \in Nat
  BY <1>1, <1>2, DirtySetFinite
<1>4. Cardinality(D) = 0
  BY <1>2, <1>3 DEF dirtyAddrs
<1>5. D = {}
  BY <1>3, <1>4, FS_EmptySet
<1> QED BY <1>1, <1>5 DEF DirtySet, Touches

(* WorldInv is preserved.                                                  *)
LEMMA NextWorld ==
  ASSUME SafeInv, SafeInv', DirtiesCountEntries, WorldInv, [Next]_vars
  PROVE  WorldInv'
<1>1. TypeInv /\ TypeInv' /\ AccessListIndexed
  BY DEF SafeInv
<1>2. Running' => Committable'
  <2> SUFFICES ASSUME Running' PROVE Committable'
    OBVIOUS
  <2>1. Running
    BY OnlyCommitWrites DEF Running
  <2>2. phase = "reverting" => validRevisions[revertTo].journalIndex \in Nat
    BY RevertTarget
  <2> QED BY <1>1, <2>1, <2>2, StepKeeps DEF WorldInv
<1>3. NoOrphanStorage'
  BY <1>1, StorageOwned DEF WorldInv
<1>4. SeenInv'
  BY <1>1, SeenKept DEF WorldInv
<1>5. CASE Commit
  <2>1. Committable /\ NoOrphanStorage
    BY <1>5 DEF WorldInv, Commit, Running
  <2>2. /\ \A a \in dirtyAddrs : stateObjects[a] # NoObject
        /\ \A a \in Addr \ dirtyAddrs :
             \A i \in 1 .. Len(journal.entries) : ~Touches(journal.entries[i], a)
    BY <1>1, DirtyAddrLive, UndirtiedUntouched
  <2>3. CommitInv' /\ CodeInv'
    BY <1>1, <1>5, <2>1, <2>2, CommitBegins
  <2> QED BY <1>2, <1>3, <1>4, <2>3 DEF WorldInv
<1>6. CASE ~Commit
  <2>1. CommitInv' /\ CodeInv'
    BY <1>1, <1>6, StepWrites DEF WorldInv
  <2> QED BY <1>2, <1>3, <1>4, <2>1 DEF WorldInv
<1> QED BY <1>5, <1>6

(* Both invariants hold throughout.                                        *)
THEOREM WorldInvariant == Spec => [](SafeInv /\ WorldInv)
<1>1. Init => WorldInv
  BY InitWorld
<1>2. SafeInv /\ SafeInv' /\ DirtiesCountEntries /\ WorldInv /\ [Next]_vars => WorldInv'
  BY NextWorld
<1> QED BY <1>1, <1>2, SafeInvariant, PTL DEF Spec

(* Commit writes exactly the world the getters showed when it was called,  *)
(* although it visits the dirty addresses only and skips the words that    *)
(* equal the cached committed ones: after any calls and any reverts.       *)
THEOREM CommitWritesTheWorld == Spec => []CommitWritesWorld
<1>1. WorldInv => CommitWritesWorld
  BY DEF WorldInv, CommitInv, Written, CommitWritesWorld
<1> QED BY <1>1, WorldInvariant, PTL

(* Unless an account was destroyed, the keeper has the code of every       *)
(* Ethereum account that the getters showed.                               *)
THEOREM CommitWritesTheCode == Spec => []CommitWritesCode
<1>1. ASSUME SafeInv, WorldInv PROVE CommitWritesCode
  <2> SUFFICES ASSUME phase = "committed", NEW a \in Addr, NoneSuicided,
                      saved[1].accounts[a] # NoAccount, accounts[a].eth,
                      ~saved[1].accounts[a].suicided
               PROVE  /\ accounts[a].codeHash = saved[1].accounts[a].codeHash
                      /\ keeperCode(accounts[a].codeHash) = saved[1].accounts[a].code
    BY DEF CommitWritesCode, NoneSuicided
  <2>1. pending = {} /\ accounts[a] # NoAccount
    BY <1>1 DEF WorldInv, CommitInv, Written
  <2>2. /\ saved[1].accounts[a].code = saved[1].accounts[a].codeHash
        /\ accounts[a].codeHash = saved[1].accounts[a].codeHash
        /\ HashesStored
    BY <1>1, <2>1 DEF WorldInv, CodeInv
  <2>3. keeperCode(accounts[a].codeHash) = accounts[a].codeHash
    BY <2>1, <2>2 DEF HashesStored, Stored, keeperCode
  <2> QED BY <2>2, <2>3
<1> QED BY <1>1, WorldInvariant, PTL

-----------------------------------------------------------------------------
(* The restart from an export.                                             *)

(* A chain started from its export has every word and every code that an   *)
(* Ethereum account had; it refuses to start only when a destroyed account *)
(* took the code of another one with it.                                   *)
THEOREM RestartKeepsState == Spec => []GenesisRoundTrip
<1>1. SafeInv /\ WorldInv => GenesisRoundTrip
  BY StorageReadBack, PanicsOverCode, CodesReadBack
     DEF SafeInv, TypeInv, WorldInv, GenesisRoundTrip
<1> QED BY <1>1, WorldInvariant, PTL

-----------------------------------------------------------------------------
(* StateDB implements EVMState.                                            *)

(* Every step of StateDB is a step of EVMState, or one it does not see.    *)
LEMMA NextMaps ==
  ASSUME SafeInv, SafeInv', WorldInv, WorldInv', [Next]_vars
  PROVE  evm!Next \/ UNCHANGED evm!vars
<1>1. TypeInv /\ AccessListIndexed /\ RevisionsNested /\ phase' # "fault"
  BY DEF SafeInv, NoFault
<1>2. CASE \E a \in Addr : AccountStep(a)
  <2>1. PICK a \in Addr : AccountStep(a)
    BY <1>2
  <2>2. phase = "running"
    BY <2>1, ZenonT(30) DEF AccountStep, ReadAccount, ReadCode, ReadState, ReadCommittedState,
           CreateAccount, AddBalance, SubBalance, SetNonce, SetCode, SetState, Suicide
  <2>3. HashesStored /\ NoOrphanStorage /\ (stateObjects[a] # NoObject => Sound(a, stateObjects[a]))
    BY <2>2 DEF WorldInv, Running, Committable, ObjectsSound
  <2> QED BY <1>1, <2>1, <2>3, AccountStepMaps
<1>3. CASE OtherStep
  <2>1. phase = "running"
    BY <1>3, ZenonT(30) DEF OtherStep, AddRefund, SubRefund, AddLog, AddAddressToAccessList, AddSlotToAccessList
  <2> QED BY <1>1, <1>3, <2>1, OtherStepMaps
<1>4. CASE Snapshot
  <2>1. phase = "running"
    BY <1>4 DEF Snapshot
  <2>2. PICK S : saved \in Seq(S) /\ Len(saved) = Len(validRevisions)
    BY <2>1 DEF SafeInv, SavedInv
  <2>3. evm!Snapshot
    BY <1>1, <1>4, <2>1, <2>2, SnapshotMaps
  <2> QED BY <2>3 DEF evm!Next
<1>5. ASSUME NEW id \in 0 .. nextRevisionID - 1, RevertToSnapshot(id) PROVE evm!Next
  <2>1. phase = "running"
    BY <1>5 DEF RevertToSnapshot
  <2> QED BY <1>1, <1>5, <2>1, RevertToMaps
<1>6. CASE RevertEntry
  BY <1>1, <1>6, RevertEntryMaps
<1>7. CASE RevertDone
  <2>1. phase = "reverting" /\ World' = saved[revertTo]
    BY <1>7, RevertDoneRestores DEF RevertDone
  <2>2. PICK S : saved \in Seq(S) /\ Len(saved) = Len(validRevisions)
    BY <2>1 DEF SafeInv, SavedInv
  <2>3. revertTo \in 1 .. Len(validRevisions)
    BY <2>1, RevertTarget
  <2> QED BY <1>1, <1>7, <2>1, <2>2, <2>3, RevertDoneMaps
<1>8. CASE Commit
  BY <1>8, CommitMaps DEF evm!Next
<1>9. ASSUME NEW a \in Addr, CommitAccount(a) PROVE evm!Next \/ UNCHANGED evm!vars
  BY <1>1, <1>9, CommitAccountMaps DEF evm!Next
<1>10. CASE CommitDone
  BY <1>10, CommitDoneMaps DEF WorldInv, evm!Next
<1>11. CASE UNCHANGED vars
  BY <1>11, StutterMaps
<1> QED BY <1>2, <1>3, <1>4, <1>5, <1>6, <1>7, <1>8, <1>9, <1>10, <1>11 DEF Next, LoopStep

(* StateDB, with its journal, its caches and its loops, implements the     *)
(* contract of vm.StateDB: a world with a copy of it for every snapshot.   *)
THEOREM StateDBImplementsEVMState == Spec => ImplementsEVMState
<1>1. Init => evm!Init
  BY InitMaps
<1>2. /\ SafeInv /\ WorldInv /\ (SafeInv /\ WorldInv)' /\ [Next]_vars
      => [evm!Next]_(evm!vars)
  BY NextMaps
<1> QED BY <1>1, <1>2, WorldInvariant, PTL DEF Spec, ImplementsEVMState, evm!Spec

=============================================================================
