---------------------------- MODULE StateDBProofs ----------------------------
(***************************************************************************)
(* Theorems about StateDB, for every value of its constants: its type      *)
(* invariant, what the other proofs share about the access list, the loop  *)
(* of Commit and the caches of committed words, and why a revert restores  *)
(* the world, from which StateDBTheorems draws its theorems.               *)
(***************************************************************************)
EXTENDS StateDB, TLAPS

(* Zenon is tried first, the SMT solver on what it leaves, then both again *)
(* with more time.                                                         *)
USE ZenonT(5), SMTT(20), Z3T(20), ZenonT(30), SMTT(30)

-----------------------------------------------------------------------------
(* The access list: what its operations preserve, and that undoing an      *)
(* addition gives the list back.                                           *)

(* The access list's operators keep its type.                              *)
LEMMA AccessListTypes ==
  ASSUME NEW al \in AccessLists, NEW a \in Addr, NEW k \in Key
  PROVE  /\ AddSlot(al, a, k) \in AccessLists
         /\ ~DeleteSlotFaults(al, a) => DeleteSlot(al, a, k) \in AccessLists
<1>1. NoSlots \in Int /\ Len(al.slots) \in Nat /\ al.addresses[a] \in Int
  BY DEF NoSlots, AccessLists
<1>2. AddSlot(al, a, k) \in AccessLists
  <2>1. Append(al.slots, {k}) \in Seq(SUBSET Key)
    BY DEF AccessLists
  <2>2. [al.addresses EXCEPT ![a] = Len(al.slots)] \in [Addr -> Int]
    BY <1>1 DEF AccessLists
  <2>3. [al.slots EXCEPT ![al.addresses[a] + 1] = @ \cup {k}] \in Seq(SUBSET Key)
    <3> DEFINE i == al.addresses[a] + 1
    <3>1. CASE i \in DOMAIN al.slots
      <4>1. al.slots[i] \cup {k} \in SUBSET Key
        BY <3>1 DEF AccessLists
      <4> QED BY <3>1, <4>1 DEF AccessLists
    <3>2. CASE i \notin DOMAIN al.slots
      <4>1. [al.slots EXCEPT ![i] = @ \cup {k}] = al.slots
        BY <3>2 DEF AccessLists
      <4> QED BY <4>1, ZenonT(30) DEF AccessLists
    <3> QED BY <3>1, <3>2
  <2> QED BY <2>1, <2>2, <2>3, ZenonT(30) DEF AddSlot, AccessLists
<1>3. ASSUME ~DeleteSlotFaults(al, a) PROVE DeleteSlot(al, a, k) \in AccessLists
  <2> DEFINE idx == al.addresses[a]
             left == al.slots[idx + 1] \ {k}
  <2>1. idx \in Int /\ idx + 1 \in 1 .. Len(al.slots)
    BY <1>1, <1>3 DEF DeleteSlotFaults
  <2>2. left \in SUBSET Key
    BY <2>1 DEF AccessLists
  <2>3. SubSeq(al.slots, 1, idx) \in Seq(SUBSET Key)
    BY <2>1 DEF AccessLists
  <2>4. [al.addresses EXCEPT ![a] = NoSlots] \in [Addr -> Int]
    BY <1>1 DEF AccessLists
  <2>5. [al EXCEPT !.slots[idx + 1] = left] \in AccessLists
    <3>1. al.slots \in Seq(SUBSET Key) /\ idx + 1 \in DOMAIN al.slots
      BY <2>1 DEF AccessLists
    <3>2. [al.slots EXCEPT ![idx + 1] = left] \in Seq(SUBSET Key)
      BY <2>2, <3>1
    <3> QED BY <3>2, ZenonT(30) DEF AccessLists
  <2> QED BY <2>3, <2>4, <2>5, ZenonT(30) DEF DeleteSlot, AccessLists
<1> QED BY <1>2, <1>3

(* Adding or deleting an address keeps the access list well typed.         *)
LEMMA AccessListAddrTypes ==
  ASSUME NEW al \in AccessLists, NEW a \in Addr
  PROVE  AddAddress(al, a) \in AccessLists /\ DeleteAddress(al, a) \in AccessLists
<1>1. NoSlots \in Int /\ Absent \in Int
  BY DEF NoSlots, Absent
<1> QED BY <1>1, ZenonT(30) DEF AddAddress, DeleteAddress, AccessLists

-----------------------------------------------------------------------------

(* The slot set of an address that has one is in range and not empty.      *)
LEMMA IndexInRange ==
  ASSUME NEW al \in AccessLists, Indexed(al), NEW a \in Addr,
         al.addresses[a] \notin {Absent, NoSlots}
  PROVE  al.addresses[a] + 1 \in 1 .. Len(al.slots) /\ al.slots[al.addresses[a] + 1] # {}
<1>1. al.addresses[a] + 1 \in {al.addresses[b] + 1 :
                                 b \in {x \in Addr : al.addresses[x] \notin {Absent, NoSlots}}}
  OBVIOUS
<1>2. al.addresses[a] + 1 \in 1 .. Len(al.slots)
  BY <1>1 DEF Indexed
<1> QED BY <1>2 DEF Indexed

(* AddAddress keeps the index.                                             *)
LEMMA AddAddressIndexed ==
  ASSUME NEW al \in AccessLists, Indexed(al), NEW a \in Addr
  PROVE  Indexed(AddAddress(al, a))
<1>1. CASE ContainsAddress(al, a)
  BY <1>1 DEF AddAddress
<1>2. CASE ~ContainsAddress(al, a)
  <2> DEFINE new == AddAddress(al, a)
  <2>1. new.slots = al.slots /\ new.addresses = [al.addresses EXCEPT ![a] = NoSlots]
    BY <1>2 DEF AddAddress, AccessLists
  <2>2. {x \in Addr : new.addresses[x] \notin {Absent, NoSlots}}
          = {x \in Addr : al.addresses[x] \notin {Absent, NoSlots}}
    BY <1>2, <2>1 DEF AccessLists, ContainsAddress
  <2>3. \A x \in Addr : al.addresses[x] \notin {Absent, NoSlots} => new.addresses[x] = al.addresses[x]
    BY <1>2, <2>1 DEF AccessLists, ContainsAddress
  <2> HIDE DEF new
  <2>4. {new.addresses[x] + 1 : x \in {y \in Addr : new.addresses[y] \notin {Absent, NoSlots}}}
          = {al.addresses[x] + 1 : x \in {y \in Addr : al.addresses[y] \notin {Absent, NoSlots}}}
    BY <2>2, <2>3
  <2>5. Indexed(new)
    BY <2>1, <2>2, <2>3, <2>4 DEF Indexed
  <2> QED BY <2>5 DEF new
<1> QED BY <1>1, <1>2

(* AddSlot keeps the index: a new slot set is appended and pointed to.     *)
LEMMA AddSlotIndexed ==
  ASSUME NEW al \in AccessLists, Indexed(al), NEW a \in Addr, NEW k \in Key
  PROVE  Indexed(AddSlot(al, a, k))
<1> DEFINE new == AddSlot(al, a, k)
           n == Len(al.slots)
           old == {x \in Addr : al.addresses[x] \notin {Absent, NoSlots}}
<1>0. n \in Nat /\ al.slots \in Seq(SUBSET Key) /\ al.addresses \in [Addr -> Int]
  BY DEF AccessLists
<1>1. CASE al.addresses[a] \in {Absent, NoSlots}
  <2>1. /\ new.addresses = [al.addresses EXCEPT ![a] = n]
        /\ new.slots = Append(al.slots, {k})
    BY <1>1 DEF AddSlot
  <2>2. Len(new.slots) = n + 1
    BY <1>0, <2>1
  <2>3. \A i \in 1 .. n + 1 : new.slots[i] = IF i = n + 1 THEN {k} ELSE al.slots[i]
    BY <1>0, <2>1
  <2>4. {x \in Addr : new.addresses[x] \notin {Absent, NoSlots}} = old \cup {a}
    BY <1>0, <1>1, <2>1 DEF Absent, NoSlots
  <2>5. new.addresses[a] = n /\ \A x \in old : new.addresses[x] = al.addresses[x] /\ x # a
    BY <1>0, <1>1, <2>1
  <2>6. \A x \in old : al.addresses[x] + 1 \in 1 .. n
    BY IndexInRange
  <2>7. {al.addresses[x] + 1 : x \in old} = 1 .. n
    BY DEF Indexed
  <2> HIDE DEF new, old
  <2>8. {new.addresses[x] + 1 : x \in old \cup {a}} = 1 .. n + 1
    <3>1. {new.addresses[x] + 1 : x \in old \cup {a}}
            = {al.addresses[x] + 1 : x \in old} \cup {n + 1}
      BY <2>5
    <3>2. (1 .. n) \cup {n + 1} = 1 .. n + 1
      BY <1>0
    <3> QED BY <2>7, <3>1, <3>2, ZenonT(30)
  <2>9. \A x, y \in old \cup {a} : new.addresses[x] = new.addresses[y] => x = y
    <3>1. \A x, y \in old : al.addresses[x] = al.addresses[y] => x = y
      BY DEF Indexed, old
    <3>2. \A x \in old : new.addresses[x] # n
      BY <1>0, <2>5, <2>6 DEF old
    <3> QED BY <2>5, <3>1, <3>2
  <2>10. \A i \in 1 .. n + 1 : new.slots[i] # {}
    <3>1. \A i \in 1 .. n : al.slots[i] # {}
      BY DEF Indexed
    <3>2. \A i \in 1 .. n + 1 : i = n + 1 \/ i \in 1 .. n
      BY <1>0
    <3> HIDE DEF n
    <3> QED BY <2>3, <3>1, <3>2
  <2>11. Indexed(new)
    BY <2>2, <2>4, <2>8, <2>9, <2>10 DEF Indexed
  <2> QED BY <2>11 DEF new
<1>2. CASE al.addresses[a] \notin {Absent, NoSlots}
  <2>1. al.addresses[a] + 1 \in 1 .. n
    BY <1>2, IndexInRange
  <2>2. /\ new.addresses = al.addresses
        /\ new.slots = [al.slots EXCEPT ![al.addresses[a] + 1] = @ \cup {k}]
    BY <1>2 DEF AddSlot, AccessLists
  <2>3. Len(new.slots) = n /\ \A i \in 1 .. n : new.slots[i] # {}
    BY <1>0, <2>1, <2>2 DEF Indexed
  <2> HIDE DEF new
  <2>4. Indexed(new)
    BY <2>2, <2>3 DEF Indexed
  <2> QED BY <2>4 DEF new
<1> QED BY <1>1, <1>2

-----------------------------------------------------------------------------

(* Writing the old value back undoes an overwrite.                         *)
LEMMA OverwriteBack ==
  ASSUME NEW D, NEW R, NEW f \in [D -> R], NEW d, NEW x
  PROVE  [[f EXCEPT ![d] = x] EXCEPT ![d] = f[d]] = f
BY ZenonT(30)

(* accessListAddAccountChange.revert gives the list back.                  *)
LEMMA DeleteAdded ==
  ASSUME NEW al \in AccessLists, NEW a \in Addr, ~ContainsAddress(al, a)
  PROVE  DeleteAddress(AddAddress(al, a), a) = al
<1>1. AddAddress(al, a) = [al EXCEPT !.addresses[a] = NoSlots]
  BY DEF AddAddress
<1>2. [[al.addresses EXCEPT ![a] = NoSlots] EXCEPT ![a] = Absent] = al.addresses
  BY ZenonT(30) DEF AccessLists, ContainsAddress
<1> QED BY <1>1, <1>2, ZenonT(30) DEF DeleteAddress, AccessLists

(* AddSlot of an absent address first adds the address.                    *)
LEMMA AddSlotAddsAddress ==
  ASSUME NEW al \in AccessLists, NEW a \in Addr, NEW k \in Key
  PROVE  /\ AddSlot(AddAddress(al, a), a, k) = AddSlot(al, a, k)
         /\ Contains(AddAddress(al, a), a, k) <=> Contains(al, a, k)
         /\ ContainsAddress(AddAddress(al, a), a)
<1>1. CASE ContainsAddress(al, a)
  BY <1>1 DEF AddAddress
<1>2. CASE ~ContainsAddress(al, a)
  <2> DEFINE new == AddAddress(al, a)
  <2>1. new.slots = al.slots /\ new.addresses = [al.addresses EXCEPT ![a] = NoSlots]
    BY <1>2 DEF AddAddress, AccessLists
  <2>2. al.addresses[a] = Absent /\ new.addresses[a] = NoSlots /\ Absent # NoSlots
    BY <1>2, <2>1 DEF AccessLists, ContainsAddress, Absent, NoSlots
  <2>3. [new.addresses EXCEPT ![a] = Len(al.slots)] = [al.addresses EXCEPT ![a] = Len(al.slots)]
    BY <2>1 DEF AccessLists
  <2> HIDE DEF new
  <2>4. AddSlot(new, a, k) = AddSlot(al, a, k)
    BY <2>1, <2>2, <2>3, ZenonT(30) DEF AddSlot
  <2>5. ContainsAddress(new, a) /\ ~Contains(new, a, k) /\ ~Contains(al, a, k)
    BY <2>2 DEF ContainsAddress, Contains
  <2> QED BY <2>4, <2>5 DEF new
<1> QED BY <1>1, <1>2

(* accessListAddSlotChange.revert gives the list back, and does not index  *)
(* out of range.                                                           *)
LEMMA DeleteAddedSlot ==
  ASSUME NEW al \in AccessLists, Indexed(al), NEW a \in Addr, NEW k \in Key,
         ContainsAddress(al, a), ~Contains(al, a, k)
  PROVE  /\ ~DeleteSlotFaults(AddSlot(al, a, k), a)
         /\ DeleteSlot(AddSlot(al, a, k), a, k) = al
<1> DEFINE new == AddSlot(al, a, k)
           n == Len(al.slots)
<1>0. n \in Nat /\ al.slots \in Seq(SUBSET Key) /\ al.addresses \in [Addr -> Int]
      /\ al = [addresses |-> al.addresses, slots |-> al.slots]
  BY DEF AccessLists
<1>1. CASE al.addresses[a] = NoSlots
  <2>1. /\ new = [addresses |-> [al.addresses EXCEPT ![a] = n], slots |-> Append(al.slots, {k})]
    BY <1>1 DEF AddSlot
  <2>2. new.addresses[a] = n /\ Len(new.slots) = n + 1 /\ new.slots[n + 1] = {k}
    BY <1>0, <2>1
  <2>3. [new.addresses EXCEPT ![a] = NoSlots] = al.addresses
    <3>1. new.addresses = [al.addresses EXCEPT ![a] = n]
      BY <2>1
    <3> HIDE DEF new, n
    <3> QED BY <1>0, <1>1, <3>1, ZenonT(30)
  <2>4. SubSeq(new.slots, 1, n) = al.slots
    BY <1>0, <2>1
  <2> HIDE DEF new
  <2>5. ~DeleteSlotFaults(new, a)
    BY <1>0, <2>2 DEF DeleteSlotFaults
  <2>6. DeleteSlot(new, a, k) = al
    BY <1>0, <2>2, <2>3, <2>4 DEF DeleteSlot
  <2> QED BY <2>5, <2>6 DEF new
<1>2. CASE al.addresses[a] # NoSlots
  <2> DEFINE i == al.addresses[a] + 1
  <2>1. al.addresses[a] \notin {Absent, NoSlots} /\ k \notin al.slots[i]
    BY <1>2 DEF ContainsAddress, Contains
  <2>2. i \in 1 .. n /\ al.slots[i] # {}
    BY <2>1, IndexInRange
  <2>3. /\ new.addresses = al.addresses
        /\ new.slots = [al.slots EXCEPT ![i] = @ \cup {k}]
    BY <2>1 DEF AddSlot, AccessLists
  <2>4. new = [addresses |-> new.addresses, slots |-> new.slots]
    BY <2>1, ZenonT(30) DEF AddSlot, AccessLists
  <2>5. Len(new.slots) = n /\ new.slots[i] = al.slots[i] \cup {k}
    BY <1>0, <2>2, <2>3
  <2>6. new.slots[i] \ {k} = al.slots[i]
    BY <2>1, <2>5
  <2>7. [new.slots EXCEPT ![i] = al.slots[i]] = al.slots
    <3> HIDE DEF new, n, i
    <3>1. al.slots \in [1 .. Len(al.slots) -> SUBSET Key]
      BY <1>0
    <3> QED BY <2>3, <3>1, OverwriteBack
  <2> HIDE DEF new
  <2>8. ~DeleteSlotFaults(new, a)
    BY <2>2, <2>3, <2>5 DEF DeleteSlotFaults
  <2>9. DeleteSlot(new, a, k) = [new EXCEPT !.slots[i] = al.slots[i]]
    BY <2>2, <2>3, <2>6, ZenonT(30) DEF DeleteSlot
  <2>10. [new EXCEPT !.slots[i] = al.slots[i]] = al
    BY <1>0, <2>3, <2>4, <2>7
  <2> QED BY <2>8, <2>9, <2>10 DEF new
<1> QED BY <1>1, <1>2

-----------------------------------------------------------------------------
(* Type correctness.                                                       *)

(* A cached code is the code of the object's hash: without it Commit could *)
(* store a code under a foreign hash.                                      *)
CachedCode(obj) == obj.code \in {NoCode, obj.codeHash}

Object == {obj \in stateObject : CachedCode(obj)}

Entry == {e \in JournalEntry :
            /\ e.op = "resetObject" => e.prev \in Object
            /\ e.op = "code" => e.prevcode \in {NoCode, e.prevhash}}

(* The inductive strengthening of TypeOK.                                  *)
TypeInv ==
  /\ TypeOK
  /\ stateObjects \in [Addr -> Object \cup {NoObject}]
  /\ journal.entries \in Seq(Entry)
  /\ phase = "reverting" => revertTo \in 1 .. Len(validRevisions)

(* newObject returns a state object.                                       *)
LEMMA NewObjectType ==
  ASSUME NEW acct \in Account
  PROVE  newObject(acct) \in Object
BY CodeAssumption DEF newObject, Object, CachedCode, stateObject, Account, CodeHash, Word

(* NewEmptyAccount returns an account.                                     *)
LEMMA EmptyAccountType == emptyAccount \in Account
BY DEF emptyAccount, Account, CodeHash

(* getStateObject returns a state object or none.                          *)
LEMMA GetObjectType ==
  ASSUME TypeInv, NEW a \in Addr
  PROVE  /\ getStateObject(a) \in Object \cup {NoObject}
         /\ orNewObject(a) \in Object
<1>1. getStateObject(a) \in Object \cup {NoObject}
  BY NewObjectType DEF TypeInv, TypeOK, getStateObject
<1> QED BY <1>1, NewObjectType, EmptyAccountType DEF orNewObject

(* An entry that dirties names its address.                                *)
LEMMA DirtiedAddr ==
  ASSUME NEW e \in JournalEntry, Dirties(e)
  PROVE  e.addr \in Addr
BY DEF JournalEntry, Dirties

Journals == [entries : Seq(Entry), dirties : [Addr -> Int]]

(* journal.append keeps the journal well typed.                            *)
LEMMA AppendType ==
  ASSUME NEW j \in Journals, NEW e \in Entry
  PROVE  append(j, e) \in Journals
<1>1. Append(j.entries, e) \in Seq(Entry)
  BY DEF Journals
<1>2. CASE Dirties(e)
  <2>1. e.addr \in Addr
    BY <1>2, DirtiedAddr DEF Entry
  <2>2. [j.dirties EXCEPT ![e.addr] = @ + 1] \in [Addr -> Int]
    BY <2>1 DEF Journals
  <2> QED BY <1>1, <1>2, <2>2 DEF append, Journals
<1>3. CASE ~Dirties(e)
  BY <1>1, <1>3 DEF append, Journals
<1> QED BY <1>2, <1>3

(* The entries the setters write.                                          *)
LEMMA EntryTypes ==
  ASSUME NEW a \in Addr, NEW obj \in Object
  PROVE  /\ createObjectChange(a) \in Entry
         /\ resetObjectChange(a, obj) \in Entry
         /\ suicideChange(a, obj) \in Entry
         /\ balanceChange(a, obj) \in Entry
         /\ nonceChange(a, obj) \in Entry
         /\ codeChange(a, obj) \in Entry
         /\ \A k \in Key, v \in Value : storageChange(a, k, v) \in Entry
<1>1. createObjectChange(a) \in Entry
  BY DEF createObjectChange, Entry, JournalEntry
<1>2. resetObjectChange(a, obj) \in Entry
  BY DEF resetObjectChange, Entry, JournalEntry, Object
<1>3. suicideChange(a, obj) \in Entry
  BY DEF suicideChange, Entry, JournalEntry, Object, stateObject
<1>4. balanceChange(a, obj) \in Entry
  BY DEF balanceChange, Entry, JournalEntry, Object, stateObject
<1>5. nonceChange(a, obj) \in Entry
  BY DEF nonceChange, Entry, JournalEntry, Object, stateObject
<1>6. codeChange(a, obj) \in Entry
  <2>1. CodeOf(obj) \in {NoCode, obj.codeHash}
    BY DEF CodeOf, keeperCode, Object, CachedCode
  <2>2. obj.codeHash \in CodeHash /\ CodeOf(obj) \in CodeHash
    BY <2>1 DEF Object, stateObject, CodeHash
  <2> QED BY <2>1, <2>2 DEF codeChange, Entry, JournalEntry
<1>7. ASSUME NEW k \in Key, NEW v \in Value
      PROVE  storageChange(a, k, v) \in Entry
  BY DEF storageChange, Entry, JournalEntry
<1> QED BY <1>1, <1>2, <1>3, <1>4, <1>5, <1>6, <1>7

(* Entries for refunds, logs and the access list are well typed.           *)
LEMMA OtherEntryTypes ==
  /\ \A r \in Nat : refundChange(r) \in Entry
  /\ addLogChange \in Entry
  /\ \A a \in Addr : accessListAddAccountChange(a) \in Entry
  /\ \A a \in Addr, k \in Key : accessListAddSlotChange(a, k) \in Entry
<1>1. \A r \in Nat : refundChange(r) \in Entry
  BY DEF refundChange, Entry, JournalEntry
<1>2. addLogChange \in Entry
  BY DEF addLogChange, Entry, JournalEntry
<1>3. \A a \in Addr : accessListAddAccountChange(a) \in Entry
  BY DEF accessListAddAccountChange, Entry, JournalEntry
<1>4. \A a \in Addr, k \in Key : accessListAddSlotChange(a, k) \in Entry
  BY DEF accessListAddSlotChange, Entry, JournalEntry
<1> QED BY <1>1, <1>2, <1>3, <1>4

(* Appending a well typed entry gives a well typed journal.                *)
LEMMA JournalType ==
  ASSUME TypeInv
  PROVE  /\ journal \in Journals
         /\ \A a \in Addr : orNewJournal(a) \in Journals
<1>1. journal \in Journals
  BY DEF TypeInv, TypeOK, Journals
<1> QED BY <1>1, AppendType, EntryTypes, NewObjectType, EmptyAccountType DEF orNewJournal

(* The typed entries are journal entries.                                  *)
LEMMA EntrySubset == Entry \subseteq JournalEntry
BY DEF Entry

(* The storage caches a read fills are well typed.                         *)
LEMMA ReadTypes ==
  ASSUME TypeInv, NEW a \in Addr, NEW obj \in Object, NEW k \in Key
  PROVE  /\ GetCommittedState(a, obj, k) \in Value
         /\ GetState(a, obj, k) \in Value
         /\ CacheState(a, obj, k) \in Object
         /\ [obj EXCEPT !.origin[k] = GetCommittedState(a, obj, k)] \in Object
<1>1. GetCommittedState(a, obj, k) \in Value
  BY ValueAssumption DEF GetCommittedState, keeperState, TypeInv, TypeOK, Object, stateObject, Word
<1>2. GetState(a, obj, k) \in Value
  BY <1>1 DEF GetState, Object, stateObject, Word
<1>3. \A w \in Word : [obj EXCEPT !.origin[k] = w] \in Object
  BY DEF Object, stateObject, CachedCode
<1>4. [obj EXCEPT !.origin[k] = GetCommittedState(a, obj, k)] \in Object
  BY <1>1, <1>3 DEF Word
<1>5. CacheState(a, obj, k) \in Object
  BY <1>4 DEF CacheState
<1> QED BY <1>1, <1>2, <1>4, <1>5

(* The code a read caches is well typed.                                   *)
LEMMA CacheCodeType ==
  ASSUME NEW obj \in Object
  PROVE  /\ CodeOf(obj) \in {NoCode, obj.codeHash}
         /\ [obj EXCEPT !.code = CodeOf(obj)] \in Object
<1>1. CodeOf(obj) \in {NoCode, obj.codeHash}
  BY DEF CodeOf, keeperCode, Object, CachedCode
<1> QED BY <1>1 DEF Object, stateObject, CachedCode, CodeHash

(* Storing a well-typed object and journal keeps the types.                *)
LEMMA SetObjectType ==
  ASSUME TypeInv, NEW a \in Addr, NEW obj \in Object, NEW j \in Journals,
         SetObject(a, obj, j)
  PROVE  TypeInv'
<1>1. stateObjects' \in [Addr -> Object \cup {NoObject}]
  BY DEF SetObject, TypeInv
<1>2. journal' \in [entries : Seq(JournalEntry), dirties : [Addr -> Int]]
      /\ journal'.entries \in Seq(Entry)
  BY EntrySubset DEF SetObject, Journals
<1>3. stateObjects' \in [Addr -> stateObject \cup {NoObject}]
  BY <1>1 DEF Object
<1> QED
  BY <1>1, <1>2, <1>3 DEF TypeInv, TypeOK, SetObject, keeperVars, revisionVars, loopVars

(* Operations on an account preserve the types.                            *)
LEMMA AccountStepType ==
  ASSUME TypeInv, NEW a \in Addr, AccountStep(a)
  PROVE  TypeInv'
<1> DEFINE obj == orNewObject(a)
           cur == getStateObject(a)
<1>1. obj \in Object /\ cur \in Object \cup {NoObject}
  BY GetObjectType
<1>2. journal \in Journals /\ orNewJournal(a) \in Journals
  BY JournalType
<1>3. CASE ReadAccount(a)
  BY <1>1, <1>2, <1>3, SetObjectType DEF ReadAccount
<1>4. CASE ReadCode(a)
  BY <1>1, <1>2, <1>4, SetObjectType, CacheCodeType DEF ReadCode
<1>5. ASSUME NEW k \in Key, ReadState(a, k) PROVE TypeInv'
  BY <1>1, <1>2, <1>5, SetObjectType, ReadTypes, ZenonT(30) DEF ReadState
<1>6. ASSUME NEW k \in Key, ReadCommittedState(a, k) PROVE TypeInv'
  BY <1>1, <1>2, <1>6, SetObjectType, ReadTypes DEF ReadCommittedState
<1>7. CASE CreateAccount(a)
  <2>1. newObject(emptyAccount) \in Object
    BY NewObjectType, EmptyAccountType
  <2>2. CASE cur = NoObject
    <3>1. append(journal, createObjectChange(a)) \in Journals
      BY <1>2, <2>1, EntryTypes, AppendType
    <3> QED BY <1>7, <2>1, <2>2, <3>1, SetObjectType DEF CreateAccount
  <2>3. CASE cur # NoObject
    <3>1. [newObject(emptyAccount) EXCEPT !.balance = cur.balance] \in Object
      BY <1>1, <2>1, <2>3 DEF Object, stateObject, CachedCode
    <3>2. append(journal, resetObjectChange(a, cur)) \in Journals
      BY <1>1, <1>2, <2>3, EntryTypes, AppendType
    <3> QED BY <1>7, <2>3, <3>1, <3>2, SetObjectType DEF CreateAccount
  <2> QED BY <2>2, <2>3
<1>8. ASSUME NEW b \in Nat, SetBalance(a, obj, b) PROVE TypeInv'
  <2>1. [obj EXCEPT !.balance = b] \in Object
    BY <1>1 DEF Object, stateObject, CachedCode
  <2>2. append(orNewJournal(a), balanceChange(a, obj)) \in Journals
    BY <1>1, <1>2, EntryTypes, AppendType
  <2> QED BY <1>8, <2>1, <2>2, SetObjectType DEF SetBalance
<1>9. ASSUME NEW amount \in Amount, AddBalance(a, amount) PROVE TypeInv'
  <2>1. obj.balance + amount \in Nat
    BY <1>1, AmountAssumption DEF Object, stateObject
  <2> QED BY <1>1, <1>2, <1>8, <1>9, <2>1, SetObjectType DEF AddBalance
<1>10. ASSUME NEW amount \in Amount, SubBalance(a, amount) PROVE TypeInv'
  <2>1. obj.balance - amount \in Nat
    BY <1>1, <1>10, AmountAssumption DEF Object, stateObject, SubBalance
  <2> QED BY <1>1, <1>2, <1>8, <1>10, <2>1, SetObjectType DEF SubBalance
<1>11. ASSUME NEW n \in Nonce, SetNonce(a, n) PROVE TypeInv'
  <2>1. [obj EXCEPT !.nonce = n] \in Object
    BY <1>1, NonceAssumption DEF Object, stateObject, CachedCode
  <2>2. append(orNewJournal(a), nonceChange(a, obj)) \in Journals
    BY <1>1, <1>2, EntryTypes, AppendType
  <2> QED BY <1>11, <2>1, <2>2, SetObjectType DEF SetNonce
<1>12. ASSUME NEW c \in CodeHash, SetCode(a, c) PROVE TypeInv'
  <2>1. [obj EXCEPT !.code = c, !.codeHash = c, !.dirtyCode = TRUE] \in Object
    BY <1>1, ZenonT(30) DEF Object, stateObject, CachedCode
  <2>2. append(orNewJournal(a), codeChange(a, obj)) \in Journals
    BY <1>1, <1>2, EntryTypes, AppendType
  <2> QED BY <1>12, <2>1, <2>2, SetObjectType DEF SetCode
<1>13. ASSUME NEW k \in Key, NEW v \in Value, SetState(a, k, v) PROVE TypeInv'
  <2> DEFINE o == CacheState(a, obj, k)
             prev == GetState(a, o, k)
  <2>1. o \in Object /\ prev \in Value
    BY <1>1, ReadTypes, ZenonT(30)
  <2>2. [o EXCEPT !.dirty[k] = v] \in Object
    BY <2>1 DEF Object, stateObject, CachedCode, Word
  <2>3. append(orNewJournal(a), storageChange(a, k, prev)) \in Journals
    BY <1>2, <2>1, EntryTypes, AppendType
  <2> QED BY <1>2, <1>13, <2>1, <2>2, <2>3, SetObjectType DEF SetState
<1>14. CASE Suicide(a)
  <2>1. cur \in Object
    BY <1>1, <1>14 DEF Suicide
  <2>2. [cur EXCEPT !.suicided = TRUE, !.balance = 0] \in Object
    BY <2>1, ZenonT(30) DEF Object, stateObject, CachedCode
  <2>3. append(journal, suicideChange(a, cur)) \in Journals
    BY <1>2, <2>1, EntryTypes, AppendType
  <2> QED BY <1>14, <2>2, <2>3, SetObjectType DEF Suicide
<1> QED
  BY <1>3, <1>4, <1>5, <1>6, <1>7, <1>9, <1>10, <1>11, <1>12, <1>13, <1>14 DEF AccountStep

(* Refund, log and access list operations preserve the types.              *)
LEMMA OtherStepType ==
  ASSUME TypeInv, OtherStep
  PROVE  TypeInv'
<1> USE DEF keeperVars, revisionVars, loopVars
<1>1. journal \in Journals
  BY JournalType
<1>2. ASSUME journal' \in Journals
      PROVE  /\ journal' \in [entries : Seq(JournalEntry), dirties : [Addr -> Int]]
             /\ journal'.entries \in Seq(Entry)
  BY <1>2, EntrySubset DEF Journals
<1>3. refund \in Nat /\ append(journal, refundChange(refund)) \in Journals
  BY <1>1, OtherEntryTypes, AppendType DEF TypeInv, TypeOK
<1>4. ASSUME NEW gas \in Gas, AddRefund(gas) PROVE TypeInv'
  <2>1. journal' \in Journals /\ refund' \in Nat
    BY <1>3, <1>4, GasAssumption DEF AddRefund
  <2> QED BY <1>2, <1>4, <2>1 DEF AddRefund, TypeInv, TypeOK
<1>5. ASSUME NEW gas \in Gas, SubRefund(gas) PROVE TypeInv'
  <2>1. journal' \in Journals /\ refund' \in Nat /\ phase' \in {phase, "panicked"}
    BY <1>3, <1>5, GasAssumption DEF SubRefund
  <2> QED BY <1>2, <1>5, <2>1 DEF SubRefund, TypeInv, TypeOK, Phases
<1>6. ASSUME NEW l \in Log, AddLog(l) PROVE TypeInv'
  <2>1. journal' \in Journals /\ logs' \in Seq(Log)
    BY <1>1, <1>6, OtherEntryTypes, AppendType DEF AddLog, TypeInv, TypeOK
  <2> QED BY <1>2, <1>6, <2>1 DEF AddLog, TypeInv, TypeOK
<1>7. ASSUME NEW a \in Addr, AddAddressToAccessList(a) PROVE TypeInv'
  <2>1. journal' \in Journals
    BY <1>1, <1>7, OtherEntryTypes, AppendType DEF AddAddressToAccessList
  <2>2. accessList' \in AccessLists
    BY <1>7, AccessListAddrTypes DEF AddAddressToAccessList, TypeInv, TypeOK
  <2> QED BY <1>2, <1>7, <2>1, <2>2 DEF AddAddressToAccessList, TypeInv, TypeOK
<1>8. ASSUME NEW a \in Addr, NEW k \in Key, AddSlotToAccessList(a, k) PROVE TypeInv'
  <2>1. journal' \in Journals
    <3> DEFINE j == IF ContainsAddress(accessList, a) THEN journal
                    ELSE append(journal, accessListAddAccountChange(a))
    <3>1. j \in Journals
      BY <1>1, OtherEntryTypes, AppendType
    <3>2. append(j, accessListAddSlotChange(a, k)) \in Journals
      BY <3>1, OtherEntryTypes, AppendType
    <3> QED BY <1>8, <3>1, <3>2 DEF AddSlotToAccessList
  <2>2. accessList' \in AccessLists
    BY <1>8, AccessListTypes DEF AddSlotToAccessList, TypeInv, TypeOK
  <2> QED BY <1>2, <1>8, <2>1, <2>2 DEF AddSlotToAccessList, TypeInv, TypeOK
<1> QED BY <1>4, <1>5, <1>6, <1>7, <1>8 DEF OtherStep

(* A new StateDB is well typed.                                            *)
LEMMA InitType ==
  ASSUME Init
  PROVE  TypeInv
<1>1. accounts \in [Addr -> Account \cup {NoAccount}]
  BY GenesisAssumption DEF Init
<1>2. codes \subseteq Code
  BY <1>1 DEF Init, Account, CodeHash
<1>3. accessList \in AccessLists
  BY DEF Init, newAccessList, AccessLists, Absent
<1> QED BY <1>1, <1>2, <1>3 DEF Init, TypeInv, TypeOK, Phases

(* The last entry of the journal, when there is one.                       *)
LEMMA LastEntryType ==
  ASSUME TypeInv, Len(journal.entries) > 0
  PROVE  /\ lastEntry \in Entry
         /\ pop(journal) \in Journals
<1>1. journal \in Journals
  BY JournalType
<1>2. lastEntry \in Entry
  BY <1>1 DEF lastEntry, Journals
<1>3. SubSeq(journal.entries, 1, Len(journal.entries) - 1) \in Seq(Entry)
  BY <1>1 DEF Journals
<1>4. CASE Dirties(lastEntry)
  <2>1. lastEntry.addr \in Addr
    BY <1>2, <1>4, DirtiedAddr DEF Entry
  <2>2. [journal.dirties EXCEPT ![lastEntry.addr] = @ - 1] \in [Addr -> Int]
    BY <1>1, <2>1 DEF Journals
  <2> QED BY <1>2, <1>3, <1>4, <2>2 DEF pop, lastEntry, Journals
<1>5. CASE ~Dirties(lastEntry)
  BY <1>1, <1>2, <1>3, <1>5 DEF pop, lastEntry, Journals
<1> QED BY <1>2, <1>4, <1>5

(* Undoing an entry about an object gives an object.                       *)
LEMMA UndoObjectType ==
  ASSUME NEW e \in Entry, NEW obj \in Object,
         e.op \in {"suicide", "balance", "nonce", "code", "storage"}
  PROVE  UndoObject(e, obj) \in Object
<1>1. CASE e.op = "suicide"
  <2>1. e.prev \in BOOLEAN /\ e.prevbalance \in Nat
    BY <1>1 DEF Entry, JournalEntry
  <2> QED BY <1>1, <2>1, ZenonT(30) DEF UndoObject, Object, stateObject, CachedCode
<1>2. CASE e.op = "balance"
  <2>1. e.prev \in Nat
    BY <1>2 DEF Entry, JournalEntry
  <2> QED BY <1>2, <2>1 DEF UndoObject, Object, stateObject, CachedCode
<1>3. CASE e.op = "nonce"
  <2>1. e.prev \in Nat
    BY <1>3 DEF Entry, JournalEntry
  <2> QED BY <1>3, <2>1 DEF UndoObject, Object, stateObject, CachedCode
<1>4. CASE e.op = "code"
  <2>1. e.prevcode \in CodeHash /\ e.prevhash \in CodeHash /\ e.prevcode \in {NoCode, e.prevhash}
    BY <1>4 DEF Entry, JournalEntry
  <2> QED BY <1>4, <2>1, ZenonT(30) DEF UndoObject, Object, stateObject, CachedCode
<1>5. CASE e.op = "storage"
  <2>1. e.key \in Key /\ e.prevalue \in Word
    BY <1>5 DEF Entry, JournalEntry, Word
  <2> QED BY <1>5, <2>1 DEF UndoObject, Object, stateObject, CachedCode
<1> QED BY <1>1, <1>2, <1>3, <1>4, <1>5

(* Undoing an entry keeps the objects well typed.                          *)
LEMMA UndoObjectsType ==
  ASSUME TypeInv, NEW e \in Entry, ~UndoFaults(e),
         ~(e.op = "suicide" /\ getStateObject(e.addr) = NoObject)
  PROVE  UndoObjects(e) \in [Addr -> Object \cup {NoObject}]
<1>1. stateObjects \in [Addr -> Object \cup {NoObject}]
  BY DEF TypeInv
<1>2. CASE e.op = "createObject"
  BY <1>1, <1>2, ZenonT(30) DEF UndoObjects
<1>3. CASE e.op = "resetObject"
  <2>1. e.prev \in Object
    BY <1>3 DEF Entry
  <2> QED BY <1>1, <1>3, <2>1, ZenonT(30) DEF UndoObjects
<1>4. CASE e.op \in {"suicide", "balance", "nonce", "code", "storage"}
  <2>1. e.addr \in Addr
    BY <1>4, DirtiedAddr DEF Dirties, Entry
  <2>2. getStateObject(e.addr) \in Object
    BY <1>4, <2>1, GetObjectType DEF UndoFaults
  <2>3. UndoObject(e, getStateObject(e.addr)) \in Object
    BY <1>4, <2>2, UndoObjectType
  <2> QED BY <1>1, <1>4, <2>3, ZenonT(30) DEF UndoObjects
<1>5. CASE e.op \notin {"createObject", "resetObject", "suicide", "balance", "nonce", "code", "storage"}
  BY <1>1, <1>5 DEF UndoObjects
<1> QED BY <1>2, <1>3, <1>4, <1>5

(* A step of journal.revert preserves the types.                           *)
LEMMA RevertEntryType ==
  ASSUME TypeInv, RevertEntry
  PROVE  TypeInv'
<1> USE DEF keeperVars, revisionVars
<1>1. Len(journal.entries) > 0
  <2>1. revertTo \in DOMAIN validRevisions /\ validRevisions \in Seq(revision)
    BY DEF RevertEntry, TypeInv, TypeOK
  <2>2. validRevisions[revertTo] \in revision
    BY <2>1
  <2>3. Len(journal.entries) \in Nat
    BY DEF TypeInv
  <2> QED BY <2>2, <2>3 DEF RevertEntry, revision
<1>2. lastEntry \in Entry /\ pop(journal) \in Journals
  BY <1>1, LastEntryType
<1>3. CASE UndoFaults(lastEntry)
  BY <1>3 DEF RevertEntry, TypeInv, TypeOK, Phases
<1>4. CASE ~UndoFaults(lastEntry)
  <2>1. journal' \in [entries : Seq(JournalEntry), dirties : [Addr -> Int]]
        /\ journal'.entries \in Seq(Entry)
    <3>1. journal' = pop(journal)
      BY <1>4 DEF RevertEntry
    <3> QED BY <1>2, <3>1, EntrySubset DEF Journals
  <2>2. stateObjects' \in [Addr -> Object \cup {NoObject}]
    BY <1>2, <1>4, UndoObjectsType DEF RevertEntry, TypeInv
  <2>3. stateObjects' \in [Addr -> stateObject \cup {NoObject}]
    BY <2>2 DEF Object
  <2>4. refund' \in Nat
    <3>1. lastEntry.op = "refund" => lastEntry.prev \in Nat
      BY <1>2 DEF Entry, JournalEntry
    <3> QED BY <1>4, <3>1 DEF RevertEntry, TypeInv, TypeOK
  <2>5. logs' \in Seq(Log)
    <3>1. logs \in Seq(Log) /\ (logs' = logs \/ logs' = SubSeq(logs, 1, Len(logs) - 1))
      BY <1>4 DEF RevertEntry, TypeInv, TypeOK
    <3>2. \A i \in 1 .. Len(logs) - 1 : logs[i] \in Log
      BY <3>1
    <3> QED BY <3>1, <3>2
  <2>6. accessList' \in AccessLists
    <3>1. lastEntry.op \in {"accessListAddAccount", "accessListAddSlot"} => lastEntry.addr \in Addr
      BY <1>2 DEF Entry, JournalEntry
    <3>2. lastEntry.op = "accessListAddSlot" => lastEntry.slot \in Key
      BY <1>2 DEF Entry, JournalEntry
    <3>3. accessList \in AccessLists
      BY DEF TypeInv, TypeOK
    <3> QED
      BY <1>4, <3>1, <3>2, <3>3, AccessListTypes, AccessListAddrTypes
         DEF RevertEntry, UndoAccessList, UndoFaults
  <2> QED BY <1>4, <2>1, <2>2, <2>3, <2>4, <2>5, <2>6 DEF RevertEntry, TypeInv, TypeOK
<1> QED BY <1>3, <1>4

(* A step of Commit preserves the types.                                   *)
LEMMA CommitAccountType ==
  ASSUME TypeInv, NEW a \in Addr, CommitAccount(a)
  PROVE  TypeInv'
<1> USE DEF keeperVars, revisionVars
<1> DEFINE obj == stateObjects[a]
<1>1. /\ accounts \in [Addr -> Account \cup {NoAccount}]
      /\ codes \subseteq Code
      /\ storage \in [Addr -> [Key -> Word]]
      /\ obj \in Object \cup {NoObject}
  BY DEF TypeInv, TypeOK
<1>2. ASSUME accounts' \in [Addr -> Account \cup {NoAccount}], codes' \subseteq Code,
             storage' \in [Addr -> [Key -> Word]], phase' \in {phase, "failed", "fault"}
      PROVE  TypeInv'
  BY <1>2 DEF CommitAccount, TypeInv, TypeOK, Phases
<1>3. CASE obj = NoObject
  BY <1>1, <1>2, <1>3 DEF CommitAccount
<1>4. CASE obj # NoObject /\ obj.suicided
  <2>1. DeleteAccount(a)
    BY <1>4 DEF CommitAccount
  <2>2. [storage EXCEPT ![a] = [k \in Key |-> NoValue]] \in [Addr -> [Key -> Word]]
    BY <1>1 DEF Word
  <2> QED BY <1>1, <1>2, <2>1, <2>2 DEF DeleteAccount
<1>5. CASE obj # NoObject /\ ~obj.suicided
  <2> DEFINE acct == IF accounts[a] = NoAccount THEN emptyAccount ELSE accounts[a]
             written == SetSequenceAndCodeHash(acct, obj)
             words == [k \in Key |-> IF obj.dirty[k] \in {NoValue, OriginWord(obj, k)}
                                     THEN storage[a][k] ELSE obj.dirty[k]]
  <2>1. WriteObject(a, obj)
    BY <1>5 DEF CommitAccount
  <2>2. obj \in Object /\ acct \in Account
    BY <1>1, <1>5, EmptyAccountType
  <2>3. written \in Account /\ [written EXCEPT !.balance = obj.balance] \in Account
    BY <2>2 DEF SetSequenceAndCodeHash, Account, Object, stateObject
  <2>4. words \in [Key -> Word]
    BY <1>1, <2>2 DEF Object, stateObject
  <2>5. codes' \subseteq Code
    BY <1>1, <2>1, <2>2, CodeAssumption DEF WriteObject, Object, stateObject, CachedCode, CodeHash
  <2>6. /\ accounts' \in [Addr -> Account \cup {NoAccount}]
        /\ storage' \in [Addr -> [Key -> Word]]
        /\ phase' \in {phase, "failed"}
    BY <1>1, <2>1, <2>3, <2>4, ZenonT(30) DEF WriteObject
  <2> QED BY <1>2, <2>5, <2>6
<1> QED BY <1>3, <1>4, <1>5

(* Snapshots, reverts and commits preserve the types.                      *)
LEMMA LoopStepType ==
  ASSUME TypeInv, LoopStep
  PROVE  TypeInv'
<1> USE DEF keeperVars, revisionVars, loopVars
<1>1. CASE Snapshot
  <2>1. [id |-> nextRevisionID, journalIndex |-> Len(journal.entries)] \in revision
    BY DEF TypeInv, TypeOK, revision
  <2>2. validRevisions' \in Seq(revision) /\ Len(validRevisions') = Len(validRevisions) + 1
    BY <1>1, <2>1 DEF Snapshot, TypeInv, TypeOK
  <2> QED BY <1>1, <2>2 DEF Snapshot, TypeInv, TypeOK
<1>2. ASSUME NEW id \in 0 .. nextRevisionID - 1, RevertToSnapshot(id) PROVE TypeInv'
  <2>1. CASE phase' = "panicked" /\ UNCHANGED revertTo
    BY <1>2, <2>1 DEF RevertToSnapshot, TypeInv, TypeOK, Phases
  <2>2. CASE phase' = "reverting" /\ revertTo' \in 1 .. Len(validRevisions)
    BY <1>2, <2>2 DEF RevertToSnapshot, TypeInv, TypeOK, Phases
  <2>3. Len(validRevisions) \in Nat
    BY DEF TypeInv, TypeOK
  <2> QED BY <1>2, <2>1, <2>2, <2>3 DEF RevertToSnapshot
<1>3. CASE RevertEntry
  BY <1>3, RevertEntryType
<1>4. CASE RevertDone
  <2>1. validRevisions \in Seq(revision) /\ revertTo \in 1 .. Len(validRevisions)
    BY <1>4 DEF RevertDone, TypeInv, TypeOK
  <2>2. SubSeq(validRevisions, 1, revertTo - 1) \in Seq(revision)
    BY <2>1
  <2>3. validRevisions' \in Seq(revision) /\ revertTo' \in 0 .. Len(validRevisions')
    BY <1>4, <2>2 DEF RevertDone
  <2>4. /\ phase' = "running" /\ phase' \in Phases
        /\ UNCHANGED <<accounts, codes, storage, stateObjects, journal, refund, logs, accessList,
                       nextRevisionID, pending>>
    BY <1>4 DEF RevertDone, Phases
  <2> QED BY <2>3, <2>4 DEF TypeInv, TypeOK
<1>5. CASE Commit
  BY <1>5 DEF Commit, TypeInv, TypeOK, Phases, dirtyAddrs
<1>6. ASSUME NEW a \in Addr, CommitAccount(a) PROVE TypeInv'
  BY <1>6, CommitAccountType
<1>7. CASE CommitDone
  BY <1>7 DEF CommitDone, TypeInv, TypeOK, Phases
<1> QED BY <1>1, <1>2, <1>3, <1>4, <1>5, <1>6, <1>7 DEF LoopStep

(* Type correctness of the StateDB and of the keeper's store it writes,    *)
(* for any number of calls, snapshots, reverts and commits; with TypeInv   *)
(* goes the fact that a cached code always belongs to the object's hash.   *)
THEOREM TypeCorrect == Spec => [](TypeOK /\ TypeInv)
<1>1. Init => TypeInv
  BY InitType
<1>2. TypeInv /\ [Next]_vars => TypeInv'
  <2> SUFFICES ASSUME TypeInv, [Next]_vars PROVE TypeInv'
    OBVIOUS
  <2>1. ASSUME NEW a \in Addr, AccountStep(a) PROVE TypeInv'
    BY <2>1, AccountStepType
  <2>2. CASE OtherStep
    BY <2>2, OtherStepType
  <2>3. CASE LoopStep
    BY <2>3, LoopStepType
  <2>4. CASE UNCHANGED vars
    BY <2>4 DEF vars, TypeInv, TypeOK
  <2> QED BY <2>1, <2>2, <2>3, <2>4 DEF Next
<1>3. TypeInv => TypeOK
  BY DEF TypeInv
<1> QED BY <1>1, <1>2, <1>3, PTL DEF Spec

-----------------------------------------------------------------------------
(* The loop of Commit.                                                     *)

Running == phase \in {"running", "reverting"}

(* The keeper answers for the code hash.                                   *)
Stored(h) == h \in codes \cup {NoCode}

Coherent(a, obj) ==
  \A k \in Key :
    /\ obj.origin[k] # NoValue => obj.origin[k] = keeperState(a, k)
    /\ obj.dirty[k] # NoValue => obj.origin[k] # NoValue

(* A code that the keeper does not have is in the object, marked dirty.    *)
CodeSound(obj) == Stored(obj.codeHash) \/ (obj.code = obj.codeHash /\ obj.dirtyCode)

Sound(a, obj) == Coherent(a, obj) /\ CodeSound(obj)

(* The keys whose committed word is in the cache of an object.             *)
CachedKeys(obj) == IF obj = NoObject THEN {} ELSE {k \in Key : obj.origin[k] # NoValue}

HashesStored == \A a \in Addr : accounts[a] # NoAccount => Stored(accounts[a].codeHash)

(* Only accounts have storage.                                             *)
NoOrphanStorage ==
  \A a \in Addr : accounts[a] = NoAccount => storage[a] = [k \in Key |-> NoValue]

(* The keeper holds what the getters answered about a.                     *)
Written(a, seen) ==
  IF seen = NoAccount \/ seen.suicided
  THEN accounts[a] = NoAccount /\ \A k \in Key : storage[a][k] = NoValue
  ELSE /\ accounts[a] # NoAccount
       /\ KeeperView(a) = [nonce |-> seen.nonce, balance |-> seen.balance, state |-> seen.state]

(* The object that waits to be written is what the getters answered.       *)
Waiting(a, seen) ==
  /\ stateObjects[a] # NoObject /\ seen # NoAccount
  /\ Coherent(a, stateObjects[a])
  /\ seen.nonce = stateObjects[a].nonce /\ seen.balance = stateObjects[a].balance
  /\ seen.codeHash = stateObjects[a].codeHash /\ seen.suicided = stateObjects[a].suicided
  /\ seen.state = [k \in Key |-> GetState(a, stateObjects[a], k)]

CommitInv ==
  phase \in {"committing", "committed"} =>
    /\ phase = "committed" => pending = {}
    /\ \A a \in Addr : IF a \in pending THEN Waiting(a, saved[1].accounts[a])
                       ELSE Written(a, saved[1].accounts[a])

NoneSuicided ==
  \A a \in Addr : saved[1].accounts[a] # NoAccount => ~saved[1].accounts[a].suicided

(* No code is deleted: the keeper has the code of every account, once its  *)
(* object is written.                                                      *)
CodeInv ==
  phase \in {"committing", "committed"} /\ NoneSuicided =>
    /\ HashesStored
    /\ \A a \in Addr :
         /\ a \in pending => CodeSound(stateObjects[a])
         /\ saved[1].accounts[a] # NoAccount =>
              /\ saved[1].accounts[a].code = saved[1].accounts[a].codeHash
              /\ a \notin pending /\ accounts[a].eth =>
                   accounts[a].codeHash = saved[1].accounts[a].codeHash

(* newObject caches nothing.                                               *)
LEMMA NewObjectFields ==
  ASSUME NEW acct \in Account
  PROVE  /\ newObject(acct).nonce = acct.nonce /\ newObject(acct).balance = acct.balance
         /\ newObject(acct).codeHash = acct.codeHash /\ newObject(acct).code = NoCode
         /\ newObject(acct).suicided = FALSE
         /\ \A k \in Key : newObject(acct).origin[k] = NoValue /\ newObject(acct).dirty[k] = NoValue
BY DEF newObject

(* An object loaded from the keeper, or made for an absent account, is     *)
(* sound.                                                                  *)
LEMMA LoadedSound ==
  ASSUME TypeInv, HashesStored, NEW a \in Addr,
         stateObjects[a] # NoObject => Sound(a, stateObjects[a])
  PROVE  /\ Sound(a, newObject(emptyAccount))
         /\ getStateObject(a) # NoObject => Sound(a, getStateObject(a))
         /\ Sound(a, orNewObject(a))
<1>1. ASSUME NEW acct \in Account, Stored(acct.codeHash) PROVE Sound(a, newObject(acct))
  BY <1>1, NewObjectFields, ZenonT(30) DEF Sound, Coherent, CodeSound
<1>2. Sound(a, newObject(emptyAccount))
  BY <1>1, EmptyAccountType DEF emptyAccount, Stored
<1>3. accounts[a] # NoAccount => accounts[a] \in Account
  BY DEF TypeInv, TypeOK
<1>4. getStateObject(a) # NoObject => Sound(a, getStateObject(a))
  BY <1>1, <1>3 DEF getStateObject, HashesStored
<1> QED BY <1>2, <1>4 DEF orNewObject

(* Soundness is about the storage words and the code of an object.         *)
LEMMA SameSound ==
  ASSUME NEW a, NEW obj \in Object, NEW o \in Object, Sound(a, obj),
         o.origin = obj.origin, o.dirty = obj.dirty, o.codeHash = obj.codeHash,
         o.code = obj.code, o.dirtyCode = obj.dirtyCode
  PROVE  Sound(a, o) /\ CachedKeys(o) = CachedKeys(obj)
BY ObjectAssumption DEF Sound, Coherent, CodeSound, CachedKeys, Object

(* Changes of balance, nonce and suicide mark keep an object sound.        *)
LEMMA FieldsSound ==
  ASSUME NEW a, NEW obj \in Object, Sound(a, obj), NEW n \in Nat, NEW b \in BOOLEAN
  PROVE  /\ Sound(a, [obj EXCEPT !.balance = n])
         /\ CachedKeys([obj EXCEPT !.balance = n]) = CachedKeys(obj)
         /\ Sound(a, [obj EXCEPT !.nonce = n])
         /\ CachedKeys([obj EXCEPT !.nonce = n]) = CachedKeys(obj)
         /\ Sound(a, [obj EXCEPT !.suicided = b, !.balance = n])
         /\ CachedKeys([obj EXCEPT !.suicided = b, !.balance = n]) = CachedKeys(obj)
<1>1. [obj EXCEPT !.balance = n] \in Object
  BY DEF Object, stateObject, CachedCode
<1>2. [obj EXCEPT !.nonce = n] \in Object
  BY DEF Object, stateObject, CachedCode
<1>3. [obj EXCEPT !.suicided = b, !.balance = n] \in Object
  BY ZenonT(30) DEF Object, stateObject, CachedCode
<1>4. /\ Sound(a, [obj EXCEPT !.balance = n])
      /\ CachedKeys([obj EXCEPT !.balance = n]) = CachedKeys(obj)
  BY <1>1, SameSound, ZenonT(30) DEF Object, stateObject
<1>5. /\ Sound(a, [obj EXCEPT !.nonce = n])
      /\ CachedKeys([obj EXCEPT !.nonce = n]) = CachedKeys(obj)
  BY <1>2, SameSound, ZenonT(30) DEF Object, stateObject
<1>6. /\ Sound(a, [obj EXCEPT !.suicided = b, !.balance = n])
      /\ CachedKeys([obj EXCEPT !.suicided = b, !.balance = n]) = CachedKeys(obj)
  <2> DEFINE o == [obj EXCEPT !.suicided = b, !.balance = n]
  <2>1. /\ o.origin = obj.origin /\ o.dirty = obj.dirty /\ o.codeHash = obj.codeHash
        /\ o.code = obj.code /\ o.dirtyCode = obj.dirtyCode /\ o \in Object
    BY <1>3 DEF Object, stateObject
  <2> HIDE DEF o
  <2>2. Sound(a, o) /\ CachedKeys(o) = CachedKeys(obj)
    BY <2>1, SameSound
  <2> QED BY <2>2 DEF o
<1> QED BY <1>4, <1>5, <1>6

(* A word read from the keeper goes to the cache as the keeper has it.     *)
LEMMA ReadSound ==
  ASSUME TypeInv, NEW a \in Addr, NEW obj \in Object, Sound(a, obj), NEW k \in Key
  PROVE  /\ Sound(a, [obj EXCEPT !.origin[k] = GetCommittedState(a, obj, k)])
         /\ CachedKeys(obj)
              \subseteq CachedKeys([obj EXCEPT !.origin[k] = GetCommittedState(a, obj, k)])
         /\ Sound(a, CacheState(a, obj, k))
         /\ CachedKeys(obj) \cup {k} \subseteq CachedKeys(CacheState(a, obj, k))
<1> DEFINE w == GetCommittedState(a, obj, k)
           o == [obj EXCEPT !.origin[k] = w]
<1>1. w \in Value /\ w # NoValue /\ o \in Object
  BY ReadTypes, ValueAssumption
<1>2. w = keeperState(a, k)
  BY DEF GetCommittedState, Sound, Coherent
<1>3. /\ o.dirty = obj.dirty /\ o.codeHash = obj.codeHash /\ o.code = obj.code
      /\ o.dirtyCode = obj.dirtyCode /\ o.origin = [obj.origin EXCEPT ![k] = w]
      /\ obj.origin \in [Key -> Word]
  BY DEF Object, stateObject
<1>4. obj # NoObject /\ o # NoObject
  BY <1>1, ObjectAssumption DEF Object
<1> HIDE DEF w, o
<1>5. Sound(a, o)
  BY <1>1, <1>2, <1>3 DEF Sound, Coherent, CodeSound
<1>6. CachedKeys(obj) \cup {k} \subseteq CachedKeys(o)
  BY <1>1, <1>3, <1>4 DEF CachedKeys
<1>7. CacheState(a, obj, k) = IF obj.dirty[k] # NoValue THEN obj ELSE o
  BY DEF CacheState, o, w
<1>8. obj.dirty[k] # NoValue => k \in CachedKeys(obj)
  BY <1>4 DEF Sound, Coherent, CachedKeys
<1>9. Sound(a, CacheState(a, obj, k)) /\ CachedKeys(obj) \cup {k} \subseteq CachedKeys(CacheState(a, obj, k))
  BY <1>5, <1>6, <1>7, <1>8
<1> QED BY <1>5, <1>6, <1>9 DEF o, w

(* A read of the code caches what the keeper has.                          *)
LEMMA ReadCodeSound ==
  ASSUME NEW a \in Addr, NEW obj \in Object, Sound(a, obj)
  PROVE  /\ CodeOf(obj) = obj.codeHash
         /\ Sound(a, [obj EXCEPT !.code = CodeOf(obj)])
         /\ CachedKeys([obj EXCEPT !.code = CodeOf(obj)]) = CachedKeys(obj)
<1>1. CodeOf(obj) = obj.codeHash
  BY DEF CodeOf, keeperCode, Object, CachedCode, Sound, CodeSound, Stored
<1> DEFINE o == [obj EXCEPT !.code = CodeOf(obj)]
<1>2. o \in Object
  BY CacheCodeType
<1>3. /\ o.origin = obj.origin /\ o.dirty = obj.dirty /\ o.codeHash = obj.codeHash
      /\ o.code = obj.codeHash /\ o.dirtyCode = obj.dirtyCode
  BY <1>1 DEF Object, stateObject
<1> HIDE DEF o
<1>4. Sound(a, o) /\ CachedKeys(o) = CachedKeys(obj)
  BY <1>2, <1>3, ObjectAssumption DEF Sound, Coherent, CodeSound, CachedKeys, Object
<1> QED BY <1>1, <1>4 DEF o

(* What the keeper holds of an account, and what an object adds to it, is  *)
(* told by that account and that object.                                   *)
LEMMA WrittenStable ==
  ASSUME NEW a \in Addr, accounts'[a] = accounts[a], storage'[a] = storage[a], NEW seen,
         Written(a, seen)
  PROVE  Written(a, seen)'
<1>1. \A k \in Key : keeperState(a, k)' = keeperState(a, k)
  BY DEF keeperState
<1>2. KeeperView(a)' = KeeperView(a)
  BY <1>1 DEF KeeperView
<1> QED BY <1>2 DEF Written

(* The same while it waits.                                                *)
LEMMA WaitingStable ==
  ASSUME NEW a \in Addr, storage'[a] = storage[a], UNCHANGED stateObjects, NEW seen,
         Waiting(a, seen)
  PROVE  Waiting(a, seen)'
<1>1. \A k \in Key : keeperState(a, k)' = keeperState(a, k)
  BY DEF keeperState
<1>2. PICK obj : obj = stateObjects[a] /\ obj = stateObjects'[a]
  OBVIOUS
<1>3. Coherent(a, obj)'
  BY <1>1, <1>2, ZenonT(30) DEF Waiting, Coherent
<1>4. \A k \in Key : GetState(a, obj, k)' = GetState(a, obj, k)
  BY <1>1 DEF GetState, GetCommittedState
<1>5. Coherent(a, stateObjects[a])'
  BY <1>2, <1>3, ZenonT(30) DEF Coherent
<1>6. [k \in Key |-> GetState(a, stateObjects[a], k)]' = [k \in Key |-> GetState(a, stateObjects[a], k)]
  BY <1>2, <1>4, ZenonT(30) DEF GetState, GetCommittedState
<1> QED BY <1>2, <1>5, <1>6 DEF Waiting

(* A turn of the loop of Commit writes to its account only.                *)
LEMMA CommitAccountOthers ==
  ASSUME TypeInv, NEW a \in Addr, CommitAccount(a), NEW b \in Addr, b # a
  PROVE  accounts'[b] = accounts[b] /\ storage'[b] = storage[b]
<1>1. /\ accounts \in [Addr -> Account \cup {NoAccount}]
      /\ storage \in [Addr -> [Key -> Word]]
  BY DEF TypeInv, TypeOK
<1>2. CASE UNCHANGED keeperVars
  BY <1>2 DEF keeperVars
<1>3. CASE DeleteAccount(a)
  BY <1>1, <1>3 DEF DeleteAccount, keeperVars
<1>4. CASE WriteObject(a, stateObjects[a])
  BY <1>1, <1>4 DEF WriteObject
<1> QED BY <1>2, <1>3, <1>4 DEF CommitAccount

(* WriteObject leaves the keeper with what the object shows.               *)
LEMMA WriteObjectWrites ==
  ASSUME TypeInv, NEW a \in Addr, NEW seen, Waiting(a, seen), ~seen.suicided,
         WriteObject(a, stateObjects[a]), phase' # "failed"
  PROVE  Written(a, seen)'
<1>1. PICK obj \in Object : obj = stateObjects[a]
  BY DEF TypeInv, Waiting
<1>2. PICK acct \in Account : acct = IF accounts[a] = NoAccount THEN emptyAccount ELSE accounts[a]
  BY EmptyAccountType DEF TypeInv, TypeOK
<1>3. /\ accounts' = [accounts EXCEPT ![a] =
                        [SetSequenceAndCodeHash(acct, obj) EXCEPT !.balance = obj.balance]]
      /\ storage' = [storage EXCEPT ![a] = [k \in Key |->
                       IF obj.dirty[k] \in {NoValue, OriginWord(obj, k)}
                       THEN storage[a][k] ELSE obj.dirty[k]]]
  BY <1>1, <1>2 DEF WriteObject
<1>4. PICK new : new = [SetSequenceAndCodeHash(acct, obj) EXCEPT !.balance = obj.balance]
  BY ZenonT(30)
<1>5. new \in Account /\ new.nonce = obj.nonce /\ new.balance = obj.balance
  BY <1>4 DEF SetSequenceAndCodeHash, Object, stateObject, Account
<1>6. accounts'[a] = new /\ new # NoAccount
  BY <1>3, <1>4, <1>5, AccountAssumption, ZenonT(30) DEF TypeInv, TypeOK
<1>7. ASSUME NEW k \in Key PROVE keeperState(a, k)' = GetState(a, obj, k)
  <2>1. storage'[a][k] = IF obj.dirty[k] \in {NoValue, OriginWord(obj, k)}
                         THEN storage[a][k] ELSE obj.dirty[k]
    BY <1>3 DEF TypeInv, TypeOK
  <2>2. /\ obj.origin[k] # NoValue => obj.origin[k] = keeperState(a, k)
        /\ obj.dirty[k] # NoValue => obj.origin[k] # NoValue
    BY <1>1 DEF Waiting, Coherent
  <2>3. CASE obj.dirty[k] \in {NoValue, OriginWord(obj, k)}
    <3>1. storage'[a][k] = storage[a][k]
      BY <2>1, <2>3
    <3>2. keeperState(a, k)' = keeperState(a, k)
      BY <3>1 DEF keeperState
    <3> QED BY <2>2, <2>3, <3>2 DEF OriginWord, GetState, GetCommittedState
  <2>4. CASE obj.dirty[k] \notin {NoValue, OriginWord(obj, k)}
    BY <2>1, <2>4 DEF keeperState, GetState
  <2> QED BY <2>3, <2>4
<1>8. seen.state = [k \in Key |-> keeperState(a, k)']
  BY <1>1, <1>7 DEF Waiting
<1>9. /\ seen # NoAccount /\ seen.nonce = obj.nonce /\ seen.balance = obj.balance
  BY <1>1 DEF Waiting
<1> QED BY <1>5, <1>6, <1>8, <1>9, ZenonT(30) DEF Written, KeeperView

(* DeleteAccount leaves nothing of a suicided account.                     *)
LEMMA DeleteAccountWrites ==
  ASSUME TypeInv, NoOrphanStorage, NEW a \in Addr, NEW seen, Waiting(a, seen), seen.suicided,
         DeleteAccount(a), phase = "committing", phase' # "failed"
  PROVE  Written(a, seen)'
<1>1. CASE accounts[a] = NoAccount
  BY <1>1 DEF DeleteAccount, keeperVars, Written, NoOrphanStorage
<1>2. CASE accounts[a] # NoAccount
  <2>1. /\ storage' = [storage EXCEPT ![a] = [k \in Key |-> NoValue]]
        /\ accounts' = [accounts EXCEPT ![a] = NoAccount]
    BY <1>2 DEF DeleteAccount
  <2>2. accounts'[a] = NoAccount /\ storage'[a] = [k \in Key |-> NoValue]
    BY <2>1 DEF TypeInv, TypeOK
  <2> QED BY <2>2 DEF Written
<1> QED BY <1>1, <1>2

(* A turn of the loop of Commit.                                           *)
LEMMA CommitAccountWrites ==
  ASSUME TypeInv, NoOrphanStorage, CommitInv, NEW a \in Addr, CommitAccount(a)
  PROVE  CommitInv'
<1>1. /\ phase = "committing" /\ a \in pending /\ pending' = pending \ {a}
      /\ UNCHANGED <<stateObjects, saved>>
  BY DEF CommitAccount, revisionVars
<1>2. PICK seen : seen = saved[1].accounts /\ seen = saved'[1].accounts
  BY <1>1
<1>3. Waiting(a, seen[a]) /\ stateObjects[a] # NoObject
  BY <1>1, <1>2 DEF CommitInv, Waiting
<1>4. phase' \in {"committing", "failed", "fault"}
  BY <1>1 DEF CommitAccount, DeleteAccount, WriteObject
<1>5. CASE phase' # "committing"
  BY <1>4, <1>5 DEF CommitInv
<1>6. CASE phase' = "committing"
  <2>1. Written(a, seen[a])'
    <3>1. CASE seen[a].suicided
      <4>1. DeleteAccount(a)
        BY <1>3, <3>1, ZenonT(30) DEF CommitAccount, Waiting
      <4> QED BY <1>1, <1>3, <1>6, <3>1, <4>1, DeleteAccountWrites
    <3>2. CASE ~seen[a].suicided
      <4>1. WriteObject(a, stateObjects[a])
        BY <1>3, <3>2, ZenonT(30) DEF CommitAccount, Waiting
      <4> QED BY <1>3, <1>6, <3>2, <4>1, WriteObjectWrites
    <3> QED BY <3>1, <3>2
  <2>2. ASSUME NEW b \in Addr, b # a
        PROVE  IF b \in pending THEN Waiting(b, seen[b])' ELSE Written(b, seen[b])'
    <3>1. accounts'[b] = accounts[b] /\ storage'[b] = storage[b] /\ stateObjects' = stateObjects
      BY <1>1, <2>2, CommitAccountOthers
    <3>2. CASE b \in pending
      <4>1. Waiting(b, seen[b])
        BY <1>1, <1>2, <3>2 DEF CommitInv
      <4> QED BY <3>1, <3>2, <4>1, WaitingStable
    <3>3. CASE b \notin pending
      <4>1. Written(b, seen[b])
        BY <1>1, <1>2, <3>3 DEF CommitInv
      <4> QED BY <3>1, <3>3, <4>1, WrittenStable
    <3> QED BY <3>2, <3>3
  <2> QED BY <1>1, <1>2, <1>6, <2>1, <2>2 DEF CommitInv
<1> QED BY <1>5, <1>6

(* The code of an account is stored with it.                               *)
LEMMA CommitAccountStores ==
  ASSUME TypeInv, CommitInv, CodeInv, NEW a \in Addr, CommitAccount(a)
  PROVE  CodeInv'
<1>1. /\ phase = "committing" /\ a \in pending /\ pending' = pending \ {a}
      /\ UNCHANGED <<stateObjects, saved>>
  BY DEF CommitAccount, revisionVars
<1>2. PICK seen : seen = saved[1].accounts /\ seen = saved'[1].accounts
  BY <1>1
<1> SUFFICES ASSUME \A b \in Addr : seen[b] # NoAccount => ~seen[b].suicided,
                    phase' \in {"committing", "committed"}
             PROVE  CodeInv'
  BY <1>2 DEF CodeInv, NoneSuicided
<1>3. /\ HashesStored
      /\ \A b \in Addr :
           /\ b \in pending => CodeSound(stateObjects[b])
           /\ seen[b] # NoAccount =>
                /\ seen[b].code = seen[b].codeHash
                /\ b \notin pending /\ accounts[b].eth => accounts[b].codeHash = seen[b].codeHash
  BY <1>1, <1>2 DEF CodeInv, NoneSuicided
<1>4. PICK obj \in Object : obj = stateObjects[a]
  BY <1>1, ZenonT(30) DEF CommitInv, Waiting, TypeInv
<1>5. ~obj.suicided /\ seen[a].codeHash = obj.codeHash /\ seen[a] # NoAccount /\ obj # NoObject
  BY <1>1, <1>2, <1>4, ZenonT(30) DEF CommitInv, Waiting
<1>6. WriteObject(a, obj)
  BY <1>4, <1>5, ZenonT(30) DEF CommitAccount
<1>7. /\ codes' = IF obj.code # NoCode /\ obj.dirtyCode THEN codes \cup {obj.codeHash} ELSE codes
      /\ codes \subseteq codes'
  BY <1>6 DEF WriteObject
<1>8. Stored(obj.codeHash)'
  <2>1. CodeSound(obj)
    BY <1>1, <1>3, <1>4
  <2> QED BY <1>7, <2>1 DEF CodeSound, Stored
<1>9. PICK acct \in Account : acct = IF accounts[a] = NoAccount THEN emptyAccount ELSE accounts[a]
  BY EmptyAccountType DEF TypeInv, TypeOK
<1>10. Stored(acct.codeHash)'
  BY <1>3, <1>7, <1>9 DEF HashesStored, Stored, emptyAccount
<1>11. PICK new : /\ new = accounts'[a] /\ new.eth = acct.eth
                  /\ new.codeHash = IF acct.eth THEN obj.codeHash ELSE acct.codeHash
  <2>1. PICK new : new = [SetSequenceAndCodeHash(acct, obj) EXCEPT !.balance = obj.balance]
    BY ZenonT(30)
  <2>2. accounts' = [accounts EXCEPT ![a] = new]
    BY <1>6, <1>9, <2>1 DEF WriteObject
  <2>3. accounts'[a] = new
    BY <2>2, ZenonT(30) DEF TypeInv, TypeOK
  <2>4. new.eth = acct.eth /\ new.codeHash = IF acct.eth THEN obj.codeHash ELSE acct.codeHash
    BY <2>1 DEF SetSequenceAndCodeHash
  <2> QED BY <2>3, <2>4, ZenonT(30)
<1>12. \A b \in Addr : b # a => accounts'[b] = accounts[b]
  BY CommitAccountOthers
<1>13. HashesStored'
  <2>1. Stored(accounts[a].codeHash)'
    BY <1>8, <1>10, <1>11
  <2>2. ASSUME NEW b \in Addr, b # a, accounts'[b] # NoAccount
        PROVE  Stored(accounts[b].codeHash)'
    <3>1. Stored(accounts[b].codeHash) /\ accounts'[b] = accounts[b]
      BY <1>3, <1>12, <2>2 DEF HashesStored
    <3> QED BY <1>7, <3>1 DEF Stored
  <2> QED BY <2>1, <2>2, ZenonT(30) DEF HashesStored
<1>14. ASSUME NEW b \in Addr, b \in pending' PROVE CodeSound(stateObjects[b])'
  <2>1. CodeSound(stateObjects[b]) /\ stateObjects' = stateObjects
    BY <1>1, <1>3, <1>14
  <2> QED BY <1>7, <2>1 DEF CodeSound, Stored
<1> QED BY <1>1, <1>2, <1>3, <1>5, <1>11, <1>12, <1>13, <1>14, ZenonT(30) DEF CodeInv

(* Only the loop of Commit writes to the keeper, and it opens the StateDB  *)
(* no more.                                                                *)
LEMMA OnlyCommitWrites ==
  ASSUME [Next]_vars
  PROVE  \/ /\ UNCHANGED keeperVars
            /\ Running' => Running
            /\ phase' \in {"committing", "committed"} =>
                 \/ Commit
                 \/ UNCHANGED <<stateObjects, saved, pending>>
                    /\ (phase' = phase \/ (phase = "committing" /\ pending = {}))
         \/ phase = "committing" /\ phase' \notin {"running", "reverting", "committed"}
            /\ \E a \in Addr : CommitAccount(a)
<1>1. CASE \E a \in Addr : AccountStep(a)
  <2>0. PICK a \in Addr : AccountStep(a)
    BY <1>1
  <2>1. phase = "running" /\ UNCHANGED <<keeperVars, loopVars>>
    BY <2>0, ZenonT(30) DEF AccountStep, ReadAccount, ReadCode, ReadState, ReadCommittedState, CreateAccount,
         AddBalance, SubBalance, SetNonce, SetCode, SetState, Suicide, SetBalance, SetObject
  <2> QED BY <2>1 DEF Running, loopVars
<1>2. CASE OtherStep
  BY <1>2 DEF OtherStep, AddRefund, SubRefund, AddLog, AddAddressToAccessList,
              AddSlotToAccessList, Running, loopVars
<1>3. CASE Snapshot \/ (\E id \in 0 .. nextRevisionID - 1 : RevertToSnapshot(id)) \/ RevertDone
  BY <1>3, ZenonT(30) DEF Snapshot, RevertToSnapshot, RevertDone, Running, loopVars
<1>4. CASE RevertEntry
  BY <1>4, ZenonT(30) DEF RevertEntry, Running
<1>5. CASE Commit
  BY <1>5 DEF Commit, Running
<1>6. ASSUME NEW a \in Addr, CommitAccount(a)
      PROVE  phase = "committing" /\ phase' \notin {"running", "reverting", "committed"}
  BY <1>6 DEF CommitAccount, DeleteAccount, WriteObject
<1>7. CASE CommitDone
  BY <1>7 DEF CommitDone, Running, revisionVars
<1>8. CASE UNCHANGED vars
  <2>1. UNCHANGED keeperVars /\ UNCHANGED <<stateObjects, saved, pending>> /\ phase' = phase
    BY <1>8 DEF vars, keeperVars
  <2>2. Running' => Running
    BY <2>1 DEF Running
  <2> QED BY <2>1, <2>2
<1> QED BY <1>1, <1>2, <1>3, <1>4, <1>5, <1>6, <1>7, <1>8 DEF Next, LoopStep

(* No step leaves storage without an account.                              *)
LEMMA StorageOwned ==
  ASSUME TypeInv, NoOrphanStorage, CommitInv, [Next]_vars
  PROVE  NoOrphanStorage'
<1>1. CASE UNCHANGED keeperVars
  BY <1>1 DEF NoOrphanStorage, keeperVars
<1>2. ASSUME NEW a \in Addr, CommitAccount(a) PROVE NoOrphanStorage'
  <2>1. accounts \in [Addr -> Account \cup {NoAccount}] /\ storage \in [Addr -> [Key -> Word]]
    BY DEF TypeInv, TypeOK
  <2>2. ASSUME accounts'[a] = NoAccount PROVE storage'[a] = [k \in Key |-> NoValue]
    <3>1. CASE UNCHANGED keeperVars
      BY <2>2, <3>1 DEF NoOrphanStorage, keeperVars
    <3>2. CASE DeleteAccount(a)
      BY <2>1, <2>2, <3>2 DEF DeleteAccount, NoOrphanStorage, keeperVars
    <3>3. CASE stateObjects[a] # NoObject /\ WriteObject(a, stateObjects[a])
      <4>1. PICK obj \in Object : obj = stateObjects[a]
        BY <3>3 DEF TypeInv
      <4>2. PICK acct \in Account : acct = IF accounts[a] = NoAccount THEN emptyAccount ELSE accounts[a]
        BY <2>1, EmptyAccountType
      <4>3. PICK one, two : /\ one = SetSequenceAndCodeHash(acct, obj)
                            /\ two = [one EXCEPT !.balance = obj.balance]
        BY ZenonT(30)
      <4>4. one \in Account /\ two \in Account
        BY <4>3 DEF SetSequenceAndCodeHash, Object, stateObject, Account
      <4>5. accounts' = [accounts EXCEPT ![a] = one] \/ accounts' = [accounts EXCEPT ![a] = two]
        BY <3>3, <4>1, <4>2, <4>3 DEF WriteObject
      <4> QED BY <2>1, <2>2, <4>4, <4>5, AccountAssumption, ZenonT(30)
    <3> QED BY <1>2, <3>1, <3>2, <3>3, ZenonT(30) DEF CommitAccount
  <2>3. ASSUME NEW b \in Addr, b # a, accounts'[b] = NoAccount
        PROVE  storage'[b] = [k \in Key |-> NoValue]
    <3>1. accounts'[b] = accounts[b] /\ storage'[b] = storage[b]
      BY <1>2, <2>3, CommitAccountOthers, ZenonT(30)
    <3> QED BY <2>3, <3>1 DEF NoOrphanStorage
  <2> QED BY <2>2, <2>3 DEF NoOrphanStorage
<1> QED BY <1>1, <1>2, OnlyCommitWrites

(* No step disturbs what Commit wrote and what it will write.              *)
LEMMA StepWrites ==
  ASSUME TypeInv, NoOrphanStorage, CommitInv, CodeInv, [Next]_vars, ~Commit
  PROVE  CommitInv' /\ CodeInv'
<1>1. ASSUME NEW a \in Addr, CommitAccount(a) PROVE CommitInv' /\ CodeInv'
  BY <1>1, CommitAccountWrites, CommitAccountStores
<1>2. CASE phase' \notin {"committing", "committed"}
  BY <1>2 DEF CommitInv, CodeInv
<1>3. CASE /\ UNCHANGED keeperVars /\ UNCHANGED <<stateObjects, saved, pending>>
           /\ phase \in {"committing", "committed"}
           /\ phase' = phase \/ (phase = "committing" /\ pending = {})
           /\ phase' \in {"committing", "committed"}
  <2>1. UNCHANGED <<accounts, codes, storage>>
    BY <1>3 DEF keeperVars
  <2>2. PICK seen : seen = saved[1].accounts /\ seen = saved'[1].accounts
    BY <1>3
  <2>3. CommitInv'
    <3>1. \A a \in Addr : IF a \in pending THEN Waiting(a, seen[a]) ELSE Written(a, seen[a])
      BY <1>3, <2>2 DEF CommitInv
    <3>2. \A a \in Addr : IF a \in pending THEN Waiting(a, seen[a])' ELSE Written(a, seen[a])'
      BY <1>3, <2>1, <3>1, WaitingStable, WrittenStable
    <3>3. phase' = "committed" => pending = {}
      BY <1>3 DEF CommitInv
    <3> QED BY <1>3, <2>2, <3>2, <3>3 DEF CommitInv
  <2>4. CodeInv'
    BY <1>3, <2>1, ZenonT(30) DEF CodeInv, NoneSuicided, HashesStored, CodeSound, Stored
  <2> QED BY <2>3, <2>4
<1> QED BY <1>1, <1>2, <1>3, OnlyCommitWrites

-----------------------------------------------------------------------------
(* The caches of committed words.                                          *)

EntrySound(e) ==
  /\ e.op = "resetObject" => Sound(e.addr, e.prev)
  /\ e.op = "code" => Stored(e.prevhash) \/ e.prevcode = e.prevhash

(* Keys known to be cached before and after an entry.                      *)
CacheLink(e, before, after) ==
  /\ e.op = "storage" => e.key \in after[e.addr]
  /\ \A a \in Addr : before[a] \subseteq
       (IF e.op = "resetObject" /\ e.addr = a THEN CachedKeys(e.prev)
        ELSE IF e.op = "createObject" /\ e.addr = a THEN {} ELSE after[a])

CacheChain(c, es, objs) ==
  /\ \A i \in 1 .. Len(es) : CacheLink(es[i], c[i - 1], c[i])
  /\ \A a \in Addr : c[Len(es)][a] \subseteq CachedKeys(objs[a])

EntriesSound(es) == \A i \in 1 .. Len(es) : EntrySound(es[i])

ObjectsSound == \A a \in Addr : stateObjects[a] # NoObject => Sound(a, stateObjects[a])

CacheInv == \E c : CacheChain(c, journal.entries, stateObjects)

(* The view of an account that nothing has dirtied.                        *)
Clean(a, v) ==
  IF accounts[a] = NoAccount THEN v = NoAccount
  ELSE /\ v # NoAccount
       /\ v.nonce = accounts[a].nonce /\ v.balance = accounts[a].balance
       /\ v.codeHash = accounts[a].codeHash /\ ~v.suicided
       /\ \A k \in Key : v.state[k] = keeperState(a, k)

(* The keeper's answers are those of its variables.                        *)
LEMMA SoundStable ==
  ASSUME UNCHANGED keeperVars
  PROVE  /\ \A a, obj : Sound(a, obj)' <=> Sound(a, obj)
         /\ \A e : EntrySound(e)' <=> EntrySound(e)
         /\ \A a, v : Clean(a, v)' <=> Clean(a, v)
         /\ HashesStored' <=> HashesStored
         /\ NoOrphanStorage' <=> NoOrphanStorage
BY ZenonT(30) DEF keeperVars, Sound, Coherent, CodeSound, Stored, keeperState, EntrySound, Clean,
       HashesStored, NoOrphanStorage

(* A journal without its last entry.                                       *)
LEMMA Popped ==
  ASSUME NEW es \in Seq(Entry), Len(es) > 0
  PROVE  /\ Len(es) \in Nat
         /\ es[Len(es)] \in Entry
         /\ Len(SubSeq(es, 1, Len(es) - 1)) = Len(es) - 1
         /\ \A i \in 1 .. Len(es) - 1 : SubSeq(es, 1, Len(es) - 1)[i] = es[i]
<1>1. PICK n \in Nat : n = Len(es)
  OBVIOUS
<1>2. es[n] \in Entry
  BY <1>1
<1>3. \A i \in 1 .. n - 1 : es[i] \in Entry
  BY <1>1
<1>4. n - 1 \in Int /\ 1 \in Int
  BY <1>1
<1>5. /\ Len(SubSeq(es, 1, n - 1)) = IF 1 <= n - 1 THEN n - 1 - 1 + 1 ELSE 0
      /\ \A i \in 1 .. n - 1 - 1 + 1 : SubSeq(es, 1, n - 1)[i] = es[1 + i - 1]
  BY <1>3, <1>4
<1>6. Len(SubSeq(es, 1, n - 1)) = n - 1
  BY <1>1, <1>5
<1>7. \A i \in 1 .. n - 1 : SubSeq(es, 1, n - 1)[i] = es[i]
  BY <1>1, <1>5
<1> QED BY <1>1, <1>2, <1>6, <1>7

(* A journal with one entry more.                                          *)
LEMMA Appending ==
  ASSUME NEW es \in Seq(Entry), NEW e \in Entry
  PROVE  /\ Len(es) \in Nat /\ Len(Append(es, e)) = Len(es) + 1
         /\ Append(es, e)[Len(es) + 1] = e
         /\ \A i \in 1 .. Len(es) : Append(es, e)[i] = es[i]
OBVIOUS

(* A position in it is the last one or one of the journal before.          *)
LEMMA LastOrEarlier ==
  ASSUME NEW n \in Nat, NEW i \in 1 .. n + 1
  PROVE  \/ i = n + 1 /\ i - 1 = n /\ n \in 0 .. n
         \/ i # n + 1 /\ i \in 1 .. n /\ i \in 0 .. n /\ i - 1 \in 0 .. n
OBVIOUS

(* The known cached keys grow by a linked entry.                           *)
LEMMA CacheGrows ==
  ASSUME NEW c, NEW es \in Seq(Entry), NEW e \in Entry, NEW objs, NEW next, NEW after,
         CacheChain(c, es, objs),
         \A known : (\A a \in Addr : known[a] \subseteq CachedKeys(objs[a]))
                      => CacheLink(e, known, after),
         \A a \in Addr : after[a] \subseteq CachedKeys(next[a])
  PROVE  \E d : CacheChain(d, Append(es, e), next)
<1> DEFINE n == Len(es)
           d == [i \in 0 .. n + 1 |-> IF i = n + 1 THEN after ELSE c[i]]
           new == Append(es, e)
<1>1. n \in Nat /\ Len(new) = n + 1 /\ new[n + 1] = e /\ \A i \in 1 .. n : new[i] = es[i]
  BY Appending
<1>2. d[n + 1] = after /\ \A i \in 0 .. n : d[i] = c[i]
  BY <1>1
<1>3. CacheLink(e, c[n], after)
  BY DEF CacheChain
<1> HIDE DEF d, new, n
<1>4. ASSUME NEW i \in 1 .. n + 1 PROVE CacheLink(new[i], d[i - 1], d[i])
  <2>1. CASE i = n + 1
    <3>1. i - 1 = n /\ n \in 0 .. n
      BY <1>1, <2>1, LastOrEarlier, ZenonT(30)
    <3> QED BY <1>1, <1>2, <1>3, <2>1, <3>1
  <2>2. CASE i # n + 1
    <3>1. i \in 1 .. n /\ i \in 0 .. n /\ i - 1 \in 0 .. n
      BY <1>1, <2>2, LastOrEarlier, ZenonT(30)
    <3> QED BY <1>1, <1>2, <3>1 DEF CacheChain, n
  <2> QED BY <2>1, <2>2
<1>5. CacheChain(d, new, next)
  BY <1>1, <1>2, <1>4 DEF CacheChain
<1> QED BY <1>5 DEF new

(* The known cached keys of a shorter journal.                             *)
LEMMA CacheShrinks ==
  ASSUME NEW c, NEW es \in Seq(Entry), Len(es) > 0, NEW objs, NEW next, CacheChain(c, es, objs),
         \A known, after :
           /\ CacheLink(es[Len(es)], known, after)
           /\ \A a \in Addr : after[a] \subseteq CachedKeys(objs[a])
           => \A a \in Addr : known[a] \subseteq CachedKeys(next[a])
  PROVE  CacheChain(c, SubSeq(es, 1, Len(es) - 1), next)
<1>1. PICK n \in Nat : n = Len(es) /\ n > 0
  BY Popped
<1>2. PICK s : s = SubSeq(es, 1, n - 1)
  BY ZenonT(30)
<1>3. Len(s) = n - 1 /\ \A i \in 1 .. n - 1 : s[i] = es[i]
  BY <1>1, <1>2, Popped
<1>4. CacheLink(es[n], c[n - 1], c[n]) /\ \A a \in Addr : c[n][a] \subseteq CachedKeys(objs[a])
  BY <1>1 DEF CacheChain
<1>5. \A a \in Addr : c[n - 1][a] \subseteq CachedKeys(next[a])
  BY <1>1, <1>4, ZenonT(30)
<1>6. \A i \in 1 .. n - 1 : CacheLink(s[i], c[i - 1], c[i])
  BY <1>1, <1>3 DEF CacheChain
<1>7. CacheChain(c, s, next)
  BY <1>3, <1>5, <1>6 DEF CacheChain
<1> QED BY <1>1, <1>2, <1>7

(* A sound entry is appended.                                              *)
LEMMA EntriesAppend ==
  ASSUME NEW es \in Seq(Entry), EntriesSound(es), NEW e \in Entry, EntrySound(e)
  PROVE  EntriesSound(Append(es, e))
<1>1. PICK n \in Nat : n = Len(es)
  OBVIOUS
<1>2. PICK new : new = Append(es, e)
  BY ZenonT(30)
<1>3. Len(new) = n + 1 /\ new[n + 1] = e /\ \A i \in 1 .. n : new[i] = es[i]
  BY <1>1, <1>2
<1>4. \A i \in 1 .. n + 1 : i \in 1 .. n \/ i = n + 1
  BY <1>1
<1> QED BY <1>1, <1>2, <1>3, <1>4 DEF EntriesSound

(* Objects that keep their caches keep the chain of cached keys.           *)
LEMMA CacheObjects ==
  ASSUME NEW c, NEW es, NEW objs, NEW next, CacheChain(c, es, objs),
         \A b \in Addr : CachedKeys(objs[b]) \subseteq CachedKeys(next[b])
  PROVE  CacheChain(c, es, next)
<1>1. \A b \in Addr : c[Len(es)][b] \subseteq CachedKeys(next[b])
  BY ZenonT(30) DEF CacheChain
<1> QED BY <1>1 DEF CacheChain

(* Appending an entry about a cached word keeps the chain of cached keys.  *)
LEMMA CacheAppend ==
  ASSUME NEW es \in Seq(Entry), NEW e \in Entry, NEW objs, NEW next,
         \E c : CacheChain(c, es, objs),
         e.op = "storage" => e.key \in CachedKeys(next[e.addr]) /\ e.addr \in Addr,
         \A b \in Addr : CachedKeys(objs[b]) \subseteq
           (IF e.op = "resetObject" /\ e.addr = b THEN CachedKeys(e.prev)
            ELSE IF e.op = "createObject" /\ e.addr = b THEN {} ELSE CachedKeys(next[b]))
  PROVE  \E d : CacheChain(d, Append(es, e), next)
<1>1. PICK c : CacheChain(c, es, objs)
  OBVIOUS
<1>2. PICK after : after = [b \in Addr |-> CachedKeys(next[b])]
  BY ZenonT(30)
<1>3. \A b \in Addr : after[b] = CachedKeys(next[b])
  BY <1>2
<1>4. ASSUME NEW known, \A b \in Addr : known[b] \subseteq CachedKeys(objs[b])
      PROVE  CacheLink(e, known, after)
  <2>1. ASSUME NEW b \in Addr
        PROVE  known[b] \subseteq (IF e.op = "resetObject" /\ e.addr = b THEN CachedKeys(e.prev)
                 ELSE IF e.op = "createObject" /\ e.addr = b THEN {} ELSE after[b])
    <3>1. PICK K : K = CachedKeys(objs[b])
      OBVIOUS
    <3> QED BY <1>3, <1>4, <3>1
  <2> QED BY <1>3, <2>1 DEF CacheLink
<1>5. \A b \in Addr : after[b] \subseteq CachedKeys(next[b])
  BY <1>3
<1> QED BY <1>1, <1>4, <1>5, CacheGrows, ZenonT(30)

(* The journal after getOrNewStateObject.                                  *)
LEMMA OrNewEntries ==
  ASSUME TypeInv, NEW a \in Addr
  PROVE  /\ getStateObject(a) # NoObject => orNewJournal(a) = journal
         /\ getStateObject(a) = NoObject =>
              /\ orNewJournal(a).entries = Append(journal.entries, createObjectChange(a))
              /\ stateObjects[a] = NoObject
         /\ createObjectChange(a) \in Entry /\ createObjectChange(a).op = "createObject"
         /\ createObjectChange(a).addr = a
<1>1. createObjectChange(a) \in Entry /\ createObjectChange(a).op = "createObject"
      /\ createObjectChange(a).addr = a
  BY EntryTypes, NewObjectType, EmptyAccountType DEF createObjectChange
<1>2. getStateObject(a) = NoObject => stateObjects[a] = NoObject
  BY DEF getStateObject
<1> QED BY <1>1, <1>2 DEF orNewJournal, append

NoResetAfter(n, es) == \A i \in n + 1 .. Len(es) : es[i].op # "resetObject"

(* A journal es that grew from length n, for the objects objs.             *)
Appended(n, es, objs) ==
  /\ es \in Seq(Entry) /\ EntriesSound(es) /\ NoResetAfter(n, es)
  /\ \E c : CacheChain(c, es, objs)

(* Appending a sound entry that resets no object.                          *)
LEMMA AppendedGrows ==
  ASSUME NEW n \in Nat, NEW es, NEW objs, Appended(n, es, objs), NEW e \in Entry, NEW next,
         EntrySound(e), e.op # "resetObject",
         e.op = "storage" => e.key \in CachedKeys(next[e.addr]) /\ e.addr \in Addr,
         \A b \in Addr : CachedKeys(objs[b]) \subseteq
           (IF e.op = "createObject" /\ e.addr = b THEN {} ELSE CachedKeys(next[b]))
  PROVE  Appended(n, Append(es, e), next)
<1>1. es \in Seq(Entry) /\ EntriesSound(es) /\ NoResetAfter(n, es) /\ \E c : CacheChain(c, es, objs)
  BY DEF Appended
<1>2. Append(es, e) \in Seq(Entry) /\ EntriesSound(Append(es, e))
  BY <1>1, EntriesAppend
<1>3. NoResetAfter(n, Append(es, e))
  <2>1. PICK m \in Nat : m = Len(es)
    BY <1>1
  <2>2. PICK new : new = Append(es, e)
    BY ZenonT(30)
  <2>3. Len(new) = m + 1 /\ new[m + 1] = e /\ \A i \in 1 .. m : new[i] = es[i]
    BY <1>1, <2>1, <2>2
  <2>4. ASSUME NEW i \in n + 1 .. m + 1 PROVE new[i].op # "resetObject"
    <3>1. i = m + 1 \/ (i \in 1 .. m /\ i \in n + 1 .. m)
      BY <2>1
    <3> QED BY <1>1, <2>1, <2>3, <3>1 DEF NoResetAfter
  <2> QED BY <2>2, <2>3, <2>4 DEF NoResetAfter
<1>4. \E d : CacheChain(d, Append(es, e), next)
  <2>1. \A b \in Addr : CachedKeys(objs[b]) \subseteq
           (IF e.op = "resetObject" /\ e.addr = b THEN CachedKeys(e.prev)
            ELSE IF e.op = "createObject" /\ e.addr = b THEN {} ELSE CachedKeys(next[b]))
    OBVIOUS
  <2> QED BY <1>1, <2>1, CacheAppend, ZenonT(30)
<1> QED BY <1>2, <1>3, <1>4, ZenonT(30) DEF Appended

-----------------------------------------------------------------------------
(* Why RevertToSnapshot restores the world the snapshot saw: every         *)
(* operation extends the journal by entries that undo it.                  *)
(*                                                                         *)
(* The argument follows the journal backwards.  A shadow is what undoing   *)
(* acts on: the account views, the refund counter, the logs and the access *)
(* list itself.  There is a chain of shadows, one before the first entry   *)
(* and one after each, that ends in the present shadow and in which        *)
(* undoing an entry leads from its shadow to the one before; the world     *)
(* saved by a revision is the shadow at its journal index.                 *)

ObjectOps == {"suicide", "balance", "nonce", "code", "storage"}

Shadow ==
  [live |-> [a \in Addr |-> getStateObject(a) # NoObject],
   acc |-> [a \in Addr |-> AccountView(a, getStateObject(a))],
   refund |-> refund, logs |-> logs, al |-> accessList]

WorldOf(s) ==
  [accounts |-> s.acc, refund |-> s.refund, logs |-> s.logs, warm |-> Warm(s.al)]

(* The world the EVM sees is a function of the shadow.                     *)
LEMMA WorldIsShadow == World = WorldOf(Shadow)
BY DEF World, WorldOf, Shadow

(* What undoing an entry does to the view of its account.                  *)
UndoView(e, v) ==
  CASE e.op = "suicide" -> [[v EXCEPT !.suicided = e.prev] EXCEPT !.balance = e.prevbalance]
    [] e.op = "balance" -> [v EXCEPT !.balance = e.prev]
    [] e.op = "nonce" -> [v EXCEPT !.nonce = e.prev]
    [] e.op = "code" ->
         [[v EXCEPT !.codeHash = e.prevhash] EXCEPT
            !.code = IF e.prevcode # NoCode THEN e.prevcode ELSE keeperCode(e.prevhash)]
    [] e.op = "storage" -> [v EXCEPT !.state = [@ EXCEPT ![e.key] = e.prevalue]]

UndoAcc(e, acc) ==
  CASE e.op = "createObject" -> [acc EXCEPT ![e.addr] = NoAccount]
    [] e.op = "resetObject" -> [acc EXCEPT ![e.addr] = AccountView(e.addr, e.prev)]
    [] e.op \in ObjectOps -> [acc EXCEPT ![e.addr] = UndoView(e, @)]
    [] OTHER -> acc

UndoAL(e, al) ==
  CASE e.op = "accessListAddAccount" -> DeleteAddress(al, e.addr)
    [] e.op = "accessListAddSlot" -> DeleteSlot(al, e.addr, e.slot)
    [] OTHER -> al

UndoShadow(e, s) ==
  [live |-> IF e.op = "createObject" THEN [s.live EXCEPT ![e.addr] = FALSE] ELSE s.live,
   acc |-> UndoAcc(e, s.acc),
   refund |-> IF e.op = "refund" THEN e.prev ELSE s.refund,
   logs |-> IF e.op = "addLog" THEN SubSeq(s.logs, 1, Len(s.logs) - 1) ELSE s.logs,
   al |-> UndoAL(e, s.al)]

(* What must hold after an entry for its undoing to be possible.           *)
Undoable(e, s) ==
  /\ e.op = "createObject" => accounts[e.addr] = NoAccount
  /\ e.op \in ObjectOps \cup {"createObject", "resetObject"} => s.live[e.addr]
  /\ e.op = "accessListAddSlot" => ~DeleteSlotFaults(s.al, e.addr)
  /\ e.op = "addLog" => s.logs # << >>

Linked(e, before, after) ==
  /\ Undoable(e, after)
  /\ UndoShadow(e, after) = before
  /\ Indexed(before.al)

(* No account that was live is gone later.                                 *)
Grown(s, t) == \A a \in Addr : s.live[a] => t.live[a]

ChainOver(h, es, now) ==
  /\ \A i \in 1 .. Len(es) : Linked(es[i], h[i - 1], h[i])
  /\ \A i, j \in 0 .. Len(es) : i <= j => Grown(h[i], h[j])
  /\ h[Len(es)] = now

RevisionsSaved(h) ==
  \A r \in 1 .. Len(validRevisions) :
    (phase = "reverting" => r <= revertTo)
      => saved[r] = WorldOf(h[validRevisions[r].journalIndex])

ChainInv ==
  phase \in {"running", "reverting"} =>
    \E h : ChainOver(h, journal.entries, Shadow) /\ RevisionsSaved(h)

-----------------------------------------------------------------------------
(* Chains.                                                                 *)

(* A link depends on the keeper only through its variables.                *)
LEMMA LinkedStable ==
  ASSUME UNCHANGED keeperVars, NEW e, NEW s, NEW t, Linked(e, s, t)
  PROVE  Linked(e, s, t)'
<1> USE DEF keeperVars
<1>1. Undoable(e, t)'
  BY DEF Linked, Undoable
<1>2. UndoView(e, t.acc[e.addr])' = UndoView(e, t.acc[e.addr])
  BY DEF UndoView, keeperCode
<1>3. AccountView(e.addr, e.prev)' = AccountView(e.addr, e.prev)
  BY DEF AccountView, CodeOf, keeperCode, GetState, GetCommittedState, keeperState
<1>4. UndoAcc(e, t.acc)' = UndoAcc(e, t.acc)
  BY <1>2, <1>3 DEF UndoAcc
<1>5. UndoShadow(e, t)' = UndoShadow(e, t)
  BY <1>4 DEF UndoShadow
<1> QED BY <1>1, <1>5 DEF Linked

(* So does a chain of links.                                               *)
LEMMA ChainStable ==
  ASSUME UNCHANGED keeperVars, NEW h, NEW es, NEW now, ChainOver(h, es, now)
  PROVE  ChainOver(h, es, now)'
BY LinkedStable DEF ChainOver

(* Undoing removes no account but the one createObject made.               *)
LEMMA LinkedGrows ==
  ASSUME NEW e, NEW s, NEW t, Linked(e, s, t)
  PROVE  Grown(s, t)
<1> SUFFICES ASSUME NEW a \in Addr, s.live[a] PROVE t.live[a]
  BY DEF Grown
<1>1. s.live = IF e.op = "createObject" THEN [t.live EXCEPT ![e.addr] = FALSE] ELSE t.live
  BY DEF Linked, UndoShadow
<1>2. e.op = "createObject" => t.live[e.addr]
  BY DEF Linked, Undoable
<1> QED BY <1>1, <1>2

(* A chain grows by a linked entry and keeps its earlier shadows.          *)
LEMMA ChainGrows ==
  ASSUME NEW h, NEW es \in Seq(Entry), NEW s, NEW e \in Entry, NEW t,
         ChainOver(h, es, s), Linked(e, s, t)
  PROVE  \E g : /\ ChainOver(g, Append(es, e), t)
                /\ \A i \in 0 .. Len(es) : g[i] = h[i]
<1> DEFINE n == Len(es)
           g == [i \in 0 .. n + 1 |-> IF i = n + 1 THEN t ELSE h[i]]
<1>1. n \in Nat /\ Len(Append(es, e)) = n + 1
  OBVIOUS
<1>2. ASSUME NEW i \in 1 .. n + 1
      PROVE  Linked(Append(es, e)[i], g[i - 1], g[i])
  <2>1. CASE i = n + 1
    <3>1. Append(es, e)[i] = e
      BY <2>1
    <3>2. g[i] = t /\ g[i - 1] = s
      BY <1>1, <2>1 DEF ChainOver
    <3> QED BY <3>1, <3>2
  <2>2. CASE i # n + 1
    <3>1. i \in 1 .. n /\ Append(es, e)[i] = es[i]
      BY <1>1, <2>2
    <3>2. g[i] = h[i] /\ g[i - 1] = h[i - 1]
      BY <1>1, <2>2
    <3> QED BY <3>1, <3>2 DEF ChainOver
  <2> QED BY <2>1, <2>2
<1>3. g[n + 1] = t /\ \A i \in 0 .. n : g[i] = h[i]
  BY <1>1
<1>4. ASSUME NEW i \in 0 .. n + 1, NEW j \in 0 .. n + 1, i <= j
      PROVE  Grown(g[i], g[j])
  <2>1. CASE j # n + 1
    <3>1. i \in 0 .. n /\ j \in 0 .. n /\ g[i] = h[i] /\ g[j] = h[j]
      BY <1>1, <1>4, <2>1
    <3> QED BY <1>4, <3>1 DEF ChainOver
  <2>2. CASE i = n + 1
    <3>1. i = j
      BY <1>1, <1>4, <2>2
    <3> QED BY <3>1 DEF Grown
  <2>3. CASE i # n + 1 /\ j = n + 1
    <3>1. i \in 0 .. n /\ n \in 0 .. n /\ i <= n /\ g[i] = h[i] /\ g[j] = t
      BY <1>1, <1>4, <2>3
    <3>2. Grown(h[i], s)
      BY <3>1 DEF ChainOver
    <3> QED BY <3>1, <3>2, LinkedGrows DEF Grown
  <2> QED BY <2>1, <2>2, <2>3
<1>5. ChainOver(g, Append(es, e), t)
  <2> HIDE DEF g, n
  <2> QED BY <1>1, <1>2, <1>3, <1>4 DEF ChainOver
<1> QED BY <1>3, <1>5

(* Dropping the last entry drops the last shadow of the chain.             *)
LEMMA ChainShrinks ==
  ASSUME NEW h, NEW es \in Seq(Entry), Len(es) > 0, NEW now, ChainOver(h, es, now)
  PROVE  /\ Linked(es[Len(es)], h[Len(es) - 1], now)
         /\ ChainOver(h, SubSeq(es, 1, Len(es) - 1), h[Len(es) - 1])
<1>1. PICK n \in Nat : n = Len(es) /\ n > 0
  BY Popped
<1>2. PICK s : s = SubSeq(es, 1, n - 1)
  BY ZenonT(30)
<1>3. Len(s) = n - 1 /\ \A i \in 1 .. n - 1 : s[i] = es[i]
  BY <1>1, <1>2, Popped
<1>4. Linked(es[n], h[n - 1], now)
  BY <1>1 DEF ChainOver
<1>5. ChainOver(h, s, h[n - 1])
  BY <1>1, <1>3 DEF ChainOver
<1> QED BY <1>1, <1>2, <1>4, <1>5

(* An entry is appended, or the journal and the shadow stay as they are.   *)
Extends(es, s, es2, t) ==
  \/ es2 = es /\ t = s
  \/ \E e \in Entry : es2 = Append(es, e) /\ Linked(e, s, t)

(* An entry linked to the last shadow extends the chain.                   *)
LEMMA ChainExtends ==
  ASSUME NEW h, NEW es \in Seq(Entry), NEW s, NEW es2, NEW t,
         ChainOver(h, es, s), Extends(es, s, es2, t)
  PROVE  /\ es2 \in Seq(Entry)
         /\ Len(es) <= Len(es2)
         /\ \E g : /\ ChainOver(g, es2, t)
                   /\ \A i \in 0 .. Len(es) : g[i] = h[i]
<1>1. CASE es2 = es /\ t = s
  BY <1>1
<1>2. ASSUME NEW e \in Entry, es2 = Append(es, e), Linked(e, s, t)
      PROVE  /\ es2 \in Seq(Entry)
             /\ Len(es) <= Len(es2)
             /\ \E g : /\ ChainOver(g, es2, t)
                       /\ \A i \in 0 .. Len(es) : g[i] = h[i]
  BY <1>2, ChainGrows
<1> QED BY <1>1, <1>2 DEF Extends

(* A call appends at most two linked entries.                              *)
CallExtends ==
  \E es, mid : /\ Extends(journal.entries, Shadow, es, mid)
               /\ Extends(es, mid, journal'.entries, Shadow')

(* Every call of the running phase appends at most two linked entries, and *)
(* so keeps the chain.                                                     *)
LEMMA CallKeepsChain ==
  ASSUME TypeInv, RevisionsNested, ChainInv, phase = "running",
         UNCHANGED <<keeperVars, revisionVars>>,
         CallExtends
  PROVE  phase' \in {"running", "panicked"} => ChainInv'
<1> SUFFICES ASSUME phase' = "running" PROVE ChainInv'
  BY DEF ChainInv
<1>1. PICK was, old : was = Shadow /\ old = journal.entries
  OBVIOUS
<1>2. PICK now, fin : now = Shadow' /\ fin = journal'.entries
  OBVIOUS
<1>3. PICK h : ChainOver(h, old, was) /\ RevisionsSaved(h)
  BY <1>1 DEF ChainInv
<1>4. old \in Seq(Entry)
  BY <1>1 DEF TypeInv
<1>5. PICK es, mid : Extends(old, was, es, mid) /\ Extends(es, mid, fin, now)
  BY <1>1, <1>2 DEF CallExtends
<1>6. es \in Seq(Entry) /\ Len(old) <= Len(es)
  BY <1>3, <1>4, <1>5, ChainExtends
<1>7. PICK g : ChainOver(g, es, mid) /\ \A i \in 0 .. Len(old) : g[i] = h[i]
  BY <1>3, <1>4, <1>5, ChainExtends
<1>8. PICK f : ChainOver(f, fin, now) /\ \A i \in 0 .. Len(es) : f[i] = g[i]
  BY <1>5, <1>6, <1>7, ChainExtends
<1>9. ChainOver(f, fin, now)'
  BY <1>8, ChainStable
<1>10. ChainOver(f, journal.entries, Shadow)'
  BY <1>2, <1>9 DEF ChainOver
<1>11. Len(old) \in Nat /\ Len(es) \in Nat
  BY <1>4, <1>6
<1>12. RevisionsSaved(f)'
  <2> SUFFICES ASSUME NEW r \in 1 .. Len(validRevisions)
               PROVE  saved[r] = WorldOf(f[validRevisions[r].journalIndex])
    BY DEF RevisionsSaved, revisionVars
  <2>1. validRevisions[r] \in revision /\ validRevisions[r].journalIndex <= Len(old)
    BY <1>1 DEF TypeInv, TypeOK, RevisionsNested
  <2>2. validRevisions[r].journalIndex \in 0 .. Len(old)
    BY <1>11, <2>1 DEF revision
  <2>3. f[validRevisions[r].journalIndex] = h[validRevisions[r].journalIndex]
    BY <1>6, <1>7, <1>8, <1>11, <2>2
  <2> QED BY <1>3, <2>3 DEF RevisionsSaved
<1> QED BY <1>10, <1>12 DEF ChainInv

-----------------------------------------------------------------------------
(* What a call does to the shadow.                                         *)

(* The shadow s with the view v at address a.                              *)
Put(s, a, v) ==
  [live |-> [s.live EXCEPT ![a] = TRUE], acc |-> [s.acc EXCEPT ![a] = v],
   refund |-> s.refund, logs |-> s.logs, al |-> s.al]

(* The view of an object only changes with the keeper or the object.       *)
LEMMA ViewStable ==
  ASSUME UNCHANGED keeperVars, NEW a, NEW obj
  PROVE  AccountView(a, obj)' = AccountView(a, obj)
BY DEF AccountView, CodeOf, keeperCode, GetState, GetCommittedState, keeperState, keeperVars

(* Installing an object changes the shadow at its address only.            *)
LEMMA SetObjectShadow ==
  ASSUME TypeInv, NEW a \in Addr, NEW obj \in Object, NEW j, SetObject(a, obj, j)
  PROVE  Shadow' = Put(Shadow, a, AccountView(a, obj))
<1> DEFINE v == AccountView(a, obj)
<1>1. UNCHANGED keeperVars /\ UNCHANGED accounts
  BY DEF SetObject, keeperVars
<1>2. stateObjects \in [Addr -> Object \cup {NoObject}] /\ NoObject \notin Object
  BY ObjectAssumption DEF TypeInv, Object
<1>3. getStateObject(a)' = obj
  BY <1>1, <1>2 DEF SetObject, getStateObject
<1>4. ASSUME NEW b \in Addr, b # a PROVE getStateObject(b)' = getStateObject(b)
  BY <1>1, <1>2, <1>4 DEF SetObject, getStateObject
<1>5. ASSUME NEW b \in Addr
      PROVE  AccountView(b, getStateObject(b))' = [Shadow.acc EXCEPT ![a] = v][b]
  <2>1. PICK o : o = getStateObject(b)'
    OBVIOUS
  <2>2. AccountView(b, getStateObject(b))' = AccountView(b, o)
    BY <1>1, <2>1, ViewStable
  <2> QED BY <1>3, <1>4, <2>1, <2>2 DEF Shadow
<1>6. [b \in Addr |-> AccountView(b, getStateObject(b))]' = [Shadow.acc EXCEPT ![a] = v]
  BY <1>5, ZenonT(30) DEF Shadow
<1>7. [b \in Addr |-> getStateObject(b) # NoObject]' = [Shadow.live EXCEPT ![a] = TRUE]
  BY <1>2, <1>3, <1>4, ZenonT(30) DEF Shadow
<1>8. UNCHANGED <<refund, logs, accessList>>
  BY DEF SetObject
<1> QED BY <1>6, <1>7, <1>8, ZenonT(30) DEF Shadow, Put

(* Storing an object that looks the same changes nothing.                  *)
LEMMA PutSame ==
  ASSUME NEW a \in Addr, getStateObject(a) # NoObject
  PROVE  Put(Shadow, a, AccountView(a, getStateObject(a))) = Shadow
BY ZenonT(30) DEF Put, Shadow

(* The fields of a view.                                                   *)
LEMMA ViewFields ==
  ASSUME NEW a \in Addr, NEW obj \in Object
  PROVE  AccountView(a, obj) =
           [nonce |-> obj.nonce, balance |-> obj.balance, codeHash |-> obj.codeHash,
            code |-> CodeOf(obj), suicided |-> obj.suicided,
            state |-> [k \in Key |-> GetState(a, obj, k)],
            committed |-> [k \in Key |-> GetCommittedState(a, obj, k)]]
BY ObjectAssumption DEF AccountView, Object

(* The same, field by field.                                               *)
LEMMA ViewShows ==
  ASSUME NEW a \in Addr, NEW obj \in Object
  PROVE  /\ AccountView(a, obj).nonce = obj.nonce
         /\ AccountView(a, obj).balance = obj.balance
         /\ AccountView(a, obj).codeHash = obj.codeHash
         /\ AccountView(a, obj).code = CodeOf(obj)
         /\ AccountView(a, obj).suicided = obj.suicided
         /\ \A k \in Key : AccountView(a, obj).state[k] = GetState(a, obj, k)
<1>1. PICK v, c, w, u : /\ v = AccountView(a, obj) /\ c = CodeOf(obj)
                        /\ w = [k \in Key |-> GetState(a, obj, k)]
                        /\ u = [k \in Key |-> GetCommittedState(a, obj, k)]
  BY ZenonT(30)
<1>2. v = [nonce |-> obj.nonce, balance |-> obj.balance, codeHash |-> obj.codeHash,
           code |-> c, suicided |-> obj.suicided, state |-> w, committed |-> u]
  BY <1>1, ViewFields
<1>3. /\ v.nonce = obj.nonce /\ v.balance = obj.balance /\ v.codeHash = obj.codeHash
      /\ v.code = c /\ v.suicided = obj.suicided /\ v.state = w
  BY <1>2
<1>4. \A k \in Key : w[k] = GetState(a, obj, k)
  BY <1>1
<1> QED BY <1>1, <1>3, <1>4, ZenonT(30)

(* The view of an object is not the answer for an absent account.          *)
LEMMA ViewType ==
  ASSUME TypeInv, NEW a \in Addr, NEW obj \in Object
  PROVE  AccountView(a, obj) \in accountView /\ AccountView(a, obj) # NoAccount
<1>1. CodeOf(obj) \in CodeHash
  BY CacheCodeType, ZenonT(30) DEF Object, stateObject, CodeHash
<1>2. \A k \in Key : GetState(a, obj, k) \in Value /\ GetCommittedState(a, obj, k) \in Value
  BY ReadTypes, ZenonT(30)
<1>3. AccountView(a, obj) \in accountView
  BY <1>1, <1>2, ViewFields DEF accountView, Object, stateObject
<1> QED BY <1>3, AccountAssumption

(* Reads leave the view of their account alone.                            *)
LEMMA ReadKeepsView ==
  ASSUME TypeInv, NEW a \in Addr, NEW obj \in Object
  PROVE  /\ AccountView(a, [obj EXCEPT !.code = CodeOf(obj)]) = AccountView(a, obj)
         /\ \A k \in Key :
              /\ AccountView(a, [obj EXCEPT !.origin[k] = GetCommittedState(a, obj, k)])
                   = AccountView(a, obj)
              /\ AccountView(a, CacheState(a, obj, k)) = AccountView(a, obj)
<1>1. AccountView(a, [obj EXCEPT !.code = CodeOf(obj)]) = AccountView(a, obj)
  <2> DEFINE o == [obj EXCEPT !.code = CodeOf(obj)]
  <2>1. o \in Object
    BY CacheCodeType
  <2>2. /\ o.nonce = obj.nonce /\ o.balance = obj.balance /\ o.codeHash = obj.codeHash
        /\ o.suicided = obj.suicided /\ o.dirty = obj.dirty /\ o.origin = obj.origin
        /\ o.code = CodeOf(obj)
    BY DEF Object, stateObject
  <2>3. CodeOf(o) = CodeOf(obj)
    BY <2>2 DEF CodeOf, keeperCode
  <2>4. \A k \in Key : GetState(a, o, k) = GetState(a, obj, k)
                       /\ GetCommittedState(a, o, k) = GetCommittedState(a, obj, k)
    BY <2>2 DEF GetState, GetCommittedState
  <2> HIDE DEF o
  <2>5. AccountView(a, o) = AccountView(a, obj)
    BY <2>1, <2>2, <2>3, <2>4, ViewFields
  <2> QED BY <2>5 DEF o
<1>2. ASSUME NEW k \in Key
      PROVE  AccountView(a, [obj EXCEPT !.origin[k] = GetCommittedState(a, obj, k)])
               = AccountView(a, obj)
  <2> DEFINE w == GetCommittedState(a, obj, k)
             o == [obj EXCEPT !.origin[k] = w]
  <2>1. o \in Object /\ w \in Value
    BY ReadTypes
  <2>2. /\ o.nonce = obj.nonce /\ o.balance = obj.balance /\ o.codeHash = obj.codeHash
        /\ o.suicided = obj.suicided /\ o.dirty = obj.dirty /\ o.code = obj.code
        /\ o.origin = [obj.origin EXCEPT ![k] = w] /\ obj.origin \in [Key -> Word]
    BY DEF Object, stateObject
  <2>3. CodeOf(o) = CodeOf(obj)
    BY <2>2 DEF CodeOf
  <2>4. ASSUME NEW x \in Key
        PROVE  GetCommittedState(a, o, x) = GetCommittedState(a, obj, x)
    <3>1. CASE x = k
      BY <2>1, <2>2, <3>1, ValueAssumption DEF GetCommittedState
    <3>2. CASE x # k
      BY <2>2, <3>2 DEF GetCommittedState
    <3> QED BY <3>1, <3>2
  <2>5. \A x \in Key : GetState(a, o, x) = GetState(a, obj, x)
    BY <2>2, <2>4 DEF GetState
  <2> HIDE DEF o, w
  <2>6. AccountView(a, o) = AccountView(a, obj)
    BY <2>1, <2>2, <2>3, <2>4, <2>5, ViewFields
  <2> QED BY <2>6 DEF o, w
<1>3. ASSUME NEW k \in Key PROVE AccountView(a, CacheState(a, obj, k)) = AccountView(a, obj)
  BY <1>2 DEF CacheState
<1> QED BY <1>1, <1>2, <1>3

-----------------------------------------------------------------------------
(* The setters extend the chain.                                           *)

(* getOrNewStateObject extends the chain by at most its creation.          *)
LEMMA OrNewExtends ==
  ASSUME TypeInv, AccessListIndexed, NEW a \in Addr
  PROVE  Extends(journal.entries, Shadow, orNewJournal(a).entries,
                 Put(Shadow, a, AccountView(a, orNewObject(a))))
<1>1. CASE getStateObject(a) # NoObject
  BY <1>1, PutSame DEF orNewJournal, orNewObject, Extends
<1>2. CASE getStateObject(a) = NoObject
  <2> DEFINE e == createObjectChange(a)
             mid == Put(Shadow, a, AccountView(a, orNewObject(a)))
  <2>1. orNewJournal(a).entries = Append(journal.entries, e)
    BY <1>2 DEF orNewJournal, append
  <2>2. e \in Entry /\ e.op = "createObject" /\ e.addr = a
    BY EntryTypes, NewObjectType, EmptyAccountType DEF createObjectChange
  <2>3. accounts[a] = NoAccount
    <3>1. accounts[a] # NoAccount => newObject(accounts[a]) \in stateObject
      BY NewObjectType DEF TypeInv, TypeOK, Object
    <3> QED BY <1>2, <3>1, ObjectAssumption DEF getStateObject
  <2>4. Undoable(e, mid)
    BY <2>2, <2>3, ZenonT(30) DEF Undoable, Put, ObjectOps, Shadow
  <2>5. UndoAcc(e, mid.acc) = Shadow.acc
    <3> HIDE DEF e
    <3>1. \A acc : UndoAcc(e, acc) = [acc EXCEPT ![a] = NoAccount]
      BY <2>2 DEF UndoAcc, ObjectOps
    <3>2. Shadow.acc[a] = NoAccount
      BY <1>2 DEF Shadow, AccountView
    <3> QED BY <3>1, <3>2 DEF Put, Shadow
  <2>6. [mid.live EXCEPT ![a] = FALSE] = Shadow.live
    BY <1>2 DEF Put, Shadow
  <2>7. UndoShadow(e, mid) = Shadow
    <3> HIDE DEF e
    <3>1. UndoAL(e, mid.al) = accessList
      BY <2>2 DEF UndoAL, Put, Shadow
    <3> QED BY <2>2, <2>5, <2>6, <3>1, ZenonT(30) DEF UndoShadow, Put, Shadow
  <2>8. Linked(e, Shadow, mid)
    BY <2>4, <2>7, ZenonT(30) DEF Linked, AccessListIndexed, Shadow
  <2> QED BY <2>1, <2>2, <2>8 DEF Extends
<1> QED BY <1>1, <1>2

(* An entry about one account links the views before and after it.         *)
LEMMA PutLinked ==
  ASSUME AccessListIndexed, NEW a \in Addr, NEW v, NEW w, NEW e \in Entry,
         e.op \in ObjectOps, e.addr = a, UndoView(e, w) = v
  PROVE  Linked(e, Put(Shadow, a, v), Put(Shadow, a, w))
<1> DEFINE s == Put(Shadow, a, v)
           t == Put(Shadow, a, w)
<1>1. Undoable(e, t)
  BY ZenonT(30) DEF Undoable, ObjectOps, Put, Shadow
<1>2. UndoAcc(e, t.acc) = s.acc
  BY ZenonT(30) DEF UndoAcc, ObjectOps, Put, Shadow
<1>3. UndoAL(e, t.al) = s.al
  BY DEF UndoAL, ObjectOps, Put
<1>4. UndoShadow(e, t) = s
  <2>1. UndoShadow(e, t) = [live |-> t.live, acc |-> UndoAcc(e, t.acc), refund |-> t.refund,
                            logs |-> t.logs, al |-> UndoAL(e, t.al)]
    BY ZenonT(30) DEF UndoShadow, ObjectOps
  <2> QED BY <1>2, <1>3, <2>1, ZenonT(30) DEF Put
<1> QED BY <1>1, <1>4, ZenonT(30) DEF Linked, AccessListIndexed, Put, Shadow

(* A setter stores an object under its account after journaling how to     *)
(* get the old view back.                                                  *)
Journaled(a, old, obj, e) ==
  /\ e \in Entry
  /\ e.op \in ObjectOps
  /\ e.addr = a
  /\ UndoView(e, AccountView(a, obj)) = AccountView(a, old)

(* A journaled setter extends the chain.                                   *)
LEMMA SetterExtends ==
  ASSUME TypeInv, AccessListIndexed, NEW a \in Addr, NEW old, NEW obj \in Object, NEW e,
         AccountView(a, old) = AccountView(a, orNewObject(a)),
         Journaled(a, old, obj, e), SetObject(a, obj, append(orNewJournal(a), e))
  PROVE  CallExtends
<1> DEFINE mid == Put(Shadow, a, AccountView(a, orNewObject(a)))
<1>1. Extends(journal.entries, Shadow, orNewJournal(a).entries, mid)
  BY OrNewExtends
<1>2. Shadow' = Put(Shadow, a, AccountView(a, obj))
  BY SetObjectShadow
<1>3. journal'.entries = Append(orNewJournal(a).entries, e)
  BY DEF SetObject, append
<1>4. Linked(e, mid, Put(Shadow, a, AccountView(a, obj)))
  BY PutLinked DEF Journaled
<1>5. Extends(orNewJournal(a).entries, mid, journal'.entries, Shadow')
  BY <1>2, <1>3, <1>4, ZenonT(30) DEF Extends, Journaled
<1> QED BY <1>1, <1>5, ZenonT(30) DEF CallExtends

(* A call that changes no view journals at most the creation.              *)
LEMMA QuietExtends ==
  ASSUME TypeInv, AccessListIndexed, NEW a \in Addr, NEW obj \in Object,
         AccountView(a, obj) = AccountView(a, orNewObject(a)),
         SetObject(a, obj, orNewJournal(a))
  PROVE  CallExtends
<1> DEFINE mid == Put(Shadow, a, AccountView(a, orNewObject(a)))
<1>1. Extends(journal.entries, Shadow, orNewJournal(a).entries, mid)
  BY OrNewExtends
<1>2. Shadow' = mid /\ journal'.entries = orNewJournal(a).entries
  BY SetObjectShadow, ZenonT(30) DEF SetObject
<1> QED BY <1>1, <1>2 DEF Extends, CallExtends

(* The entry of Suicide undoes it.                                         *)
LEMMA SuicideJournaled ==
  ASSUME NEW a \in Addr, NEW obj \in Object
  PROVE  /\ [obj EXCEPT !.suicided = TRUE, !.balance = 0] \in Object
         /\ Journaled(a, obj, [obj EXCEPT !.suicided = TRUE, !.balance = 0],
                      suicideChange(a, obj))
<1> DEFINE o == [obj EXCEPT !.suicided = TRUE, !.balance = 0]
           e == suicideChange(a, obj)
<1>1. o \in Object /\ e \in Entry
  BY EntryTypes, ZenonT(30) DEF Object, stateObject, CachedCode
<1>2. /\ o.nonce = obj.nonce /\ o.codeHash = obj.codeHash /\ o.code = obj.code
      /\ o.dirty = obj.dirty /\ o.origin = obj.origin
  BY DEF Object, stateObject
<1>3. e.op = "suicide" /\ e.addr = a /\ e.prev = obj.suicided /\ e.prevbalance = obj.balance
  BY DEF suicideChange
<1>4. CodeOf(o) = CodeOf(obj)
  BY <1>2 DEF CodeOf
<1>5. \A k \in Key : GetState(a, o, k) = GetState(a, obj, k)
                     /\ GetCommittedState(a, o, k) = GetCommittedState(a, obj, k)
  BY <1>2 DEF GetState, GetCommittedState
<1> HIDE DEF o, e
<1>6. UndoView(e, AccountView(a, o)) = AccountView(a, obj)
  <2>1. PICK v : v = [AccountView(a, o) EXCEPT !.suicided = obj.suicided]
    BY ZenonT(30)
  <2>2. UndoView(e, AccountView(a, o)) = [v EXCEPT !.balance = obj.balance]
    BY <1>3, <2>1 DEF UndoView
  <2>3. v = [nonce |-> obj.nonce, balance |-> o.balance, codeHash |-> obj.codeHash,
             code |-> CodeOf(obj), suicided |-> obj.suicided,
             state |-> [k \in Key |-> GetState(a, obj, k)],
             committed |-> [k \in Key |-> GetCommittedState(a, obj, k)]]
    BY <1>1, <1>2, <1>4, <1>5, <2>1, ViewFields
  <2>4. [v EXCEPT !.balance = obj.balance] = AccountView(a, obj)
    BY <2>3, ViewFields
  <2> QED BY <2>2, <2>4
<1>7. Journaled(a, obj, o, e)
  BY <1>1, <1>3, <1>6 DEF Journaled, ObjectOps
<1> QED BY <1>1, <1>7 DEF o, e

(* The entry of SetBalance undoes it.                                      *)
LEMMA BalanceJournaled ==
  ASSUME NEW a \in Addr, NEW obj \in Object, NEW b \in Nat
  PROVE  /\ [obj EXCEPT !.balance = b] \in Object
         /\ Journaled(a, obj, [obj EXCEPT !.balance = b], balanceChange(a, obj))
<1> DEFINE o == [obj EXCEPT !.balance = b]
           e == balanceChange(a, obj)
<1>1. o \in Object /\ e \in Entry
  BY EntryTypes DEF Object, stateObject, CachedCode
<1>2. /\ o.nonce = obj.nonce /\ o.codeHash = obj.codeHash /\ o.code = obj.code
      /\ o.dirty = obj.dirty /\ o.origin = obj.origin /\ o.suicided = obj.suicided
  BY DEF Object, stateObject
<1>3. e.op = "balance" /\ e.addr = a /\ e.prev = obj.balance
  BY DEF balanceChange
<1>4. CodeOf(o) = CodeOf(obj)
  BY <1>2 DEF CodeOf
<1>5. \A k \in Key : GetState(a, o, k) = GetState(a, obj, k)
                     /\ GetCommittedState(a, o, k) = GetCommittedState(a, obj, k)
  BY <1>2 DEF GetState, GetCommittedState
<1> HIDE DEF o, e
<1>6. UndoView(e, AccountView(a, o)) = AccountView(a, obj)
  BY <1>1, <1>2, <1>3, <1>4, <1>5, ViewFields DEF UndoView
<1>7. Journaled(a, obj, o, e)
  BY <1>1, <1>3, <1>6 DEF Journaled, ObjectOps
<1> QED BY <1>1, <1>7 DEF o, e

(* The entry of SetNonce undoes it.                                        *)
LEMMA NonceJournaled ==
  ASSUME NEW a \in Addr, NEW obj \in Object, NEW n \in Nat
  PROVE  /\ [obj EXCEPT !.nonce = n] \in Object
         /\ Journaled(a, obj, [obj EXCEPT !.nonce = n], nonceChange(a, obj))
<1> DEFINE o == [obj EXCEPT !.nonce = n]
           e == nonceChange(a, obj)
<1>1. o \in Object /\ e \in Entry
  BY EntryTypes DEF Object, stateObject, CachedCode
<1>2. /\ o.balance = obj.balance /\ o.codeHash = obj.codeHash /\ o.code = obj.code
      /\ o.dirty = obj.dirty /\ o.origin = obj.origin /\ o.suicided = obj.suicided
  BY DEF Object, stateObject
<1>3. e.op = "nonce" /\ e.addr = a /\ e.prev = obj.nonce
  BY DEF nonceChange
<1>4. CodeOf(o) = CodeOf(obj)
  BY <1>2 DEF CodeOf
<1>5. \A k \in Key : GetState(a, o, k) = GetState(a, obj, k)
                     /\ GetCommittedState(a, o, k) = GetCommittedState(a, obj, k)
  BY <1>2 DEF GetState, GetCommittedState
<1> HIDE DEF o, e
<1>6. UndoView(e, AccountView(a, o)) = AccountView(a, obj)
  BY <1>1, <1>2, <1>3, <1>4, <1>5, ViewFields DEF UndoView
<1>7. Journaled(a, obj, o, e)
  BY <1>1, <1>3, <1>6 DEF Journaled, ObjectOps
<1> QED BY <1>1, <1>7 DEF o, e

(* The entry of SetCode undoes it.                                         *)
LEMMA CodeJournaled ==
  ASSUME NEW a \in Addr, NEW obj \in Object, NEW c \in CodeHash
  PROVE  /\ [obj EXCEPT !.code = c, !.codeHash = c, !.dirtyCode = TRUE] \in Object
         /\ Journaled(a, obj, [obj EXCEPT !.code = c, !.codeHash = c, !.dirtyCode = TRUE],
                      codeChange(a, obj))
<1> DEFINE o == [obj EXCEPT !.code = c, !.codeHash = c, !.dirtyCode = TRUE]
           e == codeChange(a, obj)
<1>1. o \in Object /\ e \in Entry
  BY EntryTypes, ZenonT(30) DEF Object, stateObject, CachedCode
<1>2. /\ o.balance = obj.balance /\ o.nonce = obj.nonce
      /\ o.dirty = obj.dirty /\ o.origin = obj.origin /\ o.suicided = obj.suicided
  BY DEF Object, stateObject
<1>3. e.op = "code" /\ e.addr = a /\ e.prevcode = CodeOf(obj) /\ e.prevhash = obj.codeHash
  BY DEF codeChange
<1>4. (IF e.prevcode # NoCode THEN e.prevcode ELSE keeperCode(e.prevhash)) = CodeOf(obj)
  BY <1>3 DEF CodeOf
<1>5. \A k \in Key : GetState(a, o, k) = GetState(a, obj, k)
                     /\ GetCommittedState(a, o, k) = GetCommittedState(a, obj, k)
  BY <1>2 DEF GetState, GetCommittedState
<1> HIDE DEF o, e
<1>6. UndoView(e, AccountView(a, o)) = AccountView(a, obj)
  <2>1. PICK v : v = [AccountView(a, o) EXCEPT !.codeHash = obj.codeHash]
    BY ZenonT(30)
  <2>2. UndoView(e, AccountView(a, o)) = [v EXCEPT !.code = CodeOf(obj)]
    BY <1>3, <1>4, <2>1, ZenonT(30) DEF UndoView
  <2>3. v = [nonce |-> obj.nonce, balance |-> obj.balance, codeHash |-> obj.codeHash,
             code |-> CodeOf(o), suicided |-> obj.suicided,
             state |-> [k \in Key |-> GetState(a, obj, k)],
             committed |-> [k \in Key |-> GetCommittedState(a, obj, k)]]
    BY <1>1, <1>2, <1>5, <2>1, ViewFields
  <2>4. [v EXCEPT !.code = CodeOf(obj)] = AccountView(a, obj)
    BY <2>3, ViewFields
  <2> QED BY <2>2, <2>4
<1>7. Journaled(a, obj, o, e)
  BY <1>1, <1>3, <1>6 DEF Journaled, ObjectOps
<1> QED BY <1>1, <1>7 DEF o, e

(* The entry of SetState undoes it.                                        *)
LEMMA StorageJournaled ==
  ASSUME TypeInv, NEW a \in Addr, NEW obj \in Object, NEW k \in Key, NEW v \in Value
  PROVE  /\ [obj EXCEPT !.dirty[k] = v] \in Object
         /\ Journaled(a, obj, [obj EXCEPT !.dirty[k] = v],
                      storageChange(a, k, GetState(a, obj, k)))
<1> DEFINE o == [obj EXCEPT !.dirty[k] = v]
           w == GetState(a, obj, k)
           e == storageChange(a, k, w)
<1>1. w \in Value
  BY ReadTypes, ZenonT(30)
<1>2. o \in Object /\ e \in Entry
  BY <1>1, EntryTypes DEF Object, stateObject, CachedCode, Word
<1>3. /\ o.balance = obj.balance /\ o.nonce = obj.nonce /\ o.codeHash = obj.codeHash
      /\ o.code = obj.code /\ o.origin = obj.origin /\ o.suicided = obj.suicided
      /\ o.dirty = [obj.dirty EXCEPT ![k] = v] /\ obj.dirty \in [Key -> Word]
  BY DEF Object, stateObject
<1>4. e.op = "storage" /\ e.addr = a /\ e.key = k /\ e.prevalue = w
  BY DEF storageChange
<1>5. CodeOf(o) = CodeOf(obj)
  BY <1>3 DEF CodeOf
<1>6. \A x \in Key : GetCommittedState(a, o, x) = GetCommittedState(a, obj, x)
  BY <1>3 DEF GetCommittedState
<1>7. \A x \in Key : x # k => GetState(a, o, x) = GetState(a, obj, x)
  BY <1>3, <1>6 DEF GetState
<1>8. [[x \in Key |-> GetState(a, o, x)] EXCEPT ![k] = w] = [x \in Key |-> GetState(a, obj, x)]
  BY <1>7, ZenonT(30)
<1> HIDE DEF o, e, w
<1>9. UndoView(e, AccountView(a, o)) = AccountView(a, obj)
  BY <1>2, <1>3, <1>4, <1>5, <1>6, <1>8, ViewFields DEF UndoView
<1>10. Journaled(a, obj, o, e)
  BY <1>2, <1>4, <1>9 DEF Journaled, ObjectOps
<1> QED BY <1>2, <1>10 DEF o, e, w

(* CreateAccount extends the chain, over an existing account too.          *)
LEMMA CreateExtends ==
  ASSUME TypeInv, AccessListIndexed, NEW a \in Addr, CreateAccount(a)
  PROVE  CallExtends
<1> DEFINE prev == getStateObject(a)
           new == newObject(emptyAccount)
<1>1. new \in Object /\ prev \in Object \cup {NoObject}
  BY NewObjectType, EmptyAccountType, GetObjectType
<1>2. CASE prev = NoObject
  <2>1. orNewObject(a) = new /\ orNewJournal(a) = append(journal, createObjectChange(a))
    BY <1>2 DEF orNewObject, orNewJournal
  <2>2. SetObject(a, new, orNewJournal(a))
    BY <1>2, <2>1 DEF CreateAccount
  <2> QED BY <1>1, <2>1, <2>2, QuietExtends
<1>3. CASE prev # NoObject
  <2> DEFINE o == [new EXCEPT !.balance = prev.balance]
             e == resetObjectChange(a, prev)
             t == Put(Shadow, a, AccountView(a, o))
  <2>1. o \in Object
    BY <1>1, <1>3 DEF Object, stateObject, CachedCode
  <2>2. e \in Entry /\ e.op = "resetObject" /\ e.addr = a /\ e.prev = prev
    BY <1>1, <1>3, EntryTypes, ZenonT(30) DEF resetObjectChange
  <2>3. SetObject(a, o, append(journal, e))
    BY <1>3 DEF CreateAccount
  <2>4. Shadow' = t /\ journal'.entries = Append(journal.entries, e)
    BY <2>1, <2>3, SetObjectShadow, ZenonT(30) DEF SetObject, append
  <2>5. Undoable(e, t)
    <3> HIDE DEF e
    <3> QED BY <2>2 DEF Undoable, ObjectOps, Put, Shadow
  <2>6. UndoShadow(e, t) = Shadow
    <3> HIDE DEF e, o
    <3>1. \A acc : UndoAcc(e, acc) = [acc EXCEPT ![a] = AccountView(a, prev)]
      BY <2>2 DEF UndoAcc, ObjectOps
    <3>2. UndoAcc(e, t.acc) = Shadow.acc
      <4> DEFINE f == [x \in Addr |-> AccountView(x, getStateObject(x))]
                 v == AccountView(a, o)
      <4>1. Shadow.acc = f /\ t.acc = [f EXCEPT ![a] = v]
        BY ZenonT(30) DEF Put, Shadow
      <4>2. UndoAcc(e, t.acc) = [[f EXCEPT ![a] = v] EXCEPT ![a] = f[a]]
        BY <3>1, <4>1, ZenonT(30)
      <4> HIDE DEF v
      <4> QED BY <4>1, <4>2, ZenonT(30)
    <3>3. t.live = Shadow.live
      BY <1>3, ZenonT(30) DEF Put, Shadow
    <3>4. UndoAL(e, t.al) = Shadow.al
      BY <2>2 DEF UndoAL, Put
    <3>5. UndoShadow(e, t) = [live |-> t.live, acc |-> UndoAcc(e, t.acc), refund |-> t.refund,
                              logs |-> t.logs, al |-> UndoAL(e, t.al)]
      BY <2>2, ZenonT(30) DEF UndoShadow
    <3> QED BY <3>2, <3>3, <3>4, <3>5, ZenonT(30) DEF Put, Shadow
  <2>7. Linked(e, Shadow, t)
    BY <2>5, <2>6 DEF Linked, AccessListIndexed, Shadow
  <2>8. Extends(journal.entries, Shadow, journal'.entries, Shadow')
    BY <2>2, <2>4, <2>7 DEF Extends
  <2> QED BY <2>8, ZenonT(30) DEF CallExtends, Extends
<1> QED BY <1>2, <1>3

(* Every operation on an account extends the chain.                        *)
LEMMA AccountStepExtends ==
  ASSUME TypeInv, AccessListIndexed, NEW a \in Addr, AccountStep(a)
  PROVE  CallExtends
<1> DEFINE obj == orNewObject(a)
           cur == getStateObject(a)
<1>1. obj \in Object /\ cur \in Object \cup {NoObject} /\ (cur # NoObject => obj = cur)
  BY GetObjectType, ZenonT(30) DEF orNewObject
<1>2. cur # NoObject => orNewJournal(a) = journal
  BY DEF orNewJournal
<1>3. CASE ReadAccount(a)
  BY <1>1, <1>2, <1>3, QuietExtends, ZenonT(30) DEF ReadAccount
<1>4. CASE ReadCode(a)
  BY <1>1, <1>2, <1>4, QuietExtends, CacheCodeType, ReadKeepsView DEF ReadCode
<1>5. ASSUME NEW k \in Key, ReadState(a, k) PROVE CallExtends
  BY <1>1, <1>2, <1>5, QuietExtends, ReadTypes, ReadKeepsView, ZenonT(30) DEF ReadState
<1>6. ASSUME NEW k \in Key, ReadCommittedState(a, k) PROVE CallExtends
  BY <1>1, <1>2, <1>6, QuietExtends, ReadTypes, ReadKeepsView, ZenonT(30) DEF ReadCommittedState
<1>7. CASE CreateAccount(a)
  BY <1>7, CreateExtends
<1>8. ASSUME NEW b \in Nat, SetBalance(a, obj, b) PROVE CallExtends
  <2>1. /\ [obj EXCEPT !.balance = b] \in Object
        /\ Journaled(a, obj, [obj EXCEPT !.balance = b], balanceChange(a, obj))
    BY <1>1, BalanceJournaled
  <2> QED BY <1>8, <2>1, SetterExtends DEF SetBalance
<1>9. ASSUME NEW amount \in Amount, AddBalance(a, amount) PROVE CallExtends
  <2>1. obj.balance + amount \in Nat
    BY <1>1, AmountAssumption DEF Object, stateObject
  <2> QED BY <1>1, <1>8, <1>9, <2>1, QuietExtends, ZenonT(30) DEF AddBalance
<1>10. ASSUME NEW amount \in Amount, SubBalance(a, amount) PROVE CallExtends
  <2>1. obj.balance - amount \in Nat
    BY <1>1, <1>10, AmountAssumption DEF Object, stateObject, SubBalance
  <2> QED BY <1>1, <1>8, <1>10, <2>1, QuietExtends, ZenonT(30) DEF SubBalance
<1>11. ASSUME NEW n \in Nonce, SetNonce(a, n) PROVE CallExtends
  <2>1. /\ [obj EXCEPT !.nonce = n] \in Object
        /\ Journaled(a, obj, [obj EXCEPT !.nonce = n], nonceChange(a, obj))
    BY <1>1, NonceAssumption, NonceJournaled
  <2> QED BY <1>11, <2>1, SetterExtends DEF SetNonce
<1>12. ASSUME NEW c \in CodeHash, SetCode(a, c) PROVE CallExtends
  <2> DEFINE o == [obj EXCEPT !.code = c, !.codeHash = c, !.dirtyCode = TRUE]
  <2>1. o \in Object /\ Journaled(a, obj, o, codeChange(a, obj))
    BY <1>1, CodeJournaled, ZenonT(30)
  <2> QED BY <1>12, <2>1, SetterExtends DEF SetCode
<1>13. ASSUME NEW k \in Key, NEW v \in Value, SetState(a, k, v) PROVE CallExtends
  <2> DEFINE o == CacheState(a, obj, k)
             prev == GetState(a, o, k)
  <2>1. o \in Object /\ AccountView(a, o) = AccountView(a, obj)
    BY <1>1, ReadTypes, ReadKeepsView, ZenonT(30)
  <2>2. /\ [o EXCEPT !.dirty[k] = v] \in Object
        /\ Journaled(a, o, [o EXCEPT !.dirty[k] = v], storageChange(a, k, prev))
    BY <2>1, StorageJournaled
  <2>3. CASE prev = v
    BY <1>13, <2>1, <2>3, QuietExtends DEF SetState
  <2>4. CASE prev # v
    <3>1. SetObject(a, [o EXCEPT !.dirty[k] = v],
                    append(orNewJournal(a), storageChange(a, k, prev)))
      BY <1>13, <2>4 DEF SetState
    <3> QED BY <2>1, <2>2, <3>1, SetterExtends
  <2> QED BY <2>3, <2>4
<1>14. CASE Suicide(a)
  <2> DEFINE o == [cur EXCEPT !.suicided = TRUE, !.balance = 0]
  <2>1. cur \in Object /\ obj = cur /\ orNewJournal(a) = journal
    BY <1>1, <1>2, <1>14 DEF Suicide
  <2>2. o \in Object /\ Journaled(a, cur, o, suicideChange(a, cur))
    BY <2>1, SuicideJournaled, ZenonT(30)
  <2>3. SetObject(a, o, append(orNewJournal(a), suicideChange(a, cur)))
    BY <1>14, <2>1 DEF Suicide
  <2> QED BY <2>1, <2>2, <2>3, SetterExtends
<1> QED
  BY <1>3, <1>4, <1>5, <1>6, <1>7, <1>9, <1>10, <1>11, <1>12, <1>13, <1>14, ZenonT(30) DEF AccountStep

-----------------------------------------------------------------------------
(* The refund counter, the logs and the access list.                       *)

(* Refunds, logs and the access list leave the accounts alone.             *)
LEMMA OtherShadow ==
  ASSUME UNCHANGED <<keeperVars, stateObjects>>
  PROVE  Shadow' = [live |-> Shadow.live, acc |-> Shadow.acc, refund |-> refund',
                    logs |-> logs', al |-> accessList']
<1>1. \A a \in Addr : getStateObject(a)' = getStateObject(a)
  BY ZenonT(30) DEF getStateObject, keeperVars
<1>2. ASSUME NEW a \in Addr
      PROVE  AccountView(a, getStateObject(a))' = AccountView(a, getStateObject(a))
  <2>1. PICK o : o = getStateObject(a)
    OBVIOUS
  <2> QED BY <1>1, <2>1, ViewStable
<1> QED BY <1>1, <1>2, ZenonT(30) DEF Shadow

(* Such a call appends one entry that restores the field it changed.       *)
LEMMA OtherExtends ==
  ASSUME AccessListIndexed, NEW e \in Entry, NEW t,
         e.op \notin ObjectOps \cup {"createObject", "resetObject"},
         journal'.entries = Append(journal.entries, e), Shadow' = t,
         t.live = Shadow.live, t.acc = Shadow.acc,
         e.op = "accessListAddSlot" => ~DeleteSlotFaults(t.al, e.addr),
         e.op = "addLog" => t.logs # << >>,
         (IF e.op = "refund" THEN e.prev ELSE t.refund) = refund,
         (IF e.op = "addLog" THEN SubSeq(t.logs, 1, Len(t.logs) - 1) ELSE t.logs) = logs,
         UndoAL(e, t.al) = accessList
  PROVE  CallExtends
<1>1. Undoable(e, t)
  BY ZenonT(30) DEF Undoable
<1>2. UndoAcc(e, t.acc) = Shadow.acc
  BY DEF UndoAcc
<1>3. UndoShadow(e, t) = Shadow
  BY <1>2, ZenonT(30) DEF UndoShadow, Shadow
<1>4. Linked(e, Shadow, t)
  BY <1>1, <1>3, ZenonT(30) DEF Linked, AccessListIndexed, Shadow
<1>5. Extends(journal.entries, Shadow, journal'.entries, Shadow')
  BY <1>4, ZenonT(30) DEF Extends
<1> QED BY <1>5, ZenonT(30) DEF CallExtends, Extends

(* AddRefund and SubRefund extend the chain.                               *)
LEMMA RefundExtends ==
  ASSUME TypeInv, AccessListIndexed, NEW gas \in Gas, AddRefund(gas) \/ SubRefund(gas)
  PROVE  CallExtends /\ UNCHANGED accessList
<1> DEFINE e == refundChange(refund)
<1>1. /\ UNCHANGED <<keeperVars, stateObjects, logs, accessList>>
      /\ journal' = append(journal, e)
  BY ZenonT(30) DEF AddRefund, SubRefund
<1>2. e \in Entry /\ e.op = "refund" /\ e.prev = refund
  BY OtherEntryTypes, ZenonT(30) DEF refundChange, TypeInv, TypeOK
<1>3. journal'.entries = Append(journal.entries, e)
  BY <1>1, ZenonT(30) DEF append
<1>4. PICK t : t = Shadow'
  OBVIOUS
<1>5. t = [live |-> Shadow.live, acc |-> Shadow.acc, refund |-> refund',
           logs |-> logs, al |-> accessList]
  BY <1>1, <1>4, OtherShadow, ZenonT(30)
<1> HIDE DEF e
<1>6. UndoAL(e, t.al) = accessList
  BY <1>2, <1>5 DEF UndoAL
<1> QED BY <1>1, <1>2, <1>3, <1>4, <1>5, <1>6, OtherExtends, ZenonT(30) DEF ObjectOps

(* AddLog extends the chain.                                               *)
LEMMA LogExtends ==
  ASSUME TypeInv, AccessListIndexed, NEW l \in Log, AddLog(l)
  PROVE  CallExtends /\ UNCHANGED accessList
<1> DEFINE e == addLogChange
<1>1. /\ UNCHANGED <<keeperVars, stateObjects, refund, accessList>>
      /\ journal' = append(journal, e) /\ logs' = Append(logs, l)
  BY DEF AddLog
<1>2. e \in Entry /\ e.op = "addLog"
  BY OtherEntryTypes DEF addLogChange
<1>3. journal'.entries = Append(journal.entries, e)
  BY <1>1, ZenonT(30) DEF append
<1>4. PICK t : t = Shadow'
  OBVIOUS
<1>5. t = [live |-> Shadow.live, acc |-> Shadow.acc, refund |-> refund,
           logs |-> Append(logs, l), al |-> accessList]
  BY <1>1, <1>4, OtherShadow, ZenonT(30)
<1>6. t.logs # << >> /\ SubSeq(t.logs, 1, Len(t.logs) - 1) = logs
  <2>1. logs \in Seq(Log) /\ t.logs = Append(logs, l)
    BY <1>5, ZenonT(30) DEF TypeInv, TypeOK
  <2> QED BY <2>1
<1> HIDE DEF e
<1>7. UndoAL(e, t.al) = accessList
  BY <1>2, <1>5 DEF UndoAL
<1> QED BY <1>1, <1>2, <1>3, <1>4, <1>5, <1>6, <1>7, OtherExtends, ZenonT(30) DEF ObjectOps

(* What linking an access-list entry takes.                                *)
LEMMA AccessListLinked ==
  ASSUME NEW s, NEW al, NEW e \in Entry, Indexed(s.al),
         s = [live |-> s.live, acc |-> s.acc, refund |-> s.refund, logs |-> s.logs, al |-> s.al],
         e.op \in {"accessListAddAccount", "accessListAddSlot"},
         e.op = "accessListAddSlot" => ~DeleteSlotFaults(al, e.addr),
         UndoAL(e, al) = s.al
  PROVE  Linked(e, s, [live |-> s.live, acc |-> s.acc, refund |-> s.refund,
                       logs |-> s.logs, al |-> al])
<1> DEFINE t == [live |-> s.live, acc |-> s.acc, refund |-> s.refund,
                 logs |-> s.logs, al |-> al]
<1>1. Undoable(e, t)
  BY ZenonT(30) DEF Undoable, ObjectOps
<1>2. UndoAcc(e, t.acc) = s.acc
  BY DEF UndoAcc, ObjectOps
<1>3. UndoShadow(e, t) = s
  BY <1>2, ZenonT(30) DEF UndoShadow
<1> QED BY <1>1, <1>3, ZenonT(30) DEF Linked

(* Warming an address extends the chain.                                   *)
LEMMA AddressExtends ==
  ASSUME TypeInv, AccessListIndexed, NEW a \in Addr
  PROVE  Extends(journal.entries, Shadow,
                 (IF ContainsAddress(accessList, a) THEN journal
                  ELSE append(journal, accessListAddAccountChange(a))).entries,
                 [live |-> Shadow.live, acc |-> Shadow.acc, refund |-> refund,
                  logs |-> logs, al |-> AddAddress(accessList, a)])
<1>1. accessList \in AccessLists
  BY DEF TypeInv, TypeOK
<1>2. CASE ContainsAddress(accessList, a)
  BY <1>2 DEF Extends, Shadow, AddAddress
<1>3. CASE ~ContainsAddress(accessList, a)
  <2> DEFINE e == accessListAddAccountChange(a)
             al == AddAddress(accessList, a)
  <2>1. e \in Entry /\ e.op = "accessListAddAccount" /\ e.addr = a
    BY OtherEntryTypes, ZenonT(30) DEF accessListAddAccountChange
  <2>2. DeleteAddress(al, a) = accessList
    BY <1>1, <1>3, DeleteAdded
  <2>3. append(journal, e).entries = Append(journal.entries, e)
    BY ZenonT(30) DEF append
  <2> HIDE DEF e, al
  <2>4. UndoAL(e, al) = Shadow.al
    BY <2>1, <2>2 DEF UndoAL, Shadow
  <2>5. Shadow.refund = refund /\ Shadow.logs = logs /\ Shadow.al = accessList
        /\ Shadow = [live |-> Shadow.live, acc |-> Shadow.acc, refund |-> Shadow.refund,
                     logs |-> Shadow.logs, al |-> Shadow.al]
    BY ZenonT(30) DEF Shadow
  <2>6. PICK s : s = Shadow
    OBVIOUS
  <2>7. Linked(e, s, [live |-> s.live, acc |-> s.acc, refund |-> s.refund,
                      logs |-> s.logs, al |-> al])
    BY <2>1, <2>4, <2>5, <2>6, AccessListLinked DEF AccessListIndexed
  <2>8. Extends(journal.entries, Shadow, append(journal, e).entries,
                [live |-> Shadow.live, acc |-> Shadow.acc, refund |-> refund,
                 logs |-> logs, al |-> al])
    BY <2>1, <2>3, <2>5, <2>6, <2>7 DEF Extends
  <2> QED BY <1>3, <2>8, ZenonT(30) DEF e, al
<1> QED BY <1>2, <1>3, ZenonT(30)

(* AddAddressToAccessList extends the chain.                               *)
LEMMA AddAddressExtends ==
  ASSUME TypeInv, AccessListIndexed, NEW a \in Addr, AddAddressToAccessList(a)
  PROVE  CallExtends /\ AccessListIndexed'
<1>1. accessList \in AccessLists /\ accessList' = AddAddress(accessList, a)
  BY DEF TypeInv, TypeOK, AddAddressToAccessList
<1>2. AccessListIndexed'
  BY <1>1, AddAddressIndexed DEF AccessListIndexed
<1>3. UNCHANGED <<keeperVars, stateObjects, refund, logs>>
  BY DEF AddAddressToAccessList
<1>4. Shadow' = [live |-> Shadow.live, acc |-> Shadow.acc, refund |-> refund,
                 logs |-> logs, al |-> AddAddress(accessList, a)]
  BY <1>1, <1>3, OtherShadow
<1>5. Extends(journal.entries, Shadow, journal'.entries, Shadow')
  BY <1>4, AddressExtends DEF AddAddressToAccessList
<1> QED BY <1>2, <1>5 DEF CallExtends, Extends

(* AddSlotToAccessList extends the chain, by up to two entries.            *)
LEMMA AddSlotExtends ==
  ASSUME TypeInv, AccessListIndexed, NEW a \in Addr, NEW k \in Key, AddSlotToAccessList(a, k)
  PROVE  CallExtends /\ AccessListIndexed'
<1> DEFINE j == IF ContainsAddress(accessList, a) THEN journal
                ELSE append(journal, accessListAddAccountChange(a))
           al == AddAddress(accessList, a)
           mid == [live |-> Shadow.live, acc |-> Shadow.acc, refund |-> refund,
                   logs |-> logs, al |-> al]
           e == accessListAddSlotChange(a, k)
<1>1. accessList \in AccessLists /\ accessList' = AddSlot(accessList, a, k)
  BY DEF TypeInv, TypeOK, AddSlotToAccessList
<1>2. AccessListIndexed'
  BY <1>1, AddSlotIndexed DEF AccessListIndexed
<1>3. UNCHANGED <<keeperVars, stateObjects, refund, logs>>
  BY DEF AddSlotToAccessList
<1>4. /\ al \in AccessLists /\ Indexed(al) /\ AddSlot(al, a, k) = AddSlot(accessList, a, k)
      /\ (Contains(al, a, k) <=> Contains(accessList, a, k)) /\ ContainsAddress(al, a)
  BY <1>1, AddAddressIndexed, AccessListAddrTypes, AddSlotAddsAddress DEF AccessListIndexed
<1>5. Shadow' = [live |-> Shadow.live, acc |-> Shadow.acc, refund |-> refund,
                 logs |-> logs, al |-> AddSlot(al, a, k)]
  BY <1>1, <1>3, <1>4, OtherShadow
<1>6. Extends(journal.entries, Shadow, j.entries, mid)
  BY AddressExtends
<1>7. journal' = IF Contains(accessList, a, k) THEN j ELSE append(j, e)
  BY DEF AddSlotToAccessList
<1> HIDE DEF j, al
<1>8. CASE Contains(accessList, a, k)
  <2>1. AddSlot(al, a, k) = al
    <3>1. al.addresses[a] \notin {Absent, NoSlots} /\ k \in al.slots[al.addresses[a] + 1]
      BY <1>4, <1>8 DEF Contains
    <3>2. AddSlot(al, a, k) = [al EXCEPT !.slots[al.addresses[a] + 1] = @ \cup {k}]
      BY <3>1 DEF AddSlot
    <3>3. al.slots[al.addresses[a] + 1] \cup {k} = al.slots[al.addresses[a] + 1]
      BY <3>1
    <3>4. [al.slots EXCEPT ![al.addresses[a] + 1] = @ \cup {k}] = al.slots
      BY <1>4, <3>3 DEF AccessLists
    <3> QED BY <1>4, <3>2, <3>4 DEF AccessLists
  <2> QED BY <1>2, <1>5, <1>6, <1>7, <1>8, <2>1 DEF CallExtends, Extends
<1>9. CASE ~Contains(accessList, a, k)
  <2>1. e \in Entry /\ e.op = "accessListAddSlot" /\ e.addr = a /\ e.slot = k
    BY OtherEntryTypes DEF accessListAddSlotChange
  <2>2. ~DeleteSlotFaults(AddSlot(al, a, k), a) /\ DeleteSlot(AddSlot(al, a, k), a, k) = al
    BY <1>4, <1>9, DeleteAddedSlot
  <2> HIDE DEF e
  <2>3. UndoAL(e, AddSlot(al, a, k)) = al
    BY <2>1, <2>2 DEF UndoAL
  <2>4. Linked(e, mid, [live |-> mid.live, acc |-> mid.acc, refund |-> mid.refund,
                        logs |-> mid.logs, al |-> AddSlot(al, a, k)])
    BY <1>4, <2>1, <2>2, <2>3, AccessListLinked
  <2>5. Linked(e, mid, Shadow')
    BY <1>5, <2>4
  <2>6. journal'.entries = Append(j.entries, e)
    BY <1>7, <1>9 DEF append
  <2>7. Extends(j.entries, mid, journal'.entries, Shadow')
    BY <2>1, <2>5, <2>6 DEF Extends
  <2> QED BY <1>2, <1>6, <2>7 DEF CallExtends
<1> QED BY <1>8, <1>9

(* Every operation not on an account extends the chain.                    *)
LEMMA OtherStepExtends ==
  ASSUME TypeInv, AccessListIndexed, OtherStep
  PROVE  CallExtends /\ AccessListIndexed'
<1>1. ASSUME CallExtends, UNCHANGED accessList PROVE CallExtends /\ AccessListIndexed'
  BY <1>1 DEF AccessListIndexed
<1> QED
  BY <1>1, RefundExtends, LogExtends, AddAddressExtends, AddSlotExtends DEF OtherStep

-----------------------------------------------------------------------------
(* The loop of journal.revert walks the chain backwards.                   *)

(* Undoing an entry on the object is undoing it on the view.               *)
LEMMA UndoObjectView ==
  ASSUME NEW e \in Entry, e.op \in ObjectOps, NEW a \in Addr, NEW obj \in Object
  PROVE  AccountView(a, UndoObject(e, obj)) = UndoView(e, AccountView(a, obj))
<1> DEFINE o == UndoObject(e, obj)
<1>0. o \in Object
  BY UndoObjectType DEF ObjectOps
<1>1. CASE e.op = "suicide"
  <2>1. o = [obj EXCEPT !.suicided = e.prev, !.balance = e.prevbalance]
    BY <1>1 DEF UndoObject
  <2>2. /\ o.nonce = obj.nonce /\ o.codeHash = obj.codeHash /\ o.code = obj.code
        /\ o.dirty = obj.dirty /\ o.origin = obj.origin
        /\ o.suicided = e.prev /\ o.balance = e.prevbalance
    BY <2>1 DEF Object, stateObject
  <2>3. CodeOf(o) = CodeOf(obj)
    BY <2>2 DEF CodeOf
  <2>4. \A k \in Key : GetState(a, o, k) = GetState(a, obj, k)
                       /\ GetCommittedState(a, o, k) = GetCommittedState(a, obj, k)
    BY <2>2 DEF GetState, GetCommittedState
  <2> HIDE DEF o
  <2>5. PICK v : v = [AccountView(a, obj) EXCEPT !.suicided = e.prev]
    BY ZenonT(30)
  <2>6. UndoView(e, AccountView(a, obj)) = [v EXCEPT !.balance = e.prevbalance]
    BY <1>1, <2>5 DEF UndoView
  <2>7. v = [nonce |-> obj.nonce, balance |-> obj.balance, codeHash |-> obj.codeHash,
             code |-> CodeOf(obj), suicided |-> e.prev,
             state |-> [k \in Key |-> GetState(a, obj, k)],
             committed |-> [k \in Key |-> GetCommittedState(a, obj, k)]]
    BY <2>5, ViewFields
  <2>8. AccountView(a, o) = [v EXCEPT !.balance = e.prevbalance]
    BY <1>0, <2>2, <2>3, <2>4, <2>7, ViewFields
  <2> QED BY <2>6, <2>8 DEF o
<1>2. CASE e.op = "balance"
  <2>1. o = [obj EXCEPT !.balance = e.prev]
    BY <1>2 DEF UndoObject
  <2>2. /\ o.nonce = obj.nonce /\ o.codeHash = obj.codeHash /\ o.code = obj.code
        /\ o.dirty = obj.dirty /\ o.origin = obj.origin
        /\ o.suicided = obj.suicided /\ o.balance = e.prev
    BY <2>1 DEF Object, stateObject
  <2>3. CodeOf(o) = CodeOf(obj)
    BY <2>2 DEF CodeOf
  <2>4. \A k \in Key : GetState(a, o, k) = GetState(a, obj, k)
                       /\ GetCommittedState(a, o, k) = GetCommittedState(a, obj, k)
    BY <2>2 DEF GetState, GetCommittedState
  <2> HIDE DEF o
  <2>5. UndoView(e, AccountView(a, obj)) = AccountView(a, o)
    BY <1>0, <1>2, <2>2, <2>3, <2>4, ViewFields DEF UndoView
  <2> QED BY <2>5 DEF o
<1>3. CASE e.op = "nonce"
  <2>1. o = [obj EXCEPT !.nonce = e.prev]
    BY <1>3 DEF UndoObject
  <2>2. /\ o.balance = obj.balance /\ o.codeHash = obj.codeHash /\ o.code = obj.code
        /\ o.dirty = obj.dirty /\ o.origin = obj.origin
        /\ o.suicided = obj.suicided /\ o.nonce = e.prev
    BY <2>1 DEF Object, stateObject
  <2>3. CodeOf(o) = CodeOf(obj)
    BY <2>2 DEF CodeOf
  <2>4. \A k \in Key : GetState(a, o, k) = GetState(a, obj, k)
                       /\ GetCommittedState(a, o, k) = GetCommittedState(a, obj, k)
    BY <2>2 DEF GetState, GetCommittedState
  <2> HIDE DEF o
  <2>5. UndoView(e, AccountView(a, obj)) = AccountView(a, o)
    BY <1>0, <1>3, <2>2, <2>3, <2>4, ViewFields DEF UndoView
  <2> QED BY <2>5 DEF o
<1>4. CASE e.op = "code"
  <2>1. o = [obj EXCEPT !.code = e.prevcode, !.codeHash = e.prevhash, !.dirtyCode = TRUE]
    BY <1>4 DEF UndoObject
  <2>2. /\ o.balance = obj.balance /\ o.nonce = obj.nonce
        /\ o.dirty = obj.dirty /\ o.origin = obj.origin
        /\ o.suicided = obj.suicided /\ o.code = e.prevcode /\ o.codeHash = e.prevhash
    BY <2>1 DEF Object, stateObject
  <2>3. CodeOf(o) = IF e.prevcode # NoCode THEN e.prevcode ELSE keeperCode(e.prevhash)
    BY <2>2 DEF CodeOf
  <2>4. \A k \in Key : GetState(a, o, k) = GetState(a, obj, k)
                       /\ GetCommittedState(a, o, k) = GetCommittedState(a, obj, k)
    BY <2>2 DEF GetState, GetCommittedState
  <2> HIDE DEF o
  <2>5. PICK v : v = [AccountView(a, obj) EXCEPT !.codeHash = e.prevhash]
    BY ZenonT(30)
  <2>6. UndoView(e, AccountView(a, obj)) = [v EXCEPT !.code = CodeOf(o)]
    BY <1>4, <2>3, <2>5 DEF UndoView
  <2>7. v = [nonce |-> obj.nonce, balance |-> obj.balance, codeHash |-> e.prevhash,
             code |-> CodeOf(obj), suicided |-> obj.suicided,
             state |-> [k \in Key |-> GetState(a, obj, k)],
             committed |-> [k \in Key |-> GetCommittedState(a, obj, k)]]
    BY <2>5, ViewFields
  <2>8. AccountView(a, o) = [v EXCEPT !.code = CodeOf(o)]
    BY <1>0, <2>2, <2>4, <2>7, ViewFields
  <2> QED BY <2>6, <2>8 DEF o
<1>5. CASE e.op = "storage"
  <2>1. e.key \in Key /\ e.prevalue \in Value
    BY <1>5 DEF Entry, JournalEntry
  <2>2. o = [obj EXCEPT !.dirty[e.key] = e.prevalue]
    BY <1>5 DEF UndoObject
  <2>3. /\ o.balance = obj.balance /\ o.nonce = obj.nonce /\ o.codeHash = obj.codeHash
        /\ o.code = obj.code /\ o.origin = obj.origin /\ o.suicided = obj.suicided
        /\ o.dirty = [obj.dirty EXCEPT ![e.key] = e.prevalue] /\ obj.dirty \in [Key -> Word]
    BY <2>2 DEF Object, stateObject
  <2>4. CodeOf(o) = CodeOf(obj)
    BY <2>3 DEF CodeOf
  <2>5. \A k \in Key : GetCommittedState(a, o, k) = GetCommittedState(a, obj, k)
    BY <2>3 DEF GetCommittedState
  <2>6. \A k \in Key : GetState(a, o, k) = IF k = e.key THEN e.prevalue ELSE GetState(a, obj, k)
    BY <2>1, <2>3, <2>5, ValueAssumption DEF GetState
  <2>7. [[k \in Key |-> GetState(a, obj, k)] EXCEPT ![e.key] = e.prevalue]
          = [k \in Key |-> GetState(a, o, k)]
    BY <2>6, ZenonT(30)
  <2> HIDE DEF o
  <2>8. UndoView(e, AccountView(a, obj)) = AccountView(a, o)
    BY <1>0, <1>5, <2>3, <2>4, <2>5, <2>7, ViewFields DEF UndoView
  <2> QED BY <2>8 DEF o
<1> QED BY <1>1, <1>2, <1>3, <1>4, <1>5 DEF ObjectOps

(* The entries that undo an account name its address.                      *)
LEMMA ObjectEntryAddr ==
  ASSUME NEW e \in Entry, e.op \in ObjectOps \cup {"createObject", "resetObject"}
  PROVE  e.addr \in Addr
<1>1. CASE e.op = "resetObject"
  BY <1>1 DEF Entry, JournalEntry
<1>2. CASE e.op # "resetObject"
  BY <1>2, DirtiedAddr DEF Dirties, ObjectOps, Entry
<1> QED BY <1>1, <1>2

(* An undoable entry does not fault.                                       *)
LEMMA UndoableNoFault ==
  ASSUME NEW e \in Entry, Undoable(e, Shadow)
  PROVE  /\ ~UndoFaults(e)
         /\ e.op \in ObjectOps => getStateObject(e.addr) # NoObject
<1>1. e.op \in ObjectOps => getStateObject(e.addr) # NoObject
  <2> SUFFICES ASSUME e.op \in ObjectOps PROVE getStateObject(e.addr) # NoObject
    OBVIOUS
  <2>1. e.addr \in Addr /\ Shadow.live[e.addr]
    BY ObjectEntryAddr DEF Undoable
  <2> QED BY <2>1, ZenonT(30) DEF Shadow
<1>2. e.op = "accessListAddSlot" => ~DeleteSlotFaults(accessList, e.addr)
  BY DEF Undoable, Shadow
<1>3. e.op = "addLog" => logs # << >>
  BY DEF Undoable, Shadow
<1> QED BY <1>1, <1>2, <1>3 DEF UndoFaults, ObjectOps

(* Undoing an entry on the StateDB is undoing it on the shadow.            *)
LEMMA UndoCommutes ==
  ASSUME TypeInv, TypeInv', NEW e \in Entry, e = lastEntry, Undoable(e, Shadow), RevertEntry
  PROVE  Shadow' = UndoShadow(e, Shadow)
<1>1. ~UndoFaults(e) /\ (e.op \in ObjectOps => getStateObject(e.addr) # NoObject)
  BY UndoableNoFault
<1>2. UNCHANGED keeperVars /\ UNCHANGED accounts
  BY ZenonT(30) DEF RevertEntry, keeperVars
<1>3. stateObjects' = UndoObjects(e)
  BY <1>1 DEF RevertEntry, ObjectOps
<1>4. NoObject \notin Object /\ stateObjects \in [Addr -> Object \cup {NoObject}]
  BY ObjectAssumption DEF Object, TypeInv
<1>5. /\ [a \in Addr |-> getStateObject(a) # NoObject]'
           = (IF e.op = "createObject" THEN [Shadow.live EXCEPT ![e.addr] = FALSE] ELSE Shadow.live)
      /\ [a \in Addr |-> AccountView(a, getStateObject(a))]' = UndoAcc(e, Shadow.acc)
  <2>1. CASE e.op \in ObjectOps
    <3> DEFINE obj == getStateObject(e.addr)
    <3>1. e.addr \in Addr /\ obj \in Object
      BY <1>1, <2>1, ObjectEntryAddr, GetObjectType
    <3>2. UndoObject(e, obj) \in Object
      BY <2>1, <3>1, UndoObjectType DEF ObjectOps
    <3>3. stateObjects' = [stateObjects EXCEPT ![e.addr] = UndoObject(e, obj)]
      BY <1>3, <2>1 DEF UndoObjects, ObjectOps
    <3>4. getStateObject(e.addr)' = UndoObject(e, obj)
      BY <1>2, <1>4, <3>1, <3>2, <3>3 DEF getStateObject
    <3>5. \A b \in Addr : b # e.addr => getStateObject(b)' = getStateObject(b)
      BY <1>2, <1>4, <3>3 DEF getStateObject
    <3>6. ASSUME NEW b \in Addr
          PROVE  AccountView(b, getStateObject(b))' = UndoAcc(e, Shadow.acc)[b]
      <4>1. PICK o : o = getStateObject(b)'
        OBVIOUS
      <4>2. AccountView(b, getStateObject(b))' = AccountView(b, o)
        BY <1>2, <4>1, ViewStable
      <4>3. UndoAcc(e, Shadow.acc) = [Shadow.acc EXCEPT ![e.addr] = UndoView(e, @)]
        BY <2>1 DEF UndoAcc, ObjectOps
      <4>4. CASE b = e.addr
        <5>1. AccountView(b, o) = UndoView(e, AccountView(b, obj))
          BY <2>1, <3>1, <3>4, <4>1, <4>4, UndoObjectView
        <5> QED BY <4>2, <4>3, <4>4, <5>1 DEF Shadow
      <4>5. CASE b # e.addr
        BY <3>5, <4>1, <4>2, <4>3, <4>5 DEF Shadow
      <4> QED BY <4>4, <4>5
    <3>7. UndoAcc(e, Shadow.acc) = [b \in Addr |-> UndoAcc(e, Shadow.acc)[b]]
      BY <2>1 DEF UndoAcc, ObjectOps, Shadow
    <3>8. [a \in Addr |-> getStateObject(a) # NoObject]' = Shadow.live
      BY <1>1, <1>4, <2>1, <3>2, <3>4, <3>5, ZenonT(30) DEF Shadow
    <3> QED BY <2>1, <3>6, <3>7, <3>8 DEF ObjectOps
  <2>2. CASE e.op = "createObject"
    <3>1. e.addr \in Addr /\ accounts[e.addr] = NoAccount
      BY <2>2, ObjectEntryAddr DEF Undoable
    <3>2. stateObjects' = [stateObjects EXCEPT ![e.addr] = NoObject]
      BY <1>3, <2>2 DEF UndoObjects
    <3>3. getStateObject(e.addr)' = NoObject
      BY <1>2, <1>4, <3>1, <3>2 DEF getStateObject
    <3>4. \A b \in Addr : b # e.addr => getStateObject(b)' = getStateObject(b)
      BY <1>2, <1>4, <3>2 DEF getStateObject
    <3>5. ASSUME NEW b \in Addr
          PROVE  AccountView(b, getStateObject(b))' = [Shadow.acc EXCEPT ![e.addr] = NoAccount][b]
      <4>1. PICK o : o = getStateObject(b)'
        OBVIOUS
      <4>2. AccountView(b, getStateObject(b))' = AccountView(b, o)
        BY <1>2, <4>1, ViewStable
      <4>3. CASE b = e.addr
        BY <3>3, <4>1, <4>2, <4>3, ZenonT(30) DEF Shadow, AccountView
      <4>4. CASE b # e.addr
        BY <3>4, <4>1, <4>2, <4>4 DEF Shadow
      <4> QED BY <4>3, <4>4
    <3>6. UndoAcc(e, Shadow.acc) = [Shadow.acc EXCEPT ![e.addr] = NoAccount]
      BY <2>2 DEF UndoAcc, ObjectOps
    <3>7. [a \in Addr |-> AccountView(a, getStateObject(a))]' = UndoAcc(e, Shadow.acc)
      BY <3>5, <3>6 DEF Shadow
    <3>8. [a \in Addr |-> getStateObject(a) # NoObject]' = [Shadow.live EXCEPT ![e.addr] = FALSE]
      BY <3>3, <3>4, ZenonT(30) DEF Shadow
    <3> QED BY <2>2, <3>7, <3>8, ZenonT(30)
  <2>3. CASE e.op = "resetObject"
    <3>1. e.addr \in Addr /\ e.prev \in Object /\ getStateObject(e.addr) # NoObject
      BY <2>3, ObjectEntryAddr, ZenonT(30) DEF Undoable, Shadow, Entry
    <3>2. stateObjects' = [stateObjects EXCEPT ![e.addr] = e.prev]
      BY <1>3, <2>3 DEF UndoObjects
    <3>3. getStateObject(e.addr)' = e.prev
      BY <1>4, <3>1, <3>2, ZenonT(30) DEF getStateObject
    <3>4. \A b \in Addr : b # e.addr => getStateObject(b)' = getStateObject(b)
      BY <1>2, <1>4, <3>2 DEF getStateObject
    <3>5. ASSUME NEW b \in Addr
          PROVE  AccountView(b, getStateObject(b))'
                   = [Shadow.acc EXCEPT ![e.addr] = AccountView(e.addr, e.prev)][b]
      <4>1. PICK o : o = getStateObject(b)'
        OBVIOUS
      <4>2. AccountView(b, getStateObject(b))' = AccountView(b, o)
        BY <1>2, <4>1, ViewStable
      <4>3. CASE b = e.addr
        BY <3>3, <4>1, <4>2, <4>3 DEF Shadow
      <4>4. CASE b # e.addr
        BY <3>4, <4>1, <4>2, <4>4, ZenonT(30) DEF Shadow
      <4> QED BY <4>3, <4>4, ZenonT(30)
    <3>6. UndoAcc(e, Shadow.acc) = [Shadow.acc EXCEPT ![e.addr] = AccountView(e.addr, e.prev)]
      BY <2>3 DEF UndoAcc, ObjectOps
    <3>7. [a \in Addr |-> AccountView(a, getStateObject(a))]' = UndoAcc(e, Shadow.acc)
      BY <3>5, <3>6 DEF Shadow
    <3>8. [a \in Addr |-> getStateObject(a) # NoObject]' = Shadow.live
      BY <1>4, <3>1, <3>3, <3>4, ZenonT(30) DEF Shadow
    <3> QED BY <2>3, <3>7, <3>8, ZenonT(30)
  <2>4. CASE e.op \notin ObjectOps \cup {"createObject", "resetObject"}
    <3>1. UNCHANGED stateObjects
      BY <1>3, <2>4 DEF UndoObjects, ObjectOps
    <3>2. Shadow'.live = Shadow.live /\ Shadow'.acc = Shadow.acc
      BY <1>2, <3>1, OtherShadow
    <3>3. UndoAcc(e, Shadow.acc) = Shadow.acc
      BY <2>4 DEF UndoAcc
    <3> QED BY <2>4, <3>2, <3>3 DEF Shadow
  <2> QED BY <2>1, <2>2, <2>3, <2>4, ZenonT(30)
<1>6. /\ refund' = (IF e.op = "refund" THEN e.prev ELSE refund)
      /\ logs' = (IF e.op = "addLog" THEN SubSeq(logs, 1, Len(logs) - 1) ELSE logs)
      /\ accessList' = UndoAL(e, accessList)
  BY <1>1 DEF RevertEntry, UndoAccessList, UndoAL
<1> QED BY <1>5, <1>6, ZenonT(30) DEF Shadow, UndoShadow

=============================================================================
