----------------------- MODULE StateDBRefinementProofs -----------------------
(***************************************************************************)
(* Every step of StateDB is a step of EVMState or changes nothing that     *)
(* EVMState tells apart; and what InitGenesis reads back of an export.     *)
(***************************************************************************)
EXTENDS StateDBProofs, EVMGenesis

(* Zenon is tried first, the SMT solver on what it leaves, then both again *)
(* with more time.                                                         *)
USE ZenonT(5), SMTT(20), Z3T(20), ZenonT(30), SMTT(30)

(* The account of the EVM that an object stands for.                       *)
LEMMA EVMFields ==
  ASSUME TypeInv, NEW a \in Addr, NEW obj \in Object
  PROVE  /\ EVMAccount(AccountView(a, obj)) =
              [nonce |-> obj.nonce, balance |-> obj.balance, code |-> CodeOf(obj),
               suicided |-> obj.suicided, state |-> [k \in Key |-> GetState(a, obj, k)],
               committed |-> [k \in Key |-> GetCommittedState(a, obj, k)]]
         /\ EVMAccount(AccountView(a, obj)) \in evmAccount
         /\ EVMAccount(AccountView(a, obj)) # NoAccount
<1>1. PICK v : v = AccountView(a, obj) /\ v \in accountView /\ v # NoAccount
  BY ViewType
<1>2. EVMAccount(v) = [nonce |-> v.nonce, balance |-> v.balance, code |-> v.code,
                       suicided |-> v.suicided, state |-> v.state, committed |-> v.committed]
  BY <1>1 DEF EVMAccount
<1>3. EVMAccount(v) \in evmAccount
  BY <1>1, <1>2 DEF accountView, evmAccount
<1> QED BY <1>1, <1>2, <1>3, ViewFields, EVMAccountAssumption

(* The account that a setter acts on.                                      *)
LEMMA OrNewMaps ==
  ASSUME TypeInv, NoOrphanStorage, phase = "running", NEW a \in Addr
  PROVE  evm!orNew(a) = EVMAccount(AccountView(a, orNewObject(a)))
<1>1. evmWorld.accounts[a] = EVMAccount(AccountView(a, getStateObject(a)))
  BY DEF evmWorld, EVMWorld, World
<1>2. CASE getStateObject(a) = NoObject
  <2>1. evm!orNew(a) = evm!emptyAccount
    BY <1>1, <1>2 DEF evm!orNew, AccountView, EVMAccount
  <2>2. PICK obj \in Object : obj = newObject(emptyAccount) /\ obj = orNewObject(a)
    BY <1>2, EmptyAccountType, NewObjectType DEF orNewObject
  <2>3. accounts[a] = NoAccount
    BY <1>2, NewObjectType, ObjectAssumption DEF getStateObject, TypeInv, TypeOK, Object
  <2>4. \A k \in Key : keeperState(a, k) = ZeroHash
    BY <2>3 DEF NoOrphanStorage, keeperState
  <2>5. /\ obj.nonce = 0 /\ obj.balance = 0 /\ obj.codeHash = NoCode /\ obj.code = NoCode
        /\ obj.suicided = FALSE
        /\ \A k \in Key : obj.origin[k] = NoValue /\ obj.dirty[k] = NoValue
    BY <2>2, EmptyAccountType, NewObjectFields, ZenonT(30) DEF emptyAccount
  <2>6. CodeOf(obj) = NoCode
    BY <2>5 DEF CodeOf, keeperCode
  <2>7. \A k \in Key : GetState(a, obj, k) = ZeroHash /\ GetCommittedState(a, obj, k) = ZeroHash
    BY <2>4, <2>5 DEF GetState, GetCommittedState
  <2>8. EVMAccount(AccountView(a, obj)) =
          [nonce |-> 0, balance |-> 0, code |-> NoCode, suicided |-> FALSE,
           state |-> [k \in Key |-> ZeroHash], committed |-> [k \in Key |-> ZeroHash]]
    BY <2>5, <2>6, <2>7, EVMFields
  <2> QED BY <2>1, <2>2, <2>8 DEF evm!emptyAccount, evm!zeroState
<1>3. CASE getStateObject(a) # NoObject
  <2>1. PICK obj \in Object : obj = getStateObject(a) /\ obj = orNewObject(a)
    BY <1>3, GetObjectType DEF orNewObject
  <2> QED BY <1>1, <2>1, EVMFields DEF evm!orNew
<1> QED BY <1>2, <1>3

(* A call that replaces the view of one account.                           *)
LEMMA SetMaps ==
  ASSUME TypeInv, phase = "running", NEW a \in Addr, NEW obj \in Object, NEW j,
         SetObject(a, obj, j), NEW acct, acct = EVMAccount(AccountView(a, obj))
  PROVE  evm!Put(a, acct)
<1>1. PICK v, s, t : v = AccountView(a, obj) /\ s = Shadow /\ t = Put(s, a, v)
  BY ZenonT(30)
<1>2. Shadow' = t
  BY <1>1, SetObjectShadow
<1>3. World = WorldOf(s) /\ World' = WorldOf(t)
  <2>1. World' = WorldOf(Shadow)'
    BY DEF World, WorldOf, Shadow
  <2> QED BY <1>1, <1>2, <2>1, WorldIsShadow DEF WorldOf, Warm, Contains, ContainsAddress
<1>4. EVMWorld(WorldOf(t)) = [EVMWorld(WorldOf(s)) EXCEPT !.accounts[a] = acct]
  <2>1. /\ t.refund = s.refund /\ t.logs = s.logs /\ t.al = s.al
        /\ \A b \in Addr : t.acc[b] = IF b = a THEN v ELSE s.acc[b]
    BY <1>1 DEF Put, Shadow
  <2>2. PICK old, new : /\ old = [b \in Addr |-> EVMAccount(s.acc[b])]
                        /\ new = [b \in Addr |-> EVMAccount(t.acc[b])]
    BY ZenonT(30)
  <2>3. new = [old EXCEPT ![a] = acct]
    BY <1>1, <2>1, <2>2
  <2>4. /\ EVMWorld(WorldOf(s)) = [accounts |-> old, refund |-> s.refund, logs |-> s.logs,
                                   warm |-> Warm(s.al)]
        /\ EVMWorld(WorldOf(t)) = [accounts |-> new, refund |-> s.refund, logs |-> s.logs,
                                   warm |-> Warm(s.al)]
    BY <2>1, <2>2 DEF EVMWorld, WorldOf
  <2> QED BY <2>3, <2>4
<1>5. phase' = "running" /\ UNCHANGED <<revisionVars, loopVars>>
  BY DEF SetObject, loopVars
<1>6. evmWorld = EVMWorld(WorldOf(s)) /\ evmWorld' = EVMWorld(WorldOf(t))
  BY <1>3, <1>5 DEF evmWorld, EVMWorld
<1>7. UNCHANGED <<evmSnapshots, nextRevisionID, evmWritten>>
  BY <1>5 DEF evmSnapshots, evmWritten, revisionVars, loopVars, EVMWorld, EVMAccount
<1> QED BY <1>4, <1>5, <1>6, <1>7 DEF evm!Put, evm!Change

(* A read changes no answer.                                               *)
LEMMA ReadMaps ==
  ASSUME TypeInv, phase = "running", NEW a \in Addr,
         \/ ReadAccount(a) \/ ReadCode(a)
         \/ \E k \in Key : ReadState(a, k) \/ ReadCommittedState(a, k)
  PROVE  UNCHANGED evm!vars
<1>1. PICK cur \in Object : cur = getStateObject(a)
  BY GetObjectType, ZenonT(30) DEF ReadAccount, ReadCode, ReadState, ReadCommittedState
<1>2. PICK obj \in Object : (\E j : SetObject(a, obj, j)) /\ AccountView(a, obj) = AccountView(a, cur)
  <2>1. CASE ReadAccount(a)
    BY <1>1, <2>1 DEF ReadAccount
  <2>2. CASE ReadCode(a)
    BY <1>1, <2>2, ReadKeepsView, CacheCodeType DEF ReadCode
  <2>3. ASSUME NEW k \in Key, ReadState(a, k) \/ ReadCommittedState(a, k)
        PROVE  \E obj \in Object : /\ \E j : SetObject(a, obj, j)
                                    /\ AccountView(a, obj) = AccountView(a, cur)
    <3>1. CASE ReadState(a, k)
      BY <1>1, <3>1, ReadKeepsView, ReadTypes, ZenonT(30) DEF ReadState
    <3>2. CASE ReadCommittedState(a, k)
      BY <1>1, <3>2, ReadKeepsView, ReadTypes, ZenonT(30) DEF ReadCommittedState
    <3> QED BY <2>3, <3>1, <3>2
  <2> QED BY <2>1, <2>2, <2>3
<1>3. evm!Put(a, EVMAccount(AccountView(a, cur)))
  BY <1>2, SetMaps
<1>4. evmWorld = EVMWorld(World)
  BY DEF evmWorld
<1>5. [evmWorld EXCEPT !.accounts[a] = EVMAccount(AccountView(a, cur))] = evmWorld
  BY <1>1, <1>4 DEF EVMWorld, World
<1> QED BY <1>3, <1>5 DEF evm!Put, evm!Change, evm!vars

(* The setters, on the object they load or create.                         *)
LEMMA SetterMaps ==
  ASSUME TypeInv, NoOrphanStorage, phase = "running", NEW a \in Addr
  PROVE  /\ \A amount \in Amount : AddBalance(a, amount) => evm!AddBalance(a, amount)
         /\ \A amount \in Amount : SubBalance(a, amount) => evm!SubBalance(a, amount)
         /\ \A n \in Nonce : SetNonce(a, n) => evm!SetNonce(a, n)
         /\ \A c \in CodeHash : SetCode(a, c) => evm!SetCode(a, c)
         /\ \A k \in Key, v \in Value : SetState(a, k, v) => evm!SetState(a, k, v)
<1>1. PICK obj \in Object : obj = orNewObject(a)
  BY GetObjectType, EmptyAccountType, NewObjectType DEF orNewObject
<1>2. PICK acct \in evmAccount : acct = evm!orNew(a) /\ acct = EVMAccount(AccountView(a, obj))
  BY <1>1, OrNewMaps, EVMFields
<1>3. acct = [nonce |-> obj.nonce, balance |-> obj.balance, code |-> CodeOf(obj),
              suicided |-> obj.suicided, state |-> [k \in Key |-> GetState(a, obj, k)],
              committed |-> [k \in Key |-> GetCommittedState(a, obj, k)]]
  BY <1>2, EVMFields
<1>4. obj.balance \in Nat
  BY DEF Object, stateObject
<1>5. ASSUME NEW b \in Nat, NEW j, SetObject(a, [obj EXCEPT !.balance = b], j)
      PROVE  evm!Put(a, [acct EXCEPT !.balance = b])
  <2>1. PICK o \in Object : o = [obj EXCEPT !.balance = b]
    BY BalanceJournaled, ZenonT(30)
  <2>2. /\ o.nonce = obj.nonce /\ o.balance = b /\ CodeOf(o) = CodeOf(obj)
        /\ o.suicided = obj.suicided /\ o.dirty = obj.dirty /\ o.origin = obj.origin
    BY <2>1 DEF Object, stateObject, CodeOf
  <2>3. \A k \in Key : /\ GetState(a, o, k) = GetState(a, obj, k)
                       /\ GetCommittedState(a, o, k) = GetCommittedState(a, obj, k)
    BY <2>2 DEF GetState, GetCommittedState
  <2>4. EVMAccount(AccountView(a, o)) = [acct EXCEPT !.balance = b]
    BY <1>3, <2>2, <2>3, EVMFields
  <2> QED BY <1>5, <2>1, <2>4, SetMaps
<1>6. ASSUME NEW j, SetObject(a, obj, j) PROVE evm!Put(a, acct)
  BY <1>2, <1>6, SetMaps
<1>7. ASSUME NEW amount \in Amount, AddBalance(a, amount) PROVE evm!AddBalance(a, amount)
  <2>1. amount \in Nat /\ acct.balance = obj.balance
    BY <1>3, AmountAssumption
  <2>2. CASE amount = 0
    <3>1. [acct EXCEPT !.balance = @ + amount] = acct
      BY <1>3, <1>4, <2>1, <2>2
    <3>2. evm!Put(a, acct)
      BY <1>1, <1>6, <1>7, <2>2 DEF AddBalance
    <3> QED BY <1>2, <3>1, <3>2 DEF evm!AddBalance
  <2>3. CASE amount # 0
    <3>1. evm!Put(a, [acct EXCEPT !.balance = obj.balance + amount])
      BY <1>1, <1>4, <1>5, <1>7, <2>1, <2>3 DEF AddBalance, SetBalance
    <3> QED BY <1>2, <2>1, <3>1 DEF evm!AddBalance
  <2> QED BY <2>2, <2>3
<1>8. ASSUME NEW amount \in Amount, SubBalance(a, amount) PROVE evm!SubBalance(a, amount)
  <2>1. amount \in Nat /\ acct.balance = obj.balance /\ amount <= obj.balance
    BY <1>1, <1>3, <1>8, AmountAssumption DEF SubBalance
  <2>2. CASE amount = 0
    <3>1. [acct EXCEPT !.balance = @ - amount] = acct
      BY <1>3, <1>4, <2>1, <2>2
    <3>2. evm!Put(a, acct)
      BY <1>1, <1>6, <1>8, <2>2 DEF SubBalance
    <3> QED BY <1>2, <2>1, <3>1, <3>2 DEF evm!SubBalance
  <2>3. CASE amount # 0
    <3>1. obj.balance - amount \in Nat
      BY <1>4, <2>1
    <3>2. evm!Put(a, [acct EXCEPT !.balance = obj.balance - amount])
      BY <1>1, <1>5, <1>8, <2>3, <3>1 DEF SubBalance, SetBalance
    <3> QED BY <1>2, <2>1, <3>2 DEF evm!SubBalance
  <2> QED BY <2>2, <2>3
<1>9. ASSUME NEW n \in Nonce, SetNonce(a, n) PROVE evm!SetNonce(a, n)
  <2>1. PICK o \in Object : o = [obj EXCEPT !.nonce = n] /\ \E j : SetObject(a, o, j)
    BY <1>1, <1>9, NonceJournaled, NonceAssumption DEF SetNonce
  <2>2. /\ o.nonce = n /\ o.balance = obj.balance /\ CodeOf(o) = CodeOf(obj)
        /\ o.suicided = obj.suicided /\ o.dirty = obj.dirty /\ o.origin = obj.origin
    BY <2>1 DEF Object, stateObject, CodeOf
  <2>3. \A k \in Key : /\ GetState(a, o, k) = GetState(a, obj, k)
                       /\ GetCommittedState(a, o, k) = GetCommittedState(a, obj, k)
    BY <2>2 DEF GetState, GetCommittedState
  <2>4. EVMAccount(AccountView(a, o)) = [acct EXCEPT !.nonce = n]
    BY <1>3, <2>2, <2>3, EVMFields
  <2> QED BY <1>2, <2>1, <2>4, SetMaps DEF evm!SetNonce
<1>10. ASSUME NEW c \in CodeHash, SetCode(a, c) PROVE evm!SetCode(a, c)
  <2>1. PICK o \in Object : /\ o = [obj EXCEPT !.code = c, !.codeHash = c, !.dirtyCode = TRUE]
                            /\ \E j : SetObject(a, o, j)
    BY <1>1, <1>10, CodeJournaled, ZenonT(30) DEF SetCode
  <2>2. /\ o.nonce = obj.nonce /\ o.balance = obj.balance /\ o.code = c /\ o.codeHash = c
        /\ o.suicided = obj.suicided /\ o.dirty = obj.dirty /\ o.origin = obj.origin
    BY <2>1, ZenonT(30) DEF Object, stateObject
  <2>3. \A k \in Key : /\ GetState(a, o, k) = GetState(a, obj, k)
                       /\ GetCommittedState(a, o, k) = GetCommittedState(a, obj, k)
    BY <2>2 DEF GetState, GetCommittedState
  <2>4. CodeOf(o) = c
    BY <2>2 DEF CodeOf, keeperCode
  <2>5. EVMAccount(AccountView(a, o)) = [acct EXCEPT !.code = c]
    BY <1>3, <2>2, <2>3, <2>4, EVMFields
  <2> QED BY <1>2, <2>1, <2>5, SetMaps DEF evm!SetCode
<1>11. ASSUME NEW k \in Key, NEW v \in Value, SetState(a, k, v) PROVE evm!SetState(a, k, v)
  <2>1. PICK read \in Object : read = CacheState(a, obj, k)
    BY ReadTypes, ZenonT(30)
  <2>2. AccountView(a, read) = AccountView(a, obj)
    BY <2>1, ReadKeepsView, ZenonT(30)
  <2>3. acct = [nonce |-> read.nonce, balance |-> read.balance, code |-> CodeOf(read),
                suicided |-> read.suicided, state |-> [i \in Key |-> GetState(a, read, i)],
                committed |-> [i \in Key |-> GetCommittedState(a, read, i)]]
    BY <1>2, <2>2, EVMFields
  <2>4. CASE GetState(a, read, k) = v
    <3>1. [acct EXCEPT !.state[k] = v] = acct
      BY <2>3, <2>4
    <3>2. evm!Put(a, acct)
      BY <1>1, <1>2, <1>11, <2>1, <2>2, <2>4, SetMaps DEF SetState
    <3> QED BY <1>2, <3>1, <3>2 DEF evm!SetState
  <2>5. CASE GetState(a, read, k) # v
    <3>1. PICK o \in Object : o = [read EXCEPT !.dirty[k] = v] /\ \E j : SetObject(a, o, j)
      BY <1>1, <1>11, <2>1, <2>5, StorageJournaled DEF SetState
    <3>2. /\ o.nonce = read.nonce /\ o.balance = read.balance /\ CodeOf(o) = CodeOf(read)
          /\ o.suicided = read.suicided /\ o.origin = read.origin
          /\ \A i \in Key : o.dirty[i] = IF i = k THEN v ELSE read.dirty[i]
      BY <3>1 DEF Object, stateObject, CodeOf
    <3>3. \A i \in Key : /\ GetState(a, o, i) = IF i = k THEN v ELSE GetState(a, read, i)
                         /\ GetCommittedState(a, o, i) = GetCommittedState(a, read, i)
      BY <3>2, ValueAssumption DEF GetState, GetCommittedState
    <3>4. EVMAccount(AccountView(a, o)) = [acct EXCEPT !.state[k] = v]
      BY <2>3, <3>2, <3>3, EVMFields
    <3> QED BY <1>2, <3>1, <3>4, SetMaps DEF evm!SetState
  <2> QED BY <2>4, <2>5
<1> QED BY <1>7, <1>8, <1>9, <1>10, <1>11

(* CreateAccount keeps the balance, and the storage that is committed.     *)
LEMMA CreateMaps ==
  ASSUME TypeInv, NoOrphanStorage, HashesStored, phase = "running", NEW a \in Addr,
         stateObjects[a] # NoObject => Sound(a, stateObjects[a]), CreateAccount(a)
  PROVE  evm!CreateAccount(a)
<1>1. PICK obj \in Object : obj = orNewObject(a)
  BY GetObjectType, EmptyAccountType, NewObjectType DEF orNewObject
<1>2. PICK acct \in evmAccount : acct = evm!orNew(a) /\ acct = EVMAccount(AccountView(a, obj))
  BY <1>1, OrNewMaps, EVMFields
<1>3. acct = [nonce |-> obj.nonce, balance |-> obj.balance, code |-> CodeOf(obj),
              suicided |-> obj.suicided, state |-> [k \in Key |-> GetState(a, obj, k)],
              committed |-> [k \in Key |-> GetCommittedState(a, obj, k)]]
  BY <1>2, EVMFields
<1>4. Sound(a, obj)
  BY <1>1, LoadedSound
<1>5. obj.nonce = 0 /\ CodeOf(obj) = NoCode
  <2>1. obj.nonce = 0 /\ obj.codeHash = NoCode
    <3>1. CASE getStateObject(a) = NoObject
      BY <1>1, <3>1 DEF orNewObject, newObject, emptyAccount
    <3>2. CASE getStateObject(a) # NoObject
      BY <1>1, <3>2 DEF orNewObject, CreateAccount, Creatable
    <3> QED BY <3>1, <3>2
  <2> QED BY <1>4, <2>1, ReadCodeSound, ZenonT(30)
<1>6. \A k \in Key : GetCommittedState(a, obj, k) = keeperState(a, k)
  BY <1>4 DEF Sound, Coherent, GetCommittedState
<1>7. PICK fresh \in Object : /\ fresh = newObject(emptyAccount)
                              /\ fresh.nonce = 0 /\ fresh.balance = 0 /\ fresh.codeHash = NoCode
                              /\ fresh.code = NoCode /\ fresh.suicided = FALSE
                              /\ \A k \in Key : fresh.origin[k] = NoValue /\ fresh.dirty[k] = NoValue
  BY EmptyAccountType, NewObjectType, NewObjectFields, ZenonT(30) DEF emptyAccount
<1>8. PICK o \in Object : o = [fresh EXCEPT !.balance = obj.balance] /\ \E j : SetObject(a, o, j)
  <2>1. CASE getStateObject(a) = NoObject
    <3>1. obj = fresh /\ [fresh EXCEPT !.balance = obj.balance] = fresh
      BY <1>1, <1>7, <2>1 DEF orNewObject, Object, stateObject
    <3> QED BY <1>7, <2>1, <3>1 DEF CreateAccount
  <2>2. CASE getStateObject(a) # NoObject
    <3>1. obj.balance \in Nat
      BY DEF Object, stateObject
    <3>2. [fresh EXCEPT !.balance = obj.balance] \in Object
      BY <3>1, BalanceJournaled, ZenonT(30)
    <3> QED BY <1>1, <1>7, <2>2, <3>2, ZenonT(30) DEF CreateAccount, orNewObject
  <2> QED BY <2>1, <2>2
<1>9. /\ o.nonce = 0 /\ o.balance = obj.balance /\ o.codeHash = NoCode /\ o.code = NoCode
      /\ o.suicided = FALSE
      /\ \A k \in Key : o.origin[k] = NoValue /\ o.dirty[k] = NoValue
  BY <1>7, <1>8 DEF Object, stateObject
<1>10. /\ CodeOf(o) = NoCode
       /\ \A k \in Key : GetState(a, o, k) = keeperState(a, k)
                         /\ GetCommittedState(a, o, k) = keeperState(a, k)
  BY <1>9 DEF CodeOf, keeperCode, GetState, GetCommittedState
<1>11. PICK held : held = [k \in Key |-> keeperState(a, k)] /\ held = acct.committed
  BY <1>3, <1>6
<1>12. EVMAccount(AccountView(a, o)) =
         [nonce |-> 0, balance |-> obj.balance, code |-> NoCode, suicided |-> FALSE,
          state |-> held, committed |-> held]
  BY <1>9, <1>10, <1>11, EVMFields
<1>13. EVMAccount(AccountView(a, o)) =
         [evm!emptyAccount EXCEPT !.balance = acct.balance, !.state = acct.committed,
                                  !.committed = acct.committed]
  <2>1. acct.balance = obj.balance
    BY <1>3
  <2>2. PICK none, w : none = evm!emptyAccount
          /\ w = [none EXCEPT !.balance = obj.balance, !.state = held, !.committed = held]
    BY ZenonT(30)
  <2>3. none = [nonce |-> 0, balance |-> 0, code |-> NoCode, suicided |-> FALSE,
                state |-> evm!zeroState, committed |-> evm!zeroState]
    BY <2>2, ZenonT(30) DEF evm!emptyAccount
  <2>4. w = [nonce |-> w.nonce, balance |-> w.balance, code |-> w.code, suicided |-> w.suicided,
             state |-> w.state, committed |-> w.committed]
    BY <2>2, <2>3, ZenonT(30)
  <2>5. /\ w.nonce = 0 /\ w.balance = obj.balance /\ w.code = NoCode /\ w.suicided = FALSE
        /\ w.state = held /\ w.committed = held
    BY <2>2, <2>3
  <2> QED BY <1>11, <1>12, <2>1, <2>2, <2>4, <2>5, ZenonT(30)
<1>14. evm!Put(a, EVMAccount(AccountView(a, o)))
  BY <1>8, SetMaps
<1> QED BY <1>2, <1>3, <1>5, <1>13, <1>14 DEF evm!CreateAccount

(* Suicide acts on an account that exists.                                 *)
LEMMA SuicideMaps ==
  ASSUME TypeInv, phase = "running", NEW a \in Addr, Suicide(a)
  PROVE  evm!Suicide(a)
<1>1. PICK obj \in Object : obj = getStateObject(a)
  BY GetObjectType, ZenonT(30) DEF Suicide
<1>2. PICK acct : acct = EVMAccount(AccountView(a, obj)) /\ acct # NoAccount
  BY EVMFields
<1>3. acct = [nonce |-> obj.nonce, balance |-> obj.balance, code |-> CodeOf(obj),
              suicided |-> obj.suicided, state |-> [k \in Key |-> GetState(a, obj, k)],
              committed |-> [k \in Key |-> GetCommittedState(a, obj, k)]]
  BY <1>2, EVMFields
<1>4. evmWorld.accounts[a] = acct
  BY <1>1, <1>2 DEF evmWorld, EVMWorld, World
<1>5. PICK o \in Object : o = [obj EXCEPT !.suicided = TRUE, !.balance = 0]
                          /\ \E j : SetObject(a, o, j)
  BY <1>1, SuicideJournaled, ZenonT(30) DEF Suicide
<1>6. /\ o.nonce = obj.nonce /\ o.balance = 0 /\ o.code = obj.code /\ o.codeHash = obj.codeHash
      /\ o.suicided = TRUE /\ o.dirty = obj.dirty /\ o.origin = obj.origin
  BY <1>5, ZenonT(30) DEF Object, stateObject
<1>7. /\ CodeOf(o) = CodeOf(obj)
      /\ \A k \in Key : /\ GetState(a, o, k) = GetState(a, obj, k)
                        /\ GetCommittedState(a, o, k) = GetCommittedState(a, obj, k)
  BY <1>6 DEF CodeOf, GetState, GetCommittedState
<1>8. EVMAccount(AccountView(a, o)) = [acct EXCEPT !.suicided = TRUE, !.balance = 0]
  <2>1. PICK w : w = [acct EXCEPT !.suicided = TRUE, !.balance = 0]
    BY ZenonT(30)
  <2>2. w = [nonce |-> w.nonce, balance |-> w.balance, code |-> w.code, suicided |-> w.suicided,
             state |-> w.state, committed |-> w.committed]
    BY <1>3, <2>1, ZenonT(30)
  <2>3. /\ w.nonce = obj.nonce /\ w.balance = 0 /\ w.code = CodeOf(obj) /\ w.suicided = TRUE
        /\ w.state = [k \in Key |-> GetState(a, obj, k)]
        /\ w.committed = [k \in Key |-> GetCommittedState(a, obj, k)]
    BY <1>3, <2>1
  <2>4. EVMAccount(AccountView(a, o)) =
          [nonce |-> o.nonce, balance |-> o.balance, code |-> CodeOf(o), suicided |-> o.suicided,
           state |-> [k \in Key |-> GetState(a, o, k)],
           committed |-> [k \in Key |-> GetCommittedState(a, o, k)]]
    BY EVMFields
  <2>5. /\ [k \in Key |-> GetState(a, o, k)] = [k \in Key |-> GetState(a, obj, k)]
        /\ [k \in Key |-> GetCommittedState(a, o, k)] = [k \in Key |-> GetCommittedState(a, obj, k)]
    BY <1>7
  <2>6. o.nonce = w.nonce /\ o.balance = w.balance /\ CodeOf(o) = w.code
    BY <1>6, <1>7, <2>3
  <2>7. o.suicided = w.suicided
    BY <1>6, <2>3, ZenonT(30)
  <2>8. /\ [k \in Key |-> GetState(a, o, k)] = w.state
        /\ [k \in Key |-> GetCommittedState(a, o, k)] = w.committed
    BY <2>3, <2>5, ZenonT(30)
  <2>9. EVMAccount(AccountView(a, o)) = w
    BY <2>2, <2>4, <2>6, <2>7, <2>8, ZenonT(30)
  <2> QED BY <2>1, <2>9
<1>9. evm!Put(a, EVMAccount(AccountView(a, o)))
  BY <1>5, SetMaps
<1> QED BY <1>2, <1>4, <1>8, <1>9 DEF evm!Suicide

(* The getters of the access list after an address is added.               *)
LEMMA WarmAddsAddress ==
  ASSUME NEW al \in AccessLists, NEW a \in Addr
  PROVE  Warm(AddAddress(al, a)) = Warm(al) \cup {<<a>>}
<1>1. \A b \in Addr : ContainsAddress(AddAddress(al, a), b) <=> ContainsAddress(al, b) \/ b = a
  BY DEF AddAddress, ContainsAddress, AccessLists, Absent, NoSlots
<1>2. \A b \in Addr, x \in Key : Contains(AddAddress(al, a), b, x) <=> Contains(al, b, x)
  BY DEF AddAddress, ContainsAddress, Contains, AccessLists, Absent, NoSlots
<1> QED BY <1>1, <1>2 DEF Warm

(* The same for a slot: the index of an address tells its set from others. *)
LEMMA WarmAddsSlot ==
  ASSUME NEW al \in AccessLists, Indexed(al), NEW a \in Addr, NEW k \in Key
  PROVE  Warm(AddSlot(al, a, k)) = Warm(al) \cup {<<a>>, <<a, k>>}
<1>1. PICK n \in Nat : n = Len(al.slots) /\ al.slots \in Seq(SUBSET Key)
  BY DEF AccessLists
<1>2. \A b \in Addr : ContainsAddress(AddSlot(al, a, k), b) <=> ContainsAddress(al, b) \/ b = a
  BY <1>1 DEF AddSlot, ContainsAddress, AccessLists, Absent, NoSlots
<1>3. \A b \in Addr, x \in Key :
        Contains(AddSlot(al, a, k), b, x) <=> Contains(al, b, x) \/ (b = a /\ x = k)
  <2> SUFFICES ASSUME NEW b \in Addr, NEW x \in Key
               PROVE  Contains(AddSlot(al, a, k), b, x) <=> Contains(al, b, x) \/ (b = a /\ x = k)
    OBVIOUS
  <2>1. \A c \in Addr : al.addresses[c] \notin {Absent, NoSlots} => al.addresses[c] + 1 \in 1 .. n
    BY <1>1, IndexInRange
  <2>2. CASE al.addresses[a] \in {Absent, NoSlots}
    <3>1. PICK new : new = AddSlot(al, a, k)
      BY ZenonT(30)
    <3>2. /\ new.addresses = [al.addresses EXCEPT ![a] = n]
          /\ new.slots = Append(al.slots, {k})
      BY <1>1, <2>2, <3>1 DEF AddSlot
    <3>3. new.slots[n + 1] = {k} /\ \A i \in 1 .. n : new.slots[i] = al.slots[i]
      BY <1>1, <3>2
    <3>4. new.addresses[a] = n /\ \A c \in Addr : c # a => new.addresses[c] = al.addresses[c]
      BY <3>2 DEF AccessLists
    <3>5. CASE b = a
      <4>1. ~Contains(al, b, x)
        BY <2>2, <3>5 DEF Contains
      <4>2. n \notin {Absent, NoSlots}
        BY DEF Absent, NoSlots
      <4>3. Contains(new, b, x) <=> x = k
        BY <3>3, <3>4, <3>5, <4>2 DEF Contains
      <4> QED BY <3>1, <3>5, <4>1, <4>3
    <3>6. CASE b # a
      BY <2>1, <3>1, <3>3, <3>4, <3>6 DEF Contains
    <3> QED BY <3>5, <3>6
  <2>3. CASE al.addresses[a] \notin {Absent, NoSlots}
    <3>1. PICK new, i : /\ new = AddSlot(al, a, k) /\ i = al.addresses[a] + 1
      BY ZenonT(30)
    <3>2. i \in 1 .. n
      BY <2>1, <2>3, <3>1
    <3>3. /\ new.addresses = al.addresses
          /\ new.slots = [al.slots EXCEPT ![i] = @ \cup {k}]
      BY <2>3, <3>1 DEF AddSlot, AccessLists
    <3>4. \A j \in 1 .. n : new.slots[j] = IF j = i THEN al.slots[j] \cup {k} ELSE al.slots[j]
      <4>1. PICK slots : slots = al.slots /\ slots \in Seq(SUBSET Key) /\ Len(slots) = n
        BY <1>1
      <4>2. DOMAIN slots = 1 .. n
        BY <4>1
      <4> QED BY <3>2, <3>3, <4>1, <4>2
    <3>5. CASE b = a
      BY <2>3, <3>1, <3>2, <3>3, <3>4, <3>5 DEF Contains
    <3>6. CASE b # a
      <4>1. al.addresses[b] \notin {Absent, NoSlots} => al.addresses[b] + 1 # i
        <5>1. al.addresses[b] \in Int /\ al.addresses[a] \in Int
          BY DEF AccessLists
        <5>2. al.addresses[b] \notin {Absent, NoSlots} => al.addresses[b] # al.addresses[a]
          BY <2>3, <3>6, ZenonT(30) DEF Indexed
        <5> QED BY <3>1, <5>1, <5>2
      <4>2. CASE al.addresses[b] \in {Absent, NoSlots}
        BY <3>1, <3>3, <3>6, <4>2 DEF Contains
      <4>3. CASE al.addresses[b] \notin {Absent, NoSlots}
        <5>1. new.slots[al.addresses[b] + 1] = al.slots[al.addresses[b] + 1]
          BY <2>1, <3>4, <4>1, <4>3, ZenonT(30)
        <5> QED BY <3>1, <3>3, <3>6, <5>1 DEF Contains
      <4> QED BY <4>2, <4>3
    <3> QED BY <3>5, <3>6
  <2> QED BY <2>2, <2>3
<1> QED BY <1>2, <1>3 DEF Warm

-----------------------------------------------------------------------------
(* The other calls.                                                        *)

(* Only the objects and the keeper tell the accounts.                      *)
LEMMA WorldChange ==
  ASSUME UNCHANGED <<keeperVars, stateObjects>>
  PROVE  World' = [accounts |-> World.accounts, refund |-> refund', logs |-> logs',
                   warm |-> Warm(accessList')]
<1>1. PICK acc, t : acc = Shadow.acc /\ t = Shadow'
  BY ZenonT(30)
<1>2. t.acc = acc /\ t.refund = refund' /\ t.logs = logs' /\ t.al = accessList'
  BY <1>1, OtherShadow
<1>3. World' = WorldOf(t)
  <2>1. World' = WorldOf(Shadow)'
    BY DEF World, WorldOf, Shadow
  <2> QED BY <1>1, <2>1 DEF WorldOf, Warm, Contains, ContainsAddress
<1>4. World.accounts = acc
  BY <1>1 DEF World, Shadow
<1> QED BY <1>2, <1>3, <1>4 DEF WorldOf

(* The world of the EVM while no loop runs.                                *)
LEMMA OtherMaps ==
  ASSUME phase = "running", UNCHANGED <<keeperVars, stateObjects, revisionVars, loopVars>>
  PROVE  \E acc :
           /\ evmWorld = [accounts |-> acc, refund |-> refund, logs |-> logs,
                          warm |-> Warm(accessList)]
           /\ evm!Change([accounts |-> acc, refund |-> refund', logs |-> logs',
                          warm |-> Warm(accessList')])
<1>1. PICK seen, next, acc : /\ seen = World /\ next = World'
                             /\ acc = [a \in Addr |-> EVMAccount(seen.accounts[a])]
  BY ZenonT(30)
<1>2. /\ next.accounts = seen.accounts /\ next.refund = refund' /\ next.logs = logs'
      /\ next.warm = Warm(accessList')
  BY <1>1, WorldChange
<1>3. seen.refund = refund /\ seen.logs = logs /\ seen.warm = Warm(accessList)
  BY <1>1 DEF World
<1>4. evmWorld = EVMWorld(seen) /\ evmWorld' = EVMWorld(next)
  BY <1>1 DEF evmWorld, loopVars, EVMWorld, EVMAccount
<1>5. evmWorld = [accounts |-> acc, refund |-> refund, logs |-> logs, warm |-> Warm(accessList)]
  BY <1>1, <1>3, <1>4 DEF EVMWorld
<1>6. evmWorld' = [accounts |-> acc, refund |-> refund', logs |-> logs', warm |-> Warm(accessList')]
  BY <1>1, <1>2, <1>4 DEF EVMWorld
<1>7. UNCHANGED <<evmSnapshots, nextRevisionID, evmWritten>> /\ phase' = "running"
  BY DEF evmSnapshots, evmWritten, revisionVars, loopVars, EVMWorld, EVMAccount
<1> QED BY <1>5, <1>6, <1>7 DEF evm!Change

(* A panic leaves the world as it is.                                      *)
LEMMA PanicMaps ==
  ASSUME phase = "running", phase' = "panicked",
         UNCHANGED <<keeperVars, stateObjects, refund, logs, accessList, revisionVars>>,
         \/ \E gas \in Gas : gas > refund
         \/ \E id \in 0 .. nextRevisionID - 1 :
              \A i \in 1 .. Len(validRevisions) : validRevisions[i].id # id
  PROVE  evm!Panic
<1>1. PICK seen : seen = World /\ World' = seen
  BY WorldChange DEF World
<1>2. evmWorld = EVMWorld(seen) /\ evmWorld' = EVMWorld(seen)
  BY <1>1 DEF evmWorld, EVMWorld, EVMAccount
<1>3. evmWorld.refund = refund
  BY <1>1, <1>2 DEF EVMWorld, World
<1>4. evmSnapshots' = << >>
  BY DEF evmSnapshots
<1>5. DOMAIN evmSnapshots = 1 .. Len(validRevisions)
      /\ \A i \in 1 .. Len(validRevisions) : evmSnapshots[i].id = validRevisions[i].id
  BY DEF evmSnapshots
<1>6. UNCHANGED <<nextRevisionID, evmWritten>>
  BY DEF evmWritten, revisionVars
<1> QED BY <1>2, <1>3, <1>4, <1>5, <1>6 DEF evm!Panic

(* Refunds, logs and the access list.                                      *)
LEMMA OtherStepMaps ==
  ASSUME TypeInv, AccessListIndexed, phase = "running", OtherStep
  PROVE  evm!Next
<1>1. ASSUME NEW gas \in Gas, AddRefund(gas) PROVE evm!AddRefund(gas)
  <2>1. UNCHANGED <<keeperVars, stateObjects, revisionVars, loopVars>>
    BY <1>1 DEF AddRefund
  <2>2. PICK acc : /\ evmWorld = [accounts |-> acc, refund |-> refund, logs |-> logs,
                                  warm |-> Warm(accessList)]
                   /\ evm!Change([accounts |-> acc, refund |-> refund', logs |-> logs',
                                  warm |-> Warm(accessList')])
    BY <2>1, OtherMaps
  <2> QED BY <1>1, <2>2 DEF AddRefund, evm!AddRefund
<1>2. ASSUME NEW gas \in Gas, SubRefund(gas) PROVE evm!SubRefund(gas) \/ evm!Panic
  <2>1. CASE gas > refund
    <3>1. phase' = "panicked"
          /\ UNCHANGED <<keeperVars, stateObjects, refund, logs, accessList, revisionVars>>
      BY <1>2, <2>1 DEF SubRefund
    <3> QED BY <2>1, <3>1, PanicMaps
  <2>2. CASE ~(gas > refund)
    <3>1. UNCHANGED <<keeperVars, stateObjects, revisionVars, loopVars>>
      BY <1>2, <2>2 DEF SubRefund, loopVars
    <3>2. PICK acc : /\ evmWorld = [accounts |-> acc, refund |-> refund, logs |-> logs,
                                    warm |-> Warm(accessList)]
                     /\ evm!Change([accounts |-> acc, refund |-> refund', logs |-> logs',
                                    warm |-> Warm(accessList')])
      BY <3>1, OtherMaps
    <3>3. gas <= refund
      BY <2>2, GasAssumption DEF TypeInv, TypeOK
    <3> QED BY <1>2, <2>2, <3>2, <3>3 DEF SubRefund, evm!SubRefund
  <2> QED BY <2>1, <2>2
<1>3. ASSUME NEW l \in Log, AddLog(l) PROVE evm!AddLog(l)
  <2>1. UNCHANGED <<keeperVars, stateObjects, revisionVars, loopVars>>
    BY <1>3 DEF AddLog
  <2>2. PICK acc : /\ evmWorld = [accounts |-> acc, refund |-> refund, logs |-> logs,
                                  warm |-> Warm(accessList)]
                   /\ evm!Change([accounts |-> acc, refund |-> refund', logs |-> logs',
                                  warm |-> Warm(accessList')])
    BY <2>1, OtherMaps
  <2>3. logs' = Append(logs, l) /\ refund' = refund /\ accessList' = accessList
    BY <1>3 DEF AddLog
  <2>4. [evmWorld EXCEPT !.logs = Append(@, l)] =
          [accounts |-> acc, refund |-> refund', logs |-> logs', warm |-> Warm(accessList')]
    BY <2>2, <2>3
  <2> QED BY <2>2, <2>4, ZenonT(30) DEF evm!AddLog
<1>4. accessList \in AccessLists /\ Indexed(accessList)
  BY DEF TypeInv, TypeOK, AccessListIndexed
<1>5. ASSUME NEW a \in Addr, AddAddressToAccessList(a) PROVE evm!AddAddressToAccessList(a)
  <2>1. UNCHANGED <<keeperVars, stateObjects, revisionVars, loopVars>>
    BY <1>5 DEF AddAddressToAccessList
  <2>2. PICK acc : /\ evmWorld = [accounts |-> acc, refund |-> refund, logs |-> logs,
                                  warm |-> Warm(accessList)]
                   /\ evm!Change([accounts |-> acc, refund |-> refund', logs |-> logs',
                                  warm |-> Warm(accessList')])
    BY <2>1, OtherMaps
  <2>3. Warm(accessList') = Warm(accessList) \cup {<<a>>} /\ refund' = refund /\ logs' = logs
    <3>1. accessList' = AddAddress(accessList, a) /\ refund' = refund /\ logs' = logs
      BY <1>5 DEF AddAddressToAccessList
    <3> QED BY <1>4, <3>1, WarmAddsAddress, ZenonT(30)
  <2> QED BY <2>2, <2>3 DEF evm!AddAddressToAccessList
<1>6. ASSUME NEW a \in Addr, NEW k \in Key, AddSlotToAccessList(a, k)
      PROVE  evm!AddSlotToAccessList(a, k)
  <2>1. UNCHANGED <<keeperVars, stateObjects, revisionVars, loopVars>>
    BY <1>6 DEF AddSlotToAccessList
  <2>2. PICK acc : /\ evmWorld = [accounts |-> acc, refund |-> refund, logs |-> logs,
                                  warm |-> Warm(accessList)]
                   /\ evm!Change([accounts |-> acc, refund |-> refund', logs |-> logs',
                                  warm |-> Warm(accessList')])
    BY <2>1, OtherMaps
  <2>3. Warm(accessList') = Warm(accessList) \cup {<<a>>, <<a, k>>}
        /\ refund' = refund /\ logs' = logs
    <3>1. accessList' = AddSlot(accessList, a, k) /\ refund' = refund /\ logs' = logs
      BY <1>6 DEF AddSlotToAccessList
    <3> QED BY <1>4, <3>1, WarmAddsSlot, ZenonT(30)
  <2> QED BY <2>2, <2>3 DEF evm!AddSlotToAccessList
<1> QED BY <1>1, <1>2, <1>3, <1>5, <1>6, ZenonT(30) DEF OtherStep, evm!Next

-----------------------------------------------------------------------------
(* Snapshots and the loops.                                                *)

(* The snapshots of the EVM are the valid revisions with their worlds.     *)
Taken(i) == [id |-> validRevisions[i].id, world |-> EVMWorld(saved[i])]

(* Snapshot adds one to them.                                              *)
LEMMA SnapshotMaps ==
  ASSUME TypeInv, phase = "running", NEW S, saved \in Seq(S),
         Len(saved) = Len(validRevisions), Snapshot
  PROVE  evm!Snapshot
<1>1. PICK n \in Nat : n = Len(validRevisions) /\ n = Len(saved)
  BY DEF TypeInv, TypeOK
<1>2. /\ Len(validRevisions') = n + 1 /\ validRevisions'[n + 1].id = nextRevisionID
      /\ \A i \in 1 .. n : validRevisions'[i] = validRevisions[i]
  BY <1>1 DEF Snapshot, TypeInv, TypeOK
<1>3. PICK seen : seen = World
  BY ZenonT(30)
<1>4. saved'[n + 1] = seen /\ \A i \in 1 .. n : saved'[i] = saved[i]
  BY <1>1, <1>3 DEF Snapshot
<1>5. PICK old, T : /\ old = evmSnapshots /\ old = [i \in 1 .. n |-> Taken(i)]
                    /\ T = {Taken(i) : i \in 1 .. n}
  BY <1>1 DEF evmSnapshots, Taken
<1>6. old \in Seq(T) /\ Len(old) = n
  BY <1>5
<1>7. phase' = "running" /\ World' = seen
  <2>1. UNCHANGED <<keeperVars, stateObjects, refund, logs, accessList>> /\ phase' = "running"
    BY DEF Snapshot, loopVars
  <2> QED BY <1>3, <2>1, WorldChange DEF World
<1>8. evmWorld = EVMWorld(seen) /\ evmWorld' = EVMWorld(seen)
  BY <1>3, <1>7 DEF evmWorld, EVMWorld, EVMAccount
<1>9. evmSnapshots' = [i \in 1 .. n + 1 |-> Taken(i)']
  BY <1>2, <1>7 DEF evmSnapshots, Taken, EVMWorld, EVMAccount
<1>10. /\ Taken(n + 1)' = [id |-> nextRevisionID, world |-> evmWorld]
       /\ \A i \in 1 .. n : Taken(i)' = Taken(i)
  <2>1. \A i : Taken(i)' = [id |-> validRevisions'[i].id, world |-> EVMWorld(saved'[i])]
    BY ZenonT(30) DEF Taken, EVMWorld, EVMAccount
  <2>2. \A i \in 1 .. n : Taken(i)' = Taken(i)
    BY <1>2, <1>4, <2>1 DEF Taken
  <2> QED BY <1>2, <1>4, <1>8, <2>1, <2>2
<1>11. evmSnapshots' = Append(evmSnapshots, [id |-> nextRevisionID, world |-> evmWorld])
  BY <1>1, <1>5, <1>6, <1>9, <1>10
<1>12. evmWritten' = evmWritten /\ nextRevisionID' = nextRevisionID + 1
  BY <1>7 DEF evmWritten, Snapshot
<1> QED BY <1>7, <1>8, <1>11, <1>12 DEF evm!Snapshot

(* RevertToSnapshot takes effect when its loop begins.                     *)
LEMMA RevertToMaps ==
  ASSUME TypeInv, RevisionsNested, phase = "running",
         NEW id \in 0 .. nextRevisionID - 1, RevertToSnapshot(id)
  PROVE  evm!Next
<1>1. PICK n \in Nat : n = Len(validRevisions) /\ \A i \in 1 .. n : validRevisions[i].id \in Nat
  <2>1. validRevisions \in Seq(revision)
    BY DEF TypeInv, TypeOK
  <2>2. Len(validRevisions) \in Nat /\ \A i \in 1 .. Len(validRevisions) : validRevisions[i] \in revision
    BY <2>1
  <2> QED BY <2>2 DEF revision
<1>2. PICK idx \in 1 .. n + 1 :
        /\ SearchesTo(id, idx)
        /\ IF idx = n + 1 \/ validRevisions[idx].id # id
           THEN phase' = "panicked" /\ UNCHANGED revertTo
           ELSE phase' = "reverting" /\ revertTo' = idx
  BY <1>1 DEF RevertToSnapshot
<1>3. UNCHANGED <<keeperVars, stateObjects, refund, logs, accessList, revisionVars>>
  BY DEF RevertToSnapshot
<1>4. CASE idx = n + 1 \/ validRevisions[idx].id # id
  <2>1. \A i \in 1 .. n : validRevisions[i].id # id
    BY <1>1, <1>2, <1>4 DEF SearchesTo, RevisionsNested
  <2>2. evm!Panic
    BY <1>1, <1>2, <1>3, <1>4, <2>1, PanicMaps
  <2> QED BY <2>2, ZenonT(30) DEF evm!Next
<1>5. CASE ~(idx = n + 1 \/ validRevisions[idx].id # id)
  <2>1. phase' = "reverting" /\ revertTo' = idx /\ idx \in 1 .. n
    BY <1>1, <1>2, <1>5
  <2>2. PICK old, T : /\ old = evmSnapshots /\ old = [i \in 1 .. n |-> Taken(i)]
                      /\ T = {Taken(i) : i \in 1 .. n}
    BY <1>1 DEF evmSnapshots, Taken
  <2>3. old \in Seq(T) /\ Len(old) = n
    BY <2>2
  <2>4. evmSnapshots' = [i \in 1 .. idx - 1 |-> Taken(i)]
    BY <1>3, <2>1 DEF evmSnapshots, Taken, EVMWorld, EVMAccount, revisionVars
  <2>5. evmSnapshots' = SubSeq(evmSnapshots, 1, idx - 1)
    BY <2>1, <2>2, <2>3, <2>4
  <2>6. evmWorld' = evmSnapshots[idx].world
    <3>1. evmWorld' = EVMWorld(saved[idx])
      BY <1>3, <2>1 DEF evmWorld, EVMWorld, EVMAccount, revisionVars
    <3>2. evmSnapshots[idx] = Taken(idx)
      BY <2>1, <2>2
    <3> QED BY <3>1, <3>2 DEF Taken
  <2>7. evmWritten' = evmWritten /\ nextRevisionID' = nextRevisionID
    BY <1>3, <2>1 DEF evmWritten, revisionVars
  <2>8. evm!RevertToSnapshot(idx)
    BY <2>1, <2>5, <2>6, <2>7 DEF evm!RevertToSnapshot
  <2>9. idx \in DOMAIN evmSnapshots
    BY <2>1, <2>2
  <2> QED BY <2>8, <2>9, ZenonT(30) DEF evm!Next
<1> QED BY <1>4, <1>5

(* The turns of the loop do nothing that the EVM sees.                     *)
LEMMA RevertEntryMaps ==
  ASSUME RevertEntry, phase' # "fault"
  PROVE  UNCHANGED evm!vars
<1>1. /\ phase = "reverting" /\ phase' = "reverting"
      /\ UNCHANGED <<validRevisions, nextRevisionID, saved, revertTo>>
  BY DEF RevertEntry, revisionVars
<1>2. evmWorld' = evmWorld /\ evmSnapshots' = evmSnapshots /\ evmWritten' = evmWritten
  BY <1>1 DEF evmWorld, evmSnapshots, evmWritten, EVMWorld, EVMAccount
<1> QED BY <1>1, <1>2 DEF evm!vars

(* The loop ends in the world that the snapshot saw.                       *)
LEMMA RevertDoneMaps ==
  ASSUME TypeInv, NEW S, saved \in Seq(S), Len(saved) = Len(validRevisions),
         revertTo \in 1 .. Len(validRevisions), RevertDone, World' = saved[revertTo]
  PROVE  UNCHANGED evm!vars
<1>1. PICK n \in Nat : n = revertTo - 1 /\ n <= Len(validRevisions)
  BY DEF TypeInv, TypeOK
<1>2. phase = "reverting" /\ phase' = "running" /\ nextRevisionID' = nextRevisionID
  BY DEF RevertDone
<1>3. Len(validRevisions') = n /\ \A i \in 1 .. n : validRevisions'[i] = validRevisions[i]
  BY <1>1 DEF RevertDone, TypeInv, TypeOK
<1>4. \A i \in 1 .. n : saved'[i] = saved[i]
  BY <1>1 DEF RevertDone
<1>5. evmSnapshots = [i \in 1 .. n |-> Taken(i)]
  BY <1>1, <1>2 DEF evmSnapshots, Taken
<1>6. evmSnapshots' = [i \in 1 .. n |-> Taken(i)']
  BY <1>2, <1>3 DEF evmSnapshots, Taken, EVMWorld, EVMAccount
<1>7. \A i \in 1 .. n : Taken(i)' = Taken(i)
  BY <1>3, <1>4, ZenonT(20) DEF Taken, EVMWorld, EVMAccount
<1>8. PICK seen : seen = saved[revertTo] /\ World' = seen
  BY ZenonT(30)
<1>9. evmWorld = EVMWorld(seen) /\ evmWorld' = EVMWorld(seen)
  BY <1>2, <1>8 DEF evmWorld, EVMWorld, EVMAccount
<1>10. evmWritten' = evmWritten
  BY <1>2 DEF evmWritten
<1> QED BY <1>2, <1>5, <1>6, <1>7, <1>9, <1>10 DEF evm!vars

(* Commit works on what the getters answered when it was called.           *)
SeenInv ==
  phase \in {"committing", "committed"} =>
    \A a \in Addr : saved[1].accounts[a] \in accountView \cup {NoAccount}

(* It stays so: saved[1] is written when Commit is called.                 *)
LEMMA SeenKept ==
  ASSUME TypeInv, SeenInv, [Next]_vars
  PROVE  SeenInv'
<1>1. CASE Commit
  <2>1. PICK seen : seen = World
    BY ZenonT(30)
  <2>2. \A a \in Addr : seen.accounts[a] \in accountView \cup {NoAccount}
    <3> SUFFICES ASSUME NEW a \in Addr
                 PROVE  seen.accounts[a] \in accountView \cup {NoAccount}
      OBVIOUS
    <3>1. seen.accounts[a] = AccountView(a, getStateObject(a))
      BY <2>1 DEF World
    <3>2. CASE getStateObject(a) = NoObject
      BY <3>1, <3>2 DEF AccountView
    <3>3. CASE getStateObject(a) # NoObject
      BY <3>1, <3>3, GetObjectType, ViewType
    <3> QED BY <3>2, <3>3
  <2>3. saved'[1] = seen
    BY <1>1, <2>1 DEF Commit
  <2> QED BY <2>2, <2>3 DEF SeenInv
<1>2. CASE \E a \in Addr : CommitAccount(a)
  BY <1>2 DEF CommitAccount, SeenInv, revisionVars
<1>3. CASE saved' = saved /\ (phase' = phase \/ phase = "committing")
  BY <1>3 DEF SeenInv
<1>4. CASE phase' \notin {"committing", "committed"}
  BY <1>4 DEF SeenInv
<1> QED BY <1>1, <1>2, <1>3, <1>4, OnlyCommitWrites

(* Commit ends the snapshots.                                              *)
LEMMA CommitMaps ==
  ASSUME Commit
  PROVE  evm!Commit
<1>1. PICK seen : seen = World
  BY ZenonT(30)
<1>2. phase = "running" /\ phase' = "committing" /\ saved'[1] = seen
      /\ nextRevisionID' = nextRevisionID
  BY <1>1 DEF Commit
<1>3. evmWorld = EVMWorld(seen) /\ evmWorld' = EVMWorld(seen)
  BY <1>1, <1>2 DEF evmWorld, EVMWorld, EVMAccount
<1>4. evmSnapshots' = << >> /\ evmWritten' = evmWritten
  BY <1>2 DEF evmSnapshots, evmWritten
<1> QED BY <1>2, <1>3, <1>4 DEF evm!Commit

(* A turn of the loop of Commit shows only when it fails.                  *)
LEMMA CommitAccountMaps ==
  ASSUME NEW a \in Addr, CommitAccount(a), phase' # "fault"
  PROVE  evm!Write \/ UNCHANGED evm!vars
<1>1. /\ phase = "committing" /\ phase' \in {"committing", "failed"}
      /\ UNCHANGED <<validRevisions, nextRevisionID, saved, revertTo>>
  BY DEF CommitAccount, DeleteAccount, WriteObject, revisionVars
<1>2. evmWorld' = evmWorld /\ evmSnapshots' = evmSnapshots /\ evmWritten' = evmWritten
  <2>1. evmWorld' = evmWorld
    BY <1>1 DEF evmWorld, EVMWorld, EVMAccount
  <2>2. evmSnapshots = << >> /\ evmSnapshots' = << >>
    BY <1>1 DEF evmSnapshots
  <2>3. evmWritten' = evmWritten
    BY <1>1 DEF evmWritten
  <2> QED BY <2>1, <2>2, <2>3
<1>3. CASE phase' = "committing"
  BY <1>1, <1>2, <1>3 DEF evm!vars
<1>4. CASE phase' = "failed"
  BY <1>1, <1>2, <1>4 DEF evm!Write
<1> QED BY <1>1, <1>3, <1>4

(* When the loop is done the keeper holds what the getters answered.       *)
LEMMA CommitDoneMaps ==
  ASSUME CommitDone, CommitInv', SeenInv'
  PROVE  evm!Write
<1>1. PICK seen : seen = saved[1]
  BY ZenonT(30)
<1>2. /\ phase = "committing" /\ phase' = "committed" /\ pending' = {}
      /\ UNCHANGED <<keeperVars, validRevisions, nextRevisionID, saved>>
  BY DEF CommitDone, revisionVars
<1>3. evmWorld = EVMWorld(seen) /\ evmWorld' = EVMWorld(seen)
  BY <1>1, <1>2 DEF evmWorld, EVMWorld, EVMAccount
<1>4. evmSnapshots' = evmSnapshots
  BY <1>2 DEF evmSnapshots, EVMWorld, EVMAccount
<1>5. \A a \in Addr : Written(a, seen.accounts[a])' /\ seen.accounts[a] \in accountView \cup {NoAccount}
  BY <1>1, <1>2 DEF CommitInv, SeenInv
<1>6. ASSUME NEW a \in Addr, NEW acct, acct = evmWorld.accounts[a]
      PROVE  (IF accounts'[a] = NoAccount THEN NoAccount ELSE KeeperView(a)') =
               IF acct = NoAccount THEN NoAccount ELSE IF acct.suicided THEN NoAccount
               ELSE [nonce |-> acct.nonce, balance |-> acct.balance, state |-> acct.state]
  <2>1. PICK v : v = seen.accounts[a] /\ acct = EVMAccount(v)
    BY <1>3, <1>6 DEF EVMWorld
  <2>2. Written(a, v)' /\ v \in accountView \cup {NoAccount}
    BY <1>5, <2>1
  <2>3. CASE v = NoAccount
    BY <2>1, <2>2, <2>3 DEF Written, EVMAccount
  <2>4. CASE v # NoAccount
    <3>1. /\ acct \in evmAccount /\ acct.nonce = v.nonce /\ acct.balance = v.balance
          /\ acct.suicided = v.suicided /\ acct.state = v.state
      BY <2>1, <2>2, <2>4 DEF EVMAccount, accountView, evmAccount
    <3>2. acct # NoAccount
      BY <3>1, EVMAccountAssumption
    <3>3. CASE v.suicided
      BY <2>2, <3>1, <3>2, <3>3, ZenonT(30) DEF Written
    <3>4. CASE ~v.suicided
      <4>1. accounts'[a] # NoAccount
            /\ KeeperView(a)' = [nonce |-> v.nonce, balance |-> v.balance, state |-> v.state]
        BY <2>2, <2>4, <3>4, ZenonT(30) DEF Written
      <4> QED BY <3>1, <3>2, <3>4, <4>1, ZenonT(30)
    <3> QED BY <3>3, <3>4
  <2> QED BY <2>3, <2>4
<1>7. evmWritten' = [a \in Addr |-> IF accounts'[a] = NoAccount THEN NoAccount ELSE KeeperView(a)']
  BY <1>2, ZenonT(30) DEF evmWritten
<1>8. evmWritten' = [a \in Addr |->
        LET acct == evmWorld.accounts[a]
        IN IF acct = NoAccount THEN NoAccount ELSE IF acct.suicided THEN NoAccount
           ELSE [nonce |-> acct.nonce, balance |-> acct.balance, state |-> acct.state]]
  BY <1>6, <1>7, ZenonT(30)
<1> QED BY <1>2, <1>3, <1>4, <1>8 DEF evm!Write

(* Nothing changes for the EVM when nothing changes.                       *)
LEMMA StutterMaps ==
  ASSUME UNCHANGED vars
  PROVE  UNCHANGED evm!vars
<1>1. PICK seen : seen = World /\ World' = seen
  <2>1. UNCHANGED <<keeperVars, stateObjects, refund, logs, accessList>>
    BY DEF vars, keeperVars
  <2> QED BY <2>1, WorldChange DEF World
<1>2. UNCHANGED <<phase, revertTo, validRevisions, nextRevisionID, saved, accounts, storage>>
  BY DEF vars
<1>3. evmWorld' = evmWorld
  BY <1>1, <1>2 DEF evmWorld, EVMWorld, EVMAccount
<1>4. evmSnapshots' = evmSnapshots /\ evmWritten' = evmWritten
  BY <1>2 DEF evmSnapshots, evmWritten, EVMWorld, EVMAccount, KeeperView, keeperState
<1> QED BY <1>2, <1>3, <1>4 DEF evm!vars

-----------------------------------------------------------------------------
(* Initial states, and the calls together.                                 *)

(* The world a new StateDB shows is one EVMState starts from.              *)
LEMMA InitMaps ==
  ASSUME Init
  PROVE  evm!Init
<1>1. TypeInv /\ phase = "running"
  BY InitType DEF Init
<1>2. ASSUME NEW a \in Addr
      PROVE  evm!Initial(EVMAccount(AccountView(a, getStateObject(a))))
  <2>1. stateObjects[a] = NoObject
    BY DEF Init
  <2>2. CASE accounts[a] = NoAccount
    BY <2>1, <2>2 DEF getStateObject, AccountView, EVMAccount, evm!Initial
  <2>3. CASE accounts[a] # NoAccount
    <3>1. PICK g : g = accounts[a] /\ g \in Genesis /\ g \in Account
      BY <2>3, GenesisAssumption DEF Init
    <3>2. PICK obj \in Object : obj = newObject(g) /\ obj = getStateObject(a)
      BY <2>1, <2>3, <3>1, NewObjectType, ZenonT(30) DEF getStateObject
    <3>3. /\ obj.nonce = g.nonce /\ obj.balance = g.balance /\ obj.codeHash = g.codeHash
          /\ obj.code = NoCode /\ obj.suicided = FALSE
          /\ \A k \in Key : obj.origin[k] = NoValue /\ obj.dirty[k] = NoValue
      BY <3>1, <3>2, NewObjectFields, ZenonT(30)
    <3>4. CodeOf(obj) = g.codeHash
      <4>1. g.codeHash \in codes \cup {NoCode}
        BY <2>3, <3>1 DEF Init
      <4> QED BY <3>3, <4>1 DEF CodeOf, keeperCode
    <3>5. PICK s : s = [k \in Key |-> keeperState(a, k)]
      BY ZenonT(30)
    <3>6. s \in [Key -> Value] /\ (g.codeHash = NoCode => s = [k \in Key |-> ZeroHash])
      <4>1. \A k \in Key : storage[a][k] \in Word
        BY DEF Init
      <4>2. \A k \in Key : keeperState(a, k) \in Value
        BY <4>1, ValueAssumption DEF keeperState, Word
      <4>3. g.codeHash = NoCode => \A k \in Key : keeperState(a, k) = ZeroHash
        BY <3>1 DEF Init, keeperState
      <4> QED BY <3>5, <4>2, <4>3
    <3>7. /\ [k \in Key |-> GetState(a, obj, k)] = s
          /\ [k \in Key |-> GetCommittedState(a, obj, k)] = s
      BY <3>3, <3>5 DEF GetState, GetCommittedState
    <3>8. EVMAccount(AccountView(a, obj)) =
            [nonce |-> g.nonce, balance |-> g.balance, code |-> g.codeHash,
             suicided |-> FALSE, state |-> s, committed |-> s]
      BY <1>1, <3>3, <3>4, <3>7, EVMFields, ZenonT(30)
    <3> QED BY <3>1, <3>2, <3>6, <3>8 DEF evm!Initial, evm!zeroState
  <2> QED BY <2>2, <2>3
<1>3. PICK acc : /\ acc = [a \in Addr |-> EVMAccount(AccountView(a, getStateObject(a)))]
                 /\ evmWorld = [accounts |-> acc, refund |-> refund, logs |-> logs,
                                warm |-> Warm(accessList)]
  BY <1>1 DEF evmWorld, EVMWorld, World
<1>4. Warm(accessList) = {} /\ refund = 0 /\ logs = << >>
  BY DEF Init, newAccessList, Warm, Contains, ContainsAddress, Absent
<1>5. evmSnapshots = << >>
  BY <1>1 DEF evmSnapshots, Init
<1>6. evmWritten = Unwritten
  BY <1>1 DEF evmWritten
<1>7. \A a \in Addr : evm!Initial(evmWorld.accounts[a])
  BY <1>2, <1>3
<1>8. evmWorld = [accounts |-> [a \in Addr |-> evmWorld.accounts[a]],
                  refund |-> 0, logs |-> << >>, warm |-> {}]
  BY <1>3, <1>4
<1> QED BY <1>1, <1>5, <1>6, <1>7, <1>8 DEF evm!Init, Init

(* The calls on an account.                                                *)
LEMMA AccountStepMaps ==
  ASSUME TypeInv, NoOrphanStorage, HashesStored, NEW a \in Addr,
         stateObjects[a] # NoObject => Sound(a, stateObjects[a]), AccountStep(a)
  PROVE  evm!Next \/ UNCHANGED evm!vars
<1>1. phase = "running"
  BY ZenonT(30) DEF AccountStep, ReadAccount, ReadCode, ReadState, ReadCommittedState, CreateAccount,
               AddBalance, SubBalance, SetNonce, SetCode, SetState, Suicide
<1>2. CASE \/ ReadAccount(a) \/ ReadCode(a)
           \/ \E k \in Key : ReadState(a, k) \/ ReadCommittedState(a, k)
  BY <1>1, <1>2, ReadMaps, ZenonT(30)
<1>3. CASE CreateAccount(a)
  BY <1>1, <1>3, CreateMaps, ZenonT(30) DEF evm!Next
<1>4. CASE Suicide(a)
  BY <1>1, <1>4, SuicideMaps, ZenonT(30) DEF evm!Next
<1>5. CASE \E amount \in Amount : AddBalance(a, amount) \/ SubBalance(a, amount)
  BY <1>1, <1>5, SetterMaps, ZenonT(30) DEF evm!Next
<1>6. CASE \E n \in Nonce : SetNonce(a, n)
  BY <1>1, <1>6, SetterMaps, ZenonT(30) DEF evm!Next
<1>7. CASE \E c \in CodeHash : SetCode(a, c)
  BY <1>1, <1>7, SetterMaps, ZenonT(30) DEF evm!Next, CodeHash
<1>8. CASE \E k \in Key, v \in Value : SetState(a, k, v)
  BY <1>1, <1>8, SetterMaps, ZenonT(30) DEF evm!Next
<1> QED BY <1>2, <1>3, <1>4, <1>5, <1>6, <1>7, <1>8, ZenonT(30) DEF AccountStep

-----------------------------------------------------------------------------
(* The restart from an export.                                             *)

(* What InitGenesis reads back of the words of an account.                 *)
LEMMA WordsReadBack ==
  ASSUME TypeOK, NEW a \in EthAccounts, NEW k \in Key
  PROVE  /\ \A v \in Value : <<k, v>> \in GetAccountStorage(a) <=> v = storage[a][k]
         /\ storage[a][k] \in Value \cup {NoValue}
         /\ storage[a][k] = NoValue => \A v \in Value : <<k, v>> \notin GetAccountStorage(a)
<1>1. a \in Addr /\ storage[a][k] \in Value \cup {NoValue}
  BY DEF EthAccounts, TypeOK, Word
<1>2. ASSUME NEW v PROVE <<k, v>> \in GetAccountStorage(a) <=> storage[a][k] # NoValue /\ v = storage[a][k]
  BY DEF GetAccountStorage
<1> QED BY <1>1, <1>2, ValueAssumption

(* InitGenesis builds the words that were exported.                        *)
LEMMA StorageReadBack ==
  ASSUME TypeOK, NoOrphanStorage, NEW a \in Addr
  PROVE  InitStorage(ExportGenesis)[a] =
           IF accounts[a] # NoAccount /\ ~accounts[a].eth THEN [k \in Key |-> NoValue]
           ELSE storage[a]
<1>1. DOMAIN ExportGenesis = EthAccounts
  BY DEF ExportGenesis
<1>2. PICK S : S = InitStorage(ExportGenesis)[a]
  OBVIOUS
<1>3. CASE a \in EthAccounts
  <2>1. PICK W : W = GetAccountStorage(a) /\ W = ExportGenesis[a].storage
    BY <1>3 DEF ExportGenesis
  <2>2. S = [k \in Key |-> IF \E v \in Value : <<k, v>> \in W
                           THEN CHOOSE v \in Value : <<k, v>> \in W ELSE NoValue]
    BY <1>1, <1>2, <1>3, <2>1 DEF InitStorage
  <2>3. ASSUME NEW k \in Key
        PROVE  (IF \E v \in Value : <<k, v>> \in W
                THEN CHOOSE v \in Value : <<k, v>> \in W ELSE NoValue) = storage[a][k]
    <3>1. /\ \A v \in Value : <<k, v>> \in W <=> v = storage[a][k]
          /\ storage[a][k] \in Value \cup {NoValue}
          /\ storage[a][k] = NoValue => \A v \in Value : <<k, v>> \notin W
      BY <1>3, <2>1, WordsReadBack
    <3> QED BY <3>1
  <2>4. storage[a] \in [Key -> Value \cup {NoValue}]
    BY DEF TypeOK, Word
  <2>5. S = storage[a]
    BY <2>2, <2>3, <2>4
  <2> QED BY <1>2, <1>3, <2>5 DEF EthAccounts
<1>4. CASE a \notin EthAccounts
  <2>1. S = [k \in Key |-> NoValue]
    BY <1>1, <1>2, <1>4 DEF InitStorage
  <2> QED BY <1>2, <1>4, <2>1 DEF EthAccounts, NoOrphanStorage
<1> QED BY <1>3, <1>4

(* InitGenesis panics only over code that went with a destroyed account.   *)
LEMMA PanicsOverCode ==
  ASSUME CodeInv, phase = "committed", InitPanics(ExportGenesis)
  PROVE  CodeDeleted
<1>1. PICK b \in EthAccounts : accounts[b].codeHash # keeperCode(accounts[b].codeHash)
  BY DEF InitPanics, ExportGenesis, EthAccounts
<1>2. accounts[b].codeHash \notin codes \cup {NoCode} /\ b \in Addr /\ accounts[b] # NoAccount
  BY <1>1 DEF keeperCode, EthAccounts
<1>3. ~NoneSuicided
  BY <1>2 DEF CodeInv, HashesStored, Stored
<1> QED BY <1>1, <1>2, <1>3 DEF NoneSuicided, CodeDeleted

(* InitGenesis stores the code that an account has.                        *)
LEMMA CodesReadBack ==
  ASSUME TypeOK
  PROVE  InitCodes(ExportGenesis) = codes \cap {accounts[a].codeHash : a \in EthAccounts}
<1>1. NoCode \notin codes
  BY CodeAssumption DEF TypeOK
<1>2. InitCodes(ExportGenesis) = {keeperCode(accounts[a].codeHash) : a \in EthAccounts} \ {NoCode}
  BY DEF InitCodes, ExportGenesis
<1> QED BY <1>1, <1>2 DEF keeperCode

=============================================================================
