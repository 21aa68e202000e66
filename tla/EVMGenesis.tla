----------------------------- MODULE EVMGenesis -----------------------------
(***************************************************************************)
(* x/evm/genesis.go: the state of the EVM module a chain is stopped with   *)
(* and started again from, over the keeper that StateDB commits to.  The   *)
(* auth and bank modules bring their accounts and balances themselves.     *)
(***************************************************************************)
EXTENDS StateDBRefinement

EthAccounts == {a \in Addr : accounts[a] # NoAccount /\ accounts[a].eth}

(* GetAccountStorage: the stored words, a stored zero among them.          *)
GetAccountStorage(a) == {<<k, storage[a][k]>> : k \in {j \in Key : storage[a][j] # NoValue}}

ExportGenesis_nonzero ==   \* faulty variant: without stored zeros
  [a \in EthAccounts |->
     [code |-> keeperCode(accounts[a].codeHash),
      storage |-> {s \in GetAccountStorage(a) : s[2] # ZeroHash}]]

ExportGenesis ==
  [a \in EthAccounts |->
     [code |-> keeperCode(accounts[a].codeHash), storage |-> GetAccountStorage(a)]]

(* InitGenesis on the accounts the auth module has: an account of another  *)
(* type or with another code hash is a panic.                              *)
InitPanics(data) ==
  \E a \in DOMAIN data :
    \/ accounts[a] = NoAccount \/ ~accounts[a].eth
    \/ accounts[a].codeHash # data[a].code

(* SetCode stores no empty code.                                           *)
InitCodes(data) == {data[a].code : a \in DOMAIN data} \ {NoCode}

InitStorage(data) ==
  [a \in Addr |-> [k \in Key |->
     IF a \in DOMAIN data /\ \E v \in Value : <<k, v>> \in data[a].storage
     THEN CHOOSE v \in Value : <<k, v>> \in data[a].storage ELSE NoValue]]

(* A suicided account has had the code of another account deleted.         *)
CodeDeleted ==
  \E a, b \in Addr :
    LET seen == saved[1].accounts
    IN /\ seen[a] # NoAccount /\ seen[a].suicided
       /\ b \in EthAccounts /\ accounts[b].codeHash \notin codes \cup {NoCode}

(* A chain stopped between transactions and started from its exported      *)
(* state: InitGenesis accepts what ExportGenesis wrote, and the store it   *)
(* builds is the store exported, word for word, but for code that no       *)
(* account has any more.  Only the words of accounts that are not          *)
(* EthAccounts are lost, and only shared code that went with a suicided    *)
(* account makes InitGenesis panic.                                        *)
GenesisRoundTrip ==
  phase = "committed" =>
    /\ InitPanics(ExportGenesis) => CodeDeleted
    /\ InitCodes(ExportGenesis) = codes \cap {accounts[a].codeHash : a \in EthAccounts}
    /\ \A a \in Addr :
         InitStorage(ExportGenesis)[a] =
           IF accounts[a] # NoAccount /\ ~accounts[a].eth THEN [k \in Key |-> NoValue]
           ELSE storage[a]

=============================================================================
