SPECIFICATION Spec
CONSTANTS
  Addr = {1}
  Key = {"k1"}
  Value = {"zero", "v1"}
  ZeroHash = "zero"
  NoValue = NoValue
  Code = {"c1"}
  NoCode = "none"
  NoAccount = NoAccount
  NoObject = NoObject
  Unwritten = Unwritten
  Amount = {0, 1}
  Nonce = {2}
  Gas = {1}
  Log = {}
  Blocked = {1}
  Genesis <- MCGenesis
  MaxEntries = 3
  MaxRevisions = 2
CHECK_DEADLOCK FALSE
INVARIANTS
  JournalConsistent
  CommitWritesCode
  GenesisRoundTrip
PROPERTIES
  ImplementsEVMState
