SPECIFICATION Spec
CONSTANTS
  Addr = {1, 2}
  Key = {"k1"}
  Value = {"zero", "v1"}
  ZeroHash = "zero"
  NoValue = NoValue
  Code = {"c1"}
  NoCode = "none"
  NoAccount = NoAccount
  NoObject = NoObject
  Unwritten = Unwritten
  Amount = {0, 1}
  Nonce = {2}
  Gas = {}
  Log = {}
  Blocked = {2}
  Genesis <- MCGenesis
  MaxEntries = 2
  MaxRevisions = 0
CHECK_DEADLOCK FALSE
INVARIANTS
  CommitKeepsCodeOfOthers
