SPECIFICATION Spec
CONSTANTS
  Addr = {1, 2}
  Key = {"k1"}
  Value = {"zero"}
  ZeroHash = "zero"
  NoValue = NoValue
  Code = {}
  NoCode = "none"
  NoAccount = NoAccount
  NoObject = NoObject
  Unwritten = Unwritten
  Amount = {1}
  Nonce = {}
  Gas = {1}
  Log = {"l1"}
  Blocked = {2}
  Genesis <- MCUsers
  MaxEntries = 4
  MaxRevisions = 1
CHECK_DEADLOCK FALSE
INVARIANTS
  NoFault
  AccessListIndexed
  CommitWritesWorld
PROPERTIES
  RevertRestoresWorld
