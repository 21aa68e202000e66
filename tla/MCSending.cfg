\* Two requests, two senders, a page of two transactions.
SPECIFICATION Spec
CONSTANTS
  Account = {a1, a2}
  Caller = {c1, c2}
  None = None
  PerPage = 2
  MaxNonce = 2
SYMMETRY Symmetry
INVARIANTS
  
  NonceNeverAhead
  
  
CHECK_DEADLOCK FALSE
