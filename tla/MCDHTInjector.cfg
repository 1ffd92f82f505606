SPECIFICATION FairSpec
CONSTANTS
  Store = {s, t}
  Restore = {s}
  Fetch = {f}
  Nonce = {n1, n2}
  Node = {c, d}
  None = None
  MaxRestores = 1
INVARIANTS NoOrphanCallback RestoreIsArmed
PROPERTIES ImplementsService
CHECK_DEADLOCK FALSE
