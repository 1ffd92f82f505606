SPECIFICATION Spec
CONSTANTS
  a = a
  b = b
  c = c
  k = k
  Node = {a, b, c}
  Client = {a}
  Key = {k}
  Value = {v}
  Distance <- MCDistance
  PrefixLen <- MCPrefixLen
  InitialContacts <- MCInitialContacts
  KeyValueTimeout = 1
  NoAge = NoAge
  MaxTime = 2
  MaxStores = 1
  MaxFetches = 1
  MaxFaults = 1
INVARIANTS  SoftStateEnds RouteGetsCloser 
 
CHECK_DEADLOCK FALSE
