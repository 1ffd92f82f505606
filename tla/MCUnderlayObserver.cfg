SPECIFICATION Spec
CONSTANTS
  Interface = {eth0}
  Address = {p, q}
  MaxCid = 2
  NoUlnid = NoUlnid
  NoNeighbor = NoNeighbor
  MaxUpdates = 4
  MaxInbox = 2
  MaxOutbox = 1
  MaxLinkUps = 2
INVARIANTS
  BaseConsistent
  
  InterfacesCatchUp
CHECK_DEADLOCK FALSE
