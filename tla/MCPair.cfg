SPECIFICATION Spec
CONSTANTS
  a = a
  b = b
  c = c
  ab = ab
  bc = bc
  Node = {a, b}
  Link = {ab}
  NoLink = NoLink
  Attached <- PairAttached
  Id <- PairIds
  CalcMod = 8
  HalfRange = 4
  WordMod = 64
  UlnMinInterval = 1
  UlnMaxInterval = 1
  HeuristicMaxWait = 1
  DiscMaxRetries = 1
  QueryMaxRetries = 1
  MaxParallelResync = 2
  MaxSSN = 9
  MaxNonce = 1
  MaxMsgs = 2
  MaxHooks = 2
  MaxHelloHooks = 2
  Flapping <- AllInterfaces
  MaxFlaps = 1
  MaxRestarts = 0
INVARIANTS
  SyncedNeverAhead
  
  BidirectionalHasContact
  HelloKeepsRunning
PROPERTY NeighborChangeBumpsSSN
