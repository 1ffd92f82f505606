SPECIFICATION SettledSpec
CONSTANTS
  a = a
  b = b
  c = c
  ab = ab
  bc = bc
  Node = {a, b, c}
  Link = {ab, bc}
  NoLink = NoLink
  Attached <- LineAttached
  Id <- LineIds
  CalcMod = 8
  HalfRange = 4
  WordMod = 64
  UlnMinInterval = 1
  UlnMaxInterval = 1
  HeuristicMaxWait = 1
  DiscMaxRetries = 0
  QueryMaxRetries = 1
  MaxParallelResync = 2
  MaxSSN = 9
  MaxNonce = 1
  MaxMsgs = 1
  MaxHooks = 1
  MaxHelloHooks = 1
  Flapping <- FarInterface
  MaxFlaps = 1
  MaxRestarts = 0
INVARIANTS
  KnowledgeIsReal
  SyncedMeansAccurate
