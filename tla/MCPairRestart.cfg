SPECIFICATION FairSpec
CONSTANTS
  a = a
  b = b
  c = c
  ab = ab
  bc = bc
  Node = {a, b}
  Link = {ab}
  NoLink = NoLink
  Attached <- PairAttached
  Id <- PairIds
  CalcMod = 8
  HalfRange = 4
  WordMod = 64
  UlnMinInterval = 1
  UlnMaxInterval = 2
  HeuristicMaxWait = 1
  DiscMaxRetries = 0
  QueryMaxRetries = 1
  MaxParallelResync = 2
  MaxSSN = 9
  MaxNonce = 1
  MaxMsgs = 1
  MaxHooks = 1
  MaxHelloHooks = 1
  Flapping <- AllInterfaces
  MaxFlaps = 0
  MaxRestarts = 1
PROPERTY Resynchronises
