CONSTANTS
  u = u
  v = v
  Contact = {u, v}
  Parallelism = 2
  MaxRetryRounds = 1
  MaxFailures = 3
  MaxDisturbances = 1
SPECIFICATION FairSpec
CHECK_DEADLOCK FALSE
INVARIANTS FailuresAreHandled RequestsBounded FirstHopIsNeighbor RediscoveryIsDriven
PROPERTY RediscoveryEnds
