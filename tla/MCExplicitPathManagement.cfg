SPECIFICATION Spec
CONSTANTS
  Paths <- MCPaths
  Unreliable <- MCUnreliable
  LinksOf <- MCLinksOf
  Link = {1, 2}
  VICINITY_RADIUS = 2
  MaxAge = 2
  CleanupInterval = 2
  MaxFaults = 2
  MaxQueue = 1
  LateHello = FALSE
INVARIANTS SoftStateEnds InstalledIsRecorded
 
