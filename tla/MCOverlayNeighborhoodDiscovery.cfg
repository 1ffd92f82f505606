SPECIFICATION Spec
CONSTANTS
  x = x
  u = u
  v = v
  xu = xu
  xv = xv
  lossy = lossy
  Contact = {x}
  Path = {xu, xv}
  Link = {lossy}
  Neighbor = {u, v}
  Dest <- MCDest
  FirstHop <- MCFirstHop
  LinksOf <- MCLinksOf
  Rank <- MCRank
  Nonce = {n1, n2}
  ProbesPerBucket = 1
  None = None
  MaxReports = 2
  MaxFaults = 1
  SilentFailures = FALSE
  Distance <- MCDistance
  JoinContacts = 3
  MaxRetries = 2
INVARIANTS  ScheduledIsDriven  
PROPERTY BrokenPathIsNoticed
CHECK_DEADLOCK FALSE
