SPECIFICATION Spec
CONSTANTS
  BITS = 3
  ACC = 1
  Group = 1
  BUCKET_SIZE = 1
  XorOf <- MCXorOf
  Root = 0
  Contacts = {1, 2, 4, 6}
  Adjacent = {2}
  PathSizes = {1, 2, 3}
  MaxEvents = 2
  Unresolved = {1}
  MaxErrors = 1
INVARIANTS Placement ClosestByPrefix NextHopProgress EntriesFollowTable PrefixesAreRecorded
CHECK_DEADLOCK FALSE
