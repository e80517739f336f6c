SPECIFICATION FairSpec
CONSTANTS
  p1 = p1  p2 = p2  p3 = p3  p4 = p4  l1 = l1
  Publishes <- MCPublishes
  Priority <- MCPriority
  Listeners <- MCListeners
  Capacity = 2
  None = None
INVARIANTS
  TypeOK
  NothingMissed
PROPERTIES
  ViewCatchesUp
CHECK_DEADLOCK FALSE
