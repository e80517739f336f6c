SPECIFICATION Spec
CONSTANTS
  f1 = f1  f2 = f2  c1 = c1  d1 = d1  d2 = d2
  Finds <- OneFind
  Closes = {}
  Dials <- OneDial
  None = None
  MaxAge = 1
  StatusWait = 1
  Duration = 1
  Grace = 1
INVARIANT FailedStartIsStopped
