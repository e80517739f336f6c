SPECIFICATION Spec
CONSTANTS
  f1 = f1  f2 = f2  c1 = c1  d1 = d1  d2 = d2
  Finds <- MCFinds
  Closes <- MCCloses
  Dials <- MCDials
  None = None
  MaxAge = 1
  StatusWait = 1
  Duration = 1
  Grace = 1
INVARIANTS
  TypeOK
  RingsAskedLink
  NeverLeftRinging
PROPERTIES
  CloseWaitsForStop
  StartsOnFreshReading
SYMMETRY Symmetry
