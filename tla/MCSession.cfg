SPECIFICATION Spec
CONSTANTS
  d1 = d1  d2 = d2  s1 = s1  s2 = s2  c1 = c1  m1 = m1
  Dials <- MCDials
  Sends <- MCSends
  Guarded <- MCSends
  Closes <- MCCloses
  MACs <- MCMACs
  NoMAC = NoMAC
  None = None
  FSNLimit = 2
INVARIANTS
  TypeOK
  LiveStateOfCurrentLink
  PendingOnCurrentLink
PROPERTIES
  IdempotentConnect
  LinkLifeRefined
SYMMETRY Symmetry
