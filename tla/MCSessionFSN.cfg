SPECIFICATION Spec
CONSTANTS
  d1 = d1  d2 = d2  s1 = s1  s2 = s2  c1 = c1  m1 = m1
  Dials <- OneDial
  Sends <- MCSends
  Guarded = {}
  Closes = {}
  MACs <- MCMACs
  NoMAC = NoMAC
  None = None
  FSNLimit = 8
INVARIANT PairedWithOriginator
