SPECIFICATION FairSpec
CONSTANTS
  d1 = d1  d2 = d2  s1 = s1  s2 = s2  c1 = c1  m1 = m1
  Dials <- MCDials
  Sends <- OneSend
  Guarded = {}
  Closes <- MCCloses
  MACs <- MCMACs
  NoMAC = NoMAC
  None = None
  FSNLimit = 2
PROPERTIES
  DeadLinkReported
  CallsReturn
