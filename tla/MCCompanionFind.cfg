SPECIFICATION FairSpec
CONSTANTS
  s1 = s1  c1 = c1  d1 = d1  f1 = f1  f2 = f2  m1 = m1  m2 = m2
  Sets = {}
  Connects = {}
  Disconnects = {d1}
  Finds = {f1, f2}
  Window <- MCWindow
  Ticker = Ticker
  AutoConnect = TRUE
  InitialDevice = NoMAC
  MACs = {m1}
  NoMAC = NoMAC
  Target <- MCTarget
  None = None
  QueueLimit = 1
  MaxLinks = 1
INVARIANTS
  SlotHeld
PROPERTIES
  BusyEnds
  ReconnectTried
CHECK_DEADLOCK FALSE
