SPECIFICATION Spec
CONSTANTS
  s1 = s1  c1 = c1  d1 = d1  f1 = f1  f2 = f2  m1 = m1  m2 = m2
  Sets = {s1}
  Connects = {c1}
  Disconnects = {}
  Finds = {}
  Window <- MCWindow
  Ticker = Ticker
  AutoConnect = TRUE
  InitialDevice = NoMAC
  MACs = {m1, m2}
  NoMAC = NoMAC
  Target <- MCTarget
  None = None
  QueueLimit = 2
  MaxLinks = 2
INVARIANTS
  TypeOK
  CountersMatch
  BackgroundYields
  ReachesAskedDevice
  ChangeNoticed
  ReadbackOnSameLink
CHECK_DEADLOCK FALSE
