SPECIFICATION Spec
CONSTANTS
  m1 = m1  m2 = m2
  Devices = {m1, m2}
  NoDevice = NoDevice
  MaxChannel = 2
  DefaultChannel = 2
  Malformed = Malformed
  Absent = Absent
  Damaged = Damaged
  Legacy <- MCLegacy
  NotLoaded = NotLoaded
  LoadError = LoadError
  Serves <- MCServes
  SPP <- MCSPP
  Mode = "auto"
  NoNode = NoNode
  NoLink = NoLink
  MaxEvents = 2
INVARIANT
  RemembersWorkingChannel
