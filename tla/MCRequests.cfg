CONSTANTS
  MaxNoise = 2
  MaxPayload = 4096
  Earbuds <- MCEarbuds
  ModelOf <- MCModelOf
  Settings <- MCSettings
  Layout = "length"
  Named = {"e3"}
  AllowUnsafe = FALSE
  Asks <- MCAsks
  News <- MCNews
  MaxEvents = 3
  MaxAsks = 1
  MaxLinks = 2
  MaxInFlight = 2
SPECIFICATION FairSpec
INVARIANTS
  TypeOK
  ShownWasReported
  QuietAgrees
  OnlyAllowedTraffic
PROPERTIES
  WalkieNeedsSuperMic
  ConnectionIsProbed
CHECK_DEADLOCK FALSE
