SPECIFICATION FairMbPgSpec
CONSTANTS
  BufCount = 3
  MaxFill = 2
  BreakOnCount = 5
  FailThreshold = 2
  MaxPackets = 5
INVARIANTS
  MbPgInv
  DeliveryUnlessStale
PROPERTIES
  HandedOverIsTaken
  ShutdownSettles
CHECK_DEADLOCK FALSE
