SPECIFICATION MCSpec
SYMMETRY Interchangeable
CONSTRAINT Followed
CONSTANTS
  Procs = {p1, p2}
  NoProc = nobody
  SlotCount = 2
  Page = 2
  MaxRequest = 2
  MaxRegions = 3
CHECK_DEADLOCK FALSE
INVARIANTS
  KaInv
  ReleaseFreesAll
  OldBlocksBacked
