SPECIFICATION FairTgSpec
CONSTANT GroupCount = 2
INVARIANTS
  TgInv
  CleanupAfterThreads
  ManagerAgrees
PROPERTY ProcessEnds
CHECK_DEADLOCK FALSE
