SPECIFICATION FairTestSpec
CONSTANTS
  BufCount = 3
  MaxFill = 2
  BreakOnCount = 9
  FailThreshold = 2
  TotalData = 9
INVARIANTS
  RowsInOrder
PROPERTIES
  EventuallyAllPassed
  ImplementsFifo
CHECK_DEADLOCK FALSE
