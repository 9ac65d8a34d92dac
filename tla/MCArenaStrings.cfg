SPECIFICATION Spec
CONSTANTS
  Arenas = {1, 2}
  Cap = 5
  MaxCount = 2
  MaxStrings = 2
  MaxText = 2
  MaxDepth = 2
  FmtBuf = 3
CONSTRAINTS
  UntilMisused
  RegisteredInOrder
CHECK_DEADLOCK FALSE
INVARIANTS
  StringsInv
PROPERTIES
  ResultsKept
