SPECIFICATION Spec
CONSTANTS
  BufCount = 4
  MaxFill = 2
INVARIANTS
  PipeInv
  Exclusion
