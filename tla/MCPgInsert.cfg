SPECIFICATION Spec
CONSTANTS
  Schemas <- MCSchemas
  MaxItems = 3
  MaxInserts = 3
  MaxFailures = 2
  ScratchCap = 40
  BufferCap = 25
  Garbage = 3
CHECK_DEADLOCK FALSE
INVARIANTS
  NothingHeldAfterPrepare
  PacketIsRow
  ResultIsTrue
