SPECIFICATION Spec
CONSTANTS
  DataLength = 2
  MaxLength = 5
  BufferCap = 9
  MaxConns = 2
  MaxId = 3
  ArenaCap = 3
CHECK_DEADLOCK FALSE
INVARIANTS
  StreamInv
PROPERTIES
  PacketsRight
  ClientsServed
  ShutdownEnds
