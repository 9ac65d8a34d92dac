SPECIFICATION Spec
SYMMETRY Interchangeable
CONSTANTS
  Root = root
  Arenas = {root, b1, b2}
  Cap = 3
  StructSize = 1
  MaxRequest = 4
  HalfMod = 16
INVARIANTS
  InsideMemory
  NoOverlap
  NothingLeaked
