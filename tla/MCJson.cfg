SPECIFICATION Spec
CONSTANTS
  MaxItems = 4
  MaxStrings = 2
  MaxAllocs = 4
  CJSON_NESTING_LIMIT = 2
  CJSON_CIRCULAR_LIMIT = 2
  NumberMax = 2
  Names <- MCNames
  Values <- MCValues
  Seeds <- MCSeeds
  Alphabet <- MCAlphabet
INVARIANTS
  HeapSound
  TreesSurvive
  PrintFits
  ParserExact
  MinifySame
CHECK_DEADLOCK FALSE
