SPECIFICATION BenchSpec
CONSTANTS
  Cells = 9
  Threads = {t1, t2}
  PerThread = 2
  Confs <- MCConfs
  ArenaFns <- MCArenaFns
  MallocFns <- MCMallocFns
  Classes <- MCClasses
  SizesOf <- MCSizesOf
  Iterations = 2
  MaxFaults = 1
INVARIANTS
  SizesParsed
  BenchInv
  FilesRight
  ResultsPresent
PROPERTY NoOverwrite
