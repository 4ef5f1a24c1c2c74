SPECIFICATION Spec
CONSTANTS
  Threads = {1, 2}
  Functions = {1, 2}
  Settings <- NoNames
  Profiled <- OneAssembly
  Remains <- Leftovers
  ValueSize = 5
INVARIANT MappedHaveRecords
CHECK_DEADLOCK FALSE
