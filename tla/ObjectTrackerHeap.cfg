SPECIFICATION Spec
CONSTANTS
  c1 = c1
  Classes <- OneClass
  LastAddress = 3
  OldestGen = 1
  Collected <- Oldest
  Shifts <- NoShift
  LateCallbacks = FALSE
  MaxObjects = 4
  MaxUnsized = 1
  MaxGC = 3
INVARIANTS TracksTheHeap UntilIsLastSurvived RecordsAreWritten
CHECK_DEADLOCK FALSE
