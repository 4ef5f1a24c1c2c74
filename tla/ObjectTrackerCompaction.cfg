SPECIFICATION Spec
CONSTANTS
  c1 = c1
  Classes <- OneClass
  LastAddress = 3
  OldestGen = 0
  Collected <- Oldest
  Shifts <- Down
  LateCallbacks = FALSE
  MaxObjects = 3
  MaxUnsized = 0
  MaxGC = 2
INVARIANT ReachableStayTracked
CHECK_DEADLOCK FALSE
