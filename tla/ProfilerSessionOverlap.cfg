SPECIFICATION Spec
CONSTANTS
  f1 = f1
  Functions <- OneFunction
  Modes <- ModeZero
  Overtakes <- AlwaysLate
  MaxRefs = 1
  MaxObjects = 1
  MaxGC = 2
INVARIANT LinesInTheirParts
CHECK_DEADLOCK FALSE
