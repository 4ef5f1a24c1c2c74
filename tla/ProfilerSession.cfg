SPECIFICATION Spec
CONSTANTS
  f1 = f1
  Functions <- OneFunction
  Modes <- AnyMode
  Overtakes <- SometimesLate
  MaxRefs = 2
  MaxObjects = 1
  MaxGC = 3
INVARIANTS
  TypeOK HeldIsCounted GlobalIsAlive OrderlyLog DocumentIsComplete
  EveryFunctionIsNamed CollectionsArePaired
CHECK_DEADLOCK FALSE
