SPECIFICATION Spec
CONSTANTS
  Threads = {1, 2}
  Functions = {1}
  Settings <- Values
  Profiled <- EveryAssembly
  Remains <- Leftovers
  ValueSize = 5
INVARIANTS TypeOK EntriesAreTheNames ReachedAreWanted RefusedStayOut HooksAreTransparent StubsAreCalledWell
CHECK_DEADLOCK FALSE
