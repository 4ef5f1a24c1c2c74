SPECIFICATION FairSpec
CONSTANTS
  f = f
  g = g
  u = u
  Threads = {1}
  Functions = {f, u}
  Traced = {f}
  Mode = 1
  Throws = TRUE
  LateCallbacks = FALSE
  MaxCalls = 4
  MaxDepth = 3
  MaxTime = 2
INVARIANTS TreeWellFormed OrdersUnique OpenCallsFormChain IntervalsNest NoFault
PROPERTIES FinishedCallsFrozen ImplementsForest ShutdownCompletes
CHECK_DEADLOCK FALSE
