SPECIFICATION Spec
CONSTANTS
  f = f
  g = g
  u = u
  Threads = {1}
  Functions = {f}
  Traced = {f}
  Mode = 0
  Throws = FALSE
  LateCallbacks = FALSE
  MaxCalls = 3
  MaxDepth = 2
  MaxTime = 1
INVARIANT AllocationNamesItsCall
CHECK_DEADLOCK FALSE
