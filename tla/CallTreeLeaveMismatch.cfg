SPECIFICATION Spec
CONSTANTS
  f = f
  g = g
  u = u
  Threads = {1}
  Functions = {f, g}
  Traced = {f, g}
  Mode = 1
  Throws = TRUE
  LateCallbacks = FALSE
  MaxCalls = 4
  MaxDepth = 2
  MaxTime = 1
INVARIANT LeaveFindsItsCall
CHECK_DEADLOCK FALSE
