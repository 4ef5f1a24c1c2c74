SPECIFICATION Spec
CONSTANTS
  f = f
  g = g
  u = u
  Threads = {1, 2}
  Functions = {f, u}
  Traced = {f}
  Mode = 1
  Throws = TRUE
  LateCallbacks = TRUE
  MaxCalls = 3
  MaxDepth = 2
  MaxTime = 1
INVARIANTS WrittenOnce TreeWellFormed
CHECK_DEADLOCK FALSE
