SPECIFICATION Spec
CONSTANTS
  f = f
  g = g
  u = u
  Threads = {1, 2}
  Functions = {f, u}
  Traced = {f}
  Mode = 0
  Throws = FALSE
  LateCallbacks = FALSE
  MaxCalls = 3
  MaxDepth = 2
  MaxTime = 2
INVARIANTS TypeOK TreeMirrorsStacks AllocationNamesACall LogIsTheForest NothingLeaks TreemapIsATree ObjectsAreCountedOnce
CHECK_DEADLOCK FALSE
