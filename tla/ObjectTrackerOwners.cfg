SPECIFICATION FairSpec
CONSTANTS
  c1 = c1
  Classes <- OneClass
  LastAddress = 3
  OldestGen = 1
  Collected <- AnyGen
  Shifts <- AnyWay
  LateCallbacks = TRUE
  MaxObjects = 3
  MaxUnsized = 0
  MaxGC = 2
INVARIANTS TypeOK OneOwner NoUseAfterDelete TrackedAreStamped
PROPERTY CollectionsFinish
CHECK_DEADLOCK FALSE
