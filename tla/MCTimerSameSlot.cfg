\* Callbacks that remove events due at the same time.
CONSTANTS
  MaxTime = 2
  MaxHandle = 3
  SameSlot = TRUE
SPECIFICATION FairSpec
CHECK_DEADLOCK FALSE
PROPERTY
  RemovedNeverExecuted
