\* Callbacks that remove themselves, or others due at the same time.
CONSTANTS
  MaxTime = 2
  MaxHandle = 3
  SameSlot = TRUE
SPECIFICATION Spec
CHECK_DEADLOCK FALSE
INVARIANT
  ExecutesAllDue
