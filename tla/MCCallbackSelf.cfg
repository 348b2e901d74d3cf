\* Callbacks that unregister themselves.
CONSTANTS
  Threads = {t1, t2}
  Main = t1
  NoThread = NoThread
  MAX_CALLBACKS = 2
  Names = {n1, n2, n3}
  NoName = NoName
  Priorities = {1, 5}
  MaxId = 3
  MaxCalls = 5
  NestedOps = {"unregister"}
  UnregisterRunning = TRUE
SPECIFICATION Spec
CHECK_DEADLOCK FALSE
INVARIANTS
  PassComplete
