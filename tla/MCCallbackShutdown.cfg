\* Shutdown while another thread is in a call.
CONSTANTS
  Threads = {t1, t2}
  Main = t1
  NoThread = NoThread
  MAX_CALLBACKS = 2
  Names = {n1, n2}
  NoName = NoName
  Priorities = {1, 5}
  MaxId = 2
  MaxCalls = 3
  NestedOps = {}
  UnregisterRunning = FALSE
SPECIFICATION Spec
CHECK_DEADLOCK FALSE
INVARIANTS
  DestroyedUnused
