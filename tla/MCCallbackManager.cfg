\* Two threads, two entries, callbacks that make every call but do not remove
\* callbacks that run.
\* A behaviour ends when the calls are used up.
CONSTANTS
  Threads = {t1, t2}
  Main = t1
  NoThread = NoThread
  MAX_CALLBACKS = 2
  Names = {n1, n2, n3}
  NoName = NoName
  Priorities = {1, 5}
  MaxId = 2
  MaxCalls = 6
  NestedOps = {"register", "unregister", "enable", "execute", "diagnostics", "shutdown"}
  UnregisterRunning = FALSE
SPECIFICATION Spec
CHECK_DEADLOCK FALSE
SYMMETRY Symmetry
INVARIANTS
  TypeOK
  ListSound
  Distinct
  MutexReleased
  PassInOrder
  PassComplete
