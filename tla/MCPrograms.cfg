\* Pools of four blocks, a buffer of five units, rings of three bytes, four
\* listeners for two event types with triggers two deep, two threads on a list
\* of three nodes, four events at three times
\* whose callbacks remove events of other times only, four items through a queue of
\* two, an arena of fourteen bytes, lists of four nodes, trees of four nodes on
\* three levels, two characters on a line of three cells.
CONSTANTS
  NULL = NULL
  Data = Data
  NumBlocks = 4
  NumUnits = 5
  Ids = {1, 2, 3}
  RingSize = 3
  Bytes = {0, 1, 2}
  EventTypes = {0, 1}
  MaxId = 4
  MaxDepth = 2
  ListThreads = {t1, t2}
  NoThread = NoThread
  Nodes = {n1, n2, n3}
  Keys = {1, 2}
  MaxTime = 3
  MaxHandle = 4
  SameSlot = FALSE
  Q_MAX_SIZE = 2
  NumItems = 4
  MaxSpurious = 2
  ArenaSize = 14
  PtrSize = 2
  MaxSize = 3
  MaxAlign = 8
  ListNodes = {c1, c2, c3, c4}
  NumChildren = 3
  Levels = 3
  TreeNodes = 4
  Turns = 2
  IDs = {1, 2}
  ConsoleSize = 2
  MaxDelta = 2
SPECIFICATION Spec
INVARIANTS
  SegmentsIntact
  LastBytesInOrder
  TriggerComplete
  Serialized
  HandlesAgree
  FiredOnTime
  AlignedBlocks
  OnlyAllocatedFollowed
  ListMatches
  LedFollows
  TraversalsMatch
  ParametersAlive
  NoGhosts
  NoLostWakeup
PROPERTIES
  PoolsImplement
  ProducerImplements
  AdvanceReturns
  AllConsumed
