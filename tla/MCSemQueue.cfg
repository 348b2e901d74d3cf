\* Two producers of three calls and three consumers of two, two slots.
CONSTANTS
  Producers = {p1, p2}
  Consumers = {c1, c2, c3}
  BUFFER_SIZE = 2
  ProduceCount = 3
  ConsumeCount = 2
  NoThread = NoThread
SPECIFICATION FairSpec
INVARIANTS
  EverySlotCounted
  BufferMatches
PROPERTIES
  Implements
  Termination
