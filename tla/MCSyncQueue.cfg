\* Two producers of three items and three consumers of two, a queue of two slots.
CONSTANTS
  Producers = {p1, p2}
  Consumers = {c1, c2, c3}
  Capacity = 2
  ProduceCount = 3
  ConsumeCount = 2
  MaxSpurious = 1
  NoThread = NoThread
SPECIFICATION FairSpec
INVARIANTS
  QueueSafe
  NoLostWakeup
  Delivery
PROPERTIES
  Implements
  Termination
