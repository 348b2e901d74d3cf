\* Two producers of two tasks and three consumers, so that a task is left over;
\* two priorities.
CONSTANTS
  Producers = {p1, p2}
  Consumers = {c1, c2, c3}
  tasksPerProducer = 2
  Priorities = {0, 1}
  MaxSpurious = 1
  NoThread = NoThread
SPECIFICATION FairSpec
INVARIANTS
  Sorted
  NoLostWakeup
PROPERTIES
  Implements
  Termination
