\* A buffer of two bytes, three bytes written. Behaviours end when all are written.
CONSTANTS
  size = 2
  MaxWrites = 3
SPECIFICATION Spec
CHECK_DEADLOCK FALSE
INVARIANT
  ReadInOrder
