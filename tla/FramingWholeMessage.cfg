SPECIFICATION Spec
CONSTANTS
  CACHE_SIZE = 3
  MaxLine = 5
  MaxBytes = 10
  MaxNuls = 0
  SizeT = 12
INVARIANT WholeMessageIsRead
CHECK_DEADLOCK FALSE
