SPECIFICATION Spec
CONSTANTS
  CACHE_SIZE = 3
  MaxLine = 5
  MaxBytes = 10
  MaxNuls = 1
  SizeT = 12
INVARIANTS TypeOK LeftOnlyIfBlocked
PROPERTIES LineByLine BlockedForEver
CHECK_DEADLOCK FALSE
