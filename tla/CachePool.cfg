SPECIFICATION Spec
CONSTANTS
  Size <- Sizes
  NOverread = 2
  Stray = {0, 4, 16}
  Ask = {0, 2, 3, 8}
  MaxCaches = 4
INVARIANTS PoolInv OverreadHarmless
PROPERTIES GrowsOnlyWhenAllInUse AllocatorSpec
CHECK_DEADLOCK FALSE
