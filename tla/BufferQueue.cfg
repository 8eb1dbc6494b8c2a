SPECIFICATION Spec
CONSTANTS
  CACHE_SIZE = 3
  MaxOp = 7
  MaxBytes = 8
  MaxHeld = 5
  MaxFaults = 2
  Faults = {"alloc", "read", "write"}
INVARIANTS BufferInv FrontIsNext BackIsLast ReadsWhatThereIs FlushEmpties NothingSkipped
PROPERTIES CachesLostOnlyByEmptyRead QueueSpec
CHECK_DEADLOCK FALSE
