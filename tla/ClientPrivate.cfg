SPECIFICATION Spec
CONSTANTS
  MaxChunks = 3
  MaxNews = 0
  SockCap = 1
  MaxFaults = 0
INVARIANTS PrivateStaysPrivate
CHECK_DEADLOCK FALSE
