SPECIFICATION Spec
CONSTANTS
  MaxChunks = 3
  MaxNews = 1
  SockCap = 1
  MaxFaults = 1
INVARIANTS LinesWhole ReadsDoNotBlock ClientInv
PROPERTIES ServerGoneEnds TypedIsSent NewsIsShown
CHECK_DEADLOCK FALSE
