SPECIFICATION Spec
CONSTANTS
  NClients = 2
  NFds = 2
  Name = {"ann", "bob"}
  Script <- TwoTalk
  Leaver = {1, 2}
  SockCap = 5
  MaxFaults = 0
INVARIANTS ReaderUsesLiveClients
CHECK_DEADLOCK FALSE
