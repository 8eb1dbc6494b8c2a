SPECIFICATION FairSpec
CONSTANTS
  NClients = 2
  NFds = 2
  Name = {"ann", "bob"}
  Script <- TwoLogins
  Leaver = {}
  SockCap = 5
  MaxFaults = 0
PROPERTIES WriterWaitsWhenIdle
CHECK_DEADLOCK FALSE
