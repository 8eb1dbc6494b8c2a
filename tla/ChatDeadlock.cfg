SPECIFICATION FairChatSpec
CONSTANTS
  NClients = 2
  NFds = 2
  Name = {"ann", "bob"}
  Script <- BothTalk
  Leaver = {}
  SockCap = 1
  InCap = 1
  MaxFaults = 0
PROPERTIES SocketDataIsRead
CHECK_DEADLOCK FALSE
