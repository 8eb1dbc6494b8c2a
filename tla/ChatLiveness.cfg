SPECIFICATION LoggedInSpec
CONSTANTS
  NClients = 2
  NFds = 2
  Name = {"ann", "bob"}
  Script <- AnnTalks
  Leaver = {1}
  SockCap = 1
  InCap = 1
  MaxFaults = 0
PROPERTIES DepartedIsLoggedOut LinesHandled QueuedIsFlushed DataIsReadUnlessLocked
CHECK_DEADLOCK FALSE
