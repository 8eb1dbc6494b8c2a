SPECIFICATION Spec
CONSTANTS
  NClients = 3
  NFds = 2
  Name = {"ann", "bob", "cid"}
  Script <- Reuse
  Leaver = {2}
  SockCap = 2
  MaxFaults = 1
INVARIANTS
  StreamsOrdered NoEcho SilentUntilLogin ToAllReachesEveryone LogoutAnnounced
  ClientListSound WriterClientsLive ThreadsJoinedBeforeRelease
  OnlineIsListed PolledClientsLive DirectToTarget LifeInv DeliveryInv
CHECK_DEADLOCK FALSE
