SPECIFICATION Spec
CONSTANTS
  Precision = 10
  Sources = {"RedStone", "Pyth", "Reflector"}
  Quorum = "Quorum"
  Publishers = {"keeper", "p-redstone", "p-pyth", "p-reflector"}
  Admin = "admin"
  NoPublisher = "nobody"
  Keeper = "keeper"
  PublisherOf <- MCPublisherOf
  Faulty = {"Pyth"}
  MarketPrices = {100, 102}
  Reports = {99, 100, 102, 103}
  Window = 1
  SingleAge = 4
  QuorumAge = 1
  Deviation = 400
  KeeperSource = "RedStone"
  TurnGap = 1
  Heartbeat = 2
  MoveBps = 200
  CheckGap = 1
  Grace = 5
  Latency = 1
  PollLimit = 2
  TxLife = 4
  None = None
  MaxTime = 7
  MaxQuiet = 14
  MaxConfigs = 2
  MaxFaults = 1
  MaxSwings = 2
INVARIANTS TypeOK PublishedIsWritten FreshWhilePublishing
PROPERTIES QuorumIsFair
CHECK_DEADLOCK FALSE
