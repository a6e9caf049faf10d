SPECIFICATION Spec
CONSTANTS
  Table <- MCTable
  Limit = 3
  Unreadable = {"unreadable"}
  Markets = {1, 2}
  Start <- MCStart
  MaxMoves = 2
  MaxLosses = 2
  Instances = {"vault", "insurance"}
  Codes = {"vault_wasm"}
  Kept = {"vault"}
  Threshold = 3
  ExtendTo = 6
  Ceiling = 9
  Ticks = {1, 2}
  Passes = {1, 2}
  Traders = {"alice", "bob"}
  MaxTrades = 2
  MaxChanges = 2
  MaxSlips = 1
  MaxUndone = 1
  Checks = {1, 2}
  Rounds = {1, 2}
  MaxFlips = 3
  MaxLost = 1
PROPERTIES ArchivedOnlyAfterMisses LiquidatedEventually ReadModelsConverge OutageReported
CHECK_DEADLOCK FALSE
