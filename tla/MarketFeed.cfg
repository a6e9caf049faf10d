SPECIFICATION Spec
CONSTANTS
  Markets = {1, 2}
  MaxSockets = 3
  Overlap = 2
  Limit = 1
  MaxChanges = 1
  MaxMoves = 1
  MaxFaults = 1
INVARIANTS TypeOK BroadcastOnce
PROPERTIES MarketKept DisplayConverges
CHECK_DEADLOCK FALSE
