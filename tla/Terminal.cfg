SPECIFICATION Spec
CONSTANTS
  Orders = {1, 2}
  Callers <- AllCallers
  CheckLimit = 1
  Runs = {1, 2}
  MaxCalls = 2
  MaxFaults = 1
INVARIANTS RetryNeverDoubles
PROPERTIES CancelMeansNoFill OrdersConverge
CHECK_DEADLOCK FALSE
