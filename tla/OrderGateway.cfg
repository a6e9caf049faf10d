SPECIFICATION Spec
CONSTANTS
  Orders <- MCOrders
  Owners = {"alice", "bob"}
  Nonces = {1, 2}
  Operators = {"matcher"}
  Domains = {"testnet", "mainnet"}
  None = "none"
  Prices = {1, 2}
  FillSizes = {0, 1, 2}
  CancelExpiries = {0, 2}
  Grace = 1
  MaxTime = 4
INVARIANTS TypeOK NoOverfill LiveOrdersProtected
PROPERTIES CancelSticks ImplementsLedger
