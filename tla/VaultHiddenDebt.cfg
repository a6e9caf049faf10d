SPECIFICATION Spec
CONSTANTS
  Precision = 10
  Users = {alice, bob}
  Liquidators = {}
  Funders = {}
  FeeRecipient = "treasury"
  InsuranceAccount = "insurance"
  Markets = {"XLM"}
  Assets = {"USDC", "BTC"}
  Settlement = "USDC"
  Market <- LiquidationMarket
  Haircut <- NoHaircut
  DepositCap <- NoCap
  MaxRewardBps = 100
  MaxPositions = 16
  FeedPrices <- MCFeedPrices
  Prices = {1000, 2000}
  Collateral = {9}
  FillSizes = {10, 20}
  FillPrices = {1000, 1100, 2000}
  Deposits = {600}
  Withdrawals = {}
  StartTokens <- SomeTokens
  TickSecs = 3600
  MaxTime = 7200
  MaxId = 2
SYMMETRY UserSymmetry
INVARIANT NegativeBalancesCounted
CHECK_DEADLOCK FALSE
