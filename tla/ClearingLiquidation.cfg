SPECIFICATION Spec
CONSTANTS
  Precision = 10
  Users = {alice, bob}
  Liquidators = {"keeper"}
  Funders = {"dao"}
  FeeRecipient = "treasury"
  InsuranceAccount = "insurance"
  Markets = {"XLM"}
  Assets = {"USDC"}
  Settlement = "USDC"
  Market <- LiquidationMarket
  Haircut <- NoHaircut
  DepositCap <- NoCap
  MaxRewardBps = 100
  MaxPositions = 16
  FeedPrices <- MCFeedPrices
  Prices = {1003, 2000}
  Collateral = {9}
  FillSizes = {10, 15}
  FillPrices = {1000, 1103, 2000}
  Deposits = {600}
  Withdrawals = {}
  StartTokens <- SomeTokens
  TickSecs = 3600
  MaxTime = 7200
  MaxId = 4
SYMMETRY UserSymmetry
INVARIANTS BooksAgree FlatDebtRecorded
PROPERTIES ValueConserved EquityKept
CHECK_DEADLOCK FALSE
