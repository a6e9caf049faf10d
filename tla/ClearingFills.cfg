SPECIFICATION Spec
CONSTANTS
  Precision = 10
  Users = {alice, bob, carol}
  Liquidators = {}
  Funders = {}
  FeeRecipient = "treasury"
  InsuranceAccount = "insurance"
  Markets = {"XLM"}
  Assets = {"USDC"}
  Settlement = "USDC"
  Market <- FillsMarket
  Haircut <- NoHaircut
  DepositCap <- NoCap
  MaxRewardBps = 100
  MaxPositions = 16
  FeedPrices <- MCFeedPrices
  Prices = {2003, 2400}
  Collateral = {9}
  FillSizes = {10, 15}
  FillPrices = {2007, 2200}
  Deposits = {1000}
  Withdrawals = {500}
  StartTokens <- SomeTokens
  TickSecs = 3600
  MaxTime = 3600
  MaxId = 4
SYMMETRY UserSymmetry
INVARIANTS TypeOK OnePositionPerMarket SidesMatch
PROPERTIES MarginAfterTrade ValueConserved
CHECK_DEADLOCK FALSE
