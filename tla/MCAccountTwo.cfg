SPECIFICATION Spec
CONSTANTS
  RateScale = 10
  Percent = 4
  LotSize = 2
  MinStarShares = 3
  BuyCommission = 1
  SellCommission = 1
  MinCommission = 1
  StampDuty = 1
  TransferFee = 1
  HKCommission = 1
  HKMinCommission = 2
  HKStampDuty = 1
  HKLevies = 0
  NumSecurities = 2
  Market <- MCMarket
  Board <- MCBoard
  Prices = {1, 3}
  Quantities = {2}
  Leverages = {2}
  Amounts = {8}
  Deductions = {4}
  FeeRate = 5
  MarginCallStart = 1
  MarginCallRate = 1
  ToggledFlags = {}
  MaxOrders = 1
  MaxWithdrawals = 0
  MaxRecharges = 0
  MaxRecords = 3
  MaxDays = 1
  MaxBalance = 16
  AllowOverlap = FALSE
  AllowAdminRows = FALSE
CHECK_DEADLOCK FALSE
INVARIANTS
  MoneyConserved
PROPERTIES
  FeeAllOrNothing
  LevelsRemembered
  DebtOnlyByLoss
