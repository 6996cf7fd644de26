SPECIFICATION Spec
CONSTANTS
  RateScale = 10
  Percent = 4
  LotSize = 2
  MinStarShares = 3
  BuyCommission = 1
  SellCommission = 1
  MinCommission = 1
  StampDuty = 1
  TransferFee = 1
  HKCommission = 1
  HKMinCommission = 2
  HKStampDuty = 1
  HKLevies = 0
  NumSecurities = 1
  Market <- MCMarket
  Board <- MCBoard
  Prices = {1, 3}
  Quantities = {2, 4}
  Leverages = {2}
  Amounts = {8}
  Deductions = {}
  FeeRate = 5
  MarginCallStart = 1
  MarginCallRate = 1
  ToggledFlags = {}
  MaxOrders = 2
  MaxWithdrawals = 1
  MaxRecharges = 1
  MaxRecords = 2
  MaxDays = 1
  MaxBalance = 8
  AllowOverlap = FALSE
  AllowAdminRows = FALSE
CHECK_DEADLOCK FALSE
INVARIANTS
  TypeOK
  FrozenCovered
  SharesCovered
  FillsRecordedOnce
PROPERTIES
  FillWithinFreeze
