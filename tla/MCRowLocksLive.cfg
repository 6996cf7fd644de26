SPECIFICATION Spec
CONSTANTS
  b = b
  s = s
  Orders = {b, s}
  Sells = {s}
  InitialShares = 1
  Marketable = {b, s}
  NoOrder = NoOrder
  Txns <- MCLiveTxns
CHECK_DEADLOCK FALSE
PROPERTIES
  EveryoneEnds
  MarketableSettled
