SPECIFICATION Spec
CONSTANTS
  b = b
  s = s
  Orders = {b, s}
  Sells = {s}
  InitialShares = 1
  Marketable = {}
  NoOrder = NoOrder
  Txns <- MCTxns
CHECK_DEADLOCK FALSE
INVARIANTS
  TypeOK
  Exact
PROPERTIES
  ImplementsEscrow
  DeadlocksTakeABatch
  BystandersUnharmed
