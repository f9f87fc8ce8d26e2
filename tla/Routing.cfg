SPECIFICATION FairSpec
CONSTANTS
  Receipts = {r1}
  Children = {1, 2}
  Routers = {p1, p2}
  Executors = {e1, e2}
  MaxTries = 2
  NoReceipt = NoReceipt
  NoChild = NoChild
  SlowCalls = FALSE
INVARIANTS
  TypeOK
  CalledIsOnRecord
  TriesAreLimited
PROPERTIES
  ImplementsConversion
  AttemptIsDecided
CHECK_DEADLOCK FALSE
