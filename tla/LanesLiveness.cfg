SPECIFICATION FairSpec
CONSTANTS
  Lanes = {a, b}
  Protocols = {"embedded", "solana"}
  Requests = {r1}
  NoLane = NoLane
  MaxAttempts = 1
PROPERTIES
  UnusedCashIsFreed
  LandedIsSettled
CHECK_DEADLOCK FALSE
