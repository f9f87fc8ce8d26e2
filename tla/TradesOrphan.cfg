SPECIFICATION Spec
CONSTANTS
  Requests = {r1, r2, r3}
  Trades = {p, l, a}
  LimitlessTrades = {l}
  AmmTrades = {a}
  SlowRequests = {}
  NoRequest = NoRequest
  NoTrade = NoTrade
  MaxFailures = 2
INVARIANT
  AcceptedTradeIsNotReturned
CHECK_DEADLOCK FALSE
