SPECIFICATION FairSpec
CONSTANTS
  Requests = {r1, r2, r3}
  Trades = {p, l, a}
  LimitlessTrades = {l}
  AmmTrades = {a}
  SlowRequests = {}
  NoRequest = NoRequest
  NoTrade = NoTrade
  MaxFailures = 2
INVARIANTS
  TypeOK
  OneOrderPerReservation
  OrderIsTracked
  UncertainTradeKeepsReservation
PROPERTIES
  OutcomeIsFinal
  ImplementsPurchase
  LiveOrderIsLinked
  UnusedFundingIsReturned
CHECK_DEADLOCK FALSE
