SPECIFICATION FairSpec
CONSTANTS
  p = p
  f = f
  w = w
  Quotes = {p, f, w}
  FenceQuotes = {f}
  Withdrawals = {w}
  Amount <- AmountOf
  Cash = 4
  GasReserve = 1
  Keys = {k1, k2}
  Requests = {r1, r2}
  Connections = 2
  QuickCredits = FALSE
  NoQuote = NoQuote
  NoKey = NoKey
INVARIANTS
  TypeOK
  SharedHoldsAreCovered
  AvailabilityIsReal
  AdmittedRequestIsFirst
PROPERTIES
  CommitEnds
