SPECIFICATION FairSpec
CONSTANTS
  s1 = s1
  s2 = s2
  x1 = x1
  x2 = x2
  c = c
  d = d
  Sessions = {s1, s2}
  Start <- StartOf
  Handoffs = {x1, x2}
  Sent = {x1}
  Joined = {x1}
  Deposits = {d}
  Deliveries = {c}
  Envelope <- EnvelopeOf
  MaxHead = 2
  NoSession = NoSession
INVARIANTS
  TypeOK
  KnownHandoffIsNotADeposit
PROPERTIES
  ImplementsLedger
  EventIsDecided
CHECK_DEADLOCK FALSE
