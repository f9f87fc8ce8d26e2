SPECIFICATION FairSpec
CONSTANTS
  s1 = s1
  s2 = s2
  d1 = d1
  d2 = d2
  Sessions = {s1, s2}
  Deposits = {d1, d2}
  Kind <- KindOf
  Channel <- ChannelOf
  Workers = {w}
  MaxHead = 2
  NoSession = NoSession
INVARIANTS
  TypeOK
  OneOpenAddress
  NothingIsPassedOver
PROPERTIES
  ClosedAddressStaysClosed
  DepositIsCredited
CHECK_DEADLOCK FALSE
