SPECIFICATION Spec
CONSTANTS
  Lanes = {a, b}
  Protocols = {"embedded", "safe", "solana", "client"}
  Requests = {r1, r2}
  NoLane = NoLane
  MaxAttempts = 2
SYMMETRY Symmetry
INVARIANTS
  TypeOK
  OneTransferPerLane
  SubmittedLaneKeepsItsCash
  StoppedWasNotSent
PROPERTIES
  ImplementsLaneCash
CHECK_DEADLOCK FALSE
