SPECIFICATION Spec
CONSTANTS
  Lanes = {a, b}
  Protocols = {"client"}
  Requests = {r1}
  NoLane = NoLane
  MaxAttempts = 1
SYMMETRY Symmetry
INVARIANTS
  SiblingReportKeepsCash
CHECK_DEADLOCK FALSE
