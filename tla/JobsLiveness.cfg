SPECIFICATION FairSpec
CONSTANTS
  Operations = {o1}
  Passes = {p1}
  Tokens = {t1, t2}
  NoToken = NoToken
  MaxFailures = 1
PROPERTIES
  PromiseIsKept
  StoppedEvidenceIsRepaired
