SPECIFICATION Spec
CONSTANTS
  Operations = {o1}
  Passes = {p1, p2}
  Tokens = {t1, t2, t3}
  NoToken = NoToken
  MaxFailures = 1
SYMMETRY Symmetry
INVARIANTS
  TypeOK
  LoudEvidenceKeepsItsJob
  ReducedCacheIsCurrent
PROPERTY
  LiveLeaseEndsByItsHolder
