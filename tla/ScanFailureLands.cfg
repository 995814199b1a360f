SPECIFICATION ScanSpec
CONSTANTS
  NoOwner = NoOwner
  NoToken = NoToken
  NoJob = NoJob
  Scans = {s1}
  Sources = {x1, x2}
  Workers = {w1, w2}
  Tokens = {t1, t2, t3}
  ScanAttempts = 2
  LeaseTime = 1
SYMMETRY MCSymmetry
INVARIANTS
  FailureTransitionLands
CHECK_DEADLOCK FALSE
