SPECIFICATION LockSpec
CONSTANTS
  Connections = {s1, s2, s3}
SYMMETRY MCSymmetry
INVARIANTS
  ContactWorkerNeverDeadlocks
