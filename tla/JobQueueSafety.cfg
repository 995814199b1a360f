SPECIFICATION MCSpec
CONSTANTS
  w1 = w1
  w2 = w2
  j1 = j1
  j2 = j2
  shared = shared
  None = None
  Focuses = {"durable", "legacy"}
  NoOwner = NoOwner
  NoToken = NoToken
  NoJob = NoJob
  Tokens = {t1, t2, t3, t4}
  Workers <- MCWorkers
  Jobs <- MCJobs
  WorkerId <- MCShared
  Serves <- MCServesAll
  Priority <- MCPriority
  Skews <- MCSkews
  Delays = {0}
  MaxAttempts = 2
  LeaseTime = 2
  MaxRequeues = 1
  Runs = {j1}
  LegacyWorkers <- MCWorkers
  LeaseIds = {t1, t2, t3, t4}
  Clients = {w1}
  Entries = {j1}
  RunAttempts = 2
SYMMETRY MCSymmetry
INVARIANTS
  RowsCoherent
  NoStrandedJob
  SingleFinisher
  LegacyStoresAgree
PROPERTIES
  OnlyHolderEnds
  CancelWins
  ImplementsLeasedTask
  EndsStay
CHECK_DEADLOCK FALSE
