SPECIFICATION MCSpec
CONSTANTS
  Focuses = {"life", "lock", "paper", "posting", "message"}
  PerDay = 2
  MaxTime = 4
  MaxRounds = 2
  MaxCorrections = 1
  Connections = {i1, i2, one}
  Applications = {one}
  Evidence = {one}
  Sessions = {i1, i2}
  Texts = {one}
  MaxVersion = 3
  MaxResumes = 2
  MaxGrounds = 2
  MaxPapers = 2
  NoPack = None
  NoWork = None
  ScanRuns = {i1, i2}
  Natives = {o1, o2}
  Urls = {one}
  Contents = {1, 2}
  MaxPostings = 3
  MaxVersions = 2
  MaxChanges = 1
  NoNative = None
  NoSighting = None
  Apps = {i1, i2}
  People = {o1, o2}
  Cold = {o1, o2}
  PersonCooldown = 1
  ColdWindow = 1
  ColdLimit = 1
  FollowUpAfter = 1
  NoReplyAfter = 1
  MaxWait = 1
  MaxDrafts = 1
  MaxClock = 1
SYMMETRY MCSymmetry
INVARIANTS
  OneOpenAction
  RecordsAgree
  RoundsHold
  ApprovalsNameTheirText
  OrdersHold
  RequisitionsApart
  OutreachAgrees
PROPERTIES
  ImmutableHistoryWins
  ApprovalsGrounded
  RestrictionsHold
CHECK_DEADLOCK FALSE
