SPECIFICATION OutreachSpec
CONSTANTS
  Apps = {a1, a2}
  People = {p1, p2}
  Cold = {p1, p2}
  PersonCooldown = 2
  ColdWindow = 1
  ColdLimit = 1
  FollowUpAfter = 1
  NoReplyAfter = 2
  MaxWait = 1
  MaxDrafts = 1
  MaxClock = 2
SYMMETRY MCSymmetry
INVARIANTS
  BenchReadable
CHECK_DEADLOCK FALSE
