SPECIFICATION FairSpec
CONSTANTS
  Focuses = {"queue", "scan", "contact", "fit"}
  Workers = {w1, w2}
  Tokens = {t1, t2, t3}
  LeaseTime = 1
  NoOwner = NoOwner
  NoToken = NoToken
  NoJob = NoJob
  Versions = {one}
  Facts = {i1}
  MaxEdits = 1
  BatchSize = 1
  FitAttempts = 1
  Scans = {one}
  Sources = {one, i1}
  ScanAttempts = 2
  Runs = {i1}
  KeyOf <- MCKeyOf
  Requests = {one}
  RequestLife = 1
  MaxLife = 2
  Policies = {1}
  HuntAttempts = 1
  MaxRequeues = 1
  Apps = {i1}
  OwnerOf <- MCOwnerOf
  Plans = {i1}
  People = {one}
  Limits <- MCLimits
  TargetCount = 1
  MaxDays = 1
  Searches = {one}
  Ticks = {i1}
  Schedules = {{1, 2, 3, 4, 5}, {2, 4, 6}}
  TickSize = 1
  MaxClock = 3
  MaxVersion = 2
  Items = {i1}
PROPERTIES
  JobsSettle
  ScanEveryAccounted
  SearchesAndMatchesEnd
CHECK_DEADLOCK FALSE
