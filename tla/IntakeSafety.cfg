SPECIFICATION MCSpec
CONSTANTS
  Focuses = {"source", "today", "assessment", "people", "work", "page", "notes"}
  None = None
  Ids = {1, 2, 3, 4, 5}
  Boards <- MCBoards
  Wanted <- MCWanted
  Trusted = {"u1", "u2", "u3"}
  Adapters = {"board", "offset", "token", "keyword"}
  PageLength = 2
  Cap = 2
  MaxFetches = 2
  Hits <- MCHits
  Url <- MCUrl
  Keywords <- MCKeywords
  BoardChanges = 1
  Roles = {1, 2, 3}
  Company <- MCCompany
  Tiers = {1, 2}
  Limit = 1
  MaxChanges = 2
  MaxTime = 1
  Postings <- MCPostings
  Targets <- MCTargets
  Skills = {"a", "b", "c"}
  Statuses = {"permitted", "not_authorized"}
  Countries = {"IN"}
  Modes = {"remote", "onsite"}
  Employments = {"contract"}
  Evidence = {"e1", "e2"}
  Shows <- MCShows
  MaxQuarters = 1
  Unstated = None
  Profiles = {1, 2, 3}
  LinkedIn = {1, 3}
  CandidateLimit = 3
  TargetCount = 2
  Floor = 75
  Lists <- MCLists
  Apps = {1, 2}
  Starts <- MCStarts
  ThisDay = 1
  Ahead = 1
  Furthest = 2
  PageSize = 1
  MaxCommands = 2
  Unread = Unread
  Pages = {"progress", "round", "correction", "review", "submission", "materials", "pack",
           "outreach", "people"}
  Asks <- MCRequests
  MaxRequests = 1
  MaxTries = 2
  MaxVersion = 3
  Requirements <- MCRequirements
  Capacity = 3
  Categories = 2
  Submitted = 3
  MaxRounds = 1
  MaxSaves = 4
INVARIANTS
  PagesContinueTheirList
  BenchIsEarned
  ListsHold
  NotesAnswerTheirPage
PROPERTIES
  MissingWasAskedInVain
  LastGoodStays
  GrowthNeverHurts
  
CHECK_DEADLOCK FALSE
