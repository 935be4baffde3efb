\* Two threads in every part.  Two records and two changes: one thread's change
\* meets every step of another.  Three refresh tokens make a chain whose middle
\* one is replayed, and expire while the clock runs from 0 to 2.  Every limit of
\* the admission is one.
CONSTANTS
  Threads = {t1, t2}
  Ids = {"i", "j"}
  MaxWrites = 2
  AccessTTL = 1
  RefreshTTL = 1
  SessionClock = 2
  MaxAccess = 3
  MaxRefresh = 3
  Keys <- TwoKeys
  Limit <- TwoOrOne
  Window = 2
  RateClock = 5
  MaxLag = 1
  Codes = {"k", "l"}
  MaxSecrets = 2
  MaxUses = 2
  Users = {"root", "ann", "bob"}
  Role <- ThreeRoles
  Projects = {"p"}
  Tasks = {"k", "l"}
  Runs = {"r"}
  Submitters = {"u"}
  Enforce = TRUE
  QueueMax = 1
  MaxCompare = 1
  MaxExport = 1
  MaxPerProject = 1
  MaxPerUser = 1
  Quota = 1
  MaxJobs = 2
SPECIFICATION Spec
SYMMETRY ThreadSymmetry
CHECK_DEADLOCK FALSE
INVARIANTS
  StoreIsCurrent
  EndedStaysEnded
  LoginIsGuarded
  HistoryIsWhatOpens
PROPERTY SubmitInTime
