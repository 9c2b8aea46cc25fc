SPECIFICATION PSpec
\* The model stops when MaxJobs rows were submitted, ended and swept.
CHECK_DEADLOCK FALSE
CONSTANTS
  k1 = k1
  k2 = k2
  r1 = r1
  r2 = r2
  w1 = w1
  w2 = w2
  m1 = m1
  m2 = m2
  Key <- KeysDef
  Worker <- WorkersDef
  NoWorker = NoWorker
  MaxJobs = 2
  MaxFaults = 0
  Tries = 2
  LeaseFor = 1
  RetryBase = 0
  RetryMax = 0
  KeepFor = 0
  Repo <- ReposDef
  NoRepo = NoRepo
  Commits <- CommitsDef
  Spanless = {r2}
  Model = {m1, m2}
  NoSpans = NoSpans
  ModelOf <- TwoModels
  SkipClone = TRUE
  KeepRepos = 1
INVARIANTS
  ResultIffDone
PROPERTIES
  ImplementsQueue
  DoneIsRetrievable
  SpansLeaveByEviction
  EvictionKeepsQuota
