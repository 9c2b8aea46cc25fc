SPECIFICATION FairSpec
\* The model stops when MaxJobs rows were submitted, ended and swept.
CHECK_DEADLOCK FALSE
CONSTANTS
  Key = {k1, k2}
  Worker = {w1, w2}
  NoWorker = NoWorker
  MaxJobs = 3
  MaxFaults = 1
  Tries = 2
  LeaseFor = 2
  RetryBase = 1
  RetryMax = 2
  KeepFor = 1
INVARIANTS
  TypeOK
  OneActivePerKey
  OwnerIsLatest
  StartsBounded
PROPERTIES
  VerdictOfLatestLease
  TerminalIsKept
  EveryJobEnds
  ImplementsLifecycle
