SPECIFICATION RSpec
CHECK_DEADLOCK FALSE
SYMMETRY Symmetry
CONSTRAINT TrimsEarly
CONSTANTS
  A = A
  B = B
  a = a
  b = b
  m1 = m1
  m2 = m2
  w1 = w1
  w2 = w2
  e1 = e1
  Repos = {A, B}
  Writers = {w1, w2}
  Trimmers = {e1}
  Ids = {a, b}
  Models = {m1, m2}
  Chunked <- MCChunked
  KeepRepos = 1
  KeepTombstones = 1
  Requests = {q}
  Asked = {A}
  EmbedModel = m1
  BelowFloor = TRUE
INVARIANTS
  LinksResolve
  LatestRemembered
  RepliesWereTrue
  RankedAsEmbedded
  BrokenMeansRewritten
  GroundedOrRefused
