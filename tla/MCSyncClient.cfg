SPECIFICATION FairSpec
CONSTANTS
  w1 = w1
  w2 = w2
  p = p
  q = q
  Workspace = {w1, w2}
  Project = {p}
  Origin <- PusherOrigin
  PageSize = 1
  ChunkSize = 1
  Started <- PullAgainstPush
  MaxCommits <- TwoBlocks
  ReadOnly = {FALSE}
  MaxLate = 1
ACTION_CONSTRAINT Quietly
INVARIANTS
  RemoteKeepsAuthors
PROPERTIES
  AuthoredSurvives
  FlowEnds
