SPECIFICATION Spec
CONSTANTS
  w1 = w1
  w2 = w2
  p = p
  q = q
  Workspace = {w1, w2}
  Project = {p, q}
  Origin <- SharedOrigin
  PageSize = 1
  ChunkSize = 1
  Started <- PullAndPush
  MaxCommits <- OneBlock
  ReadOnly = {FALSE}
  MaxLate = 0
PROPERTIES
  NewBlocksAreReplayed
