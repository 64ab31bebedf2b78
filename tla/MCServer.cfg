CONSTANTS
  NodeId = {1}
  Port = {1}
  Kind = {"point"}
  Value = {"low", "nan"}
  Pos = {"here", "there"}
  Author = {"ann", "bob"}
  Client = {"one", "two"}
  Keys <- MCKeys
  NotFinite <- MCNotFinite
  Commands <- MCCommands
  GenesisId = "project"
  MaxBlocks = 2
  MaxFailures = 2
  Key = {1, 2}
  Token = 2
  GlobalBurst = 2
  GlobalRate = 4
  KeyBurst = 1
  KeyRate = 1
  PruneEvery = 1
  PruneAfter = 2
  Worker = {"w1", "w2"}
  Project = {"default"}
  Default = "default"
  Writers <- MCWriters
  Batches <- MCBatches
  QueueSize = 1
  MaxRequests = 3
  MaxClock = 2
  Arguments <- MCArguments
  Environment = {TRUE, FALSE}
SPECIFICATION Spec
ACTION_CONSTRAINT Apart
CHECK_DEADLOCK FALSE
INVARIANTS AcceptedValidates WithinBudget
PROPERTIES BlocksFollowTheirBase EveryRequestAnswered
