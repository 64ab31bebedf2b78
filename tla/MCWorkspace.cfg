CONSTANTS
  NodeId = {1, 2, 3}
  Port = {1}
  Kind = {"slider"}
  Value = {"low", "high"}
  Pos = {"here", "there"}
  Edits <- MCEdits
  Pulled <- MCPulled
  MaxPending = 3
  MaxBlocks = 2
SPECIFICATION MCSpec
ACTION_CONSTRAINT InSession
INVARIANTS LedgerGivesGraph HistoryReplays SavedOpens
PROPERTIES ExitLosesNothing
