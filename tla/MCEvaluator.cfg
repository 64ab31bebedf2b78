CONSTANTS
  NodeId <- MCNodes
  Port <- MCPorts
  Kind <- MCKinds
  Value = {"low", "high", "deep", "deeper", "plane", "hidden"}
  Pos = {"here", "there"}
  Start <- MCStart
  Standard <- MCStandard
  GraphEdits <- MCGraphEdits
  Version = {"first", "second"}
  Defaults <- MCDefaults
  Compute <- MCCompute
  Shape <- MCShape
  Hiding = {"hidden"}
  Drawable = {"source", "larger", "import"}
  MaxDepth = 1
  Import = "import"
  ExportDepth = 2
  MaxObjects = 4
  MaxBytes = 8
ACTION_CONSTRAINT Apart
SPECIFICATION EvaluatorSpec
INVARIANTS GraphStaysWellFormed CachedIsFresh QuietMeansSameView ToolsFindTheSame
