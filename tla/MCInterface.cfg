CONSTANTS
  NodeId = {1, 2, 3, 4, 5, 6}
  Port = {1, 2}
  Kind = {"slider", "box", "union", "merge", "panel", "list", "imported", "toggle", "point", "curve"}
  Value <- MCValue
  Pos = {0, 1}
  Edits = {}
  Pulled <- MCPulled
  MaxPending = 16
  MaxBlocks = 3
  Palette <- MCComponent
  Slider = "slider"
  Merge = "merge"
  Commands <- MCCommands
  Settings <- MCSettings
  Hide <- MCHide
  Show <- MCShow
  Sessions <- MCStart
  MaxUndo = 2
  Library <- MCLibrary
  SliderKind = "slider"
  PanelKind = "panel"
  MergeKind = "merge"
  ListKind = "list"
  Cleared = "cleared"
  ToggleKind = "toggle"
  PointKind = "point"
  Coordinates = "coordinates"
  TooLarge = {"huge"}
  Unwritable = {"mixed"}
  MaxObjects = 5
  Origin = 0
  Imported = "imported"
  Documents <- MCDocuments
  Refer <- MCRefer
  Workspaces = {"W1", "W2"}
ACTION_CONSTRAINT Bounded
SPECIFICATION CadSpec
INVARIANTS OneUndoStep DrawnIsCurrent FeaturesInOrder UnitsFollowGeometry NothingGuessed DefinitionsReadBack
PROPERTY ResultsMeetTheirModel
