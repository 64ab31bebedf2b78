CONSTANTS
  Key = {"op", "ann"}
  CreatedBy = "op"
  InitialOwner = "op"
  Label = {"none"}
  NoLabel = "none"
  Title = {"title"}
  ManifestTitle = "title"
  Server = {"home", "spare"}
  Initial <- MCInitial
  Action <- MCAction
  Slug = {"a", "b"}
  InitialDirs <- MCInitialDirs
  PageItems = 1
  MaxBlocks = 2
  MaxRecords = 3
  MaxCommands = 2
  MaxLate = 1
CONSTRAINT OnePath
ACTION_CONSTRAINT Apart
SPECIFICATION Spec
CHECK_DEADLOCK FALSE
INVARIANTS ReportedIsThere LegacyIsAlone ExportIsASnapshot
