SPECIFICATION Spec
CONSTANTS
  owner = owner
  guest = guest
  op = op
  plain = plain
  title = title
  p1 = p1
  p2 = p2
  w1 = w1
  w2 = w2
  Key <- MCKey
  CreatedBy = owner
  InitialOwner = owner
  Label = {plain}
  NoLabel = plain
  Title = {title}
  ManifestTitle = title
  Project <- MCProject
  Worker <- MCWorker
  Op = {op}
  Batch <- MCBatch
  MaxChain = 1
  MaxLog = 3
SYMMETRY Symmetry
INVARIANTS ServedIsDurable AckedSurvives
PROPERTIES OnlyMembersWrite
