SPECIFICATION LedgerSpec
CONSTANTS
  operator = operator
  owner = owner
  k1 = k1
  plain = plain
  tagged = tagged
  t0 = t0
  t1 = t1
  Key <- MCKey
  CreatedBy = operator
  InitialOwner = owner
  Label <- MCLabel
  NoLabel = plain
  Title <- MCTitle
  ManifestTitle = t0
  MaxBatch = 3
  MaxRecords = 5
CHECK_DEADLOCK FALSE
INVARIANTS OwnerRemains
PROPERTIES ImplementsAccessLog
