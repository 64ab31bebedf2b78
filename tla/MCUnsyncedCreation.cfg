SPECIFICATION Spec
CONSTANTS
  w1 = w1
  w2 = w2
  w3 = w3
  s1 = s1
  s2 = s2
  g1 = g1
  g2 = g2
  g3 = g3
  Worker = {w1, w2}
  Slug = {s1, s2}
  Bootstraps <- MCBootstraps
  WritersFirst = TRUE
  MaxRequests = 2
CHECK_DEADLOCK FALSE
INVARIANTS SuccessIsDurable
