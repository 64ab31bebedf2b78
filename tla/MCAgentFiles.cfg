CONSTANTS
  Agent = {p, q}
  Name = {"model", "link", "clone"}
  File <- MCFile
  Target <- MCTarget
  Link = {"link"}
  Edit = {"edit"}
  Draft = {"dragged"}
  Calls <- MCCalls
  Initial <- MCInitial
  Project <- MCProject
  PageBlocks = 1
  MaxBlocks = 3
  MaxLate = 1
SYMMETRY MCSymmetry
ACTION_CONSTRAINT Apart
SPECIFICATION Spec
INVARIANTS AnsweredSurvives CommitsOnWhatWasSeen PublishedAsReported
