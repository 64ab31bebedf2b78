CONSTANTS
  Agent = {p, q}
  Name = {"model", "link", "clone"}
  File <- MCFile
  Target <- MCTarget
  Link = {"link"}
  Edit = {"edit"}
  Draft = {"dragged"}
  Calls <- MCLinkCalls
  Initial <- MCNothing
  Project <- MCProject
  PageBlocks = 1
  MaxBlocks = 3
  MaxLate = 1
SYMMETRY MCSymmetry
SPECIFICATION DanglingSpec
INVARIANTS OneWriter
