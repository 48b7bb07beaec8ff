SPECIFICATION MCSpec
CONSTANTS
  JUMP = 3
  Motes = {a, b, c, d}
  Networks <- FourNetworks
  MaxNeighbours = 3
SYMMETRY Interchangeable
INVARIANT DifferencesTrue
PROPERTIES NeverApart CountsKnown MajorityKept JumpsOnlyToTrusted
CHECK_DEADLOCK FALSE
