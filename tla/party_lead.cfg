SPECIFICATION Spec
CONSTANTS
  a = a  b = b  c = c  d = d
  None = None
  Players <- ThreePlayers
  PartySize = 2
  MaxParties = 2
  Concurrent = FALSE
SYMMETRY PlayerSymmetry
CHECK_DEADLOCK FALSE
PROPERTIES PassedOn
