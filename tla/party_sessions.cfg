SPECIFICATION Spec
CONSTANTS
  a = a  b = b  c = c  d = d
  None = None
  Players <- TwoPlayers
  PartySize = 2
  MaxParties = 2
  Concurrent = TRUE
SYMMETRY PlayerSymmetry
CHECK_DEADLOCK FALSE
INVARIANTS Overshoot
PROPERTIES OnlyLeaderActs
