SPECIFICATION Spec
CONSTANTS
  a = a  b = b  c = c  d = d
  None = None
  Players <- FourPlayers
  PartySize = 3
  MaxParties = 2
  Concurrent = FALSE
SYMMETRY PlayerSymmetry
CHECK_DEADLOCK FALSE
INVARIANTS TypeOK MembershipAgrees
PROPERTIES OnlySelfExpelLosesLead OnlyLeaderActs ImplementsGroups
