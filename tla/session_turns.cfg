SPECIFICATION Spec
CONSTANTS
  x = x  y = y  z = z  hero = hero  mule = mule
  None = None
  Clients <- ThreeClients
  Characters <- TwoCharacters
  HasPic = TRUE
  Concurrent = FALSE
SYMMETRY ClientSymmetry
INVARIANTS TypeOK OneCharacter PlayingIsMarked
