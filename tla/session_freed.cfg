SPECIFICATION FairSpec
CONSTANTS
  x = x  y = y  z = z  hero = hero  mule = mule
  None = None
  Clients <- TwoClients
  Characters <- TwoCharacters
  HasPic = TRUE
  Concurrent = TRUE
PROPERTIES AccountFreed
