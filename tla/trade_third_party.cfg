SPECIFICATION Spec
CONSTANTS
  a = a  b = b  c = c
  sword = sword  cape = cape  potion = potion  chest = chest  shell = shell  herb = herb
  t1 = t1  t2 = t2  t3 = t3  t4 = t4
  None = None
  Players <- ThreePlayers
  Items <- TwoItems
  Buffs <- NoItems
  Untradeable <- NoItems
  Drops <- NoItems
  EtcDrops <- NoItems
  Consumed <- NoItems
  Lasting <- OneItem
  Slots = 1
  OfferSlots = 1
  MaxMeso = 0
  MaxEarned = 0
  TradeIds <- ThreeTrades
SYMMETRY PlayerSymmetry
INVARIANTS AcceptedOffer
