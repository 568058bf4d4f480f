SPECIFICATION Spec
CONSTANTS
  a = a  b = b  c = c
  sword = sword  cape = cape  potion = potion  chest = chest  shell = shell  herb = herb
  t1 = t1  t2 = t2  t3 = t3  t4 = t4
  None = None
  Players <- TwoPlayers
  Items <- ThreeItems
  Buffs <- Timed
  Untradeable <- NoItems
  Drops <- NoItems
  EtcDrops <- NoItems
  Consumed <- NoItems
  Lasting <- OneItem
  Slots = 2
  OfferSlots = 1
  MaxMeso = 1
  MaxEarned = 1
  TradeIds <- TwoTrades
SYMMETRY PlayerSymmetry
INVARIANTS TypeOK NoDuplicate NothingLost LinksAgree AcceptedOffer
PROPERTIES OfferFrozen AllOrNothing MesoConserved
