SPECIFICATION Spec
CONSTANTS
  a = a  b = b  c = c
  sword = sword  cape = cape  potion = potion  chest = chest  shell = shell  herb = herb
  t1 = t1  t2 = t2  t3 = t3  t4 = t4
  None = None
  Players <- TwoPlayers
  Items <- WithDrops
  Buffs <- NoItems
  Untradeable <- NoItems
  Drops <- Chest
  EtcDrops <- Shell
  Consumed <- Herb
  Lasting <- OneItem
  Slots = 1
  OfferSlots = 2
  MaxMeso = 0
  MaxEarned = 0
  TradeIds <- TwoTrades
SYMMETRY PlayerSymmetry
INVARIANTS NoDuplicate
PROPERTIES LossNeedsLoot
