------------------------------- MODULE MCTrade -------------------------------
(* Instances of Trade for TLC. *)
EXTENDS Trade, TLC

CONSTANTS a, b, c, sword, cape, potion, chest, shell, herb, t1, t2, t3, t4

TwoPlayers == {a, b}
ThreePlayers == {a, b, c}
TwoItems == {sword, potion}
ThreeItems == {sword, cape, potion}
OneItem == {sword}
WithDrops == {sword, chest, shell, herb}
Timed == {potion}
Chest == {chest, shell, herb}
Shell == {shell}
Herb == {herb}
NoItems == {}
FourTrades == {t1, t2, t3, t4}
ThreeTrades == {t1, t2, t3}
TwoTrades == {t1, t2}

TradeSymmetry == Permutations(TradeIds)
PlayerSymmetry == Permutations(TradeIds) \cup Permutations(Players)
=============================================================================
