------------------------------- MODULE MCParty -------------------------------
(* Instances of Party for TLC. *)
EXTENDS Party, TLC

CONSTANTS a, b, c, d

TwoPlayers == {a, b}
ThreePlayers == {a, b, c}
FourPlayers == {a, b, c, d}

PlayerSymmetry == Permutations(Players)
=============================================================================
