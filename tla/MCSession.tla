------------------------------ MODULE MCSession ------------------------------
(* Instances of Session for TLC. *)
EXTENDS Session, TLC

CONSTANTS x, y, z, hero, mule

TwoClients == {x, y}
ThreeClients == {x, y, z}
OneCharacterSet == {hero}
TwoCharacters == {hero, mule}

ClientSymmetry == Permutations(Clients) \cup Permutations(Characters)
=============================================================================
