------------------------------ MODULE MCPeople ------------------------------
(***************************************************************************)
(* The ways in which the event scripts treat their players.                *)
(***************************************************************************)
EXTENDS EventPeople, EventBosses, EventFields, EventQuests, TLC

CONSTANTS p1, p2

People == {p1, p2}

Scripts == BossesScripts @@ FieldsScripts @@ QuestsScripts
MannersOf(s) == [timeout |-> s.timeout, exit |-> s.exit, left |-> s.left, disband |-> s.disband,
                 moved |-> s.moved, revive |-> s.revive]
EveryManner == {MannersOf(Scripts[n]) : n \in DOMAIN Scripts}

\* No script unregisters a player about the party without letting the player out.
ASSUME Rules == SeenOff
=============================================================================
