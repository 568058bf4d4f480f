---------------------------- MODULE EventScript ----------------------------
(***************************************************************************)
(* The words in which an event script (scripts/event/X.js) is written      *)
(* down: one record per script, with the outcome of each of its functions. *)
(*                                                                         *)
(* A monster is the id the script singles out in monsterKilled; all other  *)
(* monsters of a script are one of two kinds: Wild (its death calls the    *)
(* script) or Bomb (spawned with the script flag off: its death does not). *)
(* Drawn stands for a pool of bosses that the script treats alike.         *)
(***************************************************************************)
EXTENDS Integers, Sequences, TLC

Wild == 0
Bomb == 1
Drawn == 2

(***************************************************************************)
(* What one call of a script function does: the monsters it spawns, the    *)
(* functions it schedules, and                                             *)
(*   "clock"  startEventTimer       "short"  createEventTimer              *)
(*   "win"    victory               "lose"   defeat                        *)
(*   "prize"  rewards given with the victory                               *)
(*   "kill"   killAllMonsters, before it spawns                            *)
(***************************************************************************)
Do(ms, ts, fx) == [spawn |-> ms, run |-> ts, fx |-> fx]
Nothing == Do({}, {}, {})
Bring(ms) == Do(ms, {}, {})
Later(ts) == Do({}, ts, {})
Victory == Do({}, {}, {"win"})
Prize == Do({}, {}, {"win", "prize"})

(***************************************************************************)
(* A function's possible outcomes before (early) and after (late) the      *)
(* script has marked the event as finished.                                *)
(***************************************************************************)
Turns(before, after) == [early |-> before, late |-> after]
Always(acts) == Turns(acts, acts)
Until(acts) == Turns(acts, {Nothing})
\* It looks at a flag that not every end of the event sets.
Perhaps(acts) == Turns(acts, acts \cup {Nothing})

\* The monsters of S, all with the reaction r.
Each(S, r) == [m \in S |-> r]
\* Every monster of the sequence s brings the next, until the event is finished.
Rise(s) == [m \in {s[i] : i \in 1 .. Len(s) - 1} |->
              Until({Bring({s[i + 1]}) : i \in {j \in 1 .. Len(s) - 1 : s[j] = m}})]

(***************************************************************************)
(* What most scripts have in common. For people:                           *)
(*   timeout, left, disband: who leaves when scheduledTimeout, leftParty   *)
(*     and disbandParty run; exit: who leaves in playerExit                *)
(*   moved: what changedMap does for a player who goes to another map      *)
(*   revive: what playerRevive does for a player who died                  *)
(* "one": exitPlayer; "all": exitParty; "none", "stay": nothing;           *)
(* "drop": unregisterPlayer; "warp": warpEventTeam.                        *)
(***************************************************************************)
Base == [begin |-> {Nothing}, kill |-> Each({}, Always({Nothing})),
         other |-> Always({Nothing}), cleared |-> Always({Nothing}),
         emptied |-> {Nothing}, task |-> Each({}, Always({Nothing})),
         arrive |-> {Nothing}, entry |-> {}, far |-> {}, many |-> {Wild, Bomb},
         park |-> FALSE, timeout |-> "all", exit |-> "one", left |-> "one",
         disband |-> "all", moved |-> {"one"}, revive |-> {"one"}]

\* A boss that comes a while after the start.
Trial(b) == [Base EXCEPT !.begin = {Later({"start"})},
  !.kill = Each({b}, Always({Prize})), !.task = [start |-> Always({Do({b}, {}, {"clock"})})]]
Battle(b) == [Trial(b) EXCEPT !.kill = Each({b}, Always({Victory}))]
Ordeal(b) == [Trial(b) EXCEPT
  !.task = [start |-> Always({Do({b}, {"bombs"}, {"clock"})}),
            bombs |-> Until({Do({Bomb}, {"bombs"}, {})})]]
\* A boss that is there from the start, alone or among other monsters.
Chest(b) == [Base EXCEPT !.begin = {Do({b}, {}, {"clock"})},
                         !.kill = Each({b}, Always({Prize}))]
Lair(b) == [Base EXCEPT !.begin = {Do({Wild, b}, {}, {"clock"})},
  !.kill = Each({b}, Always({Victory})), !.cleared = Always({Victory})]
\* Monsters without a goal.
Field == [Base EXCEPT !.begin = {Do({}, {}, {"clock"})}, !.disband = "none"]
Dungeon == [Base EXCEPT !.begin = {Do({Wild}, {}, {"clock"})}]
\* A boss that the population of the maps brings.
Hunt(b) == [Dungeon EXCEPT !.kill = Each({b}, Always({Victory})), !.far = {b}]
HuntForPrize(b) == [Hunt(b) EXCEPT !.kill = Each({b}, Always({Prize}))]
\* Parks: the last map's monsters are the goal, or there is none.
Park == [Dungeon EXCEPT !.park = TRUE]
EndlessPark == [Base EXCEPT !.begin = {Do({Wild}, {}, {"clock", "kill"})},
                            !.moved = {"one", "stay"}]
Endless == [Base EXCEPT !.begin = {Do({}, {}, {"clock"})},
  !.arrive = {Nothing, Do({Wild}, {}, {"kill"})}, !.moved = {"one", "warp"}]
PalPark == [Base EXCEPT !.begin = {Do({}, {"start"}, {"kill"})},
  !.task = [start |-> Always({Do({Wild}, {"balls"}, {"clock"})}),
            balls |-> Always({Nothing, Later({"balls"}), Do({Wild}, {"balls"}, {})})],
  !.left = "none", !.disband = "none"]
\* Waves that go on until the clock rings.
Waves == [Base EXCEPT !.begin = {Later({"start"})},
  !.task = [start |-> Always({Do({Wild}, {"waves"}, {"clock"})}),
            waves |-> Always({Nothing, Later({"waves"}), Do({Wild}, {"waves"}, {})})]]
CalmWaves == [Waves EXCEPT !.task.start = Always({Do({}, {"waves"}, {"clock"})})]
=============================================================================
