----------------------------- MODULE EventRules -----------------------------
(***************************************************************************)
(* What one reads in a script when one asks whether its event keeps its    *)
(* clock, pays once, stays over and can be won: rules about the records of *)
(* EventScript, without a word about the order in which things happen.     *)
(* EventFightProofs shows that they are enough, and MCEvent has them       *)
(* looked up in every script of the server.                                *)
(***************************************************************************)
EXTENDS EventFight

All(turns) == turns.early \cup turns.late
Over(o) == {"win", "lose"} \cap o.fx # {}

\* The script has one clock, and ends when it rings.
OneClock(n) == /\ Script[n].timeout = "all"
               /\ \A o \in Outcomes(Script[n]) : "short" \notin o.fx
ClockRule == \A n \in Name \ Exempt.clock : OneClock(n)

----------------------------------------------------------------------------
(***************************************************************************)
(* A script's thread: the monsters and functions from which it leads to an *)
(* effect of goal. The thread is single when each of them brings at most   *)
(* one other, nothing else brings any, and the end of the thread leaves    *)
(* nothing of it. If only the thread can end the event, it need not be     *)
(* looked at after that.                                                   *)
(***************************************************************************)
Reward == {"prize"}
Finish == {"prize", "win", "lose"}

Thread(n, goal) == Ways(Script[n], goal)

AtMostOne(A) == \A x, y \in A : x = y
Aside(o, goal, way) ==
  goal \cap o.fx = {} /\ o.spawn \cap way.monsters = {} /\ o.run \cap way.tasks = {}
Onward(o, goal, way) ==
  IF goal \cap o.fx = {}
    THEN /\ AtMostOne(o.spawn \cap way.monsters) /\ AtMostOne(o.run \cap way.tasks)
         /\ o.spawn \cap way.monsters = {} \/ o.run \cap way.tasks = {}
    ELSE /\ o.run \cap way.tasks = {}
         /\ (o.spawn \cap way.monsters = {} \/ (goal = Finish /\ Over(o)))
Seen(turns, goal) == IF goal = Finish THEN turns.early ELSE All(turns)

Starts(s, o, goal, way) ==
  LET run == o.run \cup s.entry
      far == s.far \cap way.monsters
  IN /\ goal \cap o.fx = {}
     /\ AtMostOne(o.spawn \cap way.monsters) /\ AtMostOne(run \cap way.tasks)
     /\ o.spawn \cap way.monsters = {} \/ run \cap way.tasks = {}
     /\ far # {} => o.spawn \cap way.monsters = {} /\ run \cap way.tasks = {}

Single(n, goal) ==
  LET s == Script[n]
      way == Thread(n, goal)
  IN /\ ~s.park /\ s.many \cap way.monsters = {} /\ Bomb \notin way.monsters
     /\ \A o \in s.begin : Starts(s, o, goal, way)
     /\ \A m \in way.monsters : \A o \in Seen(KilledIn(s, m), goal) : Onward(o, goal, way)
     /\ \A t \in way.tasks : \A o \in Seen(s.task[t], goal) : Onward(o, goal, way)
     /\ \A o \in s.emptied \cup s.arrive \cup All(s.cleared) : Aside(o, goal, way)
     /\ \A m \in Own(s) \ (way.monsters \cup {Bomb}) :
          \A o \in All(KilledIn(s, m)) : Aside(o, goal, way)
     /\ \A t \in DOMAIN s.task \ way.tasks : \A o \in All(s.task[t]) : Aside(o, goal, way)

\* The script rewards with what ends the event, and looks at finished before it does.
PaysAtTheEnd(n) ==
  LET s == Script[n]
  IN /\ ~s.park
     /\ \A o \in s.begin \cup s.emptied \cup s.arrive : "prize" \notin o.fx
     /\ \A turns \in TurnsOf(s) : /\ \A o \in turns.late : "prize" \notin o.fx
                                  /\ \A o \in turns.early : "prize" \in o.fx => Over(o)

PaysOnce(n) == PaysAtTheEnd(n) \/ Single(n, Reward) \/ Single(n, Finish)
PaidRule == \A n \in Name \ Exempt.paid : PaysOnce(n)

----------------------------------------------------------------------------
\* Nothing happens before the function start, and it is not scheduled again.
Opens(n) ==
  LET s == Script[n]
  IN /\ \A o \in s.begin : o.spawn = {} /\ o.run \cup s.entry = {"start"}
     /\ s.arrive \subseteq {Nothing}
     /\ \A o \in s.emptied \cup UNION {All(turns) : turns \in TurnsOf(s)} : "start" \notin o.run

\* After the end nothing is spawned but by the thread that led to it, and by start.
Hushed(n, way) ==
  LET s == Script[n]
  IN /\ \A o \in s.arrive \cup s.cleared.late : o.spawn = {}
     /\ \A m \in Own(s) \ (way.monsters \cup {Bomb}) : \A o \in KilledIn(s, m).late : o.spawn = {}
     /\ \A t \in DOMAIN s.task \ way.tasks :
          (Opens(n) /\ t = "start") \/ \A o \in s.task[t].late : o.spawn = {}

NeverEnds(n) == ~Script[n].park /\ \A o \in Outcomes(Script[n]) : ~Over(o)

NoThread == [monsters |-> {}, tasks |-> {}]

StaysOver(n) ==
  NeverEnds(n) \/ Hushed(n, NoThread) \/ (Single(n, Finish) /\ Hushed(n, Thread(n, Finish)))
QuietRule == \A n \in Name \ Exempt.quiet : StaysOver(n)
----------------------------------------------------------------------------
(***************************************************************************)
(* A way that goes on: the outcomes of its functions lead further or end   *)
(* the event, and monsters are only killed by what leads further.          *)
(***************************************************************************)
Brings(o, way) == o.spawn \cap way.monsters # {} \/ o.run \cap way.tasks # {}
Leads(o, way) == Over(o) \/ Brings(o, way)

Within(n, way) == /\ way.monsters \subseteq WaysOf[n].monsters \ {Bomb}
                  /\ way.tasks \subseteq WaysOf[n].tasks

GoesOn(n, way) ==
  LET s == Script[n]
  IN /\ Within(n, way)
     /\ \A t \in way.tasks : \A o \in s.task[t].early : Leads(o, way)
     /\ \A o \in s.arrive \cup UNION {turns.early : turns \in TurnsOf(s)} :
          "kill" \in o.fx => Leads(o, way)

SetsOut(n, way) ==
  LET s == Script[n]
  IN s.far \cap way.monsters # {} \/ s.entry \cap way.tasks # {} \/ \A o \in s.begin : Brings(o, way)

\* The ways to victory of which every outcome leads further.
Sure(n) ==
  LET s == Script[n]
      kept[k \in 0 .. Cardinality(Ids(s)) + Cardinality(DOMAIN s.task)] ==
        IF k = 0 THEN WaysOf[n]
          ELSE LET way == kept[k - 1]
                   sure(turns) == \A o \in turns.early : Leads(o, way)
               IN [monsters |-> {m \in way.monsters : sure(KilledIn(s, m))},
                   tasks |-> {t \in way.tasks : sure(s.task[t])}]
  IN kept[Cardinality(Ids(s)) + Cardinality(DOMAIN s.task)]

\* Every death on the way leads further.
SureWay(n, way) ==
  LET s == Script[n]
  IN /\ GoesOn(n, way)
     /\ \A m \in way.monsters : \A o \in KilledIn(s, m).early : Leads(o, way)
     /\ s.far \cap way.monsters = {} \/ s.far \subseteq way.monsters

\* All monsters of the script are on the way.
OnlyWay(n, way) == /\ \A o \in Outcomes(Script[n]) : o.spawn \subseteq way.monsters
                   /\ Script[n].far \subseteq way.monsters

\* The last death leads further: at the end of its animation, on a park's map, or at once.
LastReport(n, way) ==
  /\ GoesOn(n, way) /\ SetsOut(n, way) /\ OnlyWay(n, way)
  /\ \A o \in Script[n].cleared.early : Leads(o, way)
LastLook(n, way) ==
  GoesOn(n, way) /\ SetsOut(n, way) /\ OnlyWay(n, way) /\ Script[n].park
LastDeath(n, way) ==
  /\ OnlyWay(n, WaysOf[n]) /\ SureWay(n, way)
  /\ \A o \in Outcomes(Script[n]) : "kill" \notin o.fx
  /\ \A o \in Script[n].begin : o.spawn # {}
  /\ \A o \in Script[n].emptied : Leads(o, way)

KeepsGoing(n) ==
  \/ SureWay(n, Sure(n)) /\ SetsOut(n, Sure(n))
  \/ LastReport(n, WaysOf[n]) \/ LastLook(n, WaysOf[n]) \/ LastDeath(n, Sure(n))
GoalRule == \A n \in Name \ Exempt.goal : HasGoal(n) => KeepsGoing(n)
=============================================================================
