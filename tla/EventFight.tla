----------------------------- MODULE EventFight -----------------------------
(***************************************************************************)
(* The course of one event instance: the monsters its script spawns, the   *)
(* callbacks their deaths schedule, the functions the script schedules and *)
(* the event's clock (EventInstanceManager.java, MapleMonster.java), for   *)
(* any script of the table Script.                                         *)
(*                                                                         *)
(* A death calls the script only when the death animation is over; until   *)
(* then other players, other deaths and the timers go on. The clock's body *)
(* runs on a timer thread: between the moment it is started (due) and its  *)
(* look at the field `timer' a script may have started another clock.      *)
(***************************************************************************)
EXTENDS EventScript, FiniteSets

CONSTANTS Script,     \* the scripts: a function from their names to records
          Exempt,     \* for each property, the scripts that are an exception to it
          MaxDying,   \* bound: deaths whose callback is pending, at a time
          MaxPrizes   \* bound: prizes counted

Name == DOMAIN Script

\* The monsters a script reacts to, its own functions, and all that a call of one may do.
Ids(s) == DOMAIN s.kill \cup {Wild}
Own(s) == Ids(s) \cup s.far \cup {Bomb}
TurnsOf(s) == {s.other, s.cleared} \cup {s.kill[m] : m \in DOMAIN s.kill}
                                \cup {s.task[t] : t \in DOMAIN s.task}
Outcomes(s) == s.begin \cup s.emptied \cup s.arrive
                       \cup UNION {turns.early \cup turns.late : turns \in TurnsOf(s)}

\* A script spawns monsters of its own and schedules functions of its own.
ASSUME ScriptAssumption ==
  \A n \in Name :
    /\ Script[n].entry \subseteq DOMAIN Script[n].task
    /\ \A o \in Outcomes(Script[n]) : /\ o.spawn \subseteq Own(Script[n])
                                      /\ o.run \subseteq DOMAIN Script[n].task
ASSUME BoundAssumption == MaxDying \in Nat /\ MaxPrizes \in Nat

Monsters == UNION {Own(Script[n]) : n \in Name}
Tasks == UNION {DOMAIN Script[n].task : n \in Name}

VARIABLES script,     \* the event's script
          alive,      \* monsters on the maps
          dying,      \* dead monsters whose monsterKilled is scheduled
          parked,     \* threads that killed a park's monster and have not yet looked for others
          pending,    \* script functions scheduled
          clock,      \* eventTimer: "none", "short", "time", or "rung" (its body has not run)
          due,        \* bodies of timers that have started: "short", "expiry"
          timed,      \* startEventTimer has been called
          outcome,    \* "none", or what made the event end (ending): "won", "lost"
          prizes,     \* victories' rewards given
          brought,    \* a monster of far has come
          summoned,   \* the script's allMonstersKilled has run
          open        \* ~disposed

vars == <<script, alive, dying, parked, pending, clock, due, timed, outcome, prizes,
          brought, summoned, open>>
alarms == <<clock, due>>

S == Script[script]
ended == outcome # "none"
Unmarked(turns) == turns.early                                \* (slip)
React(turns) == IF ended THEN turns.late ELSE turns.early
Killed(m) == IF m \in DOMAIN S.kill THEN S.kill[m] ELSE S.other

(***************************************************************************)
(* What is done by an outcome o, when the monsters of on are on the maps   *)
(* and the functions of left are still scheduled. victory and defeat do    *)
(* their work once: they kill every monster and set a clock of 45 seconds. *)
(***************************************************************************)
Ends(o) == {"win", "lose"} \cap o.fx # {} /\ ~ended
Restarts(o) == "clock" \in o.fx \/ Ends(o)

Left(o, on) == IF Ends(o) THEN {} ELSE (IF "kill" \in o.fx THEN {} ELSE on) \cup o.spawn

Perform(o, on, left) ==
  /\ alive' = Left(o, on)
  /\ pending' = left \cup o.run
  /\ clock' = IF Restarts(o) THEN "time" ELSE IF "short" \in o.fx THEN "short" ELSE clock
  /\ timed' = (timed \/ Restarts(o))
  /\ outcome' = IF Ends(o) THEN (IF "win" \in o.fx THEN "won" ELSE "lost") ELSE outcome
  /\ prizes' = IF "prize" \in o.fx /\ prizes < MaxPrizes THEN prizes + 1 ELSE prizes

Begins(o) ==
  /\ alive = o.spawn
  /\ pending = o.run \cup S.entry
  /\ clock = IF "clock" \in o.fx THEN "time" ELSE IF "short" \in o.fx THEN "short" ELSE "none"
  /\ timed = ("clock" \in o.fx)

Init ==
  /\ script \in Name
  /\ \E o \in S.begin : Begins(o)
  /\ dying = {} /\ due = {} /\ parked = 0
  /\ outcome = "none" /\ prizes = 0 /\ brought = FALSE /\ summoned = FALSE
  /\ open = TRUE

(***************************************************************************)
(* A player kills a monster. Of some there are several. The map tells the  *)
(* event at once when it is empty (allMobKilled), and the monster tells it *)
(* after its death animation, unless its script flag is off.               *)
(***************************************************************************)
OneDeath(m) == {alive \ {m}} \cup (IF m \in S.many THEN {alive} ELSE {})

Loud(m) == m \notin Monsters                                   \* (slip)
Silent(m) == m = Bomb
DiesFor(m) == IF Silent(m) THEN dying ELSE dying \cup {m}

Kill(m) ==
  /\ open /\ m \in alive
  /\ Silent(m) \/ Cardinality(dying) < MaxDying
  /\ dying' = DiesFor(m)
  /\ parked' = IF S.park /\ parked < MaxDying THEN parked + 1 ELSE parked
  /\ \E rest \in OneDeath(m) :
       IF rest = {} /\ ~summoned
         THEN /\ summoned' = TRUE
              /\ \E o \in S.emptied : Perform(o, rest, pending)
         ELSE /\ alive' = rest
              /\ UNCHANGED <<pending, clock, timed, outcome, prizes, summoned>>
  /\ UNCHANGED <<script, due, brought, open>>

(***************************************************************************)
(* monsterKilled, and after it allMonstersDead if the map was empty before *)
(* the first of them ran.                                                  *)
(***************************************************************************)
ReportStays(m) == {dying}                                      \* (slip)
OneReport(m) == {dying \ {m}} \cup (IF m \in S.many THEN {dying} ELSE {})

Both(o, c) == Do(o.spawn \cup c.spawn, o.run \cup c.run, o.fx \cup c.fx)
NoneDead == {Nothing}                                          \* (slip)
AfterAll == IF alive = {} THEN React(S.cleared) ELSE {Nothing}

Callback(m) ==
  /\ open /\ m \in dying
  /\ dying' \in OneReport(m)
  /\ \E o \in React(Killed(m)), c \in AfterAll : Perform(Both(o, c), alive, pending)
  /\ UNCHANGED <<script, parked, due, brought, summoned, open>>

\* The map of a park: the thread that finds no park monster left calls MPvictory.
MPvictory ==
  /\ open /\ parked > 0
  /\ parked' = parked - 1
  /\ \E o \in {IF alive = {} THEN Prize ELSE Nothing} : Perform(o, alive, pending)
  /\ UNCHANGED <<script, dying, due, brought, summoned, open>>

Schedule(t) ==
  /\ open /\ t \in pending
  /\ \E o \in React(S.task[t]) : Perform(o, alive, pending \ {t})
  /\ UNCHANGED <<script, dying, parked, due, brought, summoned, open>>

(***************************************************************************)
(* A map's population, a reactor or the end of another monster brings a    *)
(* monster the script waits for; none of them is there before start.       *)
(***************************************************************************)
Arrival(m) ==
  /\ open /\ ~brought /\ ~ended /\ m \in S.far
  /\ "start" \notin pending
  /\ alive' = alive \cup {m}
  /\ brought' = TRUE
  /\ UNCHANGED <<script, dying, parked, pending, alarms, timed, outcome, prizes, summoned, open>>

AfterChangedMap ==
  /\ open
  /\ \E o \in S.arrive : o # Nothing /\ Perform(o, alive, pending)
  /\ UNCHANGED <<script, dying, parked, due, brought, summoned, open>>

(***************************************************************************)
(* The timers. A future that has started can no longer be cancelled.       *)
(***************************************************************************)
Dispose ==
  /\ open' = FALSE
  /\ clock' = "none"

Ring ==
  /\ open /\ clock \in {"short", "time"}
  /\ due' = due \cup {IF clock = "short" THEN "short" ELSE "expiry"}
  /\ clock' = IF clock = "short" THEN "none" ELSE "rung"
  /\ UNCHANGED <<script, alive, dying, parked, pending, timed, outcome, prizes, brought,
                 summoned, open>>

\* The body of createEventTimer: dismissEventTimer cancels the clock of now.
ShortTimer ==
  /\ open /\ "short" \in due
  /\ due' = due \ {"short"}
  /\ clock' = "none"
  /\ UNCHANGED <<script, alive, dying, parked, pending, timed, outcome, prizes, brought,
                 summoned, open>>

\* The body of startEventTimer: if some clock's `timer' is set, the event times out.
OwnTimer == clock = "time"                                     \* (slip)
Timer == clock \in {"time", "rung"}

EventTimer ==
  /\ open /\ "expiry" \in due
  /\ due' = due \ {"expiry"}
  /\ IF Timer /\ S.timeout = "all" THEN Dispose
       ELSE /\ clock' = IF Timer THEN "none" ELSE clock
            /\ open' = open
  /\ UNCHANGED <<script, alive, dying, parked, pending, timed, outcome, prizes, brought, summoned>>

\* Everybody leaves, and the event with them.
Abandon ==
  /\ open
  /\ Dispose
  /\ UNCHANGED <<script, alive, dying, parked, pending, due, timed, outcome, prizes, brought,
                 summoned>>

Next ==
  \/ \E m \in alive : Kill(m)
  \/ \E m \in dying : Callback(m)
  \/ \E t \in pending : Schedule(t)
  \/ \E m \in S.far : Arrival(m)
  \/ MPvictory \/ AfterChangedMap
  \/ Ring \/ ShortTimer \/ EventTimer \/ Abandon

\* What is scheduled runs: the clocks, and the functions that start one. Nobody has to fight.
StartsClock(n, t) == t \in DOMAIN Script[n].task
                     /\ \E o \in Script[n].task[t].early : "clock" \in o.fx
Starter == {t \in Tasks : \E n \in Name : StartsClock(n, t)}

Fairness ==
  /\ WF_vars(Ring) /\ WF_vars(ShortTimer) /\ WF_vars(EventTimer)
  /\ \A t \in Starter : WF_vars(Schedule(t))

Spec == Init /\ [][Next]_vars
FairSpec == Spec /\ Fairness

----------------------------------------------------------------------------
(***************************************************************************)
(* The monsters and the scheduled functions from which the script s leads  *)
(* to an effect of goal, found by as many steps back as it has of both.    *)
(***************************************************************************)
KilledIn(s, m) == IF m \in DOMAIN s.kill THEN s.kill[m] ELSE s.other

Ways(s, goal) ==
  LET back[n \in 0 .. Cardinality(Ids(s)) + Cardinality(DOMAIN s.task)] ==
        IF n = 0 THEN [monsters |-> {}, tasks |-> {}]
          ELSE LET known == back[n - 1]
                   leads(o) == \/ goal \cap o.fx # {}
                               \/ o.spawn \cap known.monsters # {}
                               \/ o.run \cap known.tasks # {}
                   leadsOut(os) == \E o \in os : leads(o)
                   always == s.park \/ leadsOut(s.cleared.early) \/ leadsOut(s.emptied)
               IN [monsters |-> {m \in Ids(s) : always \/ leadsOut(KilledIn(s, m).early)},
                   tasks |-> {t \in DOMAIN s.task : leadsOut(s.task[t].early)}]
  IN back[Cardinality(Ids(s)) + Cardinality(DOMAIN s.task)]

WaysOf == [n \in Name |-> Ways(Script[n], {"win"})]
HasGoal(n) == WaysOf[n].monsters # {}

----------------------------------------------------------------------------
\* Every variable has values of its kind.
TypeOK ==
  /\ script \in Name
  /\ alive \subseteq Monsters /\ dying \subseteq Monsters \ {Bomb}
  /\ Cardinality(dying) <= MaxDying /\ parked \in 0 .. MaxDying
  /\ pending \subseteq Tasks
  /\ clock \in {"none", "short", "time", "rung"} /\ due \subseteq {"short", "expiry"}
  /\ outcome \in {"none", "won", "lost"} /\ prizes \in 0 .. MaxPrizes
  /\ timed \in BOOLEAN /\ brought \in BOOLEAN /\ summoned \in BOOLEAN /\ open \in BOOLEAN

(***************************************************************************)
(* The rewards of a victory are given once. The scripts give them before   *)
(* they call victory, which alone looks at ending: what keeps a script     *)
(* from a second gift is that no second death of its goal can reach it.    *)
(***************************************************************************)
PaidOnce == script \notin Exempt.paid => prizes <= 1

(***************************************************************************)
(* After victory or defeat nothing new comes to the maps: what they left   *)
(* scheduled, and the deaths they interrupted, look at the flag finished   *)
(* first.                                                                  *)
(***************************************************************************)
QuietStep == ended /\ script \notin Exempt.quiet => alive' \subseteq alive
Quiet == [][QuietStep]_vars

(***************************************************************************)
(* An event with a goal that is not over can still be won: a monster, a    *)
(* death on its way to the script or a scheduled function leads to it.     *)
(***************************************************************************)
CanStillWin ==
  \/ (alive \cup dying) \cap WaysOf[script].monsters # {}
  \/ pending \cap WaysOf[script].tasks # {}
  \/ ~brought /\ S.far \cap WaysOf[script].monsters # {}
  \/ parked > 0

NoDeadEnd == script \notin Exempt.goal /\ open /\ ~ended /\ HasGoal(script) => CanStillWin

(***************************************************************************)
(* A clock that was started keeps running until its body runs: no body of  *)
(* an older clock cancels it.                                              *)
(***************************************************************************)
ClockKept ==
  script \notin Exempt.clock /\ open /\ timed => clock \in {"short", "time"} \/ "expiry" \in due

\* Every event is over some day: its clock ends it if nobody wins, loses or leaves.
TimesUp == script \in Exempt.time \/ <>~open
=============================================================================
