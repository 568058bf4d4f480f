-------------------------- MODULE EventFightProofs --------------------------
(***************************************************************************)
(* For every table of scripts: the variables keep their kinds, and the     *)
(* rules of EventRules are enough. A script with one clock keeps it, one   *)
(* with a single thread pays once and stays over. The rules are about each *)
(* script alone, so that every invariant is one of a script n.             *)
(***************************************************************************)
EXTENDS EventRules, FiniteSetTheorems, TLAPS

-----------------------------------------------------------------------------
(* What the script that is played may do.                                   *)

Legal(o) == o.spawn \subseteq Monsters /\ o.run \subseteq DOMAIN S.task

\* Whatever a script lists among its outcomes is legal.
LEMMA OutcomeLegal ==
  ASSUME script \in Name, NEW o \in Outcomes(S)
  PROVE  Legal(o)
<1>1. o.spawn \subseteq Own(S) /\ o.run \subseteq DOMAIN S.task
  BY ScriptAssumption DEF S
<1>2. Own(S) \subseteq Monsters
  BY DEF S, Monsters
<1> QED BY <1>1, <1>2 DEF Legal

\* Doing nothing is legal, and so is the prize of a park.
LEMMA PlainLegal == Legal(Nothing) /\ Legal(Prize)
BY DEF Legal, Nothing, Prize, Do

\* Two legal calls, one after the other, are legal.
LEMMA BothLegal ==
  ASSUME NEW o, NEW c, Legal(o), Legal(c)
  PROVE  Legal(Both(o, c))
BY DEF Legal, Both, Do

\* The functions of a script have the outcomes it lists.
LEMMA TurnsListed ==
  ASSUME NEW turns \in TurnsOf(S)
  PROVE  React(turns) \subseteq Outcomes(S)
<1>1. turns.early \cup turns.late \subseteq Outcomes(S)
  BY DEF Outcomes
<1> QED BY <1>1 DEF React

LEMMA KilledListed ==
  ASSUME NEW m
  PROVE  React(Killed(m)) \subseteq Outcomes(S)
<1>1. Killed(m) \in TurnsOf(S)
  BY DEF Killed, TurnsOf
<1> QED BY <1>1, TurnsListed

LEMMA TaskListed ==
  ASSUME NEW t \in DOMAIN S.task
  PROVE  React(S.task[t]) \subseteq Outcomes(S)
<1>1. S.task[t] \in TurnsOf(S)
  BY DEF TurnsOf
<1> QED BY <1>1, TurnsListed

LEMMA AfterAllListed == AfterAll \subseteq Outcomes(S) \cup {Nothing}
<1>1. S.cleared \in TurnsOf(S)
  BY DEF TurnsOf
<1>2. React(S.cleared) \subseteq Outcomes(S)
  BY <1>1, TurnsListed
<1> QED BY <1>2 DEF AfterAll

-----------------------------------------------------------------------------
(* Types. pending holds functions of the script that is played: that is     *)
(* what makes the next outcome one of those it lists.                       *)

Kinds == TypeOK /\ pending \subseteq DOMAIN S.task /\ IsFiniteSet(dying)

LEMMA PerformKinds ==
  ASSUME Kinds, NEW o, NEW on, NEW left, Legal(o), on \subseteq Monsters,
         left \subseteq DOMAIN S.task, Perform(o, on, left), script' = script
  PROVE  /\ alive' \subseteq Monsters /\ pending' \subseteq DOMAIN S'.task
         /\ pending' \subseteq Tasks
         /\ clock' \in {"none", "short", "time", "rung"} /\ timed' \in BOOLEAN
         /\ outcome' \in {"none", "won", "lost"} /\ prizes' \in 0 .. MaxPrizes
<1>0. S' = S /\ script \in Name
  BY DEF S, Kinds, TypeOK
<1>1. alive' \subseteq Monsters
  BY DEF Perform, Left, Legal
<1>2. pending' \subseteq DOMAIN S'.task
  BY <1>0 DEF Perform, Legal
<1>3. pending' \subseteq Tasks
  BY <1>0, <1>2 DEF Tasks, S
<1>4. clock' \in {"none", "short", "time", "rung"} /\ outcome' \in {"none", "won", "lost"}
  BY DEF Perform, Kinds, TypeOK
<1>5. timed' \in BOOLEAN
  BY DEF Perform, Kinds, TypeOK, Restarts, Ends
<1>6. prizes' \in 0 .. MaxPrizes
  BY BoundAssumption DEF Perform, Kinds, TypeOK
<1> QED BY <1>1, <1>2, <1>3, <1>4, <1>5, <1>6

\* The other variables of an action whose outcome is done by Perform.
LEMMA PerformStep ==
  ASSUME Kinds, NEW o, NEW on, NEW left, Legal(o), on \subseteq Monsters,
         left \subseteq DOMAIN S.task, Perform(o, on, left), script' = script,
         dying' \subseteq Monsters \ {Bomb}, IsFiniteSet(dying'),
         Cardinality(dying') <= MaxDying, parked' \in 0 .. MaxDying,
         due' = due, brought' = brought, open' = open, summoned' \in BOOLEAN
  PROVE  Kinds'
<1>1. /\ alive' \subseteq Monsters /\ pending' \subseteq DOMAIN S'.task
      /\ pending' \subseteq Tasks
      /\ clock' \in {"none", "short", "time", "rung"} /\ timed' \in BOOLEAN
      /\ outcome' \in {"none", "won", "lost"} /\ prizes' \in 0 .. MaxPrizes
  BY PerformKinds
<1>2. TypeOK'
  BY <1>1 DEF Kinds, TypeOK
<1> QED BY <1>1, <1>2 DEF Kinds

LEMMA InitKinds == Init => Kinds
<1> SUFFICES ASSUME Init PROVE Kinds
  OBVIOUS
<1>1. PICK o \in S.begin : Begins(o)
  BY DEF Init
<1>2. script \in Name /\ Legal(o)
  BY OutcomeLegal DEF Init, Outcomes
<1>3. S.entry \subseteq DOMAIN S.task
  BY <1>2, ScriptAssumption DEF S
<1>4. pending \subseteq DOMAIN S.task /\ pending \subseteq Tasks
  BY <1>1, <1>2, <1>3 DEF Begins, Legal, Tasks, S
<1>5. IsFiniteSet(dying) /\ Cardinality(dying) = 0
  BY FS_EmptySet DEF Init
<1>6. /\ alive \subseteq Monsters /\ timed \in BOOLEAN
      /\ clock \in {"none", "short", "time", "rung"}
  BY <1>1, <1>2 DEF Begins, Legal
<1>7. /\ dying = {} /\ due = {} /\ parked = 0 /\ outcome = "none" /\ prizes = 0
      /\ brought = FALSE /\ summoned = FALSE /\ open = TRUE
  BY DEF Init
<1>8. /\ Cardinality(dying) <= MaxDying /\ parked \in 0 .. MaxDying
      /\ prizes \in 0 .. MaxPrizes
  BY <1>5, <1>7, BoundAssumption
<1> QED BY <1>2, <1>4, <1>5, <1>6, <1>7, <1>8 DEF Kinds, TypeOK

\* A callback that is over, or one of several, leaves no more deaths than there were.
LEMMA ReportKinds ==
  ASSUME Kinds, NEW m \in dying, dying' \in OneReport(m)
  PROVE  /\ dying' \subseteq Monsters \ {Bomb} /\ IsFiniteSet(dying')
         /\ Cardinality(dying') <= MaxDying
<1>1. dying' \subseteq dying
  BY DEF OneReport
<1>2. IsFiniteSet(dying') /\ Cardinality(dying') <= Cardinality(dying)
  BY <1>1, FS_Subset DEF Kinds
<1>3. Cardinality(dying') \in Nat /\ Cardinality(dying) \in Nat
  BY <1>2, FS_CardinalityType DEF Kinds
<1> QED BY <1>1, <1>2, <1>3, BoundAssumption DEF Kinds, TypeOK

LEMMA DeathKinds ==
  ASSUME Kinds, NEW m \in alive, Silent(m) \/ Cardinality(dying) < MaxDying
  PROVE  /\ DiesFor(m) \subseteq Monsters \ {Bomb} /\ IsFiniteSet(DiesFor(m))
         /\ Cardinality(DiesFor(m)) <= MaxDying
<1>1. m \in Monsters /\ IsFiniteSet(dying) /\ Cardinality(dying) \in Nat
  BY FS_CardinalityType DEF Kinds, TypeOK
<1>2. CASE Silent(m)
  BY <1>1, <1>2 DEF DiesFor, Kinds, TypeOK
<1>3. CASE ~Silent(m)
  <2>1. /\ IsFiniteSet(dying \cup {m})
        /\ \/ Cardinality(dying \cup {m}) = Cardinality(dying)
           \/ Cardinality(dying \cup {m}) = Cardinality(dying) + 1
    <3>1. IsFiniteSet(dying)
      BY <1>1
    <3> QED BY <3>1, FS_AddElement
  <2>2. Cardinality(dying \cup {m}) \in Nat
    BY <2>1, FS_CardinalityType
  <2>3. Cardinality(dying \cup {m}) <= MaxDying
    BY <1>1, <1>3, <2>1, <2>2, BoundAssumption
  <2> QED BY <1>1, <1>3, <2>1, <2>3 DEF DiesFor, Kinds, TypeOK, Silent
<1> QED BY <1>2, <1>3

LEMMA KillKinds == ASSUME Kinds, NEW m \in alive, Kill(m) PROVE Kinds'
<1>0. script \in Name /\ UNCHANGED <<script, due, brought, open>> /\ S' = S
  BY DEF Kinds, TypeOK, Kill, S
<1>1. /\ dying' \subseteq Monsters \ {Bomb} /\ IsFiniteSet(dying')
      /\ Cardinality(dying') <= MaxDying
  BY DeathKinds DEF Kill
<1>2. parked' \in 0 .. MaxDying
  BY BoundAssumption DEF Kill, Kinds, TypeOK
<1>3. PICK rest \in OneDeath(m) :
        IF rest = {} /\ ~summoned
          THEN /\ summoned' = TRUE
               /\ \E o \in S.emptied : Perform(o, rest, pending)
          ELSE /\ alive' = rest
               /\ UNCHANGED <<pending, clock, timed, outcome, prizes, summoned>>
  BY DEF Kill
<1>4. rest \subseteq Monsters
  BY DEF OneDeath, Kinds, TypeOK
<1>5. CASE rest = {} /\ ~summoned
  <2>1. PICK o \in S.emptied : Perform(o, rest, pending)
    BY <1>3, <1>5
  <2>2. Legal(o)
    BY <1>0, OutcomeLegal DEF Outcomes
  <2>3. summoned' \in BOOLEAN /\ pending \subseteq DOMAIN S.task
    BY <1>3, <1>5 DEF Kinds
  <2> QED BY <1>0, <1>1, <1>2, <1>4, <2>1, <2>2, <2>3, PerformStep
<1>6. CASE ~(rest = {} /\ ~summoned)
  <2>1. alive' = rest /\ UNCHANGED <<pending, clock, timed, outcome, prizes, summoned>>
    BY <1>3, <1>6
  <2> QED BY <1>0, <1>1, <1>2, <1>4, <2>1 DEF Kinds, TypeOK
<1> QED BY <1>5, <1>6

LEMMA CallbackKinds == ASSUME Kinds, NEW m \in dying, Callback(m) PROVE Kinds'
<1>0. script \in Name /\ UNCHANGED <<script, parked, due, brought, summoned, open>>
  BY DEF Kinds, TypeOK, Callback
<1>1. PICK o \in React(Killed(m)), c \in AfterAll : Perform(Both(o, c), alive, pending)
  BY DEF Callback
<1>2. Legal(o) /\ Legal(c)
  BY <1>0, KilledListed, AfterAllListed, OutcomeLegal, PlainLegal
<1>3. Legal(Both(o, c))
  BY <1>2, BothLegal
<1>4. /\ dying' \subseteq Monsters \ {Bomb} /\ IsFiniteSet(dying')
      /\ Cardinality(dying') <= MaxDying
  BY ReportKinds DEF Callback
<1>5. /\ alive \subseteq Monsters /\ pending \subseteq DOMAIN S.task
      /\ parked' \in 0 .. MaxDying /\ summoned' \in BOOLEAN
  BY <1>0 DEF Kinds, TypeOK
<1> QED BY <1>0, <1>1, <1>3, <1>4, <1>5, PerformStep

\* The actions that leave the deaths alone and do one legal outcome.
LEMMA QuietDeaths ==
  ASSUME Kinds, NEW o, NEW left, Legal(o), left \subseteq DOMAIN S.task,
         Perform(o, alive, left), UNCHANGED <<script, dying, due, brought, summoned, open>>,
         parked' \in 0 .. MaxDying
  PROVE  Kinds'
<1>1. /\ dying' \subseteq Monsters \ {Bomb} /\ IsFiniteSet(dying')
      /\ Cardinality(dying') <= MaxDying /\ alive \subseteq Monsters
      /\ summoned' \in BOOLEAN
  BY DEF Kinds, TypeOK
<1> QED BY <1>1, PerformStep

LEMMA NextKinds == Kinds /\ [Next]_vars => Kinds'
<1> SUFFICES ASSUME Kinds, [Next]_vars PROVE Kinds'
  OBVIOUS
<1>0. script \in Name /\ pending \subseteq DOMAIN S.task /\ parked \in 0 .. MaxDying
  BY DEF Kinds, TypeOK
<1>1. CASE \E m \in alive : Kill(m)
  BY <1>1, KillKinds
<1>2. CASE \E m \in dying : Callback(m)
  BY <1>2, CallbackKinds
<1>3. CASE \E t \in pending : Schedule(t)
  <2>1. PICK t \in pending : Schedule(t)
    BY <1>3
  <2>2. PICK o \in React(S.task[t]) : Perform(o, alive, pending \ {t})
    BY <2>1 DEF Schedule
  <2>3. Legal(o)
    BY <1>0, TaskListed, OutcomeLegal
  <2>4. /\ UNCHANGED <<script, dying, parked, due, brought, summoned, open>>
        /\ pending \ {t} \subseteq DOMAIN S.task
    BY <1>0, <2>1 DEF Schedule
  <2> QED BY <1>0, <2>2, <2>3, <2>4, QuietDeaths
<1>4. CASE \E m \in S.far : Arrival(m)
  <2>1. PICK m \in S.far : Arrival(m)
    BY <1>4
  <2>2. m \in Monsters
    BY <1>0 DEF Monsters, Own, S
  <2>3. S' = S
    BY <2>1 DEF Arrival, S
  <2> QED BY <2>1, <2>2, <2>3 DEF Arrival, alarms, Kinds, TypeOK
<1>5. CASE MPvictory
  <2>1. PICK o \in {IF alive = {} THEN Prize ELSE Nothing} : Perform(o, alive, pending)
    BY <1>5 DEF MPvictory
  <2>2. Legal(o)
    BY PlainLegal
  <2>3. /\ UNCHANGED <<script, dying, due, brought, summoned, open>>
        /\ parked' \in 0 .. MaxDying
    BY <1>0, <1>5, BoundAssumption DEF MPvictory
  <2> QED BY <1>0, <2>1, <2>2, <2>3, QuietDeaths
<1>6. CASE AfterChangedMap
  <2>1. PICK o \in S.arrive : Perform(o, alive, pending)
    BY <1>6 DEF AfterChangedMap
  <2>2. Legal(o)
    BY <1>0, OutcomeLegal DEF Outcomes
  <2>3. UNCHANGED <<script, dying, parked, due, brought, summoned, open>>
    BY <1>6 DEF AfterChangedMap
  <2> QED BY <1>0, <2>1, <2>2, <2>3, QuietDeaths
<1>7. CASE Ring
  BY <1>7 DEF Ring, Kinds, TypeOK, S
<1>8. CASE ShortTimer
  BY <1>8 DEF ShortTimer, Kinds, TypeOK, S
<1>9. CASE EventTimer
  BY <1>9 DEF EventTimer, Dispose, Kinds, TypeOK, S
<1>10. CASE Abandon
  BY <1>10 DEF Abandon, Dispose, Kinds, TypeOK, S
<1>11. CASE UNCHANGED vars
  BY <1>11 DEF vars, Kinds, TypeOK, S
<1> QED BY <1>1, <1>2, <1>3, <1>4, <1>5, <1>6, <1>7, <1>8, <1>9, <1>10, <1>11 DEF Next

\* Every variable keeps values of its kind, whatever the scripts are.
THEOREM FightTypes == Spec => []TypeOK
<1>1. Kinds => TypeOK
  BY DEF Kinds
<1> QED BY InitKinds, NextKinds, <1>1, PTL DEF Spec
-----------------------------------------------------------------------------
(* The clock. With one clock no body of a short one is ever due: "expiry"   *)
(* can only be due while the clock that rang is still the event's.          *)

Running ==
  /\ Kinds
  /\ clock # "short" /\ "short" \notin due
  /\ clock = "rung" => "expiry" \in due
  /\ open /\ timed => clock \in {"time", "rung"}

Plain(o) == "short" \notin o.fx

LEMMA OutcomePlain ==
  ASSUME ClockRule, script \in Name \ Exempt.clock, NEW o \in Outcomes(S)
  PROVE  Plain(o)
BY DEF ClockRule, OneClock, S, Plain

LEMMA NothingPlain == Plain(Nothing) /\ Plain(Prize)
BY DEF Plain, Nothing, Prize, Do

LEMMA BothPlain ==
  ASSUME NEW o, NEW c, Plain(o), Plain(c)
  PROVE  Plain(Both(o, c))
BY DEF Plain, Both, Do

\* An outcome without a short clock starts the event's clock or leaves it as it is.
LEMMA PerformRunning ==
  ASSUME Running, NEW o, NEW on, NEW left, Plain(o), Perform(o, on, left),
         due' = due, open' = open, Kinds'
  PROVE  Running'
<1>1. \/ clock' = "time" /\ timed'
      \/ clock' = clock /\ timed' = timed
  <2>1. CASE Restarts(o)
    BY <2>1 DEF Perform
  <2>2. CASE ~Restarts(o)
    <3>1. clock' = clock
      BY <2>2 DEF Perform, Plain
    <3>2. timed' = timed
      BY <2>2 DEF Perform, Running, Kinds, TypeOK
    <3> QED BY <3>1, <3>2
  <2> QED BY <2>1, <2>2
<1> QED BY <1>1 DEF Running

LEMMA InitRunning ==
  ASSUME ClockRule, script \notin Exempt.clock, Init
  PROVE  Running
<1>1. PICK o \in S.begin : Begins(o)
  BY DEF Init
<1>2. Plain(o)
  BY OutcomePlain DEF Init, Outcomes
<1>3. clock = IF "clock" \in o.fx THEN "time" ELSE "none"
  BY <1>1, <1>2 DEF Begins, Plain
<1>4. timed => clock = "time"
  BY <1>1, <1>3 DEF Begins
<1>5. due = {}
  BY DEF Init
<1> QED BY <1>3, <1>4, <1>5, InitKinds DEF Running

LEMMA NextRunning ==
  ASSUME ClockRule, script \notin Exempt.clock, Running, [Next]_vars
  PROVE  Running'
<1>0. Kinds' /\ script \in Name /\ pending \subseteq DOMAIN S.task
  BY NextKinds DEF Running, Kinds, TypeOK
<1>1. CASE \E m \in alive : Kill(m)
  <2>1. PICK m \in alive : Kill(m)
    BY <1>1
  <2>2. due' = due /\ open' = open
    BY <2>1 DEF Kill
  <2>3. \/ \E o \in S.emptied, rest \in OneDeath(m) : Perform(o, rest, pending)
        \/ UNCHANGED <<clock, timed>>
    BY <2>1 DEF Kill
  <2>4. CASE UNCHANGED <<clock, timed>>
    BY <1>0, <2>2, <2>4 DEF Running
  <2>5. CASE \E o \in S.emptied, rest \in OneDeath(m) : Perform(o, rest, pending)
    <3>1. PICK o \in S.emptied, rest \in OneDeath(m) : Perform(o, rest, pending)
      BY <2>5
    <3>2. Plain(o)
      BY <1>0, OutcomePlain DEF Outcomes
    <3> QED BY <1>0, <2>2, <3>1, <3>2, PerformRunning
  <2> QED BY <2>3, <2>4, <2>5
<1>2. CASE \E m \in dying : Callback(m)
  <2>1. PICK m \in dying : Callback(m)
    BY <1>2
  <2>2. PICK o \in React(Killed(m)), c \in AfterAll : Perform(Both(o, c), alive, pending)
    BY <2>1 DEF Callback
  <2>3. Plain(o) /\ Plain(c)
    BY <1>0, KilledListed, AfterAllListed, OutcomePlain, NothingPlain
  <2>4. Plain(Both(o, c))
    BY <2>3, BothPlain
  <2>5. due' = due /\ open' = open
    BY <2>1 DEF Callback
  <2> QED BY <1>0, <2>2, <2>4, <2>5, PerformRunning
<1>3. CASE \E t \in pending : Schedule(t)
  <2>1. PICK t \in pending : Schedule(t)
    BY <1>3
  <2>2. PICK o \in React(S.task[t]) : Perform(o, alive, pending \ {t})
    BY <2>1 DEF Schedule
  <2>3. Plain(o)
    BY <1>0, TaskListed, OutcomePlain
  <2>4. due' = due /\ open' = open
    BY <2>1 DEF Schedule
  <2> QED BY <1>0, <2>2, <2>3, <2>4, PerformRunning
<1>4. CASE \E m \in S.far : Arrival(m)
  <2>1. UNCHANGED <<clock, due, timed, open>>
    BY <1>4 DEF Arrival, alarms
  <2> QED BY <1>0, <2>1 DEF Running
<1>5. CASE MPvictory
  <2>1. PICK o \in {IF alive = {} THEN Prize ELSE Nothing} : Perform(o, alive, pending)
    BY <1>5 DEF MPvictory
  <2>2. Plain(o)
    BY NothingPlain
  <2>3. due' = due /\ open' = open
    BY <1>5 DEF MPvictory
  <2> QED BY <1>0, <2>1, <2>2, <2>3, PerformRunning
<1>6. CASE AfterChangedMap
  <2>1. PICK o \in S.arrive : Perform(o, alive, pending)
    BY <1>6 DEF AfterChangedMap
  <2>2. Plain(o)
    BY <1>0, OutcomePlain DEF Outcomes
  <2>3. due' = due /\ open' = open
    BY <1>6 DEF AfterChangedMap
  <2> QED BY <1>0, <2>1, <2>2, <2>3, PerformRunning
<1>7. CASE Ring
  <2>1. clock' = "rung" /\ due' = due \cup {"expiry"} /\ UNCHANGED <<timed, open>>
    BY <1>7 DEF Ring, Running
  <2> QED BY <1>0, <2>1 DEF Running
<1>8. CASE ShortTimer
  BY <1>8 DEF ShortTimer, Running
<1>9. CASE EventTimer
  <2>1. S.timeout = "all"
    BY <1>0 DEF ClockRule, OneClock, S
  <2>2. CASE Timer
    <3>1. ~open' /\ clock' = "none" /\ due' = due \ {"expiry"}
      BY <1>9, <2>1, <2>2 DEF EventTimer, Dispose
    <3> QED BY <1>0, <3>1 DEF Running
  <2>3. CASE ~Timer
    <3>1. UNCHANGED <<clock, open, timed>> /\ due' = due \ {"expiry"}
      BY <1>9, <2>3 DEF EventTimer
    <3> QED BY <1>0, <2>3, <3>1 DEF Running, Timer
  <2> QED BY <2>2, <2>3
<1>10. CASE Abandon
  <2>1. ~open' /\ clock' = "none" /\ due' = due
    BY <1>10 DEF Abandon, Dispose
  <2> QED BY <1>0, <2>1 DEF Running
<1>11. CASE UNCHANGED vars
  BY <1>0, <1>11 DEF vars, Running
<1> QED BY <1>1, <1>2, <1>3, <1>4, <1>5, <1>6, <1>7, <1>8, <1>9, <1>10, <1>11 DEF Next

\* The event plays one script.
LEMMA SameScript == [Next]_vars => script' = script
BY DEF Next, vars, Kill, Callback, Schedule, Arrival, MPvictory, AfterChangedMap, Ring,
       ShortTimer, EventTimer, Abandon

\* A clock that was started is not lost in an event whose script starts no short one and ends
\* when it times out, whatever else it does.
THEOREM ClockIsKept == ASSUME ClockRule PROVE Spec => []ClockKept
<1>1. Init => script \in Exempt.clock \/ Running
  BY InitRunning
<1>2. (script \in Exempt.clock \/ Running) /\ [Next]_vars
      => (script \in Exempt.clock \/ Running)'
  BY NextRunning, SameScript
<1>3. script \in Exempt.clock \/ Running => ClockKept
  BY DEF Running, ClockKept
<1> QED BY <1>1, <1>2, <1>3, PTL DEF Spec
-----------------------------------------------------------------------------
(* The steps of an event that plays the script n, seen by what they do to   *)
(* its monsters and functions.                                              *)

Effect(o, on, left) ==
  /\ alive' = Left(o, on)
  /\ pending' = left \cup o.run
  /\ outcome' = IF Ends(o) THEN (IF "win" \in o.fx THEN "won" ELSE "lost") ELSE outcome
  /\ prizes' = IF "prize" \in o.fx /\ prizes < MaxPrizes THEN prizes + 1 ELSE prizes

LEMMA PerformEffect ==
  ASSUME NEW o, NEW on, NEW left, Perform(o, on, left)
  PROVE  Effect(o, on, left)
BY DEF Perform, Effect

Plays(n) ==
  /\ Kinds /\ script = n
  /\ alive \subseteq Own(Script[n]) /\ dying \subseteq Own(Script[n])
  /\ Script[n].park \/ parked = 0

Death(n, m) ==
  /\ dying' = DiesFor(m) /\ brought' = brought
  /\ \E rest \in {alive \ {m}} \cup (IF m \in Script[n].many THEN {alive} ELSE {}) :
     /\ \E o \in (IF rest = {} /\ ~summoned THEN Script[n].emptied ELSE {Nothing}) :
          Effect(o, rest, pending)
     /\ summoned' = (summoned \/ rest = {})
  /\ IF Script[n].park THEN m = Bomb \/ parked' > 0 ELSE parked' = parked

Turn(n, turns) == IF ended THEN turns.late ELSE turns.early
Report(n, m) ==
  /\ dying' \in {dying \ {m}} \cup (IF m \in Script[n].many THEN {dying} ELSE {})
  /\ UNCHANGED <<brought, parked, summoned>>
  /\ \E o \in Turn(n, KilledIn(Script[n], m)),
        c \in (IF alive = {} THEN Turn(n, Script[n].cleared) ELSE {Nothing}) :
       Effect(Both(o, c), alive, pending)

Task(n, t) ==
  /\ UNCHANGED <<dying, brought, parked, summoned>>
  /\ \E o \in Turn(n, Script[n].task[t]) : Effect(o, alive, pending \ {t})

Comes(m) ==
  /\ ~brought /\ ~ended /\ "start" \notin pending
  /\ alive' = alive \cup {m} /\ brought' = TRUE
  /\ UNCHANGED <<dying, pending, outcome, prizes, parked, summoned>>

Looks(n) ==
  /\ UNCHANGED <<dying, brought, summoned>> /\ parked > 0
  /\ \E o \in (IF alive = {} THEN {Prize} ELSE {Nothing}) : Effect(o, alive, pending)

Enters(n) ==
  /\ UNCHANGED <<dying, brought, parked, summoned>>
  /\ \E o \in Script[n].arrive \ {Nothing} : Effect(o, alive, pending)

Passes == UNCHANGED <<alive, dying, pending, outcome, prizes, brought, parked, summoned>>

Steps(n) ==
  \/ \E m \in alive : Death(n, m)
  \/ \E m \in dying : Report(n, m)
  \/ \E t \in pending : Task(n, t)
  \/ \E m \in Script[n].far : Comes(m)
  \/ Looks(n) \/ Enters(n) \/ Passes

\* Every step of the event is one of these.
LEMMA NextSteps ==
  ASSUME NEW n \in Name, Plays(n), [Next]_vars
  PROVE  Steps(n)
<1>0. S = Script[n] /\ script = n /\ Kinds
  BY DEF S, Plays
<1>1. ASSUME NEW m \in alive, Kill(m) PROVE Death(n, m)
  <2>1. PICK rest \in OneDeath(m) :
          IF rest = {} /\ ~summoned
            THEN /\ summoned' = TRUE
                 /\ \E o \in S.emptied : Perform(o, rest, pending)
            ELSE /\ alive' = rest
                 /\ UNCHANGED <<pending, clock, timed, outcome, prizes, summoned>>
    BY <1>1 DEF Kill
  <2>2. rest \in {alive \ {m}} \cup (IF m \in Script[n].many THEN {alive} ELSE {})
    BY <1>0, <2>1 DEF OneDeath
  <2>3. \E o \in (IF rest = {} /\ ~summoned THEN Script[n].emptied ELSE {Nothing}) :
          Effect(o, rest, pending)
    <3>1. CASE rest = {} /\ ~summoned
      BY <1>0, <2>1, <3>1, PerformEffect
    <3>2. CASE ~(rest = {} /\ ~summoned)
      <4>1. alive' = rest /\ UNCHANGED <<pending, outcome, prizes>>
        BY <2>1, <3>2
      <4>2. Effect(Nothing, rest, pending)
        BY <4>1 DEF Effect, Nothing, Do, Left, Ends
      <4> QED BY <3>2, <4>2
    <3> QED BY <3>1, <3>2
  <2>4. dying' = DiesFor(m) /\ brought' = brought
    BY <1>1 DEF Kill
  <2>5. IF Script[n].park THEN m = Bomb \/ parked' > 0 ELSE parked' = parked
    <3>1. CASE ~Script[n].park
      BY <1>0, <1>1, <3>1 DEF Kill
    <3>2. CASE Script[n].park /\ m # Bomb
      <4>1. Cardinality(dying) < MaxDying /\ Cardinality(dying) \in Nat
        BY <1>0, <1>1, <3>2, FS_CardinalityType DEF Kill, Silent, Kinds
      <4>2. MaxDying \in Nat /\ MaxDying > 0 /\ parked \in 0 .. MaxDying
        BY <1>0, <4>1, BoundAssumption DEF Kinds, TypeOK
      <4>3. parked' = IF parked < MaxDying THEN parked + 1 ELSE parked
        BY <1>0, <1>1, <3>2 DEF Kill
      <4>4. parked' > 0
        BY <4>2, <4>3
      <4> QED BY <3>2, <4>4
    <3> QED BY <3>1, <3>2
  <2>6. summoned' = (summoned \/ rest = {})
    BY <1>0, <2>1 DEF Kinds, TypeOK
  <2> QED BY <2>2, <2>3, <2>4, <2>5, <2>6 DEF Death
<1>2. ASSUME NEW m \in dying, Callback(m) PROVE Report(n, m)
  <2>1. PICK o \in React(Killed(m)), c \in AfterAll : Perform(Both(o, c), alive, pending)
    BY <1>2 DEF Callback
  <2>2. o \in Turn(n, KilledIn(Script[n], m))
    BY <1>0, <2>1 DEF React, Killed, Turn, KilledIn
  <2>3. c \in (IF alive = {} THEN Turn(n, Script[n].cleared) ELSE {Nothing})
    BY <1>0, <2>1 DEF AfterAll, React, Turn
  <2>4. Effect(Both(o, c), alive, pending)
    BY <2>1, PerformEffect
  <2>5. dying' \in {dying \ {m}} \cup (IF m \in Script[n].many THEN {dying} ELSE {})
    BY <1>0, <1>2 DEF Callback, OneReport
  <2>6. UNCHANGED <<brought, parked, summoned>>
    BY <1>2 DEF Callback
  <2> QED BY <2>2, <2>3, <2>4, <2>5, <2>6 DEF Report
<1>3. ASSUME NEW t \in pending, Schedule(t) PROVE Task(n, t)
  <2>1. PICK o \in React(S.task[t]) : Perform(o, alive, pending \ {t})
    BY <1>3 DEF Schedule
  <2>2. o \in Turn(n, Script[n].task[t])
    BY <1>0, <2>1 DEF React, Turn
  <2>3. Effect(o, alive, pending \ {t})
    BY <2>1, PerformEffect
  <2> QED BY <1>3, <2>2, <2>3 DEF Schedule, Task
<1>4. ASSUME NEW m \in S.far, Arrival(m) PROVE Comes(m)
  BY <1>4 DEF Arrival, Comes
<1>5. CASE MPvictory
  <2>1. PICK o \in {IF alive = {} THEN Prize ELSE Nothing} : Perform(o, alive, pending)
    BY <1>5 DEF MPvictory
  <2>2. o \in (IF alive = {} THEN {Prize} ELSE {Nothing})
    BY <2>1
  <2>3. Effect(o, alive, pending)
    BY <2>1, PerformEffect
  <2> QED BY <1>5, <2>2, <2>3 DEF MPvictory, Looks, Steps
<1>6. CASE AfterChangedMap
  <2>1. PICK o \in S.arrive : o # Nothing /\ Perform(o, alive, pending)
    BY <1>6 DEF AfterChangedMap
  <2>2. o \in Script[n].arrive \ {Nothing} /\ Effect(o, alive, pending)
    BY <1>0, <2>1, PerformEffect
  <2> QED BY <1>6, <2>2 DEF AfterChangedMap, Enters, Steps
<1>7. CASE Ring \/ ShortTimer \/ EventTimer \/ Abandon
  BY <1>7 DEF Ring, ShortTimer, EventTimer, Abandon, Passes, Steps
<1>8. CASE UNCHANGED vars
  BY <1>8 DEF vars, Passes, Steps
<1> QED BY <1>0, <1>1, <1>2, <1>3, <1>4, <1>5, <1>6, <1>7, <1>8 DEF Next, Steps

\* A monster of n's event is one of n's own.
LEMMA OwnSpawn ==
  ASSUME NEW n \in Name, NEW o \in Outcomes(Script[n])
  PROVE  o.spawn \subseteq Own(Script[n])
BY ScriptAssumption

LEMMA TurnListed ==
  ASSUME NEW n \in Name, NEW turns \in TurnsOf(Script[n])
  PROVE  Turn(n, turns) \subseteq Outcomes(Script[n])
<1>1. turns.early \cup turns.late \subseteq Outcomes(Script[n])
  BY DEF Outcomes
<1> QED BY <1>1 DEF Turn

LEMMA InitPlays == ASSUME Init, NEW n, script = n PROVE Plays(n)
<1>1. PICK o \in S.begin : Begins(o)
  BY DEF Init
<1>2. n \in Name /\ S = Script[n]
  BY DEF Init, S
<1>3. o.spawn \subseteq Own(Script[n])
  BY <1>1, <1>2, OwnSpawn DEF Outcomes
<1>4. alive \subseteq Own(Script[n])
  BY <1>1, <1>3 DEF Begins
<1> QED BY <1>4, InitKinds DEF Init, Plays

\* What the outcomes of n spawn, and what comes from elsewhere, is all that is ever alive.
LEMMA EffectWithin ==
  ASSUME NEW X, NEW o, NEW on, NEW left, Effect(o, on, left), o.spawn \subseteq X, on \subseteq X
  PROVE  alive' \subseteq X
BY DEF Effect, Left

LEMMA NextWithin ==
  ASSUME NEW n \in Name, Plays(n), NEW X, alive \subseteq X, Script[n].far \subseteq X,
         \A o \in Outcomes(Script[n]) : o.spawn \subseteq X, [Next]_vars
  PROVE  alive' \subseteq X
<1>a. Nothing.spawn \subseteq X /\ Prize.spawn \subseteq X
  BY DEF Nothing, Prize, Do
<1>1. CASE \E m \in alive : Death(n, m)
  <2>1. PICK m \in alive : Death(n, m)
    BY <1>1
  <2>2. PICK rest \in {alive \ {m}} \cup (IF m \in Script[n].many THEN {alive} ELSE {}) :
        \E o \in (IF rest = {} /\ ~summoned THEN Script[n].emptied ELSE {Nothing}) :
          Effect(o, rest, pending)
    BY <2>1 DEF Death
  <2>3. PICK o \in (IF rest = {} /\ ~summoned THEN Script[n].emptied ELSE {Nothing}) :
          Effect(o, rest, pending)
    BY <2>2
  <2>4. o.spawn \subseteq X
    BY <1>a DEF Outcomes
  <2>5. rest \subseteq X
    OBVIOUS
  <2> QED BY <2>3, <2>4, <2>5, EffectWithin
<1>2. CASE \E m \in dying : Report(n, m)
  <2>1. PICK m \in dying : Report(n, m)
    BY <1>2
  <2>2. PICK o \in Turn(n, KilledIn(Script[n], m)),
             c \in (IF alive = {} THEN Turn(n, Script[n].cleared) ELSE {Nothing}) :
               Effect(Both(o, c), alive, pending)
    BY <2>1 DEF Report
  <2>3. KilledIn(Script[n], m) \in TurnsOf(Script[n]) /\ Script[n].cleared \in TurnsOf(Script[n])
    BY DEF KilledIn, TurnsOf
  <2>4. o.spawn \subseteq X /\ c.spawn \subseteq X
    BY <1>a, <2>3, TurnListed
  <2>5. Both(o, c).spawn \subseteq X
    BY <2>4 DEF Both, Do
  <2> QED BY <2>2, <2>5, EffectWithin
<1>3. CASE \E t \in pending : Task(n, t)
  <2>1. PICK t \in pending : Task(n, t)
    BY <1>3
  <2>2. PICK o \in Turn(n, Script[n].task[t]) : Effect(o, alive, pending \ {t})
    BY <2>1 DEF Task
  <2>3. t \in DOMAIN Script[n].task
    BY DEF Plays, Kinds, S
  <2>4. Script[n].task[t] \in TurnsOf(Script[n])
    BY <2>3 DEF TurnsOf
  <2>5. o.spawn \subseteq X
    BY <2>2, <2>4, TurnListed
  <2> QED BY <2>2, <2>5, EffectWithin
<1>4. CASE \E m \in Script[n].far : Comes(m)
  BY <1>4 DEF Comes
<1>5. CASE Looks(n)
  <2>1. PICK o \in (IF alive = {} THEN {Prize} ELSE {Nothing}) : Effect(o, alive, pending)
    BY <1>5 DEF Looks
  <2> QED BY <1>a, <2>1, EffectWithin
<1>6. CASE Enters(n)
  <2>1. PICK o \in Script[n].arrive : Effect(o, alive, pending)
    BY <1>6 DEF Enters
  <2>2. o.spawn \subseteq X
    BY DEF Outcomes
  <2> QED BY <2>1, <2>2, EffectWithin
<1>7. CASE Passes
  BY <1>7 DEF Passes
<1> QED BY <1>1, <1>2, <1>3, <1>4, <1>5, <1>6, <1>7, NextSteps DEF Steps

LEMMA NextPlays ==
  ASSUME NEW n \in Name, Plays(n), [Next]_vars
  PROVE  Plays(n)'
<1>0. Kinds' /\ script' = n
  BY NextKinds, SameScript DEF Plays
<1>1. /\ alive \subseteq Own(Script[n]) /\ dying \subseteq Own(Script[n])
      /\ Script[n].park \/ parked = 0
  BY DEF Plays
<1>2. alive' \subseteq Own(Script[n])
  <2>1. Script[n].far \subseteq Own(Script[n])
    BY DEF Own
  <2>2. \A o \in Outcomes(Script[n]) : o.spawn \subseteq Own(Script[n])
    BY ScriptAssumption
  <2> QED BY <1>1, <2>1, <2>2, NextWithin
<1>3. dying' \subseteq Own(Script[n])
  BY <1>1, NextSteps DEF Steps, Death, DiesFor, Report, Task, Comes, Looks, Enters, Passes
<1>4. ASSUME ~Script[n].park PROVE parked' = 0
  <2>1. parked = 0
    BY <1>1, <1>4
  <2>2. ~Looks(n)
    BY <2>1 DEF Looks
  <2>3. parked' = parked
    BY <1>4, <2>2, NextSteps DEF Steps, Death, Report, Task, Comes, Enters, Passes
  <2> QED BY <2>1, <2>3
<1> QED BY <1>0, <1>2, <1>3, <1>4 DEF Plays

-----------------------------------------------------------------------------
(* A single thread. What is ahead of it is on the maps, dead, scheduled, or *)
(* has still to come: one of these at most, and nothing once the goal is    *)
(* reached. No counting is needed: two of them would already be a fork.     *)

Exclusive(A, D, P, F) ==
  /\ AtMostOne(A) /\ AtMostOne(D) /\ AtMostOne(P)
  /\ A # {} => D = {} /\ P = {} /\ ~F
  /\ D # {} => P = {} /\ ~F
  /\ P # {} => ~F
Empty(A, D, P, F) == A = {} /\ D = {} /\ P = {} /\ ~F

ToCome(n, way) == ~brought /\ Script[n].far \cap way.monsters # {}
OneAhead(n, way) ==
  Exclusive(alive \cap way.monsters, dying \cap way.monsters, pending \cap way.tasks, ToCome(n, way))
NoneAhead(n, way) ==
  Empty(alive \cap way.monsters, dying \cap way.monsters, pending \cap way.tasks, ToCome(n, way))

Reached(goal) == prizes > 0 \/ (goal = Finish /\ ended)
OnThread(n, goal) ==
  /\ OneAhead(n, Thread(n, goal))
  /\ prizes \in Nat /\ prizes <= 1
  /\ Reached(goal) => NoneAhead(n, Thread(n, goal))

\* An outcome beside the thread leaves what is ahead as the deaths and the timers left it.
LEMMA AsideKeeps ==
  ASSUME NEW n, NEW goal \in {Reward, Finish}, NEW o, NEW on, NEW left, NEW way,
         way = Thread(n, goal), Effect(o, on, left), Aside(o, goal, way),
         prizes \in Nat, prizes <= 1,
         Exclusive(on \cap way.monsters, dying' \cap way.monsters, left \cap way.tasks,
                   ToCome(n, way)'),
         Reached(goal) => Empty(on \cap way.monsters, dying' \cap way.monsters,
                                left \cap way.tasks, ToCome(n, way)')
  PROVE  OnThread(n, goal)'
<1>1. "prize" \notin o.fx /\ (goal = Finish => ~Over(o))
  BY DEF Aside, Reward, Finish, Over
<1>2. prizes' = prizes
  BY <1>1 DEF Effect
<1>3. goal = Finish => outcome' = outcome
  BY <1>1 DEF Effect, Ends, Over
<1>4. Reached(goal)' => Reached(goal)
  BY <1>2, <1>3 DEF Reached, ended
<1>5. alive' \cap way.monsters \subseteq on \cap way.monsters
  BY DEF Effect, Left, Aside
<1>6. pending' \cap way.tasks = left \cap way.tasks
  BY DEF Effect, Aside
<1>7. OneAhead(n, way)'
  BY <1>5, <1>6 DEF OneAhead, Exclusive, AtMostOne
<1>8. Reached(goal)' => NoneAhead(n, way)'
  BY <1>4, <1>5, <1>6 DEF NoneAhead, Empty
<1> QED BY <1>2, <1>7, <1>8 DEF OnThread

\* The outcome of what was ahead: there is nothing else ahead, and it brings one thing at most.
LEMMA OnwardKeeps ==
  ASSUME NEW n, NEW goal \in {Reward, Finish}, NEW o, NEW on, NEW left, NEW way,
         way = Thread(n, goal), Effect(o, on, left), Onward(o, goal, way),
         prizes \in Nat, ~Reached(goal),
         Empty(on \cap way.monsters, dying' \cap way.monsters, left \cap way.tasks,
               ToCome(n, way)')
  PROVE  OnThread(n, goal)'
<1>1. prizes = 0
  BY DEF Reached
<1>2. alive' \cap way.monsters \subseteq o.spawn \cap way.monsters
  BY DEF Effect, Left, Empty
<1>3. pending' \cap way.tasks = o.run \cap way.tasks
  BY DEF Effect, Empty
<1>4. prizes' \in Nat /\ prizes' <= 1
  BY <1>1 DEF Effect
<1>5. CASE goal \cap o.fx = {}
  <2>1. "prize" \notin o.fx /\ (goal = Finish => ~Over(o))
    BY <1>5 DEF Reward, Finish, Over
  <2>2. prizes' = 0 /\ (goal = Finish => outcome' = outcome)
    BY <1>1, <2>1 DEF Effect, Ends, Over
  <2>3. ~Reached(goal)'
    BY <2>2 DEF Reached, ended
  <2>4. /\ AtMostOne(o.spawn \cap way.monsters) /\ AtMostOne(o.run \cap way.tasks)
        /\ o.spawn \cap way.monsters = {} \/ o.run \cap way.tasks = {}
    BY <1>5 DEF Onward
  <2>5. OneAhead(n, way)'
    BY <1>2, <1>3, <2>4 DEF OneAhead, Exclusive, AtMostOne, Empty
  <2> QED BY <1>4, <2>3, <2>5 DEF OnThread
<1>6. CASE goal \cap o.fx # {}
  <2>1. /\ o.run \cap way.tasks = {}
        /\ (o.spawn \cap way.monsters = {} \/ (goal = Finish /\ Over(o)))
    BY <1>6 DEF Onward
  <2>2. ASSUME goal = Finish, Over(o) PROVE alive' = {}
    BY <2>2 DEF Reached, Effect, Left, Ends, Over
  <2>3. alive' \cap way.monsters = {}
    BY <1>2, <2>1, <2>2
  <2>4. NoneAhead(n, way)'
    BY <1>3, <2>1, <2>3 DEF NoneAhead, Empty
  <2>5. OneAhead(n, way)'
    BY <2>4 DEF NoneAhead, OneAhead, Empty, Exclusive, AtMostOne
  <2> QED BY <1>4, <2>4, <2>5 DEF OnThread
<1> QED BY <1>5, <1>6

LEMMA NothingAside ==
  ASSUME NEW goal, NEW way PROVE Aside(Nothing, goal, way)
BY DEF Aside, Nothing, Do

LEMMA BothAside ==
  ASSUME NEW goal, NEW way, NEW o, NEW c, Aside(c, goal, way)
  PROVE  /\ Aside(o, goal, way) => Aside(Both(o, c), goal, way)
         /\ Onward(o, goal, way) => Onward(Both(o, c), goal, way)
<1>1. /\ Both(o, c).spawn = o.spawn \cup c.spawn /\ Both(o, c).run = o.run \cup c.run
      /\ Both(o, c).fx = o.fx \cup c.fx
  BY DEF Both, Do
<1>2. /\ goal \cap Both(o, c).fx = goal \cap o.fx
      /\ Both(o, c).spawn \cap way.monsters = o.spawn \cap way.monsters
      /\ Both(o, c).run \cap way.tasks = o.run \cap way.tasks
  BY <1>1 DEF Aside
<1>3. Over(o) => Over(Both(o, c))
  BY <1>1 DEF Over
<1> QED BY <1>2, <1>3 DEF Aside, Onward

\* Before the goal is reached the thread's functions are read as Single reads them.
LEMMA TurnSeen ==
  ASSUME NEW n, NEW turns, NEW goal
  PROVE  /\ Turn(n, turns) \subseteq All(turns)
         /\ ~Reached(goal) => Turn(n, turns) \subseteq Seen(turns, goal)
BY DEF Turn, All, Seen, Reached

\* The event begins with one thing of the thread at most.
LEMMA InitThread ==
  ASSUME NEW n, NEW goal \in {Reward, Finish}, Init, script = n, Single(n, goal)
  PROVE  OnThread(n, goal)
<1> DEFINE way == Thread(n, goal)
<1>1. PICK o \in S.begin : Begins(o)
  BY DEF Init
<1>2. S = Script[n]
  BY DEF S
<1>3. Starts(Script[n], o, goal, way)
  BY <1>1, <1>2 DEF Single
<1>4. alive = o.spawn /\ pending = o.run \cup Script[n].entry /\ dying = {}
  BY <1>1, <1>2 DEF Begins, Init
<1>5. prizes = 0 /\ ~ended
  BY DEF Init, ended
<1> HIDE DEF way
<1>6. OneAhead(n, way)
  BY <1>3, <1>4 DEF OneAhead, Exclusive, AtMostOne, Starts, ToCome
<1>7. ~Reached(goal)
  BY <1>5 DEF Reached
<1> QED BY <1>5, <1>6, <1>7 DEF OnThread, way
\* A step takes one thing of the thread one further, or leaves the thread alone.
LEMMA NextThread ==
  ASSUME NEW n \in Name, NEW goal \in {Reward, Finish}, Plays(n), Single(n, goal),
         OnThread(n, goal), [Next]_vars
  PROVE  OnThread(n, goal)'
<1> DEFINE way == Thread(n, goal)
<1>0. /\ OneAhead(n, way) /\ prizes \in Nat /\ prizes <= 1
      /\ Reached(goal) => NoneAhead(n, way)
  BY DEF OnThread
<1>a. /\ ~Script[n].park /\ Script[n].many \cap way.monsters = {} /\ Bomb \notin way.monsters
      /\ \A m \in way.monsters : \A o \in Seen(KilledIn(Script[n], m), goal) : Onward(o, goal, way)
      /\ \A t \in way.tasks : \A o \in Seen(Script[n].task[t], goal) : Onward(o, goal, way)
      /\ \A o \in Script[n].emptied \cup Script[n].arrive \cup All(Script[n].cleared) :
           Aside(o, goal, way)
      /\ \A m \in Own(Script[n]) \ (way.monsters \cup {Bomb}) :
           \A o \in All(KilledIn(Script[n], m)) : Aside(o, goal, way)
      /\ \A t \in DOMAIN Script[n].task \ way.tasks :
           \A o \in All(Script[n].task[t]) : Aside(o, goal, way)
  BY DEF Single
<1>b. way = Thread(n, goal)
  OBVIOUS
<1>c. /\ dying \subseteq Own(Script[n]) \ {Bomb} /\ pending \subseteq DOMAIN Script[n].task
      /\ parked = 0
  BY <1>a DEF Plays, Kinds, TypeOK, S
<1> HIDE DEF way
<1>d. /\ Exclusive(alive \cap way.monsters, dying \cap way.monsters, pending \cap way.tasks,
                   ToCome(n, way))
      /\ Reached(goal) => Empty(alive \cap way.monsters, dying \cap way.monsters,
                                pending \cap way.tasks, ToCome(n, way))
  BY <1>0 DEF OneAhead, NoneAhead
<1>1. CASE \E m \in alive : Death(n, m)
  <2>1. PICK m \in alive : Death(n, m)
    BY <1>1
  <2>2. PICK rest \in {alive \ {m}} \cup (IF m \in Script[n].many THEN {alive} ELSE {}) :
        \E o \in (IF rest = {} /\ ~summoned THEN Script[n].emptied ELSE {Nothing}) :
          Effect(o, rest, pending)
    BY <2>1 DEF Death
  <2>3. PICK o \in (IF rest = {} /\ ~summoned THEN Script[n].emptied ELSE {Nothing}) :
          Effect(o, rest, pending)
    BY <2>2
  <2>4. Aside(o, goal, way)
    BY <1>a, NothingAside
  <2>5. dying' = DiesFor(m) /\ (ToCome(n, way)' <=> ToCome(n, way))
    BY <2>1 DEF Death, ToCome
  <2>6. CASE m \in way.monsters
    <3>1. rest = alive \ {m} /\ dying' = dying \cup {m}
      BY <1>a, <2>2, <2>5, <2>6 DEF DiesFor, Silent
    <3>2. /\ AtMostOne(alive \cap way.monsters) /\ m \in alive \cap way.monsters
          /\ dying \cap way.monsters = {} /\ pending \cap way.tasks = {} /\ ~ToCome(n, way)
      BY <1>d, <2>6 DEF Exclusive
    <3>3. rest \cap way.monsters = {}
      BY <3>1, <3>2 DEF AtMostOne
    <3>4. dying' \cap way.monsters = {m}
      BY <2>6, <3>1, <3>2
    <3>5. ~Reached(goal)
      BY <1>d, <3>2 DEF Empty
    <3>6. Exclusive(rest \cap way.monsters, dying' \cap way.monsters, pending \cap way.tasks,
                    ToCome(n, way)')
      BY <2>5, <3>2, <3>3, <3>4 DEF Exclusive, AtMostOne
    <3> QED BY <1>0, <1>b, <2>3, <2>4, <3>5, <3>6, AsideKeeps
  <2>7. CASE m \notin way.monsters
    <3>1. /\ rest \cap way.monsters = alive \cap way.monsters
          /\ dying' \cap way.monsters = dying \cap way.monsters
      BY <2>2, <2>5, <2>7 DEF DiesFor
    <3>2. /\ Exclusive(rest \cap way.monsters, dying' \cap way.monsters, pending \cap way.tasks,
                       ToCome(n, way)')
          /\ Reached(goal) => Empty(rest \cap way.monsters, dying' \cap way.monsters,
                                    pending \cap way.tasks, ToCome(n, way)')
      BY <1>d, <2>5, <3>1 DEF Exclusive, Empty
    <3> QED BY <1>0, <1>b, <2>3, <2>4, <3>2, AsideKeeps
  <2> QED BY <2>6, <2>7
<1>2. CASE \E m \in dying : Report(n, m)
  <2>1. PICK m \in dying : Report(n, m)
    BY <1>2
  <2>2. PICK o \in Turn(n, KilledIn(Script[n], m)),
             c \in (IF alive = {} THEN Turn(n, Script[n].cleared) ELSE {Nothing}) :
               Effect(Both(o, c), alive, pending)
    BY <2>1 DEF Report
  <2>3. Aside(c, goal, way)
    BY <1>a, <2>2, NothingAside, TurnSeen
  <2>4. ToCome(n, way)' <=> ToCome(n, way)
    BY <2>1 DEF Report, ToCome
  <2>5. CASE m \in way.monsters
    <3>1. dying' = dying \ {m}
      BY <1>a, <2>1, <2>5 DEF Report
    <3>2. /\ AtMostOne(dying \cap way.monsters) /\ m \in dying \cap way.monsters
          /\ alive \cap way.monsters = {} /\ pending \cap way.tasks = {} /\ ~ToCome(n, way)
      BY <1>d, <2>5 DEF Exclusive
    <3>3. dying' \cap way.monsters = {}
      BY <3>1, <3>2 DEF AtMostOne
    <3>4. ~Reached(goal)
      BY <1>d, <3>2 DEF Empty
    <3>5. Onward(Both(o, c), goal, way)
      BY <1>a, <2>2, <2>3, <2>5, <3>4, BothAside, TurnSeen
    <3>6. Empty(alive \cap way.monsters, dying' \cap way.monsters, pending \cap way.tasks,
                ToCome(n, way)')
      BY <2>4, <3>2, <3>3 DEF Empty
    <3> QED BY <1>0, <1>b, <2>2, <3>4, <3>5, <3>6, OnwardKeeps
  <2>6. CASE m \notin way.monsters
    <3>1. Aside(Both(o, c), goal, way)
      BY <1>a, <1>c, <2>2, <2>3, <2>6, BothAside, TurnSeen
    <3>2. dying' \cap way.monsters = dying \cap way.monsters
      BY <2>1, <2>6 DEF Report
    <3>3. /\ Exclusive(alive \cap way.monsters, dying' \cap way.monsters, pending \cap way.tasks,
                       ToCome(n, way)')
          /\ Reached(goal) => Empty(alive \cap way.monsters, dying' \cap way.monsters,
                                    pending \cap way.tasks, ToCome(n, way)')
      BY <1>d, <2>4, <3>2 DEF Exclusive, Empty
    <3> QED BY <1>0, <1>b, <2>2, <3>1, <3>3, AsideKeeps
  <2> QED BY <2>5, <2>6
<1>3. CASE \E t \in pending : Task(n, t)
  <2>1. PICK t \in pending : Task(n, t)
    BY <1>3
  <2>2. PICK o \in Turn(n, Script[n].task[t]) : Effect(o, alive, pending \ {t})
    BY <2>1 DEF Task
  <2>3. dying' = dying /\ (ToCome(n, way)' <=> ToCome(n, way))
    BY <2>1 DEF Task, ToCome
  <2>4. CASE t \in way.tasks
    <3>1. /\ AtMostOne(pending \cap way.tasks) /\ t \in pending \cap way.tasks
          /\ alive \cap way.monsters = {} /\ dying \cap way.monsters = {} /\ ~ToCome(n, way)
      BY <1>d, <2>4 DEF Exclusive
    <3>2. (pending \ {t}) \cap way.tasks = {}
      BY <3>1 DEF AtMostOne
    <3>3. ~Reached(goal)
      BY <1>d, <3>1 DEF Empty
    <3>4. Onward(o, goal, way)
      BY <1>a, <2>2, <2>4, <3>3, TurnSeen
    <3>5. Empty(alive \cap way.monsters, dying' \cap way.monsters, (pending \ {t}) \cap way.tasks,
                ToCome(n, way)')
      BY <2>3, <3>1, <3>2 DEF Empty
    <3> QED BY <1>0, <1>b, <2>2, <3>3, <3>4, <3>5, OnwardKeeps
  <2>5. CASE t \notin way.tasks
    <3>1. Aside(o, goal, way)
      BY <1>a, <1>c, <2>2, <2>5, TurnSeen
    <3>2. (pending \ {t}) \cap way.tasks = pending \cap way.tasks
      BY <2>5
    <3>3. /\ Exclusive(alive \cap way.monsters, dying' \cap way.monsters,
                       (pending \ {t}) \cap way.tasks, ToCome(n, way)')
          /\ Reached(goal) => Empty(alive \cap way.monsters, dying' \cap way.monsters,
                                    (pending \ {t}) \cap way.tasks, ToCome(n, way)')
      BY <1>d, <2>3, <3>2 DEF Exclusive, Empty
    <3> QED BY <1>0, <1>b, <2>2, <3>1, <3>3, AsideKeeps
  <2> QED BY <2>4, <2>5
<1>4. CASE \E m \in Script[n].far : Comes(m)
  <2>1. PICK m \in Script[n].far : Comes(m)
    BY <1>4
  <2>2. /\ alive' = alive \cup {m} /\ ~ToCome(n, way)'
        /\ UNCHANGED <<dying, pending, outcome, prizes>> /\ ~brought
    BY <2>1 DEF Comes, ToCome
  <2>3. Reached(goal)' <=> Reached(goal)
    BY <2>2 DEF Reached, ended
  <2>4. CASE m \in way.monsters
    <3>1. ToCome(n, way)
      BY <2>1, <2>2, <2>4 DEF ToCome
    <3>2. /\ alive \cap way.monsters = {} /\ dying \cap way.monsters = {}
          /\ pending \cap way.tasks = {} /\ ~Reached(goal)
      BY <1>d, <3>1 DEF Exclusive, Empty
    <3>3. alive' \cap way.monsters = {m}
      BY <2>2, <2>4, <3>2
    <3>4. OneAhead(n, way)'
      BY <2>2, <3>2, <3>3 DEF OneAhead, Exclusive, AtMostOne
    <3> QED BY <1>0, <1>b, <2>2, <2>3, <3>2, <3>4 DEF OnThread
  <2>5. CASE m \notin way.monsters
    <3>1. alive' \cap way.monsters = alive \cap way.monsters
      BY <2>2, <2>5
    <3>2. OneAhead(n, way)' /\ (Reached(goal) => NoneAhead(n, way)')
      BY <1>d, <2>2, <3>1 DEF OneAhead, NoneAhead, Exclusive, Empty
    <3> QED BY <1>0, <1>b, <2>2, <2>3, <3>2 DEF OnThread
  <2> QED BY <2>4, <2>5
<1>5. CASE Looks(n)
  BY <1>5, <1>c DEF Looks
<1>6. CASE Enters(n)
  <2>1. PICK o \in Script[n].arrive : Effect(o, alive, pending)
    BY <1>6 DEF Enters
  <2>2. dying' = dying /\ (ToCome(n, way)' <=> ToCome(n, way))
    BY <1>6 DEF Enters, ToCome
  <2>3. /\ Exclusive(alive \cap way.monsters, dying' \cap way.monsters, pending \cap way.tasks,
                     ToCome(n, way)')
        /\ Reached(goal) => Empty(alive \cap way.monsters, dying' \cap way.monsters,
                                  pending \cap way.tasks, ToCome(n, way)')
    BY <1>d, <2>2 DEF Exclusive, Empty
  <2> QED BY <1>0, <1>a, <1>b, <2>1, <2>3, AsideKeeps
<1>7. CASE Passes
  <2>1. UNCHANGED <<alive, dying, pending, outcome, prizes, brought>>
    BY <1>7 DEF Passes
  <2> QED BY <1>0, <1>b, <2>1 DEF OnThread, OneAhead, NoneAhead, ToCome, Reached, ended
<1> QED BY <1>1, <1>2, <1>3, <1>4, <1>5, <1>6, <1>7, NextSteps DEF Steps

-----------------------------------------------------------------------------
(* Rewards that end the event: a second one would find it finished.         *)

Paid == prizes \in Nat /\ prizes <= 1 /\ (prizes > 0 => ended)

\* No reward, or one that ends the event.
Honest(o) == "prize" \in o.fx => ~ended /\ Over(o)

LEMMA HonestPaid ==
  ASSUME Paid, NEW o, NEW on, NEW left, Effect(o, on, left), Honest(o)
  PROVE  Paid'
<1>1. CASE "prize" \in o.fx
  <2>1. prizes = 0 /\ Ends(o)
    BY <1>1 DEF Paid, Honest, Ends, Over
  <2>2. ended' /\ prizes' \in Nat /\ prizes' <= 1
    BY <2>1 DEF Effect, ended
  <2> QED BY <2>2 DEF Paid
<1>2. CASE "prize" \notin o.fx
  <2>1. prizes' = prizes /\ (ended => ended')
    BY <1>2 DEF Effect, Ends, ended
  <2> QED BY <2>1 DEF Paid
<1> QED BY <1>1, <1>2

LEMMA TurnHonest ==
  ASSUME NEW n \in Name, PaysAtTheEnd(n), NEW turns \in TurnsOf(Script[n]), NEW o \in Turn(n, turns)
  PROVE  Honest(o)
BY DEF PaysAtTheEnd, Turn, Honest

LEMMA NextPaid ==
  ASSUME NEW n \in Name, Plays(n), PaysAtTheEnd(n), Paid, [Next]_vars
  PROVE  Paid'
<1>a. \A o \in Script[n].emptied \cup Script[n].arrive \cup {Nothing} : Honest(o)
  BY DEF PaysAtTheEnd, Honest, Nothing, Do
<1>b. parked = 0
  BY DEF Plays, PaysAtTheEnd
<1>1. CASE \E m \in alive : Death(n, m)
  <2>1. PICK m \in alive : Death(n, m)
    BY <1>1
  <2>2. PICK rest \in {alive \ {m}} \cup (IF m \in Script[n].many THEN {alive} ELSE {}) :
        \E o \in (IF rest = {} /\ ~summoned THEN Script[n].emptied ELSE {Nothing}) :
          Effect(o, rest, pending)
    BY <2>1 DEF Death
  <2>3. PICK o \in (IF rest = {} /\ ~summoned THEN Script[n].emptied ELSE {Nothing}) :
          Effect(o, rest, pending)
    BY <2>2
  <2> QED BY <1>a, <2>3, HonestPaid
<1>2. CASE \E m \in dying : Report(n, m)
  <2>1. PICK m \in dying : Report(n, m)
    BY <1>2
  <2>2. PICK o \in Turn(n, KilledIn(Script[n], m)),
             c \in (IF alive = {} THEN Turn(n, Script[n].cleared) ELSE {Nothing}) :
               Effect(Both(o, c), alive, pending)
    BY <2>1 DEF Report
  <2>3. KilledIn(Script[n], m) \in TurnsOf(Script[n]) /\ Script[n].cleared \in TurnsOf(Script[n])
    BY DEF KilledIn, TurnsOf
  <2>4. Honest(o) /\ Honest(c)
    BY <1>a, <2>2, <2>3, TurnHonest
  <2>5. Honest(Both(o, c))
    BY <2>4 DEF Honest, Both, Do, Over
  <2> QED BY <2>2, <2>5, HonestPaid
<1>3. CASE \E t \in pending : Task(n, t)
  <2>1. PICK t \in pending : Task(n, t)
    BY <1>3
  <2>2. PICK o \in Turn(n, Script[n].task[t]) : Effect(o, alive, pending \ {t})
    BY <2>1 DEF Task
  <2>3. t \in DOMAIN Script[n].task
    BY DEF Plays, Kinds, S
  <2>4. Script[n].task[t] \in TurnsOf(Script[n])
    BY <2>3 DEF TurnsOf
  <2> QED BY <2>2, <2>4, TurnHonest, HonestPaid
<1>4. CASE \E m \in Script[n].far : Comes(m)
  BY <1>4 DEF Comes, Paid, ended
<1>5. CASE Looks(n)
  BY <1>5, <1>b DEF Looks
<1>6. CASE Enters(n)
  <2>1. PICK o \in Script[n].arrive : Effect(o, alive, pending)
    BY <1>6 DEF Enters
  <2> QED BY <1>a, <2>1, HonestPaid
<1>7. CASE Passes
  BY <1>7 DEF Passes, Paid, ended
<1> QED BY <1>1, <1>2, <1>3, <1>4, <1>5, <1>6, <1>7, NextSteps DEF Steps

Thrifty(n) ==
  /\ Plays(n)
  /\ PaysAtTheEnd(n) => Paid
  /\ \A goal \in {Reward, Finish} : Single(n, goal) => OnThread(n, goal)

\* A script that rewards only with what ends the event, or whose thread to the reward or to the
\* end is single, rewards once, however deaths, callbacks and timers interleave.
THEOREM RewardsOnce == ASSUME PaidRule PROVE Spec => []PaidOnce
<1> DEFINE Inv == \A n \in Name : script = n => Thrifty(n)
<1>1. Init => Inv
  <2> SUFFICES ASSUME Init, NEW n \in Name, script = n PROVE Thrifty(n)
    OBVIOUS
  <2>1. Plays(n)
    BY InitPlays
  <2>2. Paid
    BY DEF Init, Paid
  <2>3. \A goal \in {Reward, Finish} : Single(n, goal) => OnThread(n, goal)
    BY InitThread
  <2> QED BY <2>1, <2>2, <2>3 DEF Thrifty
<1>2. Inv /\ [Next]_vars => Inv'
  <2> SUFFICES ASSUME Inv, [Next]_vars, NEW n \in Name, script' = n PROVE Thrifty(n)'
    OBVIOUS
  <2>1. Thrifty(n)
    BY SameScript
  <2>2. Plays(n)'
    BY <2>1, NextPlays DEF Thrifty
  <2>3. PaysAtTheEnd(n) => Paid'
    BY <2>1, NextPaid DEF Thrifty
  <2>4. \A goal \in {Reward, Finish} : Single(n, goal) => OnThread(n, goal)'
    BY <2>1, NextThread DEF Thrifty
  <2> QED BY <2>2, <2>3, <2>4 DEF Thrifty
<1>3. TypeOK /\ Inv => PaidOnce
  <2> SUFFICES ASSUME TypeOK, Inv, script \notin Exempt.paid PROVE prizes <= 1
    BY DEF PaidOnce
  <2>1. script \in Name /\ Thrifty(script) /\ PaysOnce(script)
    BY DEF TypeOK, PaidRule
  <2> QED BY <2>1 DEF PaysOnce, Thrifty, Paid, OnThread
<1> QED BY <1>1, <1>2, <1>3, FightTypes, PTL DEF Spec
-----------------------------------------------------------------------------
(* Quiet after the end.                                                     *)

\* While the first function of an event is scheduled, nothing else goes on.
Opening(n) ==
  Opens(n) /\ "start" \in pending =>
    ~ended /\ alive = {} /\ dying = {} /\ pending = {"start"} /\ parked = 0

LEMMA InitOpening == ASSUME Init, NEW n, script = n PROVE Opening(n)
<1>1. PICK o \in S.begin : Begins(o)
  BY DEF Init
<1>2. alive = o.spawn /\ pending = o.run \cup Script[n].entry /\ o \in Script[n].begin
  BY <1>1 DEF Begins, S
<1>3. Opens(n) => alive = {} /\ pending = {"start"}
  BY <1>2 DEF Opens
<1> QED BY <1>3 DEF Opening, Init, ended

LEMMA NextOpening ==
  ASSUME NEW n \in Name, Plays(n), Opening(n), [Next]_vars
  PROVE  Opening(n)'
<1> SUFFICES ASSUME Opens(n), "start" \in pending'
             PROVE  (~ended /\ alive = {} /\ dying = {} /\ pending = {"start"} /\ parked = 0)'
  BY DEF Opening
<1>a. \A o \in Script[n].emptied \cup UNION {All(turns) : turns \in TurnsOf(Script[n])} :
        "start" \notin o.run
  BY DEF Opens
<1>b. "start" \notin Nothing.run /\ "start" \notin Prize.run
  BY DEF Nothing, Prize, Do
<1>c. ASSUME NEW turns \in TurnsOf(Script[n]), NEW o \in Turn(n, turns) PROVE "start" \notin o.run
  <2>1. o \in All(turns)
    BY DEF Turn, All
  <2> QED BY <1>a, <2>1
<1>d. "start" \in pending =>
        ~ended /\ alive = {} /\ dying = {} /\ pending = {"start"} /\ parked = 0
  BY DEF Opening
<1>1. CASE \E m \in alive : Death(n, m)
  <2>1. "start" \notin pending
    BY <1>1, <1>d
  <2>2. PICK m \in alive : Death(n, m)
    BY <1>1
  <2>3. PICK rest \in {alive \ {m}} \cup (IF m \in Script[n].many THEN {alive} ELSE {}) :
        \E o \in (IF rest = {} /\ ~summoned THEN Script[n].emptied ELSE {Nothing}) :
          Effect(o, rest, pending)
    BY <2>2 DEF Death
  <2> QED BY <1>a, <1>b, <2>1, <2>3 DEF Effect
<1>2. CASE \E m \in dying : Report(n, m)
  <2>1. "start" \notin pending
    BY <1>2, <1>d
  <2>2. PICK m \in dying : Report(n, m)
    BY <1>2
  <2>3. PICK o \in Turn(n, KilledIn(Script[n], m)),
             c \in (IF alive = {} THEN Turn(n, Script[n].cleared) ELSE {Nothing}) :
               Effect(Both(o, c), alive, pending)
    BY <2>2 DEF Report
  <2>4. KilledIn(Script[n], m) \in TurnsOf(Script[n]) /\ Script[n].cleared \in TurnsOf(Script[n])
    BY DEF KilledIn, TurnsOf
  <2>5. "start" \notin o.run /\ "start" \notin c.run
    BY <1>b, <1>c, <2>3, <2>4
  <2> QED BY <2>1, <2>3, <2>5 DEF Effect, Both, Do
<1>3. CASE \E t \in pending : Task(n, t)
  <2>1. PICK t \in pending : Task(n, t)
    BY <1>3
  <2>2. PICK o \in Turn(n, Script[n].task[t]) : Effect(o, alive, pending \ {t})
    BY <2>1 DEF Task
  <2>3. t \in DOMAIN Script[n].task
    BY DEF Plays, Kinds, S
  <2>4. Script[n].task[t] \in TurnsOf(Script[n])
    BY <2>3 DEF TurnsOf
  <2>5. "start" \notin o.run
    BY <1>c, <2>2, <2>4
  <2>6. "start" \in pending \ {t}
    BY <2>2, <2>5 DEF Effect
  <2> QED BY <1>d, <2>1, <2>6
<1>4. CASE \E m \in Script[n].far : Comes(m)
  BY <1>4 DEF Comes
<1>5. CASE Looks(n)
  <2>1. "start" \notin pending
    BY <1>5, <1>d DEF Looks
  <2>2. PICK o \in (IF alive = {} THEN {Prize} ELSE {Nothing}) : Effect(o, alive, pending)
    BY <1>5 DEF Looks
  <2> QED BY <1>b, <2>1, <2>2 DEF Effect
<1>6. CASE Enters(n)
  BY <1>6 DEF Enters, Opens
<1>7. CASE Passes
  BY <1>7, <1>d DEF Passes, ended
<1> QED BY <1>1, <1>2, <1>3, <1>4, <1>5, <1>6, <1>7, NextSteps DEF Steps

Empties == ended => alive = {}

\* An outcome that ends the event empties the maps, and so does nothing else to an ended one.
LEMMA EffectEmpties ==
  ASSUME NEW o, NEW on, NEW left, Effect(o, on, left), ended => on = {} /\ o.spawn = {}
  PROVE  Empties' /\ (ended => ended')
<1>1. CASE Ends(o)
  BY <1>1 DEF Effect, Left, Empties, Ends
<1>2. CASE ~Ends(o)
  BY <1>2 DEF Effect, Left, Empties, ended
<1> QED BY <1>1, <1>2

\* Once it is over, what is left of the event spawns nothing.
LEMMA NextEmpties ==
  ASSUME NEW n \in Name, Plays(n), Opening(n), NEW way, Hushed(n, way),
         ended => NoneAhead(n, way), Empties, [Next]_vars
  PROVE  Empties' /\ (ended => ended')
<1>a. Nothing.spawn = {} /\ Prize.spawn = {}
  BY DEF Nothing, Prize, Do
<1>b. ASSUME ended
      PROVE  /\ alive = {} /\ ("start" \notin pending \/ ~Opens(n))
             /\ dying \cap way.monsters = {} /\ pending \cap way.tasks = {}
  BY <1>b DEF Empties, Opening, NoneAhead, Empty
<1>c. ended => alive = {}
  BY DEF Empties
<1>d. dying \subseteq Own(Script[n]) \ {Bomb} /\ pending \subseteq DOMAIN Script[n].task
  BY DEF Plays, Kinds, TypeOK, S
<1>1. CASE \E m \in alive : Death(n, m)
  <2>1. PICK m \in alive : Death(n, m)
    BY <1>1
  <2>2. PICK rest \in {alive \ {m}} \cup (IF m \in Script[n].many THEN {alive} ELSE {}) :
        \E o \in (IF rest = {} /\ ~summoned THEN Script[n].emptied ELSE {Nothing}) :
          Effect(o, rest, pending)
    BY <2>1 DEF Death
  <2> QED BY <1>c, <2>1, <2>2, EffectEmpties
<1>2. CASE \E m \in dying : Report(n, m)
  <2>1. PICK m \in dying : Report(n, m)
    BY <1>2
  <2>2. PICK o \in Turn(n, KilledIn(Script[n], m)),
             c \in (IF alive = {} THEN Turn(n, Script[n].cleared) ELSE {Nothing}) :
               Effect(Both(o, c), alive, pending)
    BY <2>1 DEF Report
  <2>3. ASSUME ended PROVE Both(o, c).spawn = {}
    <3>1. m \in Own(Script[n]) \ (way.monsters \cup {Bomb})
      BY <1>b, <1>d, <2>1, <2>3
    <3>2. o \in KilledIn(Script[n], m).late /\ c \in Script[n].cleared.late
      BY <1>c, <2>2, <2>3 DEF Turn
    <3>3. o.spawn = {} /\ c.spawn = {}
      BY <3>1, <3>2 DEF Hushed
    <3> QED BY <3>3 DEF Both, Do
  <2> QED BY <1>c, <2>2, <2>3, EffectEmpties
<1>3. CASE \E t \in pending : Task(n, t)
  <2>1. PICK t \in pending : Task(n, t)
    BY <1>3
  <2>2. PICK o \in Turn(n, Script[n].task[t]) : Effect(o, alive, pending \ {t})
    BY <2>1 DEF Task
  <2>3. ASSUME ended PROVE o.spawn = {}
    <3>1. t \in DOMAIN Script[n].task \ way.tasks /\ o \in Script[n].task[t].late
      BY <1>b, <1>d, <2>1, <2>2, <2>3 DEF Turn
    <3>2. ~(Opens(n) /\ t = "start")
      BY <2>1, <2>3 DEF Opening
    <3> QED BY <3>1, <3>2 DEF Hushed
  <2> QED BY <1>c, <2>2, <2>3, EffectEmpties
<1>4. CASE \E m \in Script[n].far : Comes(m)
  BY <1>4 DEF Comes, Empties, ended
<1>5. CASE Looks(n)
  <2>1. PICK o \in (IF alive = {} THEN {Prize} ELSE {Nothing}) : Effect(o, alive, pending)
    BY <1>5 DEF Looks
  <2> QED BY <1>a, <1>c, <2>1, EffectEmpties
<1>6. CASE Enters(n)
  <2>1. PICK o \in Script[n].arrive : Effect(o, alive, pending)
    BY <1>6 DEF Enters
  <2>2. o.spawn = {}
    BY DEF Hushed
  <2> QED BY <1>c, <2>1, <2>2, EffectEmpties
<1>7. CASE Passes
  BY <1>7 DEF Passes, Empties, ended
<1> QED BY <1>1, <1>2, <1>3, <1>4, <1>5, <1>6, <1>7, NextSteps DEF Steps

\* A script without victory and defeat.
LEMMA NextEndless ==
  ASSUME NEW n \in Name, Plays(n), NeverEnds(n), ~ended, [Next]_vars
  PROVE  ~ended'
<1>a. ASSUME NEW o, NEW on, NEW left, Effect(o, on, left), ~Over(o) PROVE ~ended'
  BY <1>a DEF Effect, Ends, Over, ended
<1>b. ~Over(Nothing) /\ parked = 0 /\ \A o \in Outcomes(Script[n]) : ~Over(o)
  BY DEF NeverEnds, Plays, Over, Nothing, Do
<1>1. CASE \E m \in alive : Death(n, m)
  <2>1. PICK m \in alive : Death(n, m)
    BY <1>1
  <2>2. PICK rest \in {alive \ {m}} \cup (IF m \in Script[n].many THEN {alive} ELSE {}) :
        \E o \in (IF rest = {} /\ ~summoned THEN Script[n].emptied ELSE {Nothing}) :
          Effect(o, rest, pending)
    BY <2>1 DEF Death
  <2>3. PICK o \in Script[n].emptied \cup {Nothing} : Effect(o, rest, pending)
    BY <2>2
  <2> QED BY <1>a, <1>b, <2>3 DEF Outcomes
<1>2. CASE \E m \in dying : Report(n, m)
  <2>1. PICK m \in dying : Report(n, m)
    BY <1>2
  <2>2. PICK o \in Turn(n, KilledIn(Script[n], m)),
             c \in (IF alive = {} THEN Turn(n, Script[n].cleared) ELSE {Nothing}) :
               Effect(Both(o, c), alive, pending)
    BY <2>1 DEF Report
  <2>3. KilledIn(Script[n], m) \in TurnsOf(Script[n]) /\ Script[n].cleared \in TurnsOf(Script[n])
    BY DEF KilledIn, TurnsOf
  <2>4. o \in Outcomes(Script[n]) /\ c \in Outcomes(Script[n]) \cup {Nothing}
    BY <2>2, <2>3, TurnListed
  <2>5. ~Over(o) /\ ~Over(c)
    BY <1>b, <2>4
  <2>6. ~Over(Both(o, c))
    BY <2>5 DEF Over, Both, Do
  <2> QED BY <1>a, <2>2, <2>6
<1>3. CASE \E t \in pending : Task(n, t)
  <2>1. PICK t \in pending : Task(n, t)
    BY <1>3
  <2>2. PICK o \in Turn(n, Script[n].task[t]) : Effect(o, alive, pending \ {t})
    BY <2>1 DEF Task
  <2>3. t \in DOMAIN Script[n].task
    BY DEF Plays, Kinds, S
  <2>4. Script[n].task[t] \in TurnsOf(Script[n])
    BY <2>3 DEF TurnsOf
  <2> QED BY <1>a, <1>b, <2>2, <2>4, TurnListed
<1>4. CASE \E m \in Script[n].far : Comes(m)
  BY <1>4 DEF Comes, ended
<1>5. CASE Looks(n)
  BY <1>5, <1>b DEF Looks
<1>6. CASE Enters(n)
  <2>1. PICK o \in Script[n].arrive : Effect(o, alive, pending)
    BY <1>6 DEF Enters
  <2> QED BY <1>a, <1>b, <2>1 DEF Outcomes
<1>7. CASE Passes
  BY <1>7 DEF Passes, ended
<1> QED BY <1>1, <1>2, <1>3, <1>4, <1>5, <1>6, <1>7, NextSteps DEF Steps

\* What holds of the event of a script that stays over.
Settled(n) ==
  /\ Plays(n) /\ Opening(n)
  /\ Single(n, Finish) => OnThread(n, Finish)
  /\ NeverEnds(n) => ~ended
  /\ StaysOver(n) => Empties

LEMMA InitSettled == ASSUME Init, NEW n \in Name, script = n PROVE Settled(n)
<1>1. Plays(n) /\ Opening(n) /\ (Single(n, Finish) => OnThread(n, Finish))
  BY InitPlays, InitOpening, InitThread
<1>2. ~ended
  BY DEF Init, ended
<1> QED BY <1>1, <1>2 DEF Settled, Empties

LEMMA NextSettled ==
  ASSUME NEW n \in Name, Settled(n), [Next]_vars
  PROVE  Settled(n)' /\ (StaysOver(n) /\ ended => ended')
<1>1. /\ Plays(n) /\ Opening(n) /\ (Single(n, Finish) => OnThread(n, Finish))
      /\ (NeverEnds(n) => ~ended) /\ (StaysOver(n) => Empties)
  BY DEF Settled
<1>2. Plays(n)' /\ Opening(n)' /\ (Single(n, Finish) => OnThread(n, Finish)')
  BY <1>1, NextPlays, NextOpening, NextThread
<1>3. NeverEnds(n) => ~ended'
  BY <1>1, NextEndless
<1>4. ASSUME StaysOver(n) PROVE Empties' /\ (ended => ended')
  <2>1. CASE NeverEnds(n)
    BY <1>1, <1>3, <2>1 DEF Empties
  <2>2. CASE Hushed(n, NoThread)
    <3>1. ended => NoneAhead(n, NoThread)
      BY DEF NoneAhead, Empty, NoThread, ToCome
    <3> QED BY <1>1, <1>4, <2>2, <3>1, NextEmpties
  <2>3. CASE Single(n, Finish) /\ Hushed(n, Thread(n, Finish))
    <3>1. ended => NoneAhead(n, Thread(n, Finish))
      BY <1>1, <2>3 DEF OnThread, Reached
    <3> QED BY <1>1, <1>4, <2>3, <3>1, NextEmpties
  <2> QED BY <1>4, <2>1, <2>2, <2>3 DEF StaysOver
<1> QED BY <1>2, <1>3, <1>4 DEF Settled

\* After victory or defeat nothing new comes to the maps, if all that can still happen looks at
\* finished before it spawns, or can no longer happen.
THEOREM OverIsOver == ASSUME QuietRule PROVE Spec => Quiet
<1> DEFINE Inv == \A n \in Name : script = n => Settled(n)
<1>1. Init => Inv
  BY InitSettled
<1>2. Inv /\ [Next]_vars => Inv'
  BY NextSettled, SameScript
<1>3. TypeOK /\ Inv /\ [Next]_vars => [QuietStep]_vars
  <2> SUFFICES ASSUME TypeOK, Inv, [Next]_vars, ended, script \notin Exempt.quiet
               PROVE  alive' \subseteq alive
    BY DEF QuietStep
  <2>1. PICK n \in Name : script = n
    BY DEF TypeOK
  <2>2. Settled(n) /\ StaysOver(n)
    BY <2>1 DEF QuietRule
  <2>3. Settled(n)' /\ ended'
    BY <2>2, NextSettled
  <2>4. alive' = {}
    BY <2>2, <2>3 DEF Settled, Empties
  <2> QED BY <2>4
<1> QED BY <1>1, <1>2, <1>3, FightTypes, PTL DEF Spec, Quiet
-----------------------------------------------------------------------------
(* No dead end. On a sure way each step leads further by itself; on the     *)
(* others it is the last monster that does.                                 *)

Ahead(n, way) ==
  \/ (alive \cup dying) \cap way.monsters # {}
  \/ pending \cap way.tasks # {}
  \/ ToCome(n, way)

Standing(n, way) ==
  alive # {} \/ pending \cap way.tasks # {} \/ ToCome(n, way) \/ parked > 0

\* An outcome ends the event, brings something of the way, or takes nothing away.
LEMMA Further ==
  ASSUME NEW way, NEW o, NEW on, NEW left, Effect(o, on, left), ~ended,
         "kill" \in o.fx => Leads(o, way) \/ on = {}
  PROVE  \/ ended'
         \/ alive' \cap way.monsters # {} \/ pending' \cap way.tasks # {}
         \/ on \subseteq alive' /\ left \subseteq pending' /\ ~Leads(o, way)
<1>1. CASE Over(o)
  BY <1>1 DEF Effect, Ends, Over, ended
<1>2. CASE ~Over(o)
  <2>1. alive' = (IF "kill" \in o.fx THEN {} ELSE on) \cup o.spawn /\ pending' = left \cup o.run
    BY <1>2 DEF Effect, Left, Ends, Over
  <2>2. CASE Brings(o, way)
    BY <2>1, <2>2 DEF Brings
  <2>3. CASE ~Brings(o, way)
    <3>1. ~Leads(o, way)
      BY <1>2, <2>3 DEF Leads
    <3> QED BY <2>1, <3>1
  <2> QED BY <2>2, <2>3
<1> QED BY <1>1, <1>2

LEMMA BothLeads ==
  ASSUME NEW way, NEW o, NEW c
  PROVE  /\ Leads(o, way) \/ Leads(c, way) => Leads(Both(o, c), way)
         /\ "kill" \in Both(o, c).fx => "kill" \in o.fx \/ "kill" \in c.fx
BY DEF Leads, Brings, Over, Both, Do

LEMMA NoKill == "kill" \notin Nothing.fx /\ "kill" \notin Prize.fx
BY DEF Nothing, Prize, Do

\* The steps that are the same on every way: those that kill or report nothing.
LEMMA OtherSteps ==
  ASSUME NEW n \in Name, Plays(n), ~ended, NEW way, GoesOn(n, way),
         (\E t \in pending : Task(n, t)) \/ Enters(n)
  PROVE  \/ ended'
         \/ alive' \cap way.monsters # {} \/ pending' \cap way.tasks # {}
         \/ /\ alive \subseteq alive' /\ pending \cap way.tasks \subseteq pending'
            /\ UNCHANGED <<dying, brought, parked, summoned>>
<1>a. /\ \A t \in way.tasks : \A o \in Script[n].task[t].early : Leads(o, way)
      /\ \A o \in Script[n].arrive \cup UNION {turns.early : turns \in TurnsOf(Script[n])} :
           "kill" \in o.fx => Leads(o, way)
  BY DEF GoesOn
<1>1. CASE \E t \in pending : Task(n, t)
  <2>1. PICK t \in pending : Task(n, t)
    BY <1>1
  <2>2. PICK o \in Script[n].task[t].early : Effect(o, alive, pending \ {t})
    BY <2>1 DEF Task, Turn
  <2>3. Script[n].task[t] \in TurnsOf(Script[n])
    BY DEF TurnsOf, Plays, Kinds, S
  <2>4. "kill" \in o.fx => Leads(o, way)
    BY <1>a, <2>3
  <2>5. UNCHANGED <<dying, brought, parked, summoned>>
    BY <2>1 DEF Task
  <2> QED BY <1>a, <2>2, <2>4, <2>5, Further
<1>2. CASE Enters(n)
  <2>1. PICK o \in Script[n].arrive : Effect(o, alive, pending)
    BY <1>2 DEF Enters
  <2>2. "kill" \in o.fx => Leads(o, way)
    BY <1>a
  <2>3. UNCHANGED <<dying, brought, parked, summoned>>
    BY <1>2 DEF Enters
  <2> QED BY <2>1, <2>2, <2>3, Further
<1> QED BY <1>1, <1>2

\* A report ends the event, brings something of the way, or takes no monster and no function away;
\* and where it has to lead it does not do the last.
LEMMA ReportSteps ==
  ASSUME NEW n \in Name, Plays(n), ~ended, NEW way, GoesOn(n, way),
         NEW m \in dying, Report(n, m)
  PROVE  \/ ended'
         \/ alive' \cap way.monsters # {} \/ pending' \cap way.tasks # {}
         \/ /\ alive \subseteq alive' /\ pending \subseteq pending'
            /\ ~(\A o \in KilledIn(Script[n], m).early : Leads(o, way))
            /\ alive # {} \/ ~(\A c \in Script[n].cleared.early : Leads(c, way))
<1>1. PICK o \in KilledIn(Script[n], m).early,
           c \in (IF alive = {} THEN Script[n].cleared.early ELSE {Nothing}) :
             Effect(Both(o, c), alive, pending)
  BY DEF Report, Turn
<1>2. KilledIn(Script[n], m) \in TurnsOf(Script[n]) /\ Script[n].cleared \in TurnsOf(Script[n])
  BY DEF KilledIn, TurnsOf
<1>3. ("kill" \in o.fx => Leads(o, way)) /\ ("kill" \in c.fx => Leads(c, way))
  BY <1>1, <1>2, NoKill DEF GoesOn
<1>4. "kill" \in Both(o, c).fx => Leads(Both(o, c), way)
  BY <1>3, BothLeads
<1>5. \/ ended'
      \/ alive' \cap way.monsters # {} \/ pending' \cap way.tasks # {}
      \/ alive \subseteq alive' /\ pending \subseteq pending' /\ ~Leads(Both(o, c), way)
  BY <1>1, <1>4, Further
<1>6. Leads(o, way) \/ Leads(c, way) => Leads(Both(o, c), way)
  BY BothLeads
<1> QED BY <1>1, <1>5, <1>6

\* A look at a park's map ends the event or changes nothing.
LEMMA LookSteps ==
  ASSUME NEW n \in Name, ~ended, Looks(n)
  PROVE  /\ ended' \/ (alive # {} /\ UNCHANGED <<alive, pending>>)
         /\ UNCHANGED <<dying, brought, summoned>>
<1>1. PICK o \in (IF alive = {} THEN {Prize} ELSE {Nothing}) : Effect(o, alive, pending)
  BY DEF Looks
<1>2. CASE alive = {}
  <2>1. Effect(Prize, alive, pending)
    BY <1>1, <1>2
  <2>2. ended'
    BY <2>1 DEF Effect, Ends, Prize, Do, ended
  <2> QED BY <2>2 DEF Looks
<1>3. CASE alive # {}
  <2>1. Effect(Nothing, alive, pending)
    BY <1>1, <1>3
  <2>2. UNCHANGED <<alive, pending>>
    BY <2>1 DEF Effect, Left, Ends, Nothing, Do
  <2> QED BY <1>3, <2>2 DEF Looks
<1> QED BY <1>2, <1>3

\* A death: the monster is on its way to the script, and the others stay.
LEMMA DeathSteps ==
  ASSUME NEW n \in Name, ~ended, NEW m \in alive, Death(n, m)
  PROVE  /\ m # Bomb => m \in dying'
         /\ dying \subseteq dying' /\ brought' = brought
         /\ \/ ended'
            \/ alive \ {m} \subseteq alive' /\ pending \subseteq pending'
<1>1. PICK rest \in {alive \ {m}} \cup (IF m \in Script[n].many THEN {alive} ELSE {}) :
      \E o \in (IF rest = {} /\ ~summoned THEN Script[n].emptied ELSE {Nothing}) :
        Effect(o, rest, pending)
  BY DEF Death
<1>2. PICK o \in (IF rest = {} /\ ~summoned THEN Script[n].emptied ELSE {Nothing}) :
        Effect(o, rest, pending)
  BY <1>1
<1>3. "kill" \in o.fx => rest = {}
  BY <1>2, NoKill
<1>4. ended' \/ (rest \subseteq alive' /\ pending \subseteq pending')
  BY <1>2, <1>3 DEF Effect, Left, Ends, ended
<1>5. alive \ {m} \subseteq rest
  BY <1>1
<1>6. dying' = DiesFor(m) /\ brought' = brought
  BY DEF Death
<1> QED BY <1>4, <1>5, <1>6 DEF DiesFor, Silent
\* Steps that take away nothing of what is ahead.
LEMMA StillAhead ==
  ASSUME NEW n, NEW way, Ahead(n, way), alive \subseteq alive', dying \subseteq dying',
         pending \cap way.tasks \subseteq pending', brought' = brought
  PROVE  Ahead(n, way)'
<1>1. ToCome(n, way)' <=> ToCome(n, way)
  BY DEF ToCome
<1> QED BY <1>1 DEF Ahead

LEMMA NowAhead ==
  ASSUME NEW n, NEW way,
         alive' \cap way.monsters # {} \/ dying' \cap way.monsters # {}
           \/ pending' \cap way.tasks # {}
  PROVE  Ahead(n, way)'
BY DEF Ahead

LEMMA NextSure ==
  ASSUME NEW n \in Name, Plays(n), ~ended, NEW way, SureWay(n, way), Ahead(n, way), [Next]_vars
  PROVE  ended' \/ Ahead(n, way)'
<1>a. GoesOn(n, way) /\ Bomb \notin way.monsters
  BY DEF SureWay, GoesOn, Within
<1>1. CASE \E m \in alive : Death(n, m)
  <2>1. PICK m \in alive : Death(n, m)
    BY <1>1
  <2>2. /\ m # Bomb => m \in dying'
        /\ dying \subseteq dying' /\ brought' = brought
        /\ ended' \/ (alive \ {m} \subseteq alive' /\ pending \subseteq pending')
    BY <2>1, DeathSteps
  <2>3. CASE m \in way.monsters
    BY <1>a, <2>2, <2>3, NowAhead
  <2>4. CASE m \notin way.monsters /\ ~ended'
    <3>1. alive \cap way.monsters \subseteq alive' /\ pending \subseteq pending'
      BY <2>2, <2>4
    <3>2. ToCome(n, way)' <=> ToCome(n, way)
      BY <2>2 DEF ToCome
    <3> QED BY <2>2, <3>1, <3>2 DEF Ahead
  <2> QED BY <2>3, <2>4
<1>2. CASE \E m \in dying : Report(n, m)
  <2>1. PICK m \in dying : Report(n, m)
    BY <1>2
  <2>2. \/ ended'
        \/ alive' \cap way.monsters # {} \/ pending' \cap way.tasks # {}
        \/ /\ alive \subseteq alive' /\ pending \subseteq pending' /\ m \notin way.monsters
    BY <1>a, <2>1, ReportSteps DEF SureWay
  <2>3. brought' = brought /\ dying \ {m} \subseteq dying'
    BY <2>1 DEF Report
  <2>4. CASE alive \subseteq alive' /\ pending \subseteq pending' /\ m \notin way.monsters
    <3>1. dying \cap way.monsters \subseteq dying'
      BY <2>3, <2>4
    <3>2. ToCome(n, way)' <=> ToCome(n, way)
      BY <2>3 DEF ToCome
    <3> QED BY <2>4, <3>1, <3>2 DEF Ahead
  <2> QED BY <2>2, <2>4, NowAhead
<1>3. CASE (\E t \in pending : Task(n, t)) \/ Enters(n)
  <2>1. \/ ended'
        \/ alive' \cap way.monsters # {} \/ pending' \cap way.tasks # {}
        \/ /\ alive \subseteq alive' /\ pending \cap way.tasks \subseteq pending'
           /\ UNCHANGED <<dying, brought, parked, summoned>>
    BY <1>3, <1>a, OtherSteps
  <2> QED BY <2>1, NowAhead, StillAhead
<1>4. CASE \E m \in Script[n].far : Comes(m)
  <2>1. PICK m \in Script[n].far : Comes(m)
    BY <1>4
  <2>2. alive' = alive \cup {m} /\ UNCHANGED <<dying, pending>>
    BY <2>1 DEF Comes
  <2>3. CASE ToCome(n, way)
    <3>1. m \in way.monsters
      BY <2>1, <2>3 DEF ToCome, SureWay
    <3> QED BY <2>2, <3>1, NowAhead
  <2>4. CASE ~ToCome(n, way)
    BY <2>2, <2>4 DEF Ahead
  <2> QED BY <2>3, <2>4
<1>5. CASE Looks(n)
  <2>1. /\ ended' \/ UNCHANGED <<alive, pending>>
        /\ UNCHANGED <<dying, brought>>
    BY <1>5, LookSteps
  <2> QED BY <2>1, StillAhead
<1>6. CASE Passes
  BY <1>6, StillAhead DEF Passes
<1> QED BY <1>1, <1>2, <1>3, <1>4, <1>5, <1>6, NextSteps DEF Steps

\* Where every monster is on the way, a report that leaves one alive leaves the way open.
LEMMA NextReport ==
  ASSUME NEW n \in Name, Plays(n), ~ended, NEW way, LastReport(n, way), Ahead(n, way),
         alive \subseteq way.monsters, [Next]_vars
  PROVE  ended' \/ Ahead(n, way)'
<1>a. GoesOn(n, way) /\ Bomb \notin way.monsters /\ Script[n].far \subseteq way.monsters
  BY DEF LastReport, GoesOn, Within, OnlyWay
<1>1. CASE \E m \in alive : Death(n, m)
  <2>1. PICK m \in alive : Death(n, m)
    BY <1>1
  <2>2. m \in dying' /\ m \in way.monsters
    BY <1>a, <2>1, DeathSteps
  <2> QED BY <2>2, NowAhead
<1>2. CASE \E m \in dying : Report(n, m)
  <2>1. PICK m \in dying : Report(n, m)
    BY <1>2
  <2>2. \/ ended'
        \/ alive' \cap way.monsters # {} \/ pending' \cap way.tasks # {}
        \/ alive \subseteq alive' /\ alive # {}
    BY <1>a, <2>1, ReportSteps DEF LastReport
  <2> QED BY <2>2, NowAhead
<1>3. CASE (\E t \in pending : Task(n, t)) \/ Enters(n)
  <2>1. \/ ended'
        \/ alive' \cap way.monsters # {} \/ pending' \cap way.tasks # {}
        \/ /\ alive \subseteq alive' /\ pending \cap way.tasks \subseteq pending'
           /\ UNCHANGED <<dying, brought, parked, summoned>>
    BY <1>3, <1>a, OtherSteps
  <2> QED BY <2>1, NowAhead, StillAhead
<1>4. CASE \E m \in Script[n].far : Comes(m)
  <2>1. PICK m \in Script[n].far : Comes(m)
    BY <1>4
  <2>2. m \in alive' \cap way.monsters
    BY <1>a, <2>1 DEF Comes
  <2> QED BY <2>2, NowAhead
<1>5. CASE Looks(n)
  <2>1. /\ ended' \/ UNCHANGED <<alive, pending>>
        /\ UNCHANGED <<dying, brought>>
    BY <1>5, LookSteps
  <2> QED BY <2>1, StillAhead
<1>6. CASE Passes
  BY <1>6, StillAhead DEF Passes
<1> QED BY <1>1, <1>2, <1>3, <1>4, <1>5, <1>6, NextSteps DEF Steps

\* On a park's map the thread that killed the last monster has still to look.
LEMMA NextLook ==
  ASSUME NEW n \in Name, Plays(n), ~ended, NEW way, LastLook(n, way), Standing(n, way),
         alive \subseteq way.monsters, [Next]_vars
  PROVE  ended' \/ Standing(n, way)'
<1>a. GoesOn(n, way) /\ Bomb \notin way.monsters /\ Script[n].park
  BY DEF LastLook, GoesOn, Within
<1>b. ASSUME alive \subseteq alive', pending \cap way.tasks \subseteq pending',
             brought' = brought, parked' = parked
      PROVE  Standing(n, way)'
  <2>1. ToCome(n, way)' <=> ToCome(n, way)
    BY <1>b DEF ToCome
  <2> QED BY <1>b, <2>1 DEF Standing
<1>c. alive' \cap way.monsters # {} \/ pending' \cap way.tasks # {} => Standing(n, way)'
  BY DEF Standing
<1>1. CASE \E m \in alive : Death(n, m)
  <2>1. PICK m \in alive : Death(n, m)
    BY <1>1
  <2>2. parked' > 0
    BY <1>a, <2>1 DEF Death
  <2> QED BY <2>2 DEF Standing
<1>2. CASE \E m \in dying : Report(n, m)
  <2>1. PICK m \in dying : Report(n, m)
    BY <1>2
  <2>2. \/ ended'
        \/ alive' \cap way.monsters # {} \/ pending' \cap way.tasks # {}
        \/ alive \subseteq alive' /\ pending \subseteq pending'
    BY <1>a, <2>1, ReportSteps
  <2>3. brought' = brought /\ parked' = parked
    BY <2>1 DEF Report
  <2> QED BY <1>b, <1>c, <2>2, <2>3
<1>3. CASE (\E t \in pending : Task(n, t)) \/ Enters(n)
  <2>1. \/ ended'
        \/ alive' \cap way.monsters # {} \/ pending' \cap way.tasks # {}
        \/ /\ alive \subseteq alive' /\ pending \cap way.tasks \subseteq pending'
           /\ UNCHANGED <<dying, brought, parked, summoned>>
    BY <1>3, <1>a, OtherSteps
  <2> QED BY <1>b, <1>c, <2>1
<1>4. CASE \E m \in Script[n].far : Comes(m)
  BY <1>4 DEF Comes, Standing
<1>5. CASE Looks(n)
  <2>1. ended' \/ (alive # {} /\ alive' = alive)
    BY <1>5, LookSteps
  <2> QED BY <2>1 DEF Standing
<1>6. CASE Passes
  BY <1>6, <1>b DEF Passes
<1> QED BY <1>1, <1>2, <1>3, <1>4, <1>5, <1>6, NextSteps DEF Steps

\* Where the map's first last monster leads further, some monster is alive until it dies.
LEMMA NextDeath ==
  ASSUME NEW n \in Name, Plays(n), ~ended, NEW way, LastDeath(n, way),
         IF summoned THEN Ahead(n, way) ELSE alive # {}, [Next]_vars
  PROVE  ended' \/ (IF summoned' THEN Ahead(n, way)' ELSE alive' # {})
<1>a. /\ SureWay(n, way) /\ summoned \in BOOLEAN
      /\ \A o \in Outcomes(Script[n]) : "kill" \notin o.fx
      /\ \A o \in Script[n].emptied : Leads(o, way)
  BY DEF LastDeath, Plays, Kinds, TypeOK
<1>b. ASSUME NEW o, NEW on, NEW left, Effect(o, on, left), "kill" \notin o.fx
      PROVE  ended' \/ on \subseteq alive'
  BY <1>b DEF Effect, Left, Ends, ended
<1>1. CASE \E m \in alive : Death(n, m)
  <2>1. PICK m \in alive : Death(n, m)
    BY <1>1
  <2>2. PICK rest \in {alive \ {m}} \cup (IF m \in Script[n].many THEN {alive} ELSE {}) :
        /\ \E o \in (IF rest = {} /\ ~summoned THEN Script[n].emptied ELSE {Nothing}) :
             Effect(o, rest, pending)
        /\ summoned' = (summoned \/ rest = {})
    BY <2>1 DEF Death
  <2>3. PICK o \in (IF rest = {} /\ ~summoned THEN Script[n].emptied ELSE {Nothing}) :
          Effect(o, rest, pending)
    BY <2>2
  <2>4. CASE summoned
    BY <1>a, <2>2, <2>4, NextSure
  <2>5. CASE ~summoned /\ rest = {}
    <3>1. Leads(o, way)
      BY <1>a, <2>3, <2>5
    <3>2. ended' \/ alive' \cap way.monsters # {} \/ pending' \cap way.tasks # {}
      BY <2>3, <3>1, Further
    <3>3. summoned'
      BY <2>2, <2>5
    <3> QED BY <3>2, <3>3, NowAhead
  <2>6. CASE ~summoned /\ rest # {}
    <3>1. o = Nothing
      BY <2>3, <2>6
    <3>2. ended' \/ rest \subseteq alive'
      BY <1>b, <2>3, <3>1, NoKill
    <3>3. ~summoned'
      BY <2>2, <2>6
    <3> QED BY <2>6, <3>2, <3>3
  <2> QED BY <2>4, <2>5, <2>6
<1>2. ASSUME ~(\E m \in alive : Death(n, m))
      PROVE  summoned' = summoned /\ (ended' \/ alive \subseteq alive')
  <2>1. CASE \E m \in dying : Report(n, m)
    <3>1. PICK m \in dying : Report(n, m)
      BY <2>1
    <3>2. PICK o \in Turn(n, KilledIn(Script[n], m)),
               c \in (IF alive = {} THEN Turn(n, Script[n].cleared) ELSE {Nothing}) :
                 Effect(Both(o, c), alive, pending)
      BY <3>1 DEF Report
    <3>3. KilledIn(Script[n], m) \in TurnsOf(Script[n]) /\ Script[n].cleared \in TurnsOf(Script[n])
      BY DEF KilledIn, TurnsOf
    <3>4. "kill" \notin o.fx /\ "kill" \notin c.fx
      BY <1>a, <3>2, <3>3, TurnListed, NoKill
    <3>5. "kill" \notin Both(o, c).fx
      BY <3>4, BothLeads
    <3>6. ended' \/ alive \subseteq alive'
      BY <1>b, <3>2, <3>5
    <3> QED BY <3>1, <3>6 DEF Report
  <2>2. CASE \E t \in pending : Task(n, t)
    <3>1. PICK t \in pending : Task(n, t)
      BY <2>2
    <3>2. PICK o \in Turn(n, Script[n].task[t]) : Effect(o, alive, pending \ {t})
      BY <3>1 DEF Task
    <3>3. Script[n].task[t] \in TurnsOf(Script[n])
      BY DEF TurnsOf, Plays, Kinds, S
    <3>4. "kill" \notin o.fx
      BY <1>a, <3>2, <3>3, TurnListed
    <3>5. ended' \/ alive \subseteq alive'
      BY <1>b, <3>2, <3>4
    <3> QED BY <3>1, <3>5 DEF Task
  <2>3. CASE Enters(n)
    <3>1. PICK o \in Script[n].arrive : Effect(o, alive, pending)
      BY <2>3 DEF Enters
    <3>2. "kill" \notin o.fx
      BY <1>a DEF Outcomes
    <3>3. ended' \/ alive \subseteq alive'
      BY <1>b, <3>1, <3>2
    <3> QED BY <2>3, <3>3 DEF Enters
  <2>4. CASE Looks(n)
    BY <2>4, LookSteps
  <2>5. CASE (\E m \in Script[n].far : Comes(m)) \/ Passes
    BY <2>5 DEF Comes, Passes
  <2> QED BY <1>2, <2>1, <2>2, <2>3, <2>4, <2>5, NextSteps DEF Steps
<1>3. CASE ~(\E m \in alive : Death(n, m)) /\ summoned
  BY <1>a, <1>2, <1>3, NextSure
<1>4. CASE ~(\E m \in alive : Death(n, m)) /\ ~summoned
  BY <1>2, <1>4
<1> QED BY <1>1, <1>3, <1>4
\* What keeps the way of n open.
Going(n) ==
  /\ Plays(n)
  /\ OnlyWay(n, WaysOf[n]) => alive \subseteq WaysOf[n].monsters
  /\ ~ended =>
       /\ SureWay(n, Sure(n)) /\ SetsOut(n, Sure(n)) => Ahead(n, Sure(n))
       /\ LastReport(n, WaysOf[n]) => Ahead(n, WaysOf[n])
       /\ LastLook(n, WaysOf[n]) => Standing(n, WaysOf[n])
       /\ LastDeath(n, Sure(n)) => IF summoned THEN Ahead(n, Sure(n)) ELSE alive # {}

LEMMA InitGoing == ASSUME Init, NEW n \in Name, script = n PROVE Going(n)
<1>1. PICK o \in S.begin : Begins(o)
  BY DEF Init
<1>2. /\ o \in Script[n].begin /\ alive = o.spawn /\ pending = o.run \cup Script[n].entry
      /\ ~brought /\ ~summoned
  BY <1>1 DEF Begins, S, Init
<1>3. ASSUME NEW way, SetsOut(n, way) PROVE Ahead(n, way) /\ Standing(n, way)
  <2>1. Script[n].far \cap way.monsters # {} => ToCome(n, way)
    BY <1>2 DEF ToCome
  <2>2. Brings(o, way) => alive \cap way.monsters # {} \/ pending \cap way.tasks # {}
    BY <1>2 DEF Brings
  <2>3. Script[n].entry \cap way.tasks # {} => pending \cap way.tasks # {}
    BY <1>2
  <2> QED BY <1>2, <1>3, <2>1, <2>2, <2>3 DEF SetsOut, Ahead, Standing
<1>4. OnlyWay(n, WaysOf[n]) => alive \subseteq WaysOf[n].monsters
  BY <1>2 DEF OnlyWay, Outcomes
<1>5. LastDeath(n, Sure(n)) => alive # {}
  BY <1>2 DEF LastDeath
<1>6. Plays(n)
  BY InitPlays
<1> QED BY <1>2, <1>3, <1>4, <1>5, <1>6 DEF Going, LastReport, LastLook

\* The end of an event is for good.
LEMMA EndedStays == ASSUME NEW n \in Name, Plays(n), [Next]_vars PROVE ended => ended'
<1>1. ASSUME NEW o, NEW on, NEW left, Effect(o, on, left) PROVE ended => ended'
  BY <1>1 DEF Effect, ended
<1>2. outcome' = outcome => (ended => ended')
  BY DEF ended
<1> QED BY <1>1, <1>2, NextSteps DEF Steps, Death, Report, Task, Comes, Looks, Enters, Passes

LEMMA NextGoing ==
  ASSUME NEW n \in Name, Going(n), [Next]_vars
  PROVE  Going(n)'
<1>1. Plays(n) /\ Plays(n)' /\ (ended => ended')
  BY NextPlays, EndedStays DEF Going
<1>2. ASSUME OnlyWay(n, WaysOf[n]) PROVE alive' \subseteq WaysOf[n].monsters
  <2>1. /\ alive \subseteq WaysOf[n].monsters
        /\ \A o \in Outcomes(Script[n]) : o.spawn \subseteq WaysOf[n].monsters
        /\ Script[n].far \subseteq WaysOf[n].monsters
    BY <1>2 DEF Going, OnlyWay
  <2> QED BY <1>1, <2>1, NextWithin
<1>3. ASSUME ~ended, SureWay(n, Sure(n)), SetsOut(n, Sure(n)) PROVE ended' \/ Ahead(n, Sure(n))'
  <2>1. Ahead(n, Sure(n))
    BY <1>3 DEF Going
  <2> QED BY <1>1, <1>3, <2>1, NextSure
<1>4. ASSUME ~ended, LastReport(n, WaysOf[n]) PROVE ended' \/ Ahead(n, WaysOf[n])'
  <2>1. Ahead(n, WaysOf[n]) /\ alive \subseteq WaysOf[n].monsters
    BY <1>4 DEF Going, LastReport
  <2> QED BY <1>1, <1>4, <2>1, NextReport
<1>5. ASSUME ~ended, LastLook(n, WaysOf[n]) PROVE ended' \/ Standing(n, WaysOf[n])'
  <2>1. Standing(n, WaysOf[n]) /\ alive \subseteq WaysOf[n].monsters
    BY <1>5 DEF Going, LastLook
  <2> QED BY <1>1, <1>5, <2>1, NextLook
<1>6. ASSUME ~ended, LastDeath(n, Sure(n))
      PROVE  ended' \/ (IF summoned' THEN Ahead(n, Sure(n))' ELSE alive' # {})
  <2>1. IF summoned THEN Ahead(n, Sure(n)) ELSE alive # {}
    BY <1>6 DEF Going
  <2> QED BY <1>1, <1>6, <2>1, NextDeath
<1>7. ~ended' => ~ended
  BY <1>1
<1> QED BY <1>1, <1>2, <1>3, <1>4, <1>5, <1>6, <1>7 DEF Going

\* What keeps the way open is a way to victory.
LEMMA GoingWins ==
  ASSUME TypeOK, NEW n \in Name, Going(n), KeepsGoing(n), ~ended
  PROVE  CanStillWin
<1>0. script = n /\ S = Script[n] /\ parked \in Nat
  BY DEF Going, Plays, TypeOK, S, BoundAssumption
<1>1. ASSUME NEW way, Within(n, way), Ahead(n, way) PROVE CanStillWin
  BY <1>0, <1>1 DEF Ahead, Within, CanStillWin, ToCome
<1>2. CASE SureWay(n, Sure(n)) /\ SetsOut(n, Sure(n))
  BY <1>1, <1>2 DEF Going, SureWay, GoesOn
<1>3. CASE LastReport(n, WaysOf[n])
  BY <1>1, <1>3 DEF Going, LastReport, GoesOn
<1>4. CASE LastLook(n, WaysOf[n])
  <2>1. Standing(n, WaysOf[n]) /\ alive \subseteq WaysOf[n].monsters
    BY <1>4 DEF Going, LastLook
  <2> QED BY <1>0, <2>1 DEF Standing, CanStillWin, ToCome
<1>5. CASE LastDeath(n, Sure(n))
  <2>1. Within(n, Sure(n)) /\ alive \subseteq WaysOf[n].monsters
    BY <1>5 DEF Going, LastDeath, SureWay, GoesOn
  <2>2. summoned => Ahead(n, Sure(n))
    BY <1>5 DEF Going
  <2>3. ~summoned => alive # {}
    BY <1>5 DEF Going
  <2> QED BY <1>0, <1>1, <2>1, <2>2, <2>3 DEF CanStillWin
<1> QED BY <1>2, <1>3, <1>4, <1>5 DEF KeepsGoing

\* An event with a goal that is not over can still be won, whatever the players kill first and
\* however the timers fall: its script leads on from every death on a way, or from the last death.
THEOREM AlwaysAWay == ASSUME GoalRule PROVE Spec => []NoDeadEnd
<1> DEFINE Inv == \A n \in Name : script = n => Going(n)
<1>1. Init => Inv
  BY InitGoing
<1>2. Inv /\ [Next]_vars => Inv'
  BY NextGoing, SameScript
<1>3. TypeOK /\ Inv => NoDeadEnd
  <2> SUFFICES ASSUME TypeOK, Inv, script \notin Exempt.goal, ~ended, HasGoal(script)
               PROVE  CanStillWin
    BY DEF NoDeadEnd
  <2>1. PICK n \in Name : script = n
    BY DEF TypeOK
  <2>2. Going(n) /\ KeepsGoing(n)
    BY <2>1 DEF GoalRule
  <2> QED BY <2>2, GoingWins
<1> QED BY <1>1, <1>2, <1>3, FightTypes, PTL DEF Spec
=============================================================================
