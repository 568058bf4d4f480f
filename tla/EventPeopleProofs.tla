-------------------------- MODULE EventPeopleProofs --------------------------
(***************************************************************************)
(* Proofs about who takes part in an event: whatever a script's manners,   *)
(* and however many players the group has.                                 *)
(***************************************************************************)
EXTENDS EventPeople, TLAPS

\* The three parts of the invariant: an open event and its players know each other; a thread that
\* found nobody will dispose of an empty event, or somebody was caught; and the property itself.
Known == Open => chars = pointing
Watched == Open /\ closing => chars = {} \/ caught
Inv == Known /\ Watched /\ NobodyLeftBehind

\* Letting players go, looking whether anybody is left, and nothing else of the event.
LEMMA UnregisterKeeps ==
  ASSUME Inv, NEW Q, Unregister(Q), LooksEmpty, UNCHANGED <<inst, caught>>
  PROVE  Inv'
<1>1. chars' = chars \ Q /\ pointing' = pointing \ (Q \cap chars)
  BY DEF Unregister
<1>2. Known'
  BY <1>1 DEF Inv, Known, Open
<1>3. Watched'
  BY <1>1 DEF Inv, Watched, LooksEmpty, Open
<1>4. NobodyLeftBehind'
  BY <1>1 DEF Inv, NobodyLeftBehind, Open
<1> QED BY <1>2, <1>3, <1>4 DEF Inv

LEMMA NobodyKeeps ==
  ASSUME Inv, UNCHANGED <<chars, pointing, closing, inst, caught>>
  PROVE  Inv'
  BY DEF Inv, Known, Watched, NobodyLeftBehind, Open

LEMMA ActsKeeps ==
  ASSUME Inv, NEW kind, NEW p \in Player, Acts(kind, p), UNCHANGED <<inst, caught>>
  PROVE  Inv'
<1>1. ASSUME NEW Q, Exit(Q) \/ Drop(Q) PROVE Inv'
  BY <1>1, UnregisterKeeps DEF Exit, Drop
<1>2. CASE Nobody
  BY <1>2, NobodyKeeps DEF Nobody
<1> QED BY <1>1, <1>2 DEF Acts

LEMMA CallsKeeps ==
  ASSUME Inv, NEW kind, NEW p \in Player, Calls(kind, p), UNCHANGED <<inst, caught>>
  PROVE  Inv'
  BY ActsKeeps, NobodyKeeps DEF Calls, Nobody

\* One who is registered while somebody is about to dispose is caught.
LEMMA RegisterKeeps ==
  ASSUME Inv, NEW p \in Player, Register(p)
  PROVE  Inv'
<1>1. CASE Registers(p)
  <2>1. /\ chars' = chars \cup {p} /\ pointing' = pointing \cup {p}
        /\ caught' = (caught \/ (Open /\ closing)) /\ UNCHANGED <<closing, inst>> /\ Open
    BY <1>1 DEF Register, Registers
  <2>2. Known' /\ NobodyLeftBehind'
    BY <2>1 DEF Inv, Known, NobodyLeftBehind, Open
  <2>3. Watched'
    BY <2>1 DEF Watched, Open
  <2> QED BY <2>2, <2>3 DEF Inv
<1>2. CASE ~Registers(p)
  BY <1>2, NobodyKeeps DEF Register
<1> QED BY <1>1, <1>2

LEMMA WalkKeeps ==
  ASSUME Inv, NEW p \in Player, Walk(p)
  PROVE  Inv'
<1>1. UNCHANGED <<inst, caught>>
  BY DEF Walk, event
<1>2. CASE Unregister({p}) /\ LooksEmpty
  BY <1>1, <1>2, UnregisterKeeps
<1>3. CASE UNCHANGED <<chars, pointing, closing>>
  BY <1>1, <1>3, NobodyKeeps
<1>4. CASE \E kind \in manner.moved : Acts(kind, p)
  BY <1>1, <1>4, ActsKeeps
<1> QED BY <1>2, <1>3, <1>4 DEF Walk

LEMMA LogOffKeeps ==
  ASSUME Inv, NEW p \in Player, LogOff(p)
  PROVE  Inv'
<1>1. UNCHANGED <<inst, caught>>
  BY DEF LogOff, event
<1>2. CASE p \in pointing
  <2>1. PICK Q : Unregister(Q) /\ LooksEmpty
    BY <1>2 DEF LogOff
  <2> QED BY <1>1, <2>1, UnregisterKeeps
<1>3. CASE p \notin pointing
  BY <1>1, <1>3, NobodyKeeps DEF LogOff
<1> QED BY <1>2, <1>3

LEMMA NextKeeps ==
  ASSUME Inv, [Next]_vars
  PROVE  Inv'
<1>1. ASSUME NEW p \in Player, Register(p) \/ Walk(p) \/ LogOff(p) PROVE Inv'
  BY <1>1, RegisterKeeps, WalkKeeps, LogOffKeeps
<1>2. ASSUME NEW p \in Player, Arrive(p) PROVE Inv'
  BY <1>2, NobodyKeeps DEF Arrive, event
<1>3. ASSUME NEW p \in Player, Revive(p) PROVE Inv'
  BY <1>3, CallsKeeps DEF Revive, event
<1>4. ASSUME NEW p \in Player, LeaveParty(p) PROVE Inv'
  BY <1>4, CallsKeeps, NobodyKeeps DEF LeaveParty, Nobody, event
<1>5. ASSUME NEW p \in Player, Expel(p) PROVE Inv'
  BY <1>5, CallsKeeps, NobodyKeeps, PeopleAssumption DEF Expel, Nobody, event
<1>6. CASE DisbandParty
  BY <1>6, CallsKeeps, NobodyKeeps, PeopleAssumption DEF DisbandParty, Nobody, event
<1>7. CASE Timeout
  BY <1>7, CallsKeeps, NobodyKeeps, PeopleAssumption DEF Timeout, Nobody, event
<1>8. CASE EmptyTick
  BY <1>8 DEF EmptyTick, event, Inv, Known, Watched, NobodyLeftBehind, Open
<1>9. CASE Dispose
  <2>1. chars = pointing /\ (chars = {} \/ caught) /\ inst' = "disposed"
    BY <1>9 DEF Dispose, Inv, Known, Watched
  <2>2. UNCHANGED <<pointing, caught>>
    BY <1>9 DEF Dispose
  <2> QED BY <2>1, <2>2 DEF Inv, Known, Watched, NobodyLeftBehind, Open
<1>10. CASE Clear \/ Forget
  BY <1>10 DEF Clear, Forget, Inv, Known, Watched, NobodyLeftBehind, Open
<1>11. CASE UNCHANGED vars
  BY <1>11, NobodyKeeps DEF vars
<1> QED
  BY <1>1, <1>2, <1>3, <1>4, <1>5, <1>6, <1>7, <1>8, <1>9, <1>10, <1>11 DEF Next

\* Nobody points at an event that has been disposed of, but those who were registered between the
\* look that found nobody and the dispose: for any number of players and any manners of scripts.
THEOREM NobodyIsLeftBehind == Spec => []NobodyLeftBehind
<1>1. Init => Inv
  BY DEF Init, Inv, Known, Watched, NobodyLeftBehind, Open
<1>2. Inv /\ [Next]_vars => Inv'
  BY NextKeeps
<1>3. Inv => NobodyLeftBehind
  BY DEF Inv
<1> QED BY <1>1, <1>2, <1>3, PTL DEF Spec
----------------------------------------------------------------------------
\* What letting the players of Q go keeps: they are players, and those who have logged off stay off.
LEMMA UnregisterTypes ==
  ASSUME TypeOK, NEW Q, Unregister(Q), LooksEmpty
  PROVE  chars' \in SUBSET Player /\ pointing' \in SUBSET Player /\ closing' \in BOOLEAN
  BY DEF TypeOK, Unregister, LooksEmpty, Open

LEMMA ExitTypes ==
  ASSUME TypeOK, NEW Q \in SUBSET Player, Exit(Q)
  PROVE  /\ chars' \in SUBSET Player /\ pointing' \in SUBSET Player /\ closing' \in BOOLEAN
         /\ place' \in [Player -> {"before", "field", "out", "off"}]
         /\ moving' \in SUBSET Player /\ \A p \in moving' : place'[p] # "off"
<1>1. chars' \in SUBSET Player /\ pointing' \in SUBSET Player /\ closing' \in BOOLEAN
  BY UnregisterTypes DEF Exit
<1>2. place' \in [Player -> {"before", "field", "out", "off"}] /\ moving' \in SUBSET Player
  BY DEF TypeOK, Exit
<1>3. ASSUME NEW p \in moving' PROVE place'[p] # "off"
  BY <1>3 DEF TypeOK, Exit
<1> QED BY <1>1, <1>2, <1>3

\* The part of the state that the players' requests change, and its types.
Moved ==
  /\ chars \in SUBSET Player /\ pointing \in SUBSET Player /\ closing \in BOOLEAN
  /\ place \in [Player -> {"before", "field", "out", "off"}]
  /\ moving \in SUBSET Player /\ \A p \in moving : place[p] # "off"

LEMMA ActsTypes ==
  ASSUME TypeOK, NEW kind, NEW p \in Player, Acts(kind, p)
  PROVE  Moved'
<1>1. CASE Exit({p}) \/ Exit(chars)
  BY <1>1, ExitTypes DEF TypeOK, Moved
<1>2. CASE Drop({p})
  BY <1>2, UnregisterTypes DEF TypeOK, Moved, Drop
<1>3. CASE Nobody
  BY <1>3 DEF TypeOK, Moved, Nobody
<1> QED BY <1>1, <1>2, <1>3 DEF Acts

LEMMA CallsTypes ==
  ASSUME TypeOK, NEW kind, NEW p \in Player, Calls(kind, p) \/ Nobody
  PROVE  Moved'
  BY ActsTypes DEF Calls, TypeOK, Moved, Nobody

LEMMA WalkTypes ==
  ASSUME TypeOK, NEW p \in Player, Walk(p)
  PROVE  Moved'
<1>0. place[p] # "off"
  BY DEF Walk
<1>1. CASE \E kind \in manner.moved : Acts(kind, p)
  BY <1>1, ActsTypes
<1>2. ASSUME place' = [place EXCEPT ![p] = "out"], moving' = moving \cup {p},
             (Unregister({p}) /\ LooksEmpty) \/ UNCHANGED <<chars, pointing, closing>>
      PROVE  Moved'
  <2>1. chars' \in SUBSET Player /\ pointing' \in SUBSET Player /\ closing' \in BOOLEAN
    BY <1>2, UnregisterTypes DEF TypeOK
  <2> QED BY <1>2, <2>1 DEF TypeOK, Moved
<1>3. ASSUME moving' = moving \cup {p} \/ moving' = moving \cup {q \in chars : place[q] # "off"},
             UNCHANGED <<chars, pointing, place, closing>>
      PROVE  Moved'
  BY <1>0, <1>3 DEF TypeOK, Moved
<1> QED BY <1>1, <1>2, <1>3 DEF Walk

LEMMA LogOffTypes ==
  ASSUME TypeOK, NEW p \in Player, LogOff(p)
  PROVE  Moved'
<1>1. CASE p \in pointing
  <2>1. PICK Q \in SUBSET Player :
          /\ Unregister(Q) /\ LooksEmpty
          /\ place' = [q \in Player |-> IF q = p THEN "off"
                         ELSE IF q \in Q \ moving /\ place[q] # "off" THEN "out" ELSE place[q]]
          /\ moving' = (moving \cup {q \in Q : place[q] # "off"}) \ {p}
    BY <1>1 DEF LogOff
  <2>2. chars' \in SUBSET Player /\ pointing' \in SUBSET Player /\ closing' \in BOOLEAN
    BY <2>1, UnregisterTypes
  <2>3. place' \in [Player -> {"before", "field", "out", "off"}] /\ moving' \in SUBSET Player
    BY <2>1 DEF TypeOK
  <2>4. ASSUME NEW q \in moving' PROVE place'[q] # "off"
    BY <2>1, <2>4 DEF TypeOK
  <2> QED BY <2>2, <2>3, <2>4 DEF Moved
<1>2. CASE p \notin pointing
  BY <1>2 DEF LogOff, TypeOK, Moved
<1> QED BY <1>1, <1>2

LEMMA RegisterTypes ==
  ASSUME TypeOK, NEW p \in Player, Register(p)
  PROVE  Moved' /\ queue' \in SUBSET Player /\ caught' \in BOOLEAN
<1>1. queue' \in SUBSET Player
  BY DEF TypeOK, Register
<1>2. CASE Registers(p)
  <2>1. chars' \in SUBSET Player /\ pointing' \in SUBSET Player /\ caught' \in BOOLEAN
    BY <1>2 DEF TypeOK, Register, Open
  <2>2. /\ place' \in [Player -> {"before", "field", "out", "off"}]
        /\ moving' \in SUBSET Player /\ \A q \in moving' : place'[q] # "off"
    BY <1>2 DEF TypeOK, Register
  <2> QED BY <1>1, <2>1, <2>2 DEF TypeOK, Moved, Register
<1>3. CASE ~Registers(p)
  BY <1>1, <1>3 DEF TypeOK, Moved, Register
<1> QED BY <1>2, <1>3

LEMMA NextTypes ==
  ASSUME TypeOK, [Next]_vars
  PROVE  TypeOK'
<1>1. ASSUME NEW p \in Player, Register(p) PROVE TypeOK'
  BY <1>1, RegisterTypes DEF Register, Moved, TypeOK
<1>2. ASSUME Moved', UNCHANGED event, party' \in SUBSET Player, ringing' \in BOOLEAN PROVE TypeOK'
  BY <1>2 DEF Moved, TypeOK, event
<1>3. ASSUME NEW p \in Player, Walk(p) \/ LogOff(p) PROVE TypeOK'
  <2>1. UNCHANGED <<event, party, ringing>>
    BY <1>3 DEF Walk, LogOff
  <2> QED BY <1>2, <1>3, <2>1, WalkTypes, LogOffTypes DEF TypeOK
<1>4. ASSUME NEW p \in Player, Arrive(p) PROVE TypeOK'
  BY <1>4 DEF Arrive, event, TypeOK
<1>5. ASSUME NEW p \in Player, Revive(p) PROVE TypeOK'
  <2>1. UNCHANGED <<event, party, ringing>> /\ Moved'
    BY <1>5, CallsTypes DEF Revive
  <2> QED BY <1>2, <2>1 DEF TypeOK
<1>6. ASSUME NEW p \in Player, LeaveParty(p) \/ Expel(p) PROVE TypeOK'
  <2>1. UNCHANGED <<event, ringing>> /\ party' \in SUBSET Player
    BY <1>6 DEF LeaveParty, Expel, TypeOK
  <2>2. Moved'
    BY <1>6, CallsTypes, PeopleAssumption DEF LeaveParty, Expel
  <2> QED BY <1>2, <2>1, <2>2 DEF TypeOK
<1>7. CASE DisbandParty \/ Timeout
  <2>1. UNCHANGED event /\ party' \in SUBSET Player /\ ringing' \in BOOLEAN
    BY <1>7 DEF DisbandParty, Timeout, TypeOK
  <2>2. Moved'
    BY <1>7, CallsTypes, PeopleAssumption DEF DisbandParty, Timeout
  <2> QED BY <1>2, <2>1, <2>2
<1>8. CASE EmptyTick
  BY <1>8 DEF EmptyTick, event, TypeOK
<1>9. CASE Dispose \/ Clear \/ Forget
  BY <1>9 DEF Dispose, Clear, Forget, TypeOK
<1>10. CASE UNCHANGED vars
  BY <1>10 DEF vars, TypeOK
<1> QED BY <1>1, <1>3, <1>4, <1>5, <1>6, <1>7, <1>8, <1>9, <1>10 DEF Next

\* The variables keep their kinds, and nobody who has logged off is between two maps.
THEOREM PeopleTypes == Spec => []TypeOK
<1>1. Init => TypeOK
  BY DEF Init, TypeOK
<1> QED BY <1>1, NextTypes, PTL DEF Spec
----------------------------------------------------------------------------
\* Who is let out of the field, but in transit, is no longer there.
LEMMA ExitClears ==
  ASSUME TypeOK, NEW Q, Exit(Q)
  PROVE  FieldStep
<1> SUFFICES ASSUME NEW p \in Player, p \in pointing, place'[p] = "field", p \notin pointing',
                    place[p] = "field"
             PROVE  p \in moving
  BY DEF FieldStep
<1>1. p \in Q
  BY DEF Exit, Unregister
<1>2. p \notin moving => place'[p] = "out"
  BY <1>1 DEF Exit
<1> QED BY <1>2

\* Who stays registered and who is not there to begin with do not matter.
LEMMA PointingClears ==
  ASSUME pointing \subseteq pointing'
  PROVE  FieldStep
  BY DEF FieldStep

LEMMA CallsClears ==
  ASSUME TypeOK, NEW kind, NEW p \in Player, Calls(kind, p) \/ Acts(kind, p), kind # "drop"
  PROVE  FieldStep
<1>1. CASE Nobody
  BY <1>1, PointingClears DEF Nobody
<1>2. CASE Exit({p}) \/ Exit(chars)
  BY <1>2, ExitClears
<1> QED BY <1>1, <1>2 DEF Calls, Acts

LEMMA WalkClears ==
  ASSUME TypeOK, NEW p \in Player, Walk(p)
  PROVE  FieldStep
<1>1. CASE UNCHANGED pointing
  BY <1>1, PointingClears
<1>2. ASSUME NEW kind, kind # "drop", Acts(kind, p) PROVE FieldStep
  BY <1>2, CallsClears
<1>3. CASE Unregister({p}) /\ place' = [place EXCEPT ![p] = "out"]
  <2>1. ASSUME NEW q \in Player, q \in pointing, q \notin pointing' PROVE q = p
    BY <1>3, <2>1 DEF Unregister
  <2>2. place'[p] = "out"
    BY <1>3 DEF TypeOK
  <2> QED BY <2>1, <2>2 DEF FieldStep
<1> QED BY <1>1, <1>2, <1>3 DEF Walk

LEMMA LogOffClears ==
  ASSUME TypeOK, NEW p \in Player, LogOff(p)
  PROVE  FieldStep
<1>1. CASE p \in pointing
  <2>1. PICK Q \in SUBSET Player :
          /\ Unregister(Q)
          /\ place' = [q \in Player |-> IF q = p THEN "off"
                         ELSE IF q \in Q \ moving /\ place[q] # "off" THEN "out" ELSE place[q]]
    BY <1>1 DEF LogOff
  <2> SUFFICES ASSUME NEW q \in Player, q \in pointing, place'[q] = "field", q \notin pointing',
                      place[q] = "field"
               PROVE  q \in moving
    BY DEF FieldStep
  <2>2. q \in Q
    BY <2>1 DEF Unregister
  <2> QED BY <2>1, <2>2
<1>2. CASE p \notin pointing
  BY <1>2, PointingClears DEF LogOff
<1> QED BY <1>1, <1>2

\* The tombstone's button may unregister a player alone, if the script says so.
LEMMA ReviveClears ==
  ASSUME TypeOK, NEW p \in Player, Revive(p)
  PROVE  FieldStep
<1>1. PICK kind \in manner.revive : Calls(kind, p)
  BY DEF Revive
<1>2. CASE kind = "drop"
  BY <1>2 DEF FieldStep
<1>3. CASE kind # "drop"
  BY <1>1, <1>3, CallsClears
<1> QED BY <1>2, <1>3

LEMMA NextClears ==
  ASSUME SeenOff, TypeOK, [Next]_vars
  PROVE  FieldStep
<1>0. manner.left # "drop" /\ manner.disband # "drop"
  BY DEF SeenOff, TypeOK
<1>1. ASSUME NEW p \in Player, Register(p) \/ Arrive(p) PROVE FieldStep
  BY <1>1, PointingClears DEF Register, Arrive
<1>2. ASSUME NEW p \in Player, Walk(p) \/ LogOff(p) \/ Revive(p) PROVE FieldStep
  BY <1>2, WalkClears, LogOffClears, ReviveClears
<1>3. ASSUME NEW p \in Player, LeaveParty(p) PROVE FieldStep
  BY <1>0, <1>3, CallsClears, PointingClears DEF LeaveParty, Nobody
<1>4. ASSUME NEW p \in Player, Expel(p) PROVE FieldStep
  BY <1>0, <1>4, CallsClears, PointingClears, PeopleAssumption DEF Expel, Nobody
<1>5. CASE DisbandParty
  BY <1>0, <1>5, CallsClears, PointingClears, PeopleAssumption DEF DisbandParty, Nobody
<1>6. CASE Timeout
  BY <1>6, CallsClears, PointingClears, PeopleAssumption DEF Timeout, Nobody
<1>7. CASE EmptyTick \/ Dispose \/ Clear \/ Forget \/ UNCHANGED vars
  BY <1>7, PointingClears DEF EmptyTick, Dispose, Clear, Forget, vars
<1> QED BY <1>1, <1>2, <1>3, <1>4, <1>5, <1>6, <1>7 DEF Next

\* If no script forgets a player about the party (SeenOff), whoever ceases to take part in an event
\* leaves its field in the same step, but those whom the exit met in transit and those a script's
\* playerRevive only unregisters.
THEOREM FieldIsCleared == ASSUME SeenOff PROVE Spec => FieldCleared
<1>1. Spec => []TypeOK
  BY PeopleTypes
<1>2. TypeOK /\ [Next]_vars => [FieldStep]_vars
  BY NextClears
<1> QED BY <1>1, <1>2, PTL DEF Spec, FieldCleared
=============================================================================
