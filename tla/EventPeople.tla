---------------------------- MODULE EventPeople ----------------------------
(***************************************************************************)
(* Who takes part in an event (EventInstanceManager.java): how a group is  *)
(* registered, how its players leave, by walking off, dying, logging off,  *)
(* leaving the party or by the event's clock, and how the event is         *)
(* disposed of when nobody is left, for each way in Manners a script has.  *)
(*                                                                         *)
(* Every request of a player is a step. A look at the list of players that *)
(* finds nobody and the dispose it leads to are two: nothing locks them.   *)
(***************************************************************************)
EXTENDS Integers, FiniteSets

CONSTANTS Player,  \* the characters of the group
          Leader,  \* the leader of their party
          Manners  \* how event scripts treat their players: a set of records

ASSUME PeopleAssumption == Leader \in Player

VARIABLES manner,   \* how the event's script treats them
          queue,    \* players registerGroup has not come to yet
          chars,    \* chars: the players registered
          pointing, \* players whose eventInstance is this event
          place,    \* where a player is: "before", "field", "out", "off"
          moving,   \* players in transit between maps (changingMap)
          party,    \* members of the party
          ringing,  \* the event's clock runs
          closing,  \* a thread found nobody registered and is about to dispose
          caught,   \* somebody was registered between that look and the dispose
          inst      \* "open", "disposed", "cleared" (after 5 s), "gone" (after 10 s)

vars == <<manner, queue, chars, pointing, place, moving, party, ringing, closing, caught, inst>>
event == <<manner, queue, caught, inst>>

Open == inst = "open"

Init ==
  /\ manner \in Manners
  /\ queue = Player /\ party = Player
  /\ moving \in SUBSET Player
  /\ chars = {} /\ pointing = {}
  /\ place = [p \in Player |-> "before"]
  /\ ringing = TRUE /\ closing = FALSE /\ caught = FALSE
  /\ inst = "open"

----------------------------------------------------------------------------
StillListed(Q) == chars' = chars /\ pointing' = pointing \ Q   \* (slip)

\* unregisterPlayer, for the players of Q.
Unregister(Q) ==
  /\ chars' = chars \ Q
  /\ pointing' = pointing \ (Q \cap chars)
LooksEmpty == closing' = (closing \/ (Open /\ chars' = {}))

\* Moves one who has logged off.
ExitAnyone(Q) ==                                               \* (slip)
  /\ Unregister(Q) /\ LooksEmpty
  /\ place' = [p \in Player |-> IF p \in Q \ moving /\ place[p] # "off" THEN "out" ELSE place[p]]
  /\ moving' = moving \cup Q

\* Forgets to move the players of Q.
Forgotten(Q) == Unregister(Q) /\ LooksEmpty /\ UNCHANGED <<place, moving>>   \* (slip)

\* exitPlayer with a map, for the players of Q: those in transit stay where they are.
Exit(Q) ==
  /\ Unregister(Q)
  /\ place' = [p \in Player |-> IF p \in Q \ moving /\ place[p] # "off" THEN "out" ELSE place[p]]
  /\ moving' = moving \cup {p \in Q : place[p] # "off"}
  /\ LooksEmpty

\* unregisterPlayer alone.
Drop(Q) == Unregister(Q) /\ LooksEmpty /\ UNCHANGED <<place, moving>>

Nobody == UNCHANGED <<chars, pointing, place, moving, closing>>

\* What a script function does about the player p: see EventScript.
Acts(kind, p) ==
  \/ kind = "one" /\ Exit({p})
  \/ kind = "all" /\ Exit(chars)
  \/ kind = "drop" /\ Drop({p})
  \/ kind \in {"none", "stay"} /\ Nobody

\* A script function called through the event does nothing once it is disposed.
Calls(kind, p) == IF Open THEN Acts(kind, p) ELSE Nobody

----------------------------------------------------------------------------
RegisterAlways(p) == p \notin chars                            \* (slip)
Registers(p) == Open /\ p \notin chars

(***************************************************************************)
(* registerPlayer, for one player of the group that was collected before.  *)
(* playerEntry moves the player to the field unless in transit.            *)
(***************************************************************************)
Register(p) ==
  /\ p \in queue
  /\ queue' = queue \ {p}
  /\ IF Registers(p)
       THEN /\ chars' = chars \cup {p}
            /\ pointing' = pointing \cup {p}
            /\ caught' = (caught \/ (Open /\ closing))
            /\ IF place[p] # "off" /\ p \notin moving
                 THEN place' = [place EXCEPT ![p] = "field"] /\ moving' = moving \cup {p}
                 ELSE UNCHANGED <<place, moving>>
       ELSE UNCHANGED <<chars, pointing, caught, place, moving>>
  /\ UNCHANGED <<manner, party, ringing, closing, inst>>

\* The client has loaded the map.
Arrive(p) ==
  /\ p \in moving /\ place[p] # "off"
  /\ moving' = moving \ {p}
  /\ UNCHANGED <<event, chars, pointing, place, party, ringing, closing>>

(***************************************************************************)
(* A player walks to another map; changedMap is told first. exitPlayer in  *)
(* it has the player in transit already, which ends the player's own move. *)
(***************************************************************************)
Walk(p) ==
  /\ place[p] \in {"before", "field"} /\ p \notin moving
  /\ IF p \in pointing /\ Open
       THEN \E kind \in manner.moved :
              CASE kind = "drop" -> /\ Unregister({p}) /\ LooksEmpty
                                    /\ place' = [place EXCEPT ![p] = "out"]
                                    /\ moving' = moving \cup {p}
                [] kind = "stay" -> /\ moving' = moving \cup {p}
                                    /\ UNCHANGED <<chars, pointing, place, closing>>
                [] kind = "warp" -> /\ moving' = moving \cup {q \in chars : place[q] # "off"}
                                    /\ UNCHANGED <<chars, pointing, place, closing>>
                [] OTHER -> Acts(kind, p)
       ELSE /\ place' = [place EXCEPT ![p] = "out"]
            /\ moving' = moving \cup {p}
            /\ UNCHANGED <<chars, pointing, closing>>
  /\ UNCHANGED <<event, party, ringing>>

\* A player who died on the field presses the button of the tombstone.
Revive(p) ==
  /\ place[p] = "field" /\ p \in pointing \ moving
  /\ \E kind \in manner.revive : Calls(kind, p)
  /\ UNCHANGED <<event, party, ringing>>

\* unloadChar: playerExit is called even when the event has been disposed of.
LogOff(p) ==
  /\ place[p] # "off"
  /\ IF p \in pointing
       THEN LET Q == {q \in Player : \/ (manner.exit = "all" /\ Open /\ q \in chars)
                                  \/ (manner.exit = "one" /\ q = p)}
            IN /\ Unregister(Q) /\ LooksEmpty
               /\ place' = [q \in Player |-> IF q = p THEN "off"
                              ELSE IF q \in Q \ moving /\ place[q] # "off" THEN "out"
                              ELSE place[q]]
               /\ moving' = (moving \cup {q \in Q : place[q] # "off"}) \ {p}
       ELSE /\ place' = [place EXCEPT ![p] = "off"]
            /\ moving' = moving \ {p}
            /\ UNCHANGED <<chars, pointing, closing>>
  /\ UNCHANGED <<event, party, ringing>>

----------------------------------------------------------------------------
\* The party (PartyHandler): a member leaves, the leader disbands it or expels a member.
LeaveParty(p) ==
  /\ p \in party \ {Leader} /\ place[p] # "off"
  /\ party' = party \ {p}
  /\ IF p \in pointing THEN Calls(manner.left, p) ELSE Nobody
  /\ UNCHANGED <<event, ringing>>

DisbandParty ==
  /\ Leader \in party /\ place[Leader] # "off"
  /\ party' = {}
  /\ IF Leader \in pointing THEN Calls(manner.disband, Leader) ELSE Nobody
  /\ UNCHANGED <<event, ringing>>

Expel(p) ==
  /\ Leader \in party /\ place[Leader] # "off" /\ p \in party \ {Leader}
  /\ party' = party \ {p}
  /\ IF Leader \in pointing /\ place[p] # "off" THEN Calls(manner.disband, Leader) ELSE Nobody
  /\ UNCHANGED <<event, ringing>>

----------------------------------------------------------------------------
\* The clock, which is minutes long and outlasts the registration, and the 5-second task that
\* looks for an empty event.
Timeout ==
  /\ ringing /\ queue = {}
  /\ ringing' = FALSE
  /\ IF manner.timeout = "all" /\ chars # {} THEN Calls("all", Leader) ELSE Nobody
  /\ UNCHANGED <<event, party>>

EmptyTick ==
  /\ Open /\ chars = {}
  /\ closing' = TRUE
  /\ UNCHANGED <<event, chars, pointing, place, moving, party, ringing>>

\* dispose. The loop that would let players out sees none: getPlayers is empty once disposed.
Dispose ==
  /\ Open /\ closing
  /\ inst' = "disposed" /\ ringing' = FALSE
  /\ UNCHANGED <<manner, queue, chars, pointing, place, moving, party, closing, caught>>

Clear ==
  /\ inst = "disposed"
  /\ inst' = "cleared" /\ chars' = {}
  /\ UNCHANGED <<manner, queue, pointing, place, moving, party, ringing, closing, caught>>

Forget ==
  /\ inst = "cleared"
  /\ inst' = "gone"
  /\ UNCHANGED <<manner, queue, chars, pointing, place, moving, party, ringing, closing, caught>>

Next ==
  \/ \E p \in Player : Register(p) \/ Arrive(p) \/ Walk(p) \/ Revive(p) \/ LogOff(p)
                       \/ LeaveParty(p) \/ Expel(p)
  \/ DisbandParty \/ Timeout \/ EmptyTick \/ Dispose \/ Clear \/ Forget

\* What the server does by itself goes on; no player has to do anything.
Fairness ==
  /\ WF_vars(Timeout) /\ WF_vars(EmptyTick) /\ WF_vars(Dispose) /\ WF_vars(Clear)
  /\ WF_vars(Forget)
  /\ \A p \in Player : WF_vars(Register(p))

Spec == Init /\ [][Next]_vars /\ Fairness

----------------------------------------------------------------------------
\* A rule of scripts: one who leaves the party is not just unregistered, nor is who disbands it.
SeenOff == \A m \in Manners : m.left # "drop" /\ m.disband # "drop"

----------------------------------------------------------------------------
\* Every variable has values of its kind, and nobody who has logged off is between two maps.
TypeOK ==
  /\ manner \in Manners
  /\ {queue, chars, pointing, moving, party} \subseteq SUBSET Player
  /\ place \in [Player -> {"before", "field", "out", "off"}]
  /\ \A p \in moving : place[p] # "off"
  /\ {ringing, closing, caught} \subseteq BOOLEAN
  /\ inst \in {"open", "disposed", "cleared", "gone"}

(***************************************************************************)
(* A character points at an event only while it is open: a disposed event  *)
(* answers no call of its players and cannot let them out. Only those who  *)
(* were registered while a thread was about to dispose are left behind.    *)
(***************************************************************************)
NobodyLeftBehind == ~Open /\ pointing # {} => caught

(***************************************************************************)
(* Who stays on the field of an event that is over: nobody but those the   *)
(* exit met in transit, those a script lets stay, and those left behind.   *)
(***************************************************************************)
FieldStep ==
  \A p \in Player :
    /\ place[p] = "field" /\ p \in pointing
    /\ place'[p] = "field" /\ p \notin pointing'
    => p \in moving \/ "drop" \in manner.revive
FieldCleared == [][FieldStep]_vars

\* Once its clock has rung an event is gone some day, whoever was registered, even a player who
\* had logged off by then.
EventEnds == (manner.timeout = "all") => <>(inst = "gone")
=============================================================================
