-------------------------------- MODULE Party --------------------------------
(***************************************************************************)
(* Parties (World.Party, MapleParty, PartyHandler): a registry of party    *)
(* objects, each with a member list and a leader id, and in every          *)
(* character a pointer to its party.  Nothing here is locked.              *)
(*                                                                         *)
(* A request runs on its player's session thread in three steps, between   *)
(* which other sessions run: the handler reads and checks; updateParty     *)
(* changes the registry and the list; its loop then sets the pointer of    *)
(* every member it found.  With Concurrent FALSE a request runs to its end *)
(* before the next one starts.                                             *)
(*                                                                         *)
(* Raids, expeditions and party listings are not part of this module: every*)
(* party has expeditionLink -1.                                            *)
(* Definitions marked (slip) are mutations; no action uses them.           *)
(***************************************************************************)
EXTENDS Naturals, FiniteSets, SequencesExt

CONSTANTS Players,     \* characters of one channel
          PartySize,   \* GameConstants.PartySize (6)
          MaxParties,  \* bound: parties created in a behaviour
          Concurrent,  \* may the sessions interleave?
          None         \* null

ASSUME PartyAssumption ==
  /\ IsFiniteSet(Players)
  /\ PartySize \in Nat \ {0} /\ MaxParties \in Nat
  /\ Concurrent \in BOOLEAN
  /\ None \notin Players \cup Nat

VARIABLES runningPartyId,  \* ids below it are used
          parties,         \* ids registered in World.Party.parties
          obj,             \* the MapleParty objects, kept after they are disbanded
          party,           \* MapleCharacter.party; the saved row, when offline
          sess,            \* what became of each character
          task             \* what each session thread is in the middle of

vars == <<runningPartyId, parties, obj, party, sess, task>>

Ids == 1 .. MaxParties
MapleParty == [members : Seq(Players), leader : Players \cup {None}]

Idle == [phase |-> "idle", op |-> "JOIN", id |-> None, target |-> None,
         copy |-> <<>>, then |-> "stay"]

(* `then' is what the caller does once updateParty returns: nothing more,  *)
(* chr.setParty(null), or the rest of unloadChar.                          *)
Call(op, id, target, then) ==
  [Idle EXCEPT !.phase = "update", !.op = op, !.id = id, !.target = target, !.then = then]

Members(id) == ToSet(obj[id].members)

\* MapleCharacter.getParty: a disbanded party reads as none.
PartyOf(p) == IF party[p] \in parties THEN party[p] ELSE None

\* MapleParty.getLeader: the member whose id is leaderId, null when there is none.
GetLeader(id) == IF obj[id].leader \in Members(id) THEN obj[id].leader ELSE None

\* Characters that World.Find and the channel's storage know.
Stored == {p \in Players : sess[p] \in {"on", "stuck"}}

\* Session p takes its next packet.
Ready(p) == /\ sess[p] = "on" /\ task[p] = Idle
            /\ Concurrent \/ \A q \in Players : task[q] = Idle

\* (slip) one too many.
RoomForOneMore(id) == Len(obj[id].members) <= PartySize

HasRoom(id) == Len(obj[id].members) < PartySize
------------------------------------------------------------------------------
(* The handlers: read and check. *)

\* (slip) the id is not used up.
CreateSameId(p) ==
  /\ Ready(p) /\ PartyOf(p) = None /\ runningPartyId \in Ids
  /\ parties' = parties \cup {runningPartyId}
  /\ obj' = [obj EXCEPT ![runningPartyId] = [members |-> <<p>>, leader |-> p]]
  /\ party' = [party EXCEPT ![p] = runningPartyId]
  /\ UNCHANGED <<runningPartyId, sess, task>>

\* Create, and an invitation by a player who has no party.
Create(p) ==
  /\ Ready(p) /\ PartyOf(p) = None /\ runningPartyId \in Ids
  /\ runningPartyId' = runningPartyId + 1
  /\ parties' = parties \cup {runningPartyId}
  /\ obj' = [obj EXCEPT ![runningPartyId] = [members |-> <<p>>, leader |-> p]]
  /\ party' = [party EXCEPT ![p] = runningPartyId]
  /\ UNCHANGED <<sess, task>>

\* Begin a call of updateParty.
Begin(p, call) == /\ task' = [task EXCEPT ![p] = call]
                  /\ UNCHANGED <<runningPartyId, parties, obj, party, sess>>

\* Accept an invitation; invitations are not stored, so any party id will do.
Accept(p, id) ==
  /\ Ready(p) /\ PartyOf(p) = None /\ id \in parties /\ HasRoom(id)
  /\ Begin(p, Call("JOIN", id, p, "stay"))

\* A leader lets in q, who asked to join; the request is not stored either.
Allow(p, q) ==
  /\ Ready(p) /\ sess[q] = "on" /\ PartyOf(q) = None
  /\ PartyOf(p) # None /\ GetLeader(PartyOf(p)) = p /\ HasRoom(PartyOf(p))
  /\ Begin(p, Call("JOIN", PartyOf(p), q, "stay"))

\* (slip) a leader who goes does not disband.
JustLeave(p) == "LEAVE"

DisbandOrLeave(p) == IF GetLeader(PartyOf(p)) = p THEN "DISBAND" ELSE "LEAVE"

\* Leave one's party; so does a request to join another one.
Leave(p) == /\ Ready(p) /\ PartyOf(p) # None
            /\ Begin(p, Call(DisbandOrLeave(p), PartyOf(p), p, "clear"))

\* (slip) any member may name another.
Belongs(p, q) == PartyOf(p) # None /\ q \in Members(PartyOf(p))

\* The guard of the two requests that name a member by his id.
Leads(p, q) == PartyOf(p) # None /\ GetLeader(PartyOf(p)) = p /\ q \in Members(PartyOf(p))

\* Expel: the leader may name himself.
Expel(p, q) == Ready(p) /\ Leads(p, q) /\ Begin(p, Call("EXPEL", PartyOf(p), q, "stay"))

ChangeLeader(p, q) ==
  Ready(p) /\ Leads(p, q) /\ Begin(p, Call("CHANGE_LEADER", PartyOf(p), q, "stay"))

\* (slip) the character is gone, and its party is not told.
UnloadSilently(p) ==
  /\ sess' = [sess EXCEPT ![p] = "off"]
  /\ task' = [task EXCEPT ![p] = Idle]
  /\ UNCHANGED <<runningPartyId, parties, obj, party>>

\* A new level, job or map: the member's entry is replaced.
SilentUpdate(p) == /\ Ready(p) /\ party[p] # None
                   /\ Begin(p, Call("SILENT_UPDATE", party[p], p, "stay"))

(* unloadChar up to its call of updateParty.  getLeader() of a party without *)
(* one is null; the NullPointerException abandons the unload, and the        *)
(* character stays in the channel's storage, unsaved.                        *)
Unload(p) ==
  LET leaderless == PartyOf(p) # None /\ GetLeader(PartyOf(p)) = None
      alone == PartyOf(p) = None
  IN /\ sess' = [sess EXCEPT ![p] = IF leaderless THEN "stuck"
                                    ELSE IF alone THEN "off" ELSE @]
     /\ task' = [task EXCEPT ![p] = IF leaderless \/ alone THEN Idle
                                    ELSE Call(DisbandOrLeave(p), PartyOf(p), p, "unload")]
     /\ UNCHANGED <<runningPartyId, parties, obj, party>>

Disconnect(p) == Ready(p) /\ Unload(p)

\* The handler of p threw: the dispatcher kicks the player.
Kick(p) == task[p].phase = "kick" /\ Unload(p)

\* A character is loaded; its saved party counts if it still lists the character.
Login(p) ==
  /\ sess[p] = "off" /\ (Concurrent \/ \A q \in Players : task[q] = Idle)
  /\ sess' = [sess EXCEPT ![p] = "on"]
  /\ party' = [party EXCEPT ![p] = IF @ \in parties /\ p \in Members(@) THEN @ ELSE None]
  /\ UNCHANGED <<runningPartyId, parties, obj, task>>
------------------------------------------------------------------------------
(* updateParty. *)

\* The party is gone: updateParty just returns.
NoParty(p) ==
  LET t == task[p] IN
  /\ t.phase = "update" /\ t.id \notin parties
  /\ party' = IF t.op = "JOIN" THEN [party EXCEPT ![t.target] = t.id] ELSE party
  /\ task' = [task EXCEPT ![p].phase = "notify"]
  /\ UNCHANGED <<runningPartyId, parties, obj, sess>>

\* The list is copied for the loop once the party has changed.
Notifying(t, members) == [t EXCEPT !.phase = "notify", !.copy = members]

\* JOIN: the handler sets the pointer and calls updateParty, which adds the member.
Join(p) ==
  LET t == task[p]
      members == Append(obj[t.id].members, t.target)
  IN /\ t.phase = "update" /\ t.op = "JOIN" /\ t.id \in parties
     /\ party' = [party EXCEPT ![t.target] = t.id]
     /\ obj' = [obj EXCEPT ![t.id].members = members]
     /\ task' = [task EXCEPT ![p] = Notifying(t, members)]
     /\ UNCHANGED <<runningPartyId, parties, sess>>

Disband(p) ==
  LET t == task[p] IN
  /\ t.phase = "update" /\ t.op = "DISBAND" /\ t.id \in parties
  /\ parties' = parties \ {t.id}
  /\ task' = [task EXCEPT ![p] = Notifying(t, obj[t.id].members)]
  /\ UNCHANGED <<runningPartyId, obj, party, sess>>

PassLead(p) ==
  LET t == task[p] IN
  /\ t.phase = "update" /\ t.op = "CHANGE_LEADER" /\ t.id \in parties
  /\ obj' = [obj EXCEPT ![t.id].leader = t.target]
  /\ task' = [task EXCEPT ![p] = Notifying(t, obj[t.id].members)]
  /\ UNCHANGED <<runningPartyId, parties, party, sess>>

\* updateMember: an entry says no more than who it is, so none changes.
Refresh(p) ==
  LET t == task[p] IN
  /\ t.phase = "update" /\ t.op = "SILENT_UPDATE" /\ t.id \in parties
  /\ task' = [task EXCEPT ![p] = Notifying(t, obj[t.id].members)]
  /\ UNCHANGED <<runningPartyId, parties, obj, party, sess>>

(* LEAVE and EXPEL take the first entry of the target out of the list and   *)
(* compare him with getLeader(), which is null when the entry was the       *)
(* leader's only one: the call throws, and neither the lead is passed on,   *)
(* nor an empty party disbanded, nor anybody told.  Only a leader listed    *)
(* twice reaches the code that passes the lead to a highest-level member.   *)
RemoveMember(p) ==
  LET t == task[p]
      left == RemoveFirst(obj[t.id].members, t.target)
      throws == obj[t.id].leader \notin ToSet(left)
  IN /\ t.phase = "update" /\ t.op \in {"LEAVE", "EXPEL"} /\ t.id \in parties
     /\ party' = IF t.target \in Stored THEN [party EXCEPT ![t.target] = None] ELSE party
     /\ \E lead \in IF t.target = obj[t.id].leader /\ ~throws
                    THEN ToSet(left) ELSE {obj[t.id].leader} :
          obj' = [obj EXCEPT ![t.id] = [members |-> left, leader |-> lead]]
     /\ task' = [task EXCEPT ![p] = IF ~throws THEN Notifying(t, left)
                                    ELSE IF t.then = "unload" THEN Idle
                                    ELSE [Idle EXCEPT !.phase = "kick"]]
     /\ sess' = IF throws /\ t.then = "unload" THEN [sess EXCEPT ![p] = "stuck"] ELSE sess
     /\ UNCHANGED <<runningPartyId, parties>>

(* The loop over the members, then what the caller has left to do.  A       *)
(* character that is unloaded is saved, party and all, and deregistered.    *)
Notify(p) ==
  LET t == task[p]
      told == ToSet(t.copy) \cap Stored
      point == IF t.op = "DISBAND" THEN None ELSE t.id
  IN /\ t.phase = "notify"
     /\ party' = [q \in Players |-> IF q = p /\ t.then = "clear" THEN None
                                    ELSE IF q \in told THEN point ELSE party[q]]
     /\ sess' = IF t.then = "unload" THEN [sess EXCEPT ![p] = "off"] ELSE sess
     /\ task' = [task EXCEPT ![p] = Idle]
     /\ UNCHANGED <<runningPartyId, parties, obj>>
------------------------------------------------------------------------------
Init ==
  /\ runningPartyId = 1 /\ parties = {}
  /\ obj = [id \in Ids |-> [members |-> <<>>, leader |-> None]]
  /\ party = [p \in Players |-> None]
  /\ sess = [p \in Players |-> "off"]
  /\ task = [p \in Players |-> Idle]

Handler(p) ==
  \/ Create(p) \/ Leave(p) \/ SilentUpdate(p) \/ Disconnect(p) \/ Login(p)
  \/ \E id \in Ids : Accept(p, id)
  \/ \E q \in Players : Allow(p, q) \/ Expel(p, q) \/ ChangeLeader(p, q)

Step(p) == \/ Kick(p) \/ NoParty(p) \/ Join(p) \/ Disband(p) \/ PassLead(p)
           \/ Refresh(p) \/ RemoveMember(p) \/ Notify(p)

Next == \E p \in Players : Handler(p) \/ Step(p)

Spec == Init /\ [][Next]_vars
------------------------------------------------------------------------------
(* Properties. *)

Task == [phase : {"idle", "update", "notify", "kick"},
         op : {"JOIN", "LEAVE", "EXPEL", "DISBAND", "CHANGE_LEADER", "SILENT_UPDATE"},
         id : Ids \cup {None}, target : Players \cup {None},
         copy : Seq(Players), then : {"stay", "clear", "unload"}]

\* Types, and what a request that is under way refers to.
TypeOK ==
  /\ runningPartyId \in 1 .. MaxParties + 1
  /\ parties \subseteq 1 .. runningPartyId - 1
  /\ obj \in [Ids -> MapleParty]
  /\ party \in [Players -> Ids \cup {None}]
  /\ sess \in [Players -> {"on", "off", "stuck"}]
  /\ task \in [Players -> Task]
  /\ \A p \in Players : task[p].phase \in {"update", "notify"} =>
       task[p].id \in Ids /\ task[p].target \in Players

Quiet == \A p \in Players : task[p] = Idle

(* Between requests, the list of a registered party and the pointers of the *)
(* characters agree, and nobody is listed who is not in the game: whatever  *)
(* way a character leaves, including a kick and a lost connection, the      *)
(* handlers of PartyHandler and unloadChar keep both in step.               *)
MembershipAgrees ==
  Quiet => \A id \in parties, p \in Players :
             p \in Members(id) <=> p \in Stored /\ party[p] = id

LeadStep ==
  \A id \in parties \cap parties' : GetLeader(id) # None /\ GetLeader(id)' = None =>
    \E p \in Players : p = GetLeader(id) /\ task[p].op = "EXPEL" /\ task[p].target = p

(* A registered party loses its leader in one way only: he expels himself.  *)
(* A leader who leaves, is kicked or loses his connection disbands it.      *)
OnlySelfExpelLosesLead == [][LeadStep]_vars

LeaderStep ==
  \A id \in parties, p \in Players :
    task[p] # task'[p] /\ p # obj[id].leader
    => /\ id \in parties' /\ obj[id].leader = obj'[id].leader
       /\ Members(id) \ Members(id)' \subseteq {p}

(* The check that a session leads its party may be stale when updateParty   *)
(* runs, yet only the leader's own session takes another member out of the  *)
(* list, disbands the party, or passes the lead.                            *)
OnlyLeaderActs == [][LeaderStep]_vars

(* Two sessions may both see room for one more.  A party outgrows PartySize *)
(* by no more than the sessions that were checking at once.                 *)
Overshoot == \A id \in parties :
               Len(obj[id].members) < PartySize + Cardinality(Players)

(* updateParty, "pass on lead" (World.java:354) and "no members left, plz  *)
(* disband" (World.java:366): when the leader is taken out of a party, the  *)
(* lead goes to another member, or the party is disbanded.                  *)
PassedOn ==
  [][\A id \in parties \cap parties' : GetLeader(id) # None => GetLeader(id)' # None]_vars
------------------------------------------------------------------------------
(* What the party system promises: see PartySpec. *)
Group == [id \in Ids |-> IF id \in parties THEN Members(id) ELSE {}]

Groups == INSTANCE PartySpec WITH group <- Group, formed <- 1 .. runningPartyId - 1

(* With sessions that take turns, parties are disjoint groups of at most    *)
(* PartySize characters, entered only by a character that is in none.       *)
ImplementsGroups == Groups!Spec
=============================================================================
