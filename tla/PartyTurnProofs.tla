--------------------------- MODULE PartyTurnProofs ---------------------------
(* Theorems about Party when requests take turns: the lists and the          *)
(* pointers agree, and parties are the groups of PartySpec, for any number   *)
(* of players and parties and any party size.                                *)
EXTENDS PartyProofs

\* The list of a registered party and the pointers agree between any two steps.
Agree == \A id \in parties, p \in Players : p \in Members(id) <=> p \in Stored /\ party[p] = id

\* What the handler of p has checked still holds when updateParty runs.
DoingAs(p, t) ==
  t.phase = "update" =>
    /\ t.op # "SILENT_UPDATE" => t.id \in parties
    /\ t.op = "JOIN" => /\ t.then = "stay" /\ HasRoom(t.id)
                        /\ t.target \in Stored /\ party[t.target] \notin parties
    /\ t.op \in {"EXPEL", "CHANGE_LEADER"} =>
         t.then = "stay" /\ obj[t.id].leader = p /\ t.target \in Members(t.id)
    /\ t.op = "DISBAND" => obj[t.id].leader = p /\ party[p] = t.id
    /\ t.op = "LEAVE" => /\ t.target = p /\ party[p] = t.id /\ obj[t.id].leader # p
                         /\ t.then = "unload" => obj[t.id].leader \in Members(t.id)
    /\ t.op = "SILENT_UPDATE" => t.then = "stay" /\ party[p] = t.id

\* The loop over the members tells them what their pointers already say, unless the party
\* is gone; and a player who is about to clear its own pointer is in no party.
TellingAs(p, t) ==
  t.phase = "notify" =>
    /\ t.op = "DISBAND" => t.id \notin parties
    /\ \A q \in ToSet(t.copy) \cap Stored : party[q] = t.id
    /\ t.then # "stay" => party[p] \notin parties

\* One request at a time, of a player who is in the game.
OneRequest == /\ \A p, q \in Players : task[p] # Idle /\ task[q] # Idle => p = q
              /\ \A p \in Players : task[p] # Idle => sess[p] = "on"

Lists == \A id \in parties : Distinct(obj[id].members)

InTurn == /\ OneRequest /\ Lists /\ Agree
          /\ \A p \in Players : DoingAs(p, task[p]) /\ TellingAs(p, task[p])

\* A step of p's request, or the start of one, while nobody else has one.
LEMMA TurnTaken ==
  ASSUME NEW p \in Players, \A q \in Players \ {p} : task'[q] = Idle,
         task'[p] # Idle => sess'[p] = "on", Lists', Agree',
         DoingAs(p, task[p])', TellingAs(p, task[p])'
  PROVE  InTurn'
<1>1. ASSUME NEW q \in Players \ {p} PROVE DoingAs(q, task[q])' /\ TellingAs(q, task[q])'
  <2>1. task'[q].phase = "idle"
    BY IdleKind
  <2> QED BY <2>1 DEF DoingAs, TellingAs
<1> QED BY <1>1 DEF InTurn, OneRequest

\* A request that begins changes nothing but the task of its session.
LEMMA TurnBegun ==
  ASSUME TypeOK, InTurn, NEW p \in Players, \A q \in Players \ {p} : task[q] = Idle,
         sess'[p] = "on", sess[p] = "on", UNCHANGED <<parties, obj, party, sess>>,
         NEW t \in Task, task' = [task EXCEPT ![p] = t], t.phase = "update", DoingAs(p, t)
  PROVE  InTurn'
<1>1. task'[p] = t /\ \A q \in Players \ {p} : task'[q] = Idle
  BY DEF TypeOK
<1>2. Lists' /\ Agree'
  BY DEF InTurn, Lists, Agree, Members, Stored
<1>3. DoingAs(p, task[p])'
  BY <1>1 DEF DoingAs, HasRoom, Members, Stored
<1>4. TellingAs(p, task[p])'
  BY <1>1 DEF TellingAs
<1> QED BY <1>1, <1>2, <1>3, <1>4, TurnTaken

LEMMA Registered == TypeOK => parties \subseteq Ids /\ None \notin parties
<1> SUFFICES ASSUME TypeOK PROVE parties \subseteq Ids /\ None \notin parties
  OBVIOUS
<1>1. \A id \in parties : id \in Nat
  BY UsedIds DEF Ids, Used
<1> QED BY <1>1, UsedIds, PartyAssumption

LEMMA Partyless == ASSUME TypeOK, NEW p \in Players, PartyOf(p) = None
                   PROVE  party[p] \notin parties
BY Registered DEF PartyOf

\* A player in the game who has a party is on its list.
LEMMA Listed ==
  ASSUME TypeOK, InTurn, NEW p \in Players, PartyOf(p) # None, sess[p] \in {"on", "stuck"}
  PROVE  PartyOf(p) \in parties /\ party[p] = PartyOf(p) /\ p \in Members(PartyOf(p))
<1>1. PartyOf(p) \in parties /\ party[p] = PartyOf(p) /\ p \in Stored
  BY PartyOfKind DEF Stored
<1> QED BY <1>1 DEF InTurn, Agree

\* Who leads is on the list, and a leader who leaves disbands.
LEMMA Led ==
  ASSUME TypeOK, InTurn, NEW p \in Players, PartyOf(p) # None, sess[p] = "on"
  PROVE  /\ GetLeader(PartyOf(p)) = p <=> obj[PartyOf(p)].leader = p
         /\ GetLeader(PartyOf(p)) # None <=> obj[PartyOf(p)].leader \in Members(PartyOf(p))
         /\ DisbandOrLeave(p) = IF obj[PartyOf(p)].leader = p THEN "DISBAND" ELSE "LEAVE"
<1>1. p \in Members(PartyOf(p)) /\ PartyOf(p) \in Ids
  BY Listed, PartyOfKind
<1>2. None \notin Members(PartyOf(p))
  <2>1. obj[PartyOf(p)].members \in Seq(Players)
    BY <1>1 DEF TypeOK, MapleParty
  <2>2. ToSet(obj[PartyOf(p)].members) \subseteq Players
    BY <2>1, ElementOfSeq, LenProperties DEF ToSet
  <2> QED BY <2>2, PartyAssumption DEF Members
<1>3. p # None
  BY PartyAssumption
<1> QED BY <1>1, <1>2, <1>3 DEF GetLeader, DisbandOrLeave
-----------------------------------------------------------------------------
(* The handlers.                                                            *)

\* Nobody else is busy while p takes a packet, or goes on with what it was doing.
LEMMA OthersIdle ==
  ASSUME ~ Concurrent, InTurn, NEW p \in Players, Ready(p) \/ task[p] # Idle
  PROVE  (\A q \in Players \ {p} : task[q] = Idle) /\ sess[p] = "on"
BY DEF InTurn, OneRequest, Ready

LEMMA CreateTurn ==
  ASSUME ~ Concurrent, Kinds, InTurn, NEW p \in Players, Create(p) PROVE InTurn'
<1> DEFINE n == runningPartyId
<1>0. TypeOK /\ parties \subseteq Used /\ Used \subseteq Ids
  BY UsedIds DEF Kinds
<1>1. /\ n \in Ids /\ n \notin Used /\ n # None /\ parties' = parties \cup {n} /\ UNCHANGED <<task, sess>>
      /\ obj' = [obj EXCEPT ![n] = [members |-> <<p>>, leader |-> p]]
      /\ party' = [party EXCEPT ![p] = n]
      /\ sess[p] = "on" /\ \A q \in Players : task[q] = Idle
  BY <1>0, PartyAssumption DEF Create, Ready, Used, Ids, TypeOK
<1>2. ASSUME NEW id \in Ids PROVE obj'[id] = IF id = n THEN [members |-> <<p>>, leader |-> p] ELSE obj[id]
  BY <1>0, <1>1 DEF TypeOK
<1>3. ToSet(<<p>>) = {p} /\ Distinct(<<p>>)
  BY DEF ToSet, Distinct
<1>4. Lists'
  BY <1>0, <1>1, <1>2, <1>3 DEF Lists, InTurn
<1>5. Agree'
  <2> SUFFICES ASSUME NEW id \in parties', NEW q \in Players
               PROVE  q \in Members(id)' <=> q \in Stored' /\ party'[q] = id
    BY DEF Agree
  <2>1. party'[q] = (IF q = p THEN n ELSE party[q]) /\ Stored' = Stored /\ p \in Stored
    BY <1>0, <1>1 DEF TypeOK, Stored
  <2>2. CASE id = n
    <3>1. Members(id)' = {p} /\ party[q] # n
      BY <1>0, <1>1, <1>2, <1>3, <2>2 DEF Members, Kinds
    <3> QED BY <2>1, <2>2, <3>1
  <2>3. CASE id # n
    <3>1. id \in parties /\ Members(id)' = Members(id)
      BY <1>0, <1>1, <1>2, <2>3 DEF Members
    <3>2. party[p] # id
      BY <1>0, <3>1, Partyless DEF Create
    <3>3. q \in Members(id) <=> q \in Stored /\ party[q] = id
      BY <3>1 DEF InTurn, Agree
    <3> QED BY <2>1, <2>3, <3>1, <3>2, <3>3
  <2> QED BY <2>2, <2>3
<1>6. DoingAs(p, task[p])' /\ TellingAs(p, task[p])'
  BY <1>1, IdleKind DEF DoingAs, TellingAs
<1> QED BY <1>1, <1>4, <1>5, <1>6, TurnTaken

LEMMA BeginTurn ==
  ASSUME ~ Concurrent, Kinds, InTurn, NEW p \in Players, NEW id \in Ids, NEW q \in Players,
         Ready(p) \/ task[p] # Idle,
         NEW op \in {"JOIN", "LEAVE", "EXPEL", "DISBAND", "CHANGE_LEADER", "SILENT_UPDATE"},
         NEW then \in {"stay", "clear", "unload"},
         UNCHANGED <<parties, obj, party, sess>>,
         task' = [task EXCEPT ![p] = Call(op, id, q, then)],
         DoingAs(p, Call(op, id, q, then))
  PROVE  InTurn'
<1>1. TypeOK /\ (\A r \in Players \ {p} : task[r] = Idle) /\ sess[p] = "on"
  BY OthersIdle DEF Kinds
<1>2. Call(op, id, q, then) \in Task /\ Call(op, id, q, then).phase = "update"
  BY CallKind
<1> QED BY <1>1, <1>2, TurnBegun

LEMMA GoTurn ==
  ASSUME ~ Concurrent, Kinds, InTurn, NEW p \in Players, Ready(p) \/ task[p] # Idle,
         NEW then \in {"clear", "unload"}, PartyOf(p) # None,
         then = "unload" => GetLeader(PartyOf(p)) # None,
         UNCHANGED <<parties, obj, party, sess>>,
         task' = [task EXCEPT ![p] = Call(DisbandOrLeave(p), PartyOf(p), p, then)]
  PROVE  InTurn'
<1> DEFINE id == PartyOf(p)
           op == DisbandOrLeave(p)
<1>0. TypeOK /\ sess[p] = "on" /\ id \in Ids
  BY OthersIdle, PartyOfKind DEF Kinds
<1>1. id \in parties /\ party[p] = id
  BY <1>0, Listed
<1>2. /\ op = IF obj[id].leader = p THEN "DISBAND" ELSE "LEAVE"
      /\ then = "unload" => obj[id].leader \in Members(id)
  BY <1>0, Led
<1> HIDE DEF id, op
<1>3. op \in {"JOIN", "LEAVE", "EXPEL", "DISBAND", "CHANGE_LEADER", "SILENT_UPDATE"}
  BY <1>2
<1> DEFINE t == Call(op, id, p, then)
<1>4. t.op = op /\ t.id = id /\ t.target = p /\ t.then = then
  BY <1>0, <1>3, CallKind
<1> HIDE DEF t
<1>5. DoingAs(p, t)
  BY <1>1, <1>2, <1>4 DEF DoingAs
<1> QED BY <1>0, <1>3, <1>5, BeginTurn DEF t, op, id

LEMMA HandlerTurn ==
  ASSUME ~ Concurrent, Kinds, InTurn, NEW p \in Players, Handler(p), ~ Disconnect(p), ~ Login(p)
  PROVE  InTurn'
<1>0. TypeOK /\ parties \subseteq Ids
  BY UsedIds DEF Kinds
<1>1. CASE Create(p)
  BY <1>1, CreateTurn
<1>2. CASE Leave(p)
  BY <1>2, GoTurn DEF Leave, Begin
<1>3. CASE SilentUpdate(p)
  <2> DEFINE t == Call("SILENT_UPDATE", party[p], p, "stay")
  <2>1. party[p] \in Ids /\ Ready(p) /\ UNCHANGED <<parties, obj, party, sess>> /\ task' = [task EXCEPT ![p] = t]
    BY <1>0, <1>3 DEF SilentUpdate, Begin, TypeOK
  <2>2. t.op = "SILENT_UPDATE" /\ t.then = "stay" /\ t.id = party[p]
    BY <2>1, CallKind
  <2>3. DoingAs(p, t)
    BY <2>2 DEF DoingAs
  <2> QED BY <2>1, <2>3, BeginTurn
<1>4. ASSUME NEW id \in Ids, NEW q \in Players, id \in parties, HasRoom(id), PartyOf(q) = None,
             sess[q] = "on", Ready(p), Begin(p, Call("JOIN", id, q, "stay"))
      PROVE  InTurn'
  <2> DEFINE t == Call("JOIN", id, q, "stay")
  <2>1. t.op = "JOIN" /\ t.then = "stay" /\ t.id = id /\ t.target = q
    BY CallKind
  <2>2. q \in Stored /\ party[q] \notin parties
    BY <1>0, <1>4, Partyless DEF Stored
  <2>3. DoingAs(p, t)
    BY <1>4, <2>1, <2>2 DEF DoingAs
  <2> QED BY <1>4, <2>3, BeginTurn DEF Begin
<1>5. ASSUME NEW id \in Ids, Accept(p, id) PROVE InTurn'
  BY <1>4, <1>5 DEF Accept, Ready
<1>6. ASSUME NEW q \in Players, Allow(p, q) PROVE InTurn'
  BY <1>0, <1>4, <1>6, PartyOfKind DEF Allow
<1>7. ASSUME NEW q \in Players, NEW op \in {"EXPEL", "CHANGE_LEADER"}, Ready(p), Leads(p, q),
             Begin(p, Call(op, PartyOf(p), q, "stay"))
      PROVE  InTurn'
  <2> DEFINE id == PartyOf(p)
             t == Call(op, id, q, "stay")
  <2>1. id \in Ids /\ id \in parties /\ obj[id].leader = p /\ q \in Members(id)
    BY <1>0, <1>7, PartyOfKind, Led DEF Leads, Ready
  <2> HIDE DEF id
  <2>2. t.op = op /\ t.then = "stay" /\ t.id = id /\ t.target = q
    BY <2>1, CallKind
  <2>3. DoingAs(p, t)
    <3> HIDE DEF t
    <3> QED BY <2>1, <2>2 DEF DoingAs
  <2> QED BY <1>7, <2>1, <2>3, BeginTurn DEF Begin, id
<1>8. ASSUME NEW q \in Players, Expel(p, q) \/ ChangeLeader(p, q) PROVE InTurn'
  BY <1>7, <1>8 DEF Expel, ChangeLeader
<1> QED BY <1>1, <1>2, <1>3, <1>5, <1>6, <1>8 DEF Handler

LEMMA UnloadTurn ==
  ASSUME ~ Concurrent, Kinds, InTurn, NEW p \in Players, Unload(p), Ready(p) \/ task[p] # Idle
  PROVE  InTurn'
<1>0. TypeOK /\ (\A q \in Players \ {p} : task[q] = Idle) /\ sess[p] = "on" /\ parties \subseteq Ids
  BY OthersIdle, UsedIds DEF Kinds
<1>1. CASE PartyOf(p) # None /\ GetLeader(PartyOf(p)) # None
  <2>1. sess' = sess
    BY <1>0, <1>1 DEF Unload, TypeOK
  <2> QED BY <1>1, <2>1, GoTurn DEF Unload
<1>2. CASE PartyOf(p) = None \/ GetLeader(PartyOf(p)) = None
  <2>1. /\ task' = [task EXCEPT ![p] = Idle] /\ UNCHANGED <<parties, obj, party>>
        /\ \A q \in Players \ {p} : sess'[q] = sess[q]
        /\ sess'[p] = "stuck" \/ (sess'[p] = "off" /\ PartyOf(p) = None)
    BY <1>0, <1>2 DEF Unload, TypeOK
  <2>2. task'[p] = Idle /\ \A q \in Players \ {p} : task'[q] = Idle
    BY <1>0, <2>1 DEF TypeOK
  <2>3. Agree'
    <3> SUFFICES ASSUME NEW id \in parties, NEW q \in Players
                 PROVE  q \in Members(id) <=> q \in Stored' /\ party[q] = id
      BY <2>1 DEF Agree, Members
    <3>1. q \in Members(id) <=> q \in Stored /\ party[q] = id
      BY DEF InTurn, Agree
    <3>2. q = p /\ PartyOf(p) = None => party[q] # id
      BY <1>0, Partyless
    <3> QED BY <1>0, <2>1, <3>1, <3>2 DEF Stored
  <2>4. Lists'
    BY <2>1 DEF Lists, InTurn
  <2> QED BY <2>2, <2>3, <2>4, IdleKind, TurnTaken DEF DoingAs, TellingAs
<1> QED BY <1>1, <1>2

LEMMA LoginTurn ==
  ASSUME ~ Concurrent, Kinds, InTurn, NEW p \in Players, Login(p) PROVE InTurn'
<1>0. TypeOK
  BY DEF Kinds
<1>1. /\ \A q \in Players : task'[q] = Idle
      /\ sess[p] = "off" /\ sess' = [sess EXCEPT ![p] = "on"] /\ UNCHANGED <<parties, obj>>
      /\ party' = [party EXCEPT ![p] = IF party[p] \in parties /\ p \in Members(party[p])
                                       THEN party[p] ELSE None]
  BY DEF Login
<1>2. Agree'
  <2> SUFFICES ASSUME NEW id \in parties, NEW q \in Players
               PROVE  q \in Members(id) <=> q \in Stored' /\ party'[q] = id
    BY <1>1 DEF Agree, Members
  <2>1. \A i \in parties, r \in Players : r \in Members(i) <=> r \in Stored /\ party[r] = i
    BY DEF InTurn, Agree
  <2>2. CASE q = p
    <3>1. p \notin Stored /\ party'[p] = None /\ id # None
      BY <1>0, <1>1, <2>1, UsedIds, PartyAssumption DEF Stored, TypeOK, Ids
    <3> QED BY <2>1, <2>2, <3>1
  <2>3. CASE q # p
    BY <1>0, <1>1, <2>1, <2>3 DEF Stored, TypeOK
  <2> QED BY <2>2, <2>3
<1>3. Lists'
  BY <1>1 DEF Lists, InTurn
<1> QED BY <1>1, <1>2, <1>3, IdleKind, TurnTaken DEF DoingAs, TellingAs
-----------------------------------------------------------------------------
(* updateParty.                                                             *)

\* What the request that is being carried out may rely on.
LEMMA Checked ==
  ASSUME ~ Concurrent, Kinds, InTurn, NEW p \in Players,
         Join(p) \/ Disband(p) \/ PassLead(p) \/ Refresh(p) \/ RemoveMember(p) \/ NoParty(p)
  PROVE  /\ \A q \in Players \ {p} : task[q] = Idle /\ task'[q] = Idle
         /\ sess[p] = "on" /\ DoingAs(p, task[p]) /\ task'[p].phase # "update"
         /\ task[p] \in Task /\ task[p].phase = "update" /\ task[p].id \in Ids
         /\ task[p].id \in Used /\ task[p].copy = <<>>
<1>1. task[p] # Idle /\ TypeOK
  BY IdleKind, Changed DEF Kinds
<1> QED BY <1>1, Changed, OthersIdle DEF InTurn, Kinds

\* A step of updateParty that leaves lists and pointers alone.
LEMMA TurnTold ==
  ASSUME ~ Concurrent, Kinds, InTurn, NEW p \in Players,
         Join(p) \/ Disband(p) \/ PassLead(p) \/ Refresh(p) \/ RemoveMember(p) \/ NoParty(p),
         UNCHANGED <<party, sess>>, parties' \subseteq parties,
         \A id \in parties : obj'[id].members = obj[id].members,
         TellingAs(p, task[p])'
  PROVE  InTurn'
<1>1. Lists' /\ Agree'
  BY DEF InTurn, Lists, Agree, Members, Stored
<1>2. DoingAs(p, task[p])' /\ sess'[p] = "on" /\ \A q \in Players \ {p} : task'[q] = Idle
  BY Checked DEF DoingAs
<1> QED BY <1>1, <1>2, TurnTaken

LEMMA QuietUpdateTurn ==
  ASSUME ~ Concurrent, Kinds, InTurn, NEW p \in Players, NoParty(p) \/ Refresh(p) PROVE InTurn'
<1> DEFINE t == task[p]
<1>0. TypeOK /\ t \in Task /\ t.phase = "update" /\ t.copy = <<>> /\ DoingAs(p, t)
  BY Checked DEF Kinds
<1>1. t.op = "SILENT_UPDATE" /\ t.then = "stay"
  BY <1>0 DEF DoingAs, NoParty, Refresh
<1>2. UNCHANGED <<party, sess, parties, obj>>
  BY <1>1 DEF NoParty, Refresh
<1>3. CASE NoParty(p)
  <2>1. task'[p].copy = <<>> /\ task'[p].op = t.op /\ task'[p].then = t.then
    BY <1>0, <1>3 DEF NoParty, TypeOK, Task
  <2>2. ToSet(<<>>) = {}
    BY DEF ToSet
  <2>3. TellingAs(p, task[p])'
    BY <1>1, <2>1, <2>2 DEF TellingAs
  <2> QED BY <1>2, <1>3, <2>3, TurnTold
<1>4. CASE Refresh(p)
  <2>1. t.id \in parties /\ t.id \in Ids /\ obj[t.id].members \in Seq(Players)
    BY <1>0, <1>4, Changed DEF Refresh
  <2>2. task'[p] = Notifying(t, obj[t.id].members)
    BY <1>0, <1>4 DEF Refresh, TypeOK
  <2>3. task'[p].copy = obj[t.id].members /\ task'[p].op = t.op /\ task'[p].then = t.then
        /\ task'[p].id = t.id
    BY <1>0, <2>1, <2>2, NotifyingKind
  <2>4. \A q \in Members(t.id) \cap Stored : party[q] = t.id
    BY <2>1, Counted DEF InTurn, Agree, Stored
  <2>5. TellingAs(p, task[p])'
    BY <1>1, <1>2, <2>3, <2>4 DEF TellingAs, Members, Stored
  <2> QED BY <1>2, <1>4, <2>5, TurnTold
<1> QED BY <1>3, <1>4

LEMMA PassLeadTurn ==
  ASSUME ~ Concurrent, Kinds, InTurn, NEW p \in Players, PassLead(p) PROVE InTurn'
<1> DEFINE t == task[p]
<1>0. TypeOK /\ t \in Task /\ DoingAs(p, t) /\ t.phase = "update" /\ t.op = "CHANGE_LEADER"
      /\ t.id \in parties /\ t.id \in Ids /\ obj[t.id] \in MapleParty /\ obj[t.id].members \in Seq(Players)
  BY Checked, Changed DEF Kinds, PassLead
<1>1. /\ UNCHANGED <<party, sess, parties>> /\ obj' = [obj EXCEPT ![t.id].leader = t.target]
      /\ task'[p] = Notifying(t, obj[t.id].members)
  BY <1>0 DEF PassLead, TypeOK
<1>2. \A id \in Ids : obj'[id].members = obj[id].members
  BY <1>0, <1>1 DEF TypeOK, MapleParty
<1>3. task'[p].copy = obj[t.id].members /\ task'[p].op = t.op /\ task'[p].then = "stay"
      /\ task'[p].id = t.id
  BY <1>0, <1>1, NotifyingKind DEF DoingAs
<1>4. \A q \in Members(t.id) \cap Stored : party[q] = t.id
  BY <1>0 DEF InTurn, Agree, Stored
<1>7. \A q \in ToSet(task'[p].copy) \cap Stored' : party'[q] = task'[p].id
  BY <1>1, <1>3, <1>4 DEF Members, Stored
<1>5. TellingAs(p, task[p])'
  BY <1>0, <1>3, <1>7 DEF TellingAs
<1>6. parties \subseteq Ids
  BY <1>0, UsedIds
<1> QED BY <1>1, <1>2, <1>5, <1>6, TurnTold

LEMMA DisbandTurn ==
  ASSUME ~ Concurrent, Kinds, InTurn, NEW p \in Players, Disband(p) PROVE InTurn'
<1> DEFINE t == task[p]
<1>0. TypeOK /\ t \in Task /\ DoingAs(p, t) /\ t.phase = "update" /\ t.op = "DISBAND"
      /\ t.id \in parties /\ t.id \in Ids /\ obj[t.id].members \in Seq(Players)
  BY Checked, Changed DEF Kinds, Disband
<1>1. /\ UNCHANGED <<party, sess, obj>> /\ parties' = parties \ {t.id}
      /\ task'[p] = Notifying(t, obj[t.id].members)
  BY <1>0 DEF Disband, TypeOK
<1>2. /\ task'[p].op = "DISBAND" /\ task'[p].id = t.id /\ party[p] = t.id
      /\ task'[p].copy = obj[t.id].members
  BY <1>0, <1>1, NotifyingKind DEF DoingAs
<1>4. \A q \in Members(t.id) \cap Stored : party[q] = t.id
  BY <1>0 DEF InTurn, Agree, Stored
<1>5. \A q \in ToSet(task'[p].copy) \cap Stored' : party'[q] = task'[p].id
  BY <1>1, <1>2, <1>4 DEF Members, Stored
<1>3. TellingAs(p, task[p])'
  BY <1>1, <1>2, <1>5 DEF TellingAs
<1> QED BY <1>1, <1>3, TurnTold

LEMMA JoinTurn ==
  ASSUME ~ Concurrent, Kinds, InTurn, NEW p \in Players, Join(p) PROVE InTurn'
<1> DEFINE t == task[p]
           s == Append(obj[t.id].members, t.target)
<1>0. TypeOK /\ t \in Task /\ DoingAs(p, t) /\ t.phase = "update" /\ t.op = "JOIN"
      /\ t.id \in parties /\ t.id \in Ids /\ obj[t.id] \in MapleParty
      /\ obj[t.id].members \in Seq(Players) /\ t.target \in Players
  BY Checked, Changed DEF Kinds, Join
<1>1. /\ UNCHANGED <<parties, sess>> /\ party' = [party EXCEPT ![t.target] = t.id]
      /\ obj' = [obj EXCEPT ![t.id].members = s]
      /\ task'[p] = Notifying(t, s)
  BY <1>0 DEF Join, TypeOK
<1>2. t.then = "stay" /\ t.target \in Stored /\ party[t.target] \notin parties
  BY <1>0 DEF DoingAs
<1>3. t.target \notin Members(t.id)
  BY <1>0, <1>2 DEF InTurn, Agree
<1>4. s \in Seq(Players) /\ ToSet(s) = Members(t.id) \cup {t.target} /\ Distinct(s)
  BY <1>0, <1>3, Added DEF Members, InTurn, Lists
<1> HIDE DEF s
<1>5. \A id \in Ids : obj'[id].members = IF id = t.id THEN s ELSE obj[id].members
  BY <1>0, <1>1 DEF TypeOK, MapleParty
<1>6. \A q \in Players : party'[q] = IF q = t.target THEN t.id ELSE party[q]
  BY <1>0, <1>1 DEF TypeOK
<1>7. parties \subseteq Ids /\ Stored' = Stored
  BY <1>0, <1>1, UsedIds DEF Stored
<1>8. Lists'
  BY <1>1, <1>4, <1>5, <1>7 DEF Lists, InTurn
<1>9. Agree'
  <2> SUFFICES ASSUME NEW id \in parties, NEW q \in Players
               PROVE  q \in Members(id)' <=> q \in Stored /\ party'[q] = id
    BY <1>1, <1>7 DEF Agree
  <2>1. q \in Members(id) <=> q \in Stored /\ party[q] = id
    BY DEF InTurn, Agree
  <2>2. Members(id)' = IF id = t.id THEN Members(id) \cup {t.target} ELSE Members(id)
    BY <1>4, <1>5, <1>7 DEF Members
  <2> QED BY <1>2, <1>6, <2>1, <2>2
<1>10. /\ task'[p].copy = s /\ task'[p].op = "JOIN" /\ task'[p].then = "stay" /\ task'[p].id = t.id
       /\ task'[p].phase = "notify"
  BY <1>0, <1>1, <1>2, <1>4, NotifyingKind
<1>11. \A q \in ToSet(s) \cap Stored : party'[q] = t.id
  <2>1. \A q \in Members(t.id) \cap Stored : party[q] = t.id
    BY <1>0 DEF InTurn, Agree, Stored
  <2> QED BY <1>4, <1>6, <2>1 DEF Stored
<1>12. TellingAs(p, task[p])' /\ DoingAs(p, task[p])'
  BY <1>7, <1>10, <1>11 DEF TellingAs, DoingAs
<1> QED BY <1>1, <1>8, <1>9, <1>12, Checked, TurnTaken

LEMMA RemoveTurn ==
  ASSUME ~ Concurrent, Kinds, InTurn, NEW p \in Players, RemoveMember(p)
  PROVE  /\ InTurn'
         /\ task[p].id \in parties /\ task[p].target \in Members(task[p].id)
         /\ ToSet(obj'[task[p].id].members) = Members(task[p].id) \ {task[p].target}
         /\ task[p].then = "unload" => sess' = sess
         /\ obj'[task[p].id].leader = obj[task[p].id].leader
         /\ obj[task[p].id].leader = p <=> task[p].op = "EXPEL"
<1> DEFINE t == task[p]
           left == RemoveFirst(obj[t.id].members, t.target)
<1>0. TypeOK /\ t \in Task /\ DoingAs(p, t) /\ t.phase = "update" /\ t.op \in {"LEAVE", "EXPEL"}
      /\ t.id \in parties /\ t.id \in Ids /\ obj[t.id] \in MapleParty /\ sess[p] = "on"
      /\ obj[t.id].members \in Seq(Players) /\ t.target \in Players
  BY Checked, Changed DEF Kinds, RemoveMember
<1>1. t.target \in Members(t.id) /\ t.target \in Stored
  BY <1>0 DEF DoingAs, InTurn, Agree, Stored
<1>2. left \in Seq(Players) /\ ToSet(left) = Members(t.id) \ {t.target} /\ Distinct(left)
  BY <1>0, Removed DEF Members, InTurn, Lists
<1> DEFINE throws == obj[t.id].leader \notin ToSet(left)
<1>3. /\ UNCHANGED parties /\ party' = [party EXCEPT ![t.target] = None]
      /\ obj' = [obj EXCEPT ![t.id] = [members |-> left, leader |-> obj[t.id].leader]]
      /\ task'[p] = IF ~throws THEN Notifying(t, left)
                    ELSE IF t.then = "unload" THEN Idle ELSE [Idle EXCEPT !.phase = "kick"]
      /\ sess' = IF throws /\ t.then = "unload" THEN [sess EXCEPT ![p] = "stuck"] ELSE sess
  BY <1>0, <1>1, <1>2 DEF RemoveMember, TypeOK
<1>4. t.then = "unload" => ~throws
  BY <1>0, <1>2 DEF DoingAs
<1> HIDE DEF left, throws
<1>5. sess' = sess /\ parties \subseteq Ids /\ Stored' = Stored
  BY <1>0, <1>3, <1>4, UsedIds DEF Stored
<1>6. \A id \in Ids : obj'[id] = IF id = t.id THEN [members |-> left, leader |-> obj[t.id].leader] ELSE obj[id]
  BY <1>0, <1>3 DEF TypeOK
<1>7. \A q \in Players : party'[q] = IF q = t.target THEN None ELSE party[q]
  BY <1>0, <1>3 DEF TypeOK
<1>8. Lists'
  BY <1>2, <1>3, <1>5, <1>6 DEF Lists, InTurn
<1>9. \A id \in parties : Members(id)' = IF id = t.id THEN Members(id) \ {t.target} ELSE Members(id)
  <2> SUFFICES ASSUME NEW id \in parties
               PROVE  Members(id)' = IF id = t.id THEN Members(id) \ {t.target} ELSE Members(id)
    OBVIOUS
  <2>1. obj'[id] = IF id = t.id THEN [members |-> left, leader |-> obj[t.id].leader] ELSE obj[id]
    BY <1>5, <1>6
  <2>2. CASE id = t.id
    BY <1>2, <2>1, <2>2 DEF Members
  <2>3. CASE id # t.id
    BY <2>1, <2>3 DEF Members
  <2> QED BY <2>2, <2>3
<1>10. Agree'
  <2> SUFFICES ASSUME NEW id \in parties, NEW q \in Players
               PROVE  q \in Members(id)' <=> q \in Stored /\ party'[q] = id
    BY <1>3, <1>5 DEF Agree
  <2>1. /\ q \in Members(id) <=> q \in Stored /\ party[q] = id
        /\ t.target \in Stored /\ party[t.target] = t.id
    BY <1>0, <1>1 DEF InTurn, Agree
  <2>2. id # None
    BY <1>5, PartyAssumption DEF Ids
  <2> QED BY <1>7, <1>9, <2>1, <2>2
<1>11. TellingAs(p, task[p])' /\ DoingAs(p, task[p])'
  <2>1. CASE throws
    BY <1>3, <2>1, IdleKind DEF TellingAs, DoingAs
  <2>2. CASE ~ throws
    <3>1. /\ task'[p].phase = "notify" /\ task'[p].copy = left /\ task'[p].op = t.op
          /\ task'[p].id = t.id /\ task'[p].then = t.then
      BY <1>0, <1>2, <1>3, <2>2, NotifyingKind
    <3>2. \A q \in ToSet(left) \cap Stored : party'[q] = t.id
      <4>1. \A q \in Members(t.id) \cap Stored : party[q] = t.id
        BY <1>0 DEF InTurn, Agree, Stored
      <4> QED BY <1>2, <1>7, <4>1 DEF Stored
    <3>3. t.then # "stay" => party'[p] = None
      BY <1>0, <1>7 DEF DoingAs
    <3>4. None \notin parties
      BY <1>0, Registered
    <3> QED BY <1>0, <1>3, <1>5, <3>1, <3>2, <3>3, <3>4 DEF TellingAs, DoingAs
  <2> QED BY <2>1, <2>2
<1>12. InTurn'
  BY <1>0, <1>5, <1>8, <1>10, <1>11, Checked, TurnTaken
<1>13. ToSet(obj'[t.id].members) = Members(t.id) \ {t.target}
  <2>1. obj'[t.id].members = left
    BY <1>0, <1>6
  <2> QED BY <1>2, <2>1
<1> QED BY <1>0, <1>1, <1>5, <1>6, <1>12, <1>13 DEF DoingAs

LEMMA NotifyTurn ==
  ASSUME ~ Concurrent, Kinds, InTurn, NEW p \in Players, Notify(p) PROVE InTurn'
<1> DEFINE t == task[p]
<1>0. TypeOK /\ TellingAs(p, t) /\ t.phase = "notify"
  BY DEF Kinds, InTurn, Notify
<1>1. sess[p] = "on" /\ (\A q \in Players : task'[q] = Idle) /\ UNCHANGED <<parties, obj>>
  BY <1>0, IdleKind, OthersIdle DEF Notify, TypeOK
<1>2. None \notin parties
  BY <1>0, Registered
<1>3. Agree'
  <2> SUFFICES ASSUME NEW id \in parties, NEW q \in Players
               PROVE  q \in Members(id) <=> q \in Stored' /\ party'[q] = id
    BY <1>1 DEF Agree, Members
  <2>1. q \in Members(id) <=> q \in Stored /\ party[q] = id
    BY DEF InTurn, Agree
  <2>2. party'[q] = party[q] \/ (party'[q] = None /\ party[q] \notin parties)
    <3>1. q \in ToSet(t.copy) \cap Stored => party[q] = t.id
      BY <1>0 DEF TellingAs
    <3>2. q = p /\ t.then = "clear" => party[q] \notin parties
      BY <1>0 DEF TellingAs
    <3> QED BY <1>0, <3>1, <3>2 DEF Notify, TellingAs
  <2>3. (q \in Stored' <=> q \in Stored) \/ (q = p /\ party[q] \notin parties)
    BY <1>0 DEF Notify, TellingAs, Stored, TypeOK
  <2> QED BY <1>2, <2>1, <2>2, <2>3
<1>4. Lists'
  BY <1>1 DEF Lists, InTurn
<1> QED BY <1>1, <1>3, <1>4, IdleKind, TurnTaken DEF DoingAs, TellingAs
-----------------------------------------------------------------------------
(* Theorems.                                                                *)

LEMMA InitTurn == Init => InTurn
<1> SUFFICES ASSUME Init PROVE InTurn
  OBVIOUS
<1>1. parties = {} /\ \A p \in Players : task[p] = Idle
  BY DEF Init
<1> QED BY <1>1, IdleKind DEF InTurn, OneRequest, Lists, Agree, DoingAs, TellingAs

LEMMA NextTurn == ASSUME ~ Concurrent PROVE Kinds /\ InTurn /\ [Next]_vars => InTurn'
<1> SUFFICES ASSUME Kinds, InTurn, [Next]_vars PROVE InTurn'
  OBVIOUS
<1>1. CASE UNCHANGED vars
  BY <1>1 DEF vars, InTurn, OneRequest, Lists, Agree, DoingAs, TellingAs, Members, Stored, HasRoom
<1>2. ASSUME NEW p \in Players, Handler(p) PROVE InTurn'
  BY <1>2, HandlerTurn, LoginTurn, UnloadTurn DEF Disconnect
<1>3. ASSUME NEW p \in Players, Kick(p) PROVE InTurn'
  BY <1>3, UnloadTurn, IdleKind DEF Kick
<1>4. ASSUME NEW p \in Players, Step(p) PROVE InTurn'
  BY <1>3, <1>4, QuietUpdateTurn, JoinTurn, DisbandTurn, PassLeadTurn, RemoveTurn, NotifyTurn DEF Step
<1> QED BY <1>1, <1>2, <1>4 DEF Next

\* When requests take turns, lists and pointers agree, and nobody is listed who is not in
\* the game, for any number of characters and parties: in every state, not only at rest.
THEOREM ListsAgree == ASSUME ~ Concurrent PROVE Spec => []MembershipAgrees
<1>1. InTurn => MembershipAgrees
  BY DEF InTurn, Agree, MembershipAgrees
<1> QED BY InitKinds, NextKinds, InitTurn, NextTurn, <1>1, PTL DEF Spec

\* The leader of a party, read through its list, before and after a step.
LEMMA LeadKept ==
  ASSUME TypeOK, NEW id \in parties, GetLeader(id) # None,
         obj'[id].leader = obj[id].leader, obj[id].leader \in Members(id)' PROVE GetLeader(id)' # None
BY DEF GetLeader

\* When requests take turns, a registered party loses its leader in one way only: he expels
\* himself.  Leaving, being kicked and a lost connection disband the party of a leader.
THEOREM LeadLost == ASSUME ~ Concurrent PROVE Spec => OnlySelfExpelLosesLead
<1>1. Kinds /\ InTurn /\ [Next]_vars => [LeadStep]_vars
  <2> SUFFICES ASSUME Kinds, InTurn, Next, NEW id \in parties \cap parties',
                      GetLeader(id) # None, GetLeader(id)' = None
               PROVE  \E p \in Players : p = GetLeader(id) /\ task[p].op = "EXPEL" /\ task[p].target = p
    BY DEF LeadStep
  <2>0. TypeOK /\ id \in Ids /\ id \in Used /\ obj \in [Ids -> MapleParty] /\ obj[id] \in MapleParty
        /\ obj[id].members \in Seq(Players)
    BY UsedIds DEF Kinds, TypeOK, MapleParty
  <2>1. GetLeader(id) = obj[id].leader /\ obj[id].leader \in Members(id)
    BY DEF GetLeader
  <2>2. ASSUME obj'[id] = obj[id] PROVE FALSE
    BY <2>2 DEF GetLeader, Members
  <2>3. ASSUME NEW p \in Players, Create(p) PROVE FALSE
    <3>1. runningPartyId # id /\ obj' = [obj EXCEPT ![runningPartyId] = [members |-> <<p>>, leader |-> p]]
      BY <2>0, <2>3 DEF Create, Used, TypeOK
    <3> QED BY <2>0, <2>2, <3>1
  <2>4. ASSUME NEW p \in Players, Handler(p), ~ Create(p) PROVE FALSE
    <3>1. UNCHANGED obj
      BY <2>4 DEF Handler, Leave, SilentUpdate, Disconnect, Login, Accept, Allow, Expel, ChangeLeader,
                  Begin, Unload
    <3> QED BY <2>2, <3>1
  <2>5. ASSUME NEW p \in Players, Kick(p) \/ NoParty(p) \/ Disband(p) \/ Refresh(p) \/ Notify(p)
        PROVE  FALSE
    BY <2>2, <2>5 DEF Kick, Unload, NoParty, Disband, Refresh, Notify
  <2>6. ASSUME NEW p \in Players, Join(p) PROVE FALSE
    <3>1. CASE id = task[p].id
      <4> DEFINE s == Append(obj[id].members, task[p].target)
      <4>1. obj' = [obj EXCEPT ![id].members = s]
        BY <2>6, <3>1 DEF Join
      <4>2. ToSet(s) = ToSet(obj[id].members) \cup {task[p].target}
        BY <2>0, <2>6, Changed, Added
      <4> HIDE DEF s
      <4>3. obj'[id].members = s /\ obj'[id].leader = obj[id].leader
        BY <2>0, <4>1 DEF MapleParty
      <4> QED BY <2>0, <2>1, <4>2, <4>3, LeadKept DEF Members
    <3> QED BY <2>0, <2>2, <2>6, <3>1, Changed
  <2>7. ASSUME NEW p \in Players, PassLead(p) PROVE FALSE
    <3>1. CASE id = task[p].id
      <4>1. task[p].target \in Members(id) /\ task[p].target \in Players
        BY <2>0, <2>7, <3>1, Checked, Changed DEF DoingAs, PassLead
      <4>2. obj'[id].leader = task[p].target /\ obj'[id].members = obj[id].members
        BY <2>0, <2>7, <3>1 DEF PassLead, MapleParty
      <4> QED BY <4>1, <4>2, PartyAssumption DEF GetLeader, Members
    <3> QED BY <2>0, <2>2, <2>7, <3>1, Changed
  <2>8. ASSUME NEW p \in Players, RemoveMember(p)
        PROVE  p = GetLeader(id) /\ task[p].op = "EXPEL" /\ task[p].target = p
    <3>1. CASE id = task[p].id
      <4>1. /\ Members(id)' = Members(id) \ {task[p].target}
            /\ obj'[id].leader = obj[id].leader /\ (obj[id].leader = p <=> task[p].op = "EXPEL")
        BY <2>8, <3>1, RemoveTurn DEF Members
      <4>2. obj[id].leader = task[p].target
        BY <2>0, <2>1, <4>1, LeadKept
      <4>3. task[p].op \in {"LEAVE", "EXPEL"} /\ DoingAs(p, task[p]) /\ task[p].phase = "update"
        BY <2>8, Checked DEF RemoveMember
      <4>4. task[p].op = "EXPEL"
        BY <4>1, <4>2, <4>3 DEF DoingAs
      <4> QED BY <2>1, <4>1, <4>2, <4>4
    <3> QED BY <2>0, <2>2, <2>8, <3>1, Changed
  <2> QED BY <2>3, <2>4, <2>5, <2>6, <2>7, <2>8 DEF Next, Step
<1> QED BY InitKinds, NextKinds, InitTurn, NextTurn, <1>1, PTL DEF Spec, OnlySelfExpelLosesLead
-----------------------------------------------------------------------------
(* Parties are the groups of PartySpec.                                     *)

LEMMA Untouched ==
  ASSUME UNCHANGED <<runningPartyId, parties>>, \A id \in parties : Members(id)' = Members(id)
  PROVE  UNCHANGED Groups!vars
BY DEF Groups!vars, Group

LEMMA SameCardinality == \A S : Groups!Cardinality(S) = Cardinality(S)
BY DEF Groups!Cardinality, Cardinality

\* A player without a party is in no group.
LEMMA AloneNow ==
  ASSUME TypeOK, InTurn, NEW p \in Players, party[p] \notin parties PROVE Groups!Alone(p)
BY DEF Groups!Alone, Group, InTurn, Agree

LEMMA GroupsNext ==
  ASSUME ~ Concurrent PROVE Kinds /\ InTurn /\ [Next]_vars => [Groups!Next]_(Groups!vars)
<1> SUFFICES ASSUME Kinds, InTurn, [Next]_vars PROVE [Groups!Next]_(Groups!vars)
  OBVIOUS
<1>0. /\ TypeOK /\ parties \subseteq Used /\ Used \subseteq Ids /\ obj \in [Ids -> MapleParty]
      /\ \A id \in Ids : obj[id].members \in Seq(Players)
  BY UsedIds DEF Kinds, TypeOK, MapleParty
<1>1. ASSUME NEW p \in Players, Create(p) PROVE Groups!Next
  <2>1. /\ runningPartyId \in Ids /\ runningPartyId \notin Used /\ Used' = Used \cup {runningPartyId}
        /\ parties' = parties \cup {runningPartyId} /\ PartyOf(p) = None
        /\ obj' = [obj EXCEPT ![runningPartyId] = [members |-> <<p>>, leader |-> p]]
    BY <1>0, <1>1 DEF Create, Used, Ids, TypeOK
  <2>2. ToSet(<<p>>) = {p}
    BY DEF ToSet
  <2>3. Group' = [Group EXCEPT ![runningPartyId] = {p}]
    BY <1>0, <2>1, <2>2 DEF Group, Members
  <2>4. Groups!Alone(p)
    BY <1>0, <2>1, Partyless, AloneNow
  <2>5. Groups!Form(p, runningPartyId)
    BY <2>1, <2>3, <2>4 DEF Groups!Form, Used
  <2> QED BY <2>1, <2>5 DEF Groups!Next
<1>2. ASSUME NEW p \in Players, Join(p) PROVE Groups!Next
  <2> DEFINE t == task[p]
             s == Append(obj[t.id].members, t.target)
  <2>1. /\ t.phase = "update" /\ t.op = "JOIN" /\ t.id \in parties /\ t.id \in Ids
        /\ t.target \in Players /\ obj' = [obj EXCEPT ![t.id].members = s]
        /\ UNCHANGED <<parties, runningPartyId>> /\ DoingAs(p, t)
    BY <1>0, <1>2, Checked, Changed DEF Join
  <2>2. /\ party[t.target] \notin parties /\ HasRoom(t.id)
        /\ ToSet(s) = ToSet(obj[t.id].members) \cup {t.target}
    BY <1>0, <2>1, Added DEF DoingAs
  <2>3. Groups!Alone(t.target)
    BY <1>0, <2>1, <2>2, AloneNow
  <2>4. Cardinality(Members(t.id)) < PartySize
    <3>1. Cardinality(Members(t.id)) <= Len(obj[t.id].members) /\ Len(obj[t.id].members) \in Nat
          /\ Cardinality(Members(t.id)) \in Nat
      BY <1>0, <2>1, Counted, FS_CardinalityType, LenProperties DEF Members
    <3> QED BY <2>2, <3>1, PartyAssumption DEF HasRoom
  <2> HIDE DEF s
  <2>5. Group' = [Group EXCEPT ![t.id] = @ \cup {t.target}]
    <3>1. \A id \in Ids : obj'[id].members = IF id = t.id THEN s ELSE obj[id].members
      BY <1>0, <2>1 DEF MapleParty
    <3>2. ToSet(s) = Members(t.id) \cup {t.target}
      BY <2>2 DEF Members
    <3>3. \A id \in Ids : Group'[id] = IF id = t.id THEN Members(id) \cup {t.target} ELSE Group[id]
      <4> SUFFICES ASSUME NEW id \in Ids
                   PROVE  Group'[id] = IF id = t.id THEN Members(id) \cup {t.target} ELSE Group[id]
        OBVIOUS
      <4>1. CASE id = t.id
        <5>1. Group'[id] = ToSet(obj'[id].members)
          BY <2>1, <4>1 DEF Group, Members
        <5> QED BY <3>1, <3>2, <4>1, <5>1
      <4>2. CASE id # t.id
        BY <2>1, <3>1, <4>2 DEF Group, Members
      <4> QED BY <4>1, <4>2
    <3>4. Group[t.id] = Members(t.id) /\ Group \in [Ids -> {Group[id] : id \in Ids}]
          /\ Group' \in [Ids -> {Group'[id] : id \in Ids}]
      BY <2>1 DEF Group
    <3> QED BY <2>1, <3>3, <3>4
  <2>6. Group[t.id] = Members(t.id) /\ t.id \in Used
    BY <1>0, <2>1 DEF Group
  <2>7. Groups!Enter(t.target, t.id)
    <3> HIDE DEF t
    <3>1. Groups!Cardinality(Group[t.id]) < PartySize
      BY <2>4, <2>6, SameCardinality
    <3> QED BY <2>1, <2>3, <2>5, <2>6, <3>1 DEF Groups!Enter, Used
  <2> QED BY <2>1, <2>7 DEF Groups!Next
<1>3. ASSUME NEW p \in Players, RemoveMember(p) PROVE Groups!Next
  <2> DEFINE t == task[p]
  <2>1. /\ t.id \in parties /\ t.id \in Ids /\ t.target \in Players /\ t.target \in Members(t.id)
        /\ ToSet(obj'[t.id].members) = Members(t.id) \ {t.target}
        /\ \A id \in Ids \ {t.id} : obj'[id] = obj[id]
        /\ UNCHANGED <<parties, runningPartyId>>
    BY <1>0, <1>3, RemoveTurn, Changed DEF RemoveMember
  <2>2. Group' = [Group EXCEPT ![t.id] = @ \ {t.target}] /\ t.target \in Group[t.id]
    BY <2>1 DEF Group, Members
  <2>3. Groups!Depart(t.target, t.id)
    BY <2>1, <2>2 DEF Groups!Depart
  <2> QED BY <2>1, <2>3 DEF Groups!Next
<1>4. ASSUME NEW p \in Players, Disband(p) PROVE Groups!Next
  <2> DEFINE t == task[p]
  <2>1. t.id \in Ids /\ parties' = parties \ {t.id} /\ UNCHANGED <<obj, runningPartyId>>
    BY <1>0, <1>4, Changed DEF Disband
  <2>2. Group' = [Group EXCEPT ![t.id] = {}]
    BY <2>1 DEF Group, Members
  <2>3. Groups!Dissolve(t.id)
    BY <2>1, <2>2 DEF Groups!Dissolve
  <2> QED BY <2>1, <2>3 DEF Groups!Next
<1>5. ASSUME NEW p \in Players, PassLead(p) PROVE UNCHANGED Groups!vars
  <2>1. \A id \in Ids : obj'[id].members = obj[id].members
    BY <1>0, <1>5 DEF PassLead, MapleParty
  <2>2. \A id \in parties : Members(id)' = Members(id)
    BY <1>0, <2>1 DEF Members
  <2> QED BY <1>5, <2>2, Untouched DEF PassLead
<1>6. ASSUME UNCHANGED <<runningPartyId, parties, obj>> PROVE UNCHANGED Groups!vars
  BY <1>6, Untouched DEF Members
<1>7. ASSUME NEW p \in Players, Handler(p), ~ Create(p) PROVE UNCHANGED Groups!vars
  <2>1. UNCHANGED <<runningPartyId, parties, obj>>
    BY <1>7 DEF Handler, Leave, SilentUpdate, Disconnect, Login, Accept, Allow, Expel, ChangeLeader,
                Begin, Unload
  <2> QED BY <1>6, <2>1
<1>8. ASSUME NEW p \in Players, Kick(p) \/ NoParty(p) \/ Refresh(p) \/ Notify(p)
      PROVE  UNCHANGED Groups!vars
  <2>1. UNCHANGED <<runningPartyId, parties, obj>>
    BY <1>8 DEF Kick, Unload, NoParty, Refresh, Notify
  <2> QED BY <1>6, <2>1
<1>9. CASE UNCHANGED vars
  BY <1>6, <1>9 DEF vars
<1> QED BY <1>1, <1>2, <1>3, <1>4, <1>5, <1>7, <1>8, <1>9 DEF Next, Step

\* When requests take turns, parties are disjoint groups of at most PartySize characters,
\* entered only by a character that is in none, and a disbanded one is gone: the three steps
\* of a request implement one step of PartySpec, or none.
THEOREM PartiesAreGroups == ASSUME ~ Concurrent PROVE Spec => ImplementsGroups
<1>1. Init => Groups!Init
  BY DEF Init, Groups!Init, Group
<1> QED BY InitKinds, NextKinds, InitTurn, NextTurn, GroupsNext, <1>1, PTL
        DEF Spec, ImplementsGroups, Groups!Spec
=============================================================================
