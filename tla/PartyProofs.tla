----------------------------- MODULE PartyProofs -----------------------------
(* Theorems about Party, for any number of players and parties. *)
EXTENDS Party, SequenceTheorems, FiniteSetTheorems, WellFoundedInduction, TLAPS

-----------------------------------------------------------------------------
(* Member lists.                                                            *)

\* No character is listed twice.
Distinct(s) == \A i, j \in 1 .. Len(s) : s[i] = s[j] => i = j

\* A set of numbers that is not empty has a least one.
LEMMA Least == ASSUME NEW I \in SUBSET Nat, I # {} PROVE \E m \in I : \A n \in I : m <= n
<1>1. PICK m \in I : \A n \in I : ~ (<<n, m>> \in OpToRel(<, Nat))
  BY WFMin, NatLessThanWellFounded
<1>2. \A n \in I : ~ (n < m)
  BY <1>1 DEF OpToRel
<1> QED BY <1>2

\* One entry is taken out, and it is one of e's.
LEMMA RemoveOne ==
  ASSUME NEW S, NEW s \in Seq(S), NEW e, e \in ToSet(s)
  PROVE  \E k \in 1 .. Len(s) :
           /\ s[k] = e
           /\ RemoveFirst(s, e) \in Seq(S)
           /\ Len(RemoveFirst(s, e)) = Len(s) - 1
           /\ \A j \in 1 .. Len(s) - 1 :
                RemoveFirst(s, e)[j] = IF j < k THEN s[j] ELSE s[j + 1]
<1> DEFINE I == {i \in 1 .. Len(s) : s[i] = e}
           k == Min(I)
<1>1. Len(s) \in Nat /\ DOMAIN s = 1 .. Len(s)
  BY LenProperties
<1>2. I # {} /\ I \subseteq Nat
  BY <1>1 DEF ToSet
<1>3. k \in I
  <2>1. \E m \in I : \A n \in I : m <= n
    <3> HIDE DEF I
    <3> QED BY <1>2, Least
  <2> HIDE DEF I
  <2> QED BY <2>1 DEF Min
<1>4. SelectInSeq(s, LAMBDA v : v = e) = k
  BY <1>2 DEF SelectInSeq
<1>5. \E i \in 1 .. Len(s) : s[i] = e
  BY <1>2
<1>6. RemoveFirst(s, e) = SubSeq(s, 1, k - 1) \o SubSeq(s, k + 1, Len(s))
  <2> HIDE DEF k
  <2> QED BY <1>4, <1>5 DEF RemoveFirst, RemoveAt
<1>7. k \in 1 .. Len(s) /\ s[k] = e
  BY <1>3
<1> HIDE DEF k, I
<1> DEFINE a == SubSeq(s, 1, k - 1)
           b == SubSeq(s, k + 1, Len(s))
<1>8. /\ a \in Seq(S) /\ Len(a) = k - 1
      /\ \A i \in 1 .. k - 1 : a[i] = s[i]
  <2>1. \A i \in 1 .. k - 1 : s[i] \in S
    BY <1>1, <1>7, ElementOfSeq
  <2>2. 1 \in Int /\ k - 1 \in Int
    BY <1>7
  <2> QED BY <1>1, <1>7, <2>1, <2>2, SubSeqProperties
<1>9. /\ b \in Seq(S) /\ Len(b) = Len(s) - k
      /\ \A i \in 1 .. Len(s) - k : b[i] = s[k + i]
  <2>1. \A i \in k + 1 .. Len(s) : s[i] \in S
    BY <1>1, <1>7, ElementOfSeq
  <2>2. k + 1 \in Int /\ Len(s) \in Int
    BY <1>1, <1>7
  <2>3. /\ b \in Seq(S)
        /\ Len(b) = IF k + 1 <= Len(s) THEN Len(s) - (k + 1) + 1 ELSE 0
        /\ \A i \in 1 .. Len(s) - (k + 1) + 1 : b[i] = s[(k + 1) + i - 1]
    BY <2>1, <2>2, SubSeqProperties
  <2> HIDE DEF b
  <2>4. Len(b) = Len(s) - k
    <3>1. Len(b) = IF k + 1 <= Len(s) THEN Len(s) - (k + 1) + 1 ELSE 0
      BY <2>3
    <3>2. k \in Int /\ k <= Len(s)
      BY <1>1, <1>7
    <3>3. CASE k + 1 <= Len(s)
      BY <2>2, <3>1, <3>2, <3>3
    <3>4. CASE ~ (k + 1 <= Len(s))
      BY <2>2, <3>1, <3>2, <3>4
    <3> QED BY <3>3, <3>4
  <2>5. ASSUME NEW i \in 1 .. Len(s) - k PROVE b[i] = s[k + i]
    <3>1. i \in 1 .. Len(s) - (k + 1) + 1 /\ (k + 1) + i - 1 = k + i
      BY <1>1, <1>7
    <3> QED BY <2>3, <3>1
  <2> QED BY <2>3, <2>4, <2>5
<1> HIDE DEF a, b
<1>10. RemoveFirst(s, e) = a \o b
  BY <1>6 DEF a, b
<1>11. /\ a \o b \in Seq(S) /\ Len(a \o b) = Len(a) + Len(b)
       /\ \A i \in 1 .. Len(a) + Len(b) : (a \o b)[i] = IF i <= Len(a) THEN a[i] ELSE b[i - Len(a)]
  BY <1>8, <1>9, ConcatProperties
<1>12. ASSUME NEW j \in 1 .. Len(s) - 1
       PROVE  (a \o b)[j] = IF j < k THEN s[j] ELSE s[j + 1]
  <2>1. j \in 1 .. Len(a) + Len(b)
    BY <1>1, <1>7, <1>8, <1>9
  <2>2. CASE j < k
    <3>1. j \in 1 .. k - 1 /\ j <= Len(a)
      BY <1>1, <1>7, <1>8, <2>2
    <3> QED BY <1>8, <1>11, <2>1, <2>2, <3>1
  <2>3. CASE ~ (j < k)
    <3>1. j - (k - 1) \in 1 .. Len(s) - k /\ k + (j - (k - 1)) = j + 1 /\ ~ (j <= Len(a))
      BY <1>1, <1>7, <1>8, <2>3
    <3> QED BY <1>8, <1>9, <1>11, <2>1, <2>3, <3>1
  <2> QED BY <2>2, <2>3
<1>13. Len(a \o b) = Len(s) - 1
  BY <1>1, <1>7, <1>8, <1>9, <1>11
<1> QED BY <1>7, <1>10, <1>11, <1>12, <1>13

\* What a list has lost when the first entry of e is taken out.
LEMMA Removed ==
  ASSUME NEW S, NEW s \in Seq(S), NEW e
  PROVE  /\ RemoveFirst(s, e) \in Seq(S)
         /\ Len(RemoveFirst(s, e)) <= Len(s)
         /\ ToSet(RemoveFirst(s, e)) \subseteq ToSet(s)
         /\ ToSet(s) \ {e} \subseteq ToSet(RemoveFirst(s, e))
         /\ Distinct(s) => /\ Distinct(RemoveFirst(s, e))
                           /\ e \notin ToSet(RemoveFirst(s, e))
<1>0. Len(s) \in Nat /\ DOMAIN s = 1 .. Len(s)
  BY LenProperties
<1>1. CASE e \notin ToSet(s)
  <2>1. RemoveFirst(s, e) = s
    BY <1>0, <1>1 DEF RemoveFirst, ToSet
  <2> QED BY <1>0, <1>1, <2>1
<1>2. CASE e \in ToSet(s)
  <2> DEFINE r == RemoveFirst(s, e)
  <2>1. PICK k \in 1 .. Len(s) :
          /\ s[k] = e /\ r \in Seq(S) /\ Len(r) = Len(s) - 1
          /\ \A j \in 1 .. Len(s) - 1 : r[j] = IF j < k THEN s[j] ELSE s[j + 1]
    BY <1>2, RemoveOne
  <2> HIDE DEF r
  <2>2. DOMAIN r = 1 .. Len(r)
    BY <2>1, LenProperties
  <2>3. ToSet(r) \subseteq ToSet(s)
    <3>1. ASSUME NEW j \in 1 .. Len(s) - 1 PROVE r[j] \in ToSet(s)
      <4>1. j \in 1 .. Len(s) /\ j + 1 \in 1 .. Len(s)
        BY <1>0
      <4>2. s[j] \in ToSet(s) /\ s[j + 1] \in ToSet(s)
        BY <1>0, <4>1 DEF ToSet
      <4> QED BY <2>1, <4>2
    <3> QED BY <2>1, <2>2, <3>1 DEF ToSet
  <2>4. ToSet(s) \ {e} \subseteq ToSet(r)
    <3>1. ASSUME NEW i \in 1 .. Len(s), s[i] # e PROVE s[i] \in ToSet(r)
      <4>1. CASE i < k
        <5>1. i \in 1 .. Len(s) - 1 /\ r[i] = s[i]
          BY <1>0, <2>1, <4>1
        <5> QED BY <2>1, <2>2, <5>1 DEF ToSet
      <4>2. CASE i > k
        <5>1. i - 1 \in 1 .. Len(s) - 1 /\ r[i - 1] = s[i]
          BY <1>0, <2>1, <4>2
        <5> QED BY <2>1, <2>2, <5>1 DEF ToSet
      <4> QED BY <1>0, <2>1, <3>1, <4>1, <4>2
    <3> QED BY <1>0, <3>1 DEF ToSet
  <2>5. ASSUME Distinct(s) PROVE Distinct(r) /\ e \notin ToSet(r)
    <3>1. Distinct(r)
      BY <1>0, <2>1, <2>5 DEF Distinct
    <3>2. ASSUME NEW j \in 1 .. Len(s) - 1 PROVE r[j] # e
      BY <1>0, <2>1, <2>5 DEF Distinct
    <3> QED BY <2>1, <2>2, <3>1, <3>2 DEF ToSet
  <2>6. Len(r) <= Len(s)
    BY <1>0, <2>1
  <2> QED BY <2>1, <2>3, <2>4, <2>5, <2>6 DEF r
<1> QED BY <1>1, <1>2

\* A list has no more members than entries.
LEMMA Counted ==
  ASSUME NEW S, NEW s \in Seq(S)
  PROVE  IsFiniteSet(ToSet(s)) /\ Cardinality(ToSet(s)) <= Len(s)
<1>1. Len(s) \in Nat /\ DOMAIN s = 1 .. Len(s) /\ s \in [1 .. Len(s) -> S]
  BY LenProperties
<1>2. IsFiniteSet(1 .. Len(s)) /\ Cardinality(1 .. Len(s)) = Len(s)
  BY <1>1, FS_Interval
<1>3. s \in Surjection(1 .. Len(s), ToSet(s))
  BY <1>1 DEF Surjection, ToSet
<1> QED BY <1>2, <1>3, FS_Surjection

\* A new entry at the end of the list.
LEMMA Added ==
  ASSUME NEW S, NEW s \in Seq(S), NEW e \in S
  PROVE  /\ Append(s, e) \in Seq(S) /\ Len(Append(s, e)) = Len(s) + 1
         /\ ToSet(Append(s, e)) = ToSet(s) \cup {e}
         /\ Distinct(s) /\ e \notin ToSet(s) => Distinct(Append(s, e))
<1> DEFINE r == Append(s, e)
<1>1. /\ r \in Seq(S) /\ Len(r) = Len(s) + 1
      /\ \A i \in 1 .. Len(s) : r[i] = s[i]
      /\ r[Len(s) + 1] = e
  BY AppendProperties
<1>2. /\ Len(s) \in Nat /\ DOMAIN s = 1 .. Len(s) /\ DOMAIN r = 1 .. Len(s) + 1
  BY <1>1, LenProperties
<1> HIDE DEF r
<1>3. ToSet(r) = ToSet(s) \cup {e}
  <2>1. \A i \in 1 .. Len(s) + 1 : r[i] \in ToSet(s) \cup {e}
    BY <1>1, <1>2 DEF ToSet
  <2>2. \A i \in 1 .. Len(s) : s[i] \in ToSet(r)
    BY <1>1, <1>2 DEF ToSet
  <2>3. e \in ToSet(r)
    BY <1>1, <1>2 DEF ToSet
  <2> QED BY <1>2, <2>1, <2>2, <2>3 DEF ToSet
<1>4. Distinct(s) /\ e \notin ToSet(s) => Distinct(r)
  BY <1>1, <1>2 DEF Distinct, ToSet
<1> QED BY <1>1, <1>3, <1>4 DEF r
-----------------------------------------------------------------------------
(* Types, however the sessions interleave. Every party that is pointed at,  *)
(* by a character or a request, has been created.                           *)

Used == 1 .. runningPartyId - 1

Kinds ==
  /\ TypeOK
  /\ \A p \in Players : /\ party[p] \in Used \cup {None}
                        /\ task[p].phase \in {"update", "notify"} => task[p].id \in Used
                        /\ task[p].phase = "update" => task[p].copy = <<>>

\* A request that is begun is well formed.
LEMMA CallKind ==
  ASSUME NEW op \in {"JOIN", "LEAVE", "EXPEL", "DISBAND", "CHANGE_LEADER", "SILENT_UPDATE"},
         NEW id \in Ids, NEW q \in Players, NEW then \in {"stay", "clear", "unload"}
  PROVE  /\ Call(op, id, q, then) \in Task /\ Call(op, id, q, then).phase = "update"
         /\ Call(op, id, q, then).op = op /\ Call(op, id, q, then).id = id
         /\ Call(op, id, q, then).target = q /\ Call(op, id, q, then).copy = <<>>
         /\ Call(op, id, q, then).then = then
<1>1. <<>> \in Seq(Players)
  BY EmptySeq
<1> QED BY <1>1 DEF Call, Idle, Task

LEMMA IdleKind == /\ Idle \in Task /\ Idle.phase = "idle"
                  /\ [Idle EXCEPT !.phase = "kick"] \in Task
                  /\ [Idle EXCEPT !.phase = "kick"].phase = "kick"
<1>1. <<>> \in Seq(Players)
  BY EmptySeq
<1> QED BY <1>1 DEF Idle, Task

LEMMA NotifyingKind ==
  ASSUME NEW t \in Task, NEW s \in Seq(Players)
  PROVE  /\ Notifying(t, s) \in Task /\ Notifying(t, s).phase = "notify"
         /\ Notifying(t, s).op = t.op /\ Notifying(t, s).id = t.id
         /\ Notifying(t, s).target = t.target /\ Notifying(t, s).copy = s
         /\ Notifying(t, s).then = t.then
BY DEF Notifying, Task

\* The id of a party in the registry has been used.
LEMMA PartyOfKind ==
  ASSUME TypeOK, NEW p \in Players, PartyOf(p) # None
  PROVE  PartyOf(p) \in parties /\ PartyOf(p) \in Ids /\ party[p] = PartyOf(p)
BY DEF PartyOf, TypeOK, Ids

LEMMA UsedIds == ASSUME TypeOK PROVE parties \subseteq Used /\ Used \subseteq Ids
BY PartyAssumption DEF TypeOK, Used, Ids

\* A session whose task changes, while the registry and the parties stay.
LEMMA TaskKinds ==
  ASSUME Kinds, NEW p \in Players, NEW t \in Task,
         t.phase \in {"update", "notify"} => t.id \in Used /\ t.target \in Players,
         t.phase = "update" => t.copy = <<>>,
         task' = [task EXCEPT ![p] = t], UNCHANGED <<runningPartyId, parties, obj>>,
         party' \in [Players -> Used \cup {None}], sess' \in [Players -> {"on", "off", "stuck"}]
  PROVE  Kinds'
<1>1. Used \subseteq Ids /\ Used' = Used
  BY UsedIds DEF Kinds, Used
<1>2. task' \in [Players -> Task]
  BY DEF Kinds, TypeOK
<1>3. \A q \in Players : task'[q] = IF q = p THEN t ELSE task[q]
  BY DEF Kinds, TypeOK
<1>4. \A q \in Players : /\ task'[q].phase \in {"update", "notify"} =>
                              /\ task'[q].id \in Used /\ task'[q].id \in Ids
                              /\ task'[q].target \in Players
                         /\ task'[q].phase = "update" => task'[q].copy = <<>>
  BY <1>1, <1>3 DEF Kinds, TypeOK
<1>5. party' \in [Players -> Ids \cup {None}] /\ \A q \in Players : party'[q] \in Used \cup {None}
  BY <1>1
<1>6. TypeOK'
  BY <1>2, <1>4, <1>5 DEF Kinds, TypeOK
<1> QED BY <1>1, <1>4, <1>5, <1>6 DEF Kinds

LEMMA NextKinds == Kinds /\ [Next]_vars => Kinds'
<1> SUFFICES ASSUME Kinds, [Next]_vars PROVE Kinds'
  OBVIOUS
<1>0. /\ TypeOK /\ parties \subseteq Used /\ Used \subseteq Ids
      /\ party \in [Players -> Used \cup {None}] /\ sess \in [Players -> {"on", "off", "stuck"}]
      /\ task \in [Players -> Task] /\ obj \in [Ids -> MapleParty]
  BY UsedIds DEF Kinds, TypeOK
<1>1. ASSUME NEW p \in Players, Create(p) PROVE Kinds'
  <2>1. /\ runningPartyId \in Ids /\ runningPartyId' = runningPartyId + 1
        /\ parties' = parties \cup {runningPartyId}
        /\ party' = [party EXCEPT ![p] = runningPartyId] /\ UNCHANGED <<sess, task>>
        /\ obj' = [obj EXCEPT ![runningPartyId] = [members |-> <<p>>, leader |-> p]]
    BY <1>1 DEF Create
  <2>2. [members |-> <<p>>, leader |-> p] \in MapleParty
    BY DEF MapleParty
  <2>3. obj' \in [Ids -> MapleParty]
    BY <1>0, <2>1, <2>2
  <2>4. runningPartyId \in Nat /\ MaxParties \in Nat
    BY <2>1, PartyAssumption DEF Ids
  <2>5. runningPartyId' \in 1 .. MaxParties + 1 /\ Used' = Used \cup {runningPartyId}
    BY <2>1, <2>4 DEF Used, Ids
  <2>6. parties' \subseteq Used' /\ party' \in [Players -> Used' \cup {None}]
    BY <1>0, <2>1, <2>5
  <2>7. party' \in [Players -> Ids \cup {None}]
    BY <1>0, <2>1
  <2>8. TypeOK'
    BY <1>0, <2>1, <2>3, <2>5, <2>6, <2>7 DEF TypeOK, Used
  <2> QED BY <1>0, <2>1, <2>5, <2>6, <2>8 DEF Kinds
<1>2. ASSUME NEW p \in Players, NEW id \in Used, NEW q \in Players,
             NEW op \in {"JOIN", "LEAVE", "EXPEL", "DISBAND", "CHANGE_LEADER", "SILENT_UPDATE"},
             NEW then \in {"stay", "clear", "unload"}, Begin(p, Call(op, id, q, then))
      PROVE  Kinds'
  <2> DEFINE t == Call(op, id, q, then)
  <2>1. t \in Task /\ t.id = id /\ t.target = q /\ t.copy = <<>>
    BY <1>0, CallKind
  <2>2. task' = [task EXCEPT ![p] = t] /\ UNCHANGED <<runningPartyId, parties, obj, party, sess>>
    BY <1>2 DEF Begin
  <2> HIDE DEF t
  <2> QED BY <1>0, <2>1, <2>2, TaskKinds
<1>3. ASSUME NEW p \in Players, NEW id \in Ids, Accept(p, id) PROVE Kinds'
  BY <1>0, <1>2, <1>3 DEF Accept
<1>4. ASSUME NEW p \in Players, NEW q \in Players, Allow(p, q) \/ Expel(p, q) \/ ChangeLeader(p, q)
      PROVE  Kinds'
  <2>1. PartyOf(p) \in Used
    BY <1>0, <1>4, PartyOfKind DEF Allow, Expel, ChangeLeader, Leads
  <2> QED BY <1>2, <1>4, <2>1 DEF Allow, Expel, ChangeLeader
<1>5. ASSUME NEW p \in Players, Leave(p) PROVE Kinds'
  <2>1. PartyOf(p) \in Used /\ DisbandOrLeave(p) \in {"LEAVE", "DISBAND"}
    BY <1>0, <1>5, PartyOfKind DEF Leave, DisbandOrLeave
  <2> QED BY <1>2, <1>5, <2>1 DEF Leave
<1>6. ASSUME NEW p \in Players, SilentUpdate(p) PROVE Kinds'
  <2>1. party[p] \in Used
    BY <1>0, <1>6 DEF SilentUpdate
  <2> QED BY <1>2, <1>6, <2>1 DEF SilentUpdate
<1>7. ASSUME NEW p \in Players, Unload(p) PROVE Kinds'
  <2> DEFINE t == task'[p]
  <2>1. /\ task' = [task EXCEPT ![p] = t] /\ sess' \in [Players -> {"on", "off", "stuck"}]
        /\ UNCHANGED <<runningPartyId, parties, obj, party>>
    BY <1>0, <1>7 DEF Unload
  <2>2. t = Idle \/ (PartyOf(p) # None /\ t = Call(DisbandOrLeave(p), PartyOf(p), p, "unload"))
    BY <1>0, <1>7 DEF Unload
  <2>3. t \in Task /\ (t.phase # "idle" => t.id \in Used /\ t.target \in Players /\ t.copy = <<>>)
    <3>1. CASE t = Idle
      BY <3>1, IdleKind
    <3>2. CASE PartyOf(p) # None /\ t = Call(DisbandOrLeave(p), PartyOf(p), p, "unload")
      <4>1. /\ PartyOf(p) \in Used /\ PartyOf(p) \in Ids
            /\ DisbandOrLeave(p) \in {"LEAVE", "DISBAND"}
        BY <1>0, <3>2, PartyOfKind DEF DisbandOrLeave
      <4> QED BY <3>2, <4>1, CallKind
    <3> QED BY <2>2, <3>1, <3>2
  <2> HIDE DEF t
  <2> QED BY <1>0, <2>1, <2>3, TaskKinds
<1>8. ASSUME NEW p \in Players, Login(p) PROVE Kinds'
  <2>1. /\ UNCHANGED <<runningPartyId, parties, obj, task>>
        /\ sess' \in [Players -> {"on", "off", "stuck"}]
        /\ party' \in [Players -> Used \cup {None}]
    BY <1>0, <1>8 DEF Login
  <2>2. Used' = Used
    BY <2>1 DEF Used
  <2>3. TypeOK'
    BY <1>0, <2>1 DEF TypeOK
  <2> QED BY <2>1, <2>2, <2>3 DEF Kinds
<1>9. ASSUME NEW p \in Players, task[p].phase = "update"
      PROVE  /\ task[p].id \in Used /\ task[p].target \in Players /\ task[p] \in Task
             /\ obj[task[p].id] \in MapleParty /\ obj[task[p].id].members \in Seq(Players)
             /\ task[p].copy \in Seq(Players)
  <2>1. task[p].id \in Used /\ task[p].target \in Players /\ task[p] \in Task
    BY <1>0, <1>9 DEF Kinds, TypeOK
  <2>2. obj[task[p].id] \in MapleParty
    BY <1>0, <2>1
  <2> QED BY <2>1, <2>2 DEF MapleParty, Task
<1>10. ASSUME NEW p \in Players, task[p].phase = "update", NEW s \in Seq(Players),
              task' = [task EXCEPT ![p] = Notifying(task[p], s)],
              UNCHANGED <<runningPartyId, parties, obj>>,
              party' \in [Players -> Used \cup {None}], UNCHANGED sess
       PROVE  Kinds'
  <2> DEFINE t == Notifying(task[p], s)
  <2>1. t \in Task /\ t.phase = "notify" /\ t.id = task[p].id /\ t.target = task[p].target
    BY <1>9, <1>10, NotifyingKind
  <2>2. task' = [task EXCEPT ![p] = t]
    BY <1>10
  <2> HIDE DEF t
  <2> QED BY <1>0, <1>9, <1>10, <2>1, <2>2, TaskKinds
<1>11. ASSUME NEW p \in Players, NoParty(p) PROVE Kinds'
  <2>1. /\ task[p].phase = "update" /\ UNCHANGED <<runningPartyId, parties, obj, sess>>
        /\ party' = IF task[p].op = "JOIN" THEN [party EXCEPT ![task[p].target] = task[p].id] ELSE party
        /\ task' = [task EXCEPT ![p].phase = "notify"]
    BY <1>11 DEF NoParty
  <2>2. [task[p] EXCEPT !.phase = "notify"] = Notifying(task[p], task[p].copy)
    BY <1>9, <2>1 DEF Notifying, Task
  <2>3. party' \in [Players -> Used \cup {None}]
    BY <1>0, <1>9, <2>1
  <2>4. task' = [task EXCEPT ![p] = Notifying(task[p], task[p].copy)]
    BY <2>1, <2>2
  <2> QED BY <1>9, <1>10, <2>1, <2>3, <2>4
<1>12. ASSUME NEW p \in Players, Refresh(p) PROVE Kinds'
  BY <1>0, <1>9, <1>10, <1>12 DEF Refresh
<1>13. ASSUME NEW p \in Players, Disband(p) PROVE Kinds'
  <2>1. /\ task[p].phase = "update" /\ parties' \subseteq parties
        /\ task' = [task EXCEPT ![p] = Notifying(task[p], obj[task[p].id].members)]
        /\ UNCHANGED <<runningPartyId, obj, party, sess>>
    BY <1>13 DEF Disband
  <2>2. Notifying(task[p], obj[task[p].id].members) \in Task
    BY <1>9, <2>1, NotifyingKind
  <2>3. task' \in [Players -> Task]
    BY <1>0, <2>1, <2>2
  <2>4. \A q \in Players : \/ task'[q] = task[q]
                           \/ /\ task'[q].phase = "notify" /\ task'[q].id = task[p].id
                              /\ task'[q].target = task[p].target
    BY <1>0, <1>9, <2>1, NotifyingKind
  <2>5. Used' = Used
    BY <2>1 DEF Used
  <2>6. TypeOK'
    BY <1>0, <1>9, <2>1, <2>3, <2>4 DEF TypeOK
  <2> QED BY <1>0, <1>9, <2>1, <2>4, <2>5, <2>6 DEF Kinds
<1>14. ASSUME NEW p \in Players, task[p].phase = "update", obj' \in [Ids -> MapleParty],
              NEW t \in Task, t.phase \in {"update", "notify"} => t.id \in Used /\ t.target \in Players,
              t.phase # "update", task' = [task EXCEPT ![p] = t],
              UNCHANGED <<runningPartyId, parties>>,
              party' \in [Players -> Used \cup {None}], sess' \in [Players -> {"on", "off", "stuck"}]
       PROVE  Kinds'
  <2>1. task' \in [Players -> Task] /\ \A q \in Players : task'[q] = IF q = p THEN t ELSE task[q]
    BY <1>0, <1>14
  <2>2. Used' = Used
    BY <1>14 DEF Used
  <2>3. \A q \in Players : /\ task'[q].phase \in {"update", "notify"} =>
                                task'[q].id \in Used /\ task'[q].target \in Players
                           /\ task'[q].phase = "update" => task'[q].copy = <<>>
    BY <1>0, <1>14, <2>1 DEF Kinds, TypeOK
  <2>5. party' \in [Players -> Ids \cup {None}]
    BY <1>0, <1>14
  <2>4. TypeOK'
    BY <1>0, <1>14, <2>1, <2>3, <2>5 DEF TypeOK
  <2> QED BY <1>14, <2>2, <2>3, <2>4 DEF Kinds
<1>15. ASSUME NEW p \in Players, Join(p) PROVE Kinds'
  <2> DEFINE s == Append(obj[task[p].id].members, task[p].target)
             t == Notifying(task[p], s)
  <2>1. /\ task[p].phase = "update" /\ UNCHANGED <<runningPartyId, parties, sess>>
        /\ party' = [party EXCEPT ![task[p].target] = task[p].id]
        /\ obj' = [obj EXCEPT ![task[p].id].members = s]
        /\ task' = [task EXCEPT ![p] = t]
    BY <1>15 DEF Join
  <2>2. s \in Seq(Players)
    BY <1>9, <2>1
  <2>3. t \in Task /\ t.phase = "notify" /\ t.id = task[p].id /\ t.target = task[p].target
    <3> HIDE DEF s
    <3> QED BY <1>9, <2>1, <2>2, NotifyingKind
  <2> HIDE DEF s, t
  <2>4. obj' \in [Ids -> MapleParty] /\ party' \in [Players -> Used \cup {None}]
    BY <1>0, <1>9, <2>1, <2>2 DEF MapleParty
  <2> QED BY <1>0, <1>9, <1>14, <2>1, <2>3, <2>4
<1>16. ASSUME NEW p \in Players, PassLead(p) PROVE Kinds'
  <2> DEFINE t == Notifying(task[p], obj[task[p].id].members)
  <2>1. /\ task[p].phase = "update" /\ UNCHANGED <<runningPartyId, parties, party, sess>>
        /\ obj' = [obj EXCEPT ![task[p].id].leader = task[p].target]
        /\ task' = [task EXCEPT ![p] = t]
    BY <1>16 DEF PassLead
  <2>2. t \in Task /\ t.phase = "notify" /\ t.id = task[p].id /\ t.target = task[p].target
    BY <1>9, <2>1, NotifyingKind
  <2> HIDE DEF t
  <2>3. obj' \in [Ids -> MapleParty]
    BY <1>0, <1>9, <2>1 DEF MapleParty
  <2> QED BY <1>0, <1>9, <1>14, <2>1, <2>2, <2>3
<1>17. ASSUME NEW p \in Players, RemoveMember(p) PROVE Kinds'
  <2> DEFINE id == task[p].id
             left == RemoveFirst(obj[id].members, task[p].target)
             t == task'[p]
  <2>1. /\ task[p].phase = "update" /\ UNCHANGED <<runningPartyId, parties>>
        /\ party' \in [Players -> Used \cup {None}]
        /\ \E lead \in ToSet(left) \cup {obj[id].leader} :
             obj' = [obj EXCEPT ![id] = [members |-> left, leader |-> lead]]
        /\ sess' \in [Players -> {"on", "off", "stuck"}]
        /\ task' = [task EXCEPT ![p] = t]
        /\ t \in {Notifying(task[p], left), Idle, [Idle EXCEPT !.phase = "kick"]}
    BY <1>0, <1>17 DEF RemoveMember
  <2>2. left \in Seq(Players) /\ ToSet(left) \subseteq ToSet(obj[id].members)
    BY <1>9, <2>1, Removed
  <2>3. ToSet(obj[id].members) \subseteq Players
    BY <1>9, <2>1, ElementOfSeq, LenProperties DEF ToSet
  <2>4. obj[id].leader \in Players \cup {None} /\ id \in Ids
    BY <1>0, <1>9, <2>1 DEF MapleParty
  <2>5. t \in Task /\ t.phase # "update" /\ (t.phase = "notify" => t.id = id /\ t.target = task[p].target)
    <3> HIDE DEF left
    <3>1. CASE t = Notifying(task[p], left)
      BY <1>9, <2>1, <2>2, <3>1, NotifyingKind
    <3>2. CASE t \in {Idle, [Idle EXCEPT !.phase = "kick"]}
      BY <3>2, IdleKind
    <3> QED BY <2>1, <3>1, <3>2
  <2> HIDE DEF left, t
  <2>6. obj' \in [Ids -> MapleParty]
    <3>1. PICK lead \in ToSet(left) \cup {obj[id].leader} :
            obj' = [obj EXCEPT ![id] = [members |-> left, leader |-> lead]]
      BY <2>1
    <3>2. [members |-> left, leader |-> lead] \in MapleParty
      BY <2>2, <2>3, <2>4 DEF MapleParty
    <3> QED BY <1>0, <2>4, <3>1, <3>2
  <2> QED BY <1>0, <1>9, <1>14, <2>1, <2>5, <2>6
<1>18. ASSUME NEW p \in Players, Notify(p) PROVE Kinds'
  <2>1. /\ task[p].phase = "notify" /\ UNCHANGED <<runningPartyId, parties, obj>>
        /\ task' = [task EXCEPT ![p] = Idle] /\ sess' \in [Players -> {"on", "off", "stuck"}]
    BY <1>0, <1>18 DEF Notify
  <2>2. task[p].id \in Used
    BY <2>1 DEF Kinds
  <2>3. party' \in [Players -> Used \cup {None}]
    BY <1>0, <1>18, <2>2 DEF Notify
  <2> QED BY <2>1, <2>3, IdleKind, TaskKinds
<1>19. CASE UNCHANGED vars
  BY <1>19 DEF vars, Kinds, TypeOK, Used
<1>20. ASSUME NEW p \in Players, Disconnect(p) \/ Kick(p) PROVE Kinds'
  BY <1>7, <1>20 DEF Disconnect, Kick
<1> QED
  BY <1>1, <1>3, <1>4, <1>5, <1>6, <1>8, <1>11, <1>12, <1>13, <1>15, <1>16, <1>17, <1>18, <1>19, <1>20
  DEF Next, Handler, Step

LEMMA InitKinds == Init => Kinds
<1> SUFFICES ASSUME Init PROVE Kinds
  OBVIOUS
<1>1. runningPartyId = 1 /\ parties = {} /\ runningPartyId \in 1 .. MaxParties + 1
  BY PartyAssumption DEF Init
<1>2. obj \in [Ids -> MapleParty]
  <2>1. [members |-> <<>>, leader |-> None] \in MapleParty
    BY EmptySeq DEF MapleParty
  <2> QED BY <2>1 DEF Init
<1>3. task \in [Players -> Task] /\ \A p \in Players : task[p].phase = "idle"
  BY IdleKind DEF Init
<1>4. /\ party \in [Players -> Ids \cup {None}] /\ sess \in [Players -> {"on", "off", "stuck"}]
      /\ \A p \in Players : party[p] = None
  BY DEF Init
<1> QED BY <1>1, <1>2, <1>3, <1>4 DEF Kinds, TypeOK

\* Every variable keeps values of its kind, and a request that is under way refers to a
\* party that was created and to a character, however the sessions interleave.
THEOREM PartyTypes == Spec => []TypeOK
<1>1. Kinds => TypeOK
  BY DEF Kinds
<1> QED BY InitKinds, NextKinds, <1>1, PTL DEF Spec
-----------------------------------------------------------------------------
(* How far a party outgrows its size: every session that adds a member has  *)
(* a player of its own, and it saw room before it began.                    *)

\* Sessions that are about to add a member to the party.
Joining(id) == {p \in Players : /\ task[p].phase = "update" /\ task[p].op = "JOIN"
                                /\ task[p].id = id}

RoomOf(id) == Len(obj[id].members) + Cardinality(Joining(id)) <= PartySize - 1 + Cardinality(Players)

Room == \A id \in Used : RoomOf(id)

LEMMA JoiningFinite ==
  ASSUME NEW id
  PROVE  /\ IsFiniteSet(Joining(id)) /\ Cardinality(Joining(id)) \in Nat
         /\ Cardinality(Players) \in Nat /\ Cardinality(Joining(id)) <= Cardinality(Players)
<1>1. Joining(id) \subseteq Players /\ IsFiniteSet(Players)
  BY PartyAssumption DEF Joining
<1> QED BY <1>1, FS_Subset, FS_CardinalityType

LEMMA ListKind == ASSUME Kinds, NEW id \in Used
                  PROVE  /\ id \in Ids /\ obj[id] \in MapleParty /\ obj[id].members \in Seq(Players)
                         /\ Len(obj[id].members) \in Nat
<1>1. id \in Ids /\ obj[id] \in MapleParty
  BY UsedIds DEF Kinds, TypeOK
<1>2. obj[id].members \in Seq(Players)
  BY <1>1 DEF MapleParty
<1> QED BY <1>1, <1>2, LenProperties

\* A step that adds neither a member nor a session that is about to add one.
LEMMA RoomKept ==
  ASSUME Kinds, Kinds', Room, Used' = Used,
         NEW p \in Players, \A q \in Players \ {p} : task'[q] = task[q],
         ~ (task'[p].phase = "update" /\ task'[p].op = "JOIN"),
         \A id \in Used : Len(obj'[id].members) <= Len(obj[id].members)
  PROVE  Room'
<1>1. SUFFICES ASSUME NEW id \in Used PROVE RoomOf(id)'
  BY DEF Room
<1>2. Joining(id)' \subseteq Joining(id)
  BY DEF Joining
<1>3. /\ Cardinality(Joining(id)') \in Nat /\ Cardinality(Joining(id)) \in Nat
      /\ Cardinality(Joining(id)') <= Cardinality(Joining(id))
  BY <1>2, JoiningFinite, FS_Subset, FS_CardinalityType
<1>4. Len(obj'[id].members) \in Nat /\ Len(obj[id].members) \in Nat
  <2>1. obj'[id] \in MapleParty
    BY ListKind DEF Kinds, TypeOK
  <2>2. obj'[id].members \in Seq(Players)
    BY <2>1 DEF MapleParty
  <2> QED BY <2>2, ListKind, LenProperties
<1>5. RoomOf(id) /\ PartySize \in Nat /\ Cardinality(Players) \in Nat
  BY JoiningFinite, PartyAssumption DEF Room
<1> QED BY <1>3, <1>4, <1>5 DEF RoomOf

\* A request that has changed its party is not about to change it again.
LEMMA Changed ==
  ASSUME TypeOK, NEW p \in Players,
         Join(p) \/ Disband(p) \/ PassLead(p) \/ Refresh(p) \/ RemoveMember(p) \/ NoParty(p)
  PROVE  /\ task[p] \in Task /\ task[p].phase = "update" /\ task[p].id \in Ids
         /\ task[p].target \in Players /\ obj[task[p].id] \in MapleParty
         /\ obj[task[p].id].members \in Seq(Players) /\ runningPartyId' = runningPartyId
         /\ task'[p].phase # "update"
         /\ \A q \in Players \ {p} : task'[q] = task[q]
         /\ \A id \in Ids \ {task[p].id} : obj'[id] = obj[id]
<1> DEFINE t == task[p]
<1>1. t \in Task /\ t.phase = "update" /\ t.id \in Ids /\ t.target \in Players
  BY DEF TypeOK, Join, Disband, PassLead, Refresh, RemoveMember, NoParty
<1>2. obj[t.id] \in MapleParty /\ obj[t.id].members \in Seq(Players)
  BY <1>1 DEF TypeOK, MapleParty
<1>3. runningPartyId' = runningPartyId
  BY DEF Join, Disband, PassLead, Refresh, RemoveMember, NoParty
<1>4. task' = [task EXCEPT ![p] = task'[p]]
  BY DEF TypeOK, Join, Disband, PassLead, Refresh, RemoveMember, NoParty
<1>5. \A id \in Ids \ {t.id} : obj'[id] = obj[id]
  BY DEF TypeOK, Join, Disband, PassLead, Refresh, RemoveMember, NoParty
<1>6. task'[p].phase # "update"
  <2>1. ASSUME NEW s PROVE Notifying(t, s).phase = "notify"
    BY <1>1 DEF Notifying, Task
  <2>2. CASE RemoveMember(p)
    BY <2>1, <2>2, IdleKind DEF RemoveMember, TypeOK
  <2>3. CASE NoParty(p)
    BY <1>1, <2>3 DEF NoParty, TypeOK, Task
  <2>4. CASE Join(p) \/ Disband(p) \/ PassLead(p) \/ Refresh(p)
    BY <2>1, <2>4 DEF Join, Disband, PassLead, Refresh, TypeOK
  <2> QED BY <2>2, <2>3, <2>4
<1> QED BY <1>1, <1>2, <1>3, <1>4, <1>5, <1>6 DEF TypeOK

LEMMA NextRoom == Kinds /\ Room /\ [Next]_vars => Room'
<1> SUFFICES ASSUME Kinds, Room, [Next]_vars PROVE Room'
  OBVIOUS
<1> USE PartyAssumption
<1>0. /\ Kinds' /\ TypeOK /\ parties \subseteq Used /\ Used \subseteq Ids
      /\ task \in [Players -> Task] /\ obj \in [Ids -> MapleParty]
  BY NextKinds, UsedIds DEF Kinds, TypeOK
<1>1. ASSUME NEW p \in Players, NEW id \in Used, NEW q \in Players, NEW then \in {"stay"},
             HasRoom(id), Begin(p, Call("JOIN", id, q, then))
      PROVE  Room'
  <2>1. /\ UNCHANGED <<runningPartyId, obj>>
        /\ task' = [task EXCEPT ![p] = Call("JOIN", id, q, then)]
    BY <1>1 DEF Begin
  <2>2. Call("JOIN", id, q, then).id = id /\ Used' = Used
    BY <1>0, <2>1, CallKind DEF Used
  <2>3. ASSUME NEW i \in Used PROVE RoomOf(i)'
    <3>1. i \in Ids /\ Len(obj[i].members) \in Nat /\ PartySize \in Nat
      BY ListKind
    <3>2. CASE i = id
      <4>1. Joining(i)' \subseteq Players /\ IsFiniteSet(Players)
        BY DEF Joining
      <4>2. /\ Cardinality(Joining(i)') \in Nat /\ Cardinality(Players) \in Nat
            /\ Cardinality(Joining(i)') <= Cardinality(Players)
        BY <4>1, FS_Subset, FS_CardinalityType
      <4>3. Len(obj[i].members) < PartySize
        BY <1>1, <3>2 DEF HasRoom
      <4> QED BY <2>1, <3>1, <4>2, <4>3 DEF RoomOf
    <3>3. CASE i # id
      <4>1. Joining(i)' \subseteq Joining(i)
        <5>1. ASSUME NEW r \in Joining(i)' PROVE r \in Joining(i)
          <6>1. r # p
            BY <1>0, <2>1, <2>2, <3>3 DEF Joining
          <6> QED BY <1>0, <2>1, <6>1 DEF Joining
        <5> QED BY <5>1
      <4>2. /\ Cardinality(Joining(i)') \in Nat /\ Cardinality(Joining(i)) \in Nat
            /\ Cardinality(Joining(i)') <= Cardinality(Joining(i))
        BY <4>1, JoiningFinite, FS_Subset, FS_CardinalityType
      <4>3. RoomOf(i) /\ Cardinality(Players) \in Nat
        BY JoiningFinite DEF Room
      <4> QED BY <2>1, <3>1, <4>2, <4>3 DEF RoomOf
    <3> QED BY <3>2, <3>3
  <2> QED BY <2>2, <2>3 DEF Room
<1>2. ASSUME NEW p \in Players, NEW id, Accept(p, id) PROVE Room'
  BY <1>0, <1>1, <1>2 DEF Accept
<1>3. ASSUME NEW p \in Players, NEW q \in Players, Allow(p, q) PROVE Room'
  BY <1>0, <1>1, <1>3, PartyOfKind DEF Allow
<1>4. ASSUME NEW p \in Players, Create(p) PROVE Room'
  <2>1. /\ runningPartyId \in Ids /\ runningPartyId \notin Used /\ UNCHANGED task
        /\ Used' = Used \cup {runningPartyId}
        /\ obj' = [obj EXCEPT ![runningPartyId] = [members |-> <<p>>, leader |-> p]]
    BY <1>0, <1>4 DEF Create, Used, Ids, TypeOK
  <2>2. ASSUME NEW i \in Used PROVE RoomOf(i)'
    <3>1. obj'[i] = obj[i] /\ Joining(i)' = Joining(i)
      BY <1>0, <2>1 DEF Joining
    <3> QED BY <3>1 DEF Room, RoomOf
  <2>3. ASSUME NEW i, i = runningPartyId PROVE RoomOf(i)'
    <3>1. obj'[i].members = <<p>>
      BY <1>0, <2>1, <2>3
    <3>2. Joining(i)' = {}
      BY <2>1, <2>3 DEF Joining, Kinds
    <3>3. Cardinality(Players) \in Nat /\ Cardinality(Players) # 0 /\ PartySize \in Nat \ {0}
      BY FS_EmptySet, FS_CardinalityType
    <3>4. Cardinality({}) = 0
      BY FS_EmptySet
    <3>5. Len(obj'[i].members) = 1 /\ Cardinality(Joining(i)') = 0
      BY <3>1, <3>2, <3>4
    <3> QED BY <3>3, <3>5 DEF RoomOf
  <2>4. \A i \in Used' : RoomOf(i)'
    BY <2>1, <2>2, <2>3
  <2> QED BY <2>4 DEF Room
<1>5. ASSUME NEW p \in Players, NEW id \in Used, NEW q \in Players, NEW then \in {"stay", "clear", "unload"},
             NEW op \in {"LEAVE", "EXPEL", "DISBAND", "CHANGE_LEADER", "SILENT_UPDATE"},
             Begin(p, Call(op, id, q, then))
      PROVE  Room'
  <2>1. /\ UNCHANGED <<runningPartyId, obj>> /\ task' = [task EXCEPT ![p] = Call(op, id, q, then)]
    BY <1>5 DEF Begin
  <2>2. Call(op, id, q, then).op = op /\ Used' = Used
    BY <1>0, <2>1, CallKind DEF Used
  <2>3. \A i \in Used : Len(obj'[i].members) <= Len(obj[i].members)
    BY <2>1, ListKind
  <2> QED BY <1>0, <2>1, <2>2, <2>3, RoomKept
<1>6. ASSUME NEW p \in Players, NEW q \in Players, Expel(p, q) \/ ChangeLeader(p, q) PROVE Room'
  <2>1. PartyOf(p) \in Used
    BY <1>0, <1>6, PartyOfKind DEF Expel, ChangeLeader, Leads
  <2> QED BY <1>5, <1>6, <2>1 DEF Expel, ChangeLeader
<1>7. ASSUME NEW p \in Players, Leave(p) PROVE Room'
  BY <1>0, <1>5, <1>7, PartyOfKind DEF Leave, DisbandOrLeave
<1>8. ASSUME NEW p \in Players, SilentUpdate(p) PROVE Room'
  BY <1>0, <1>5, <1>8 DEF SilentUpdate, Kinds
<1>9. ASSUME NEW p \in Players, UNCHANGED <<runningPartyId, obj>>,
             \A q \in Players \ {p} : task'[q] = task[q],
             ~ (task'[p].phase = "update" /\ task'[p].op = "JOIN")
      PROVE  Room'
  <2>1. \A i \in Used : Len(obj'[i].members) <= Len(obj[i].members)
    BY <1>9, ListKind
  <2>2. Used' = Used
    BY <1>9 DEF Used
  <2> QED BY <1>0, <1>9, <2>1, <2>2, RoomKept
<1>10. ASSUME NEW p \in Players, Unload(p) PROVE Room'
  <2>1. /\ UNCHANGED <<runningPartyId, obj>> /\ \A q \in Players \ {p} : task'[q] = task[q]
        /\ \/ task'[p] = Idle
           \/ PartyOf(p) # None /\ task'[p] = Call(DisbandOrLeave(p), PartyOf(p), p, "unload")
    BY <1>0, <1>10 DEF Unload
  <2>2. ASSUME PartyOf(p) # None
        PROVE  Call(DisbandOrLeave(p), PartyOf(p), p, "unload").op # "JOIN"
    BY <1>0, <2>2, CallKind, PartyOfKind DEF DisbandOrLeave
  <2> QED BY <1>9, <2>1, <2>2, IdleKind
<1>11. ASSUME NEW p \in Players, Login(p) PROVE Room'
  <2>1. UNCHANGED <<runningPartyId, obj, task>>
    BY <1>11 DEF Login
  <2> QED BY <2>1 DEF Room, RoomOf, Joining, Used
<1>12. ASSUME NEW p \in Players, Notify(p) PROVE Room'
  BY <1>0, <1>9, <1>12, IdleKind DEF Notify
<1>13. ASSUME NEW p \in Players, NoParty(p) \/ Disband(p) \/ Refresh(p) PROVE Room'
  <2>1. UNCHANGED obj
    BY <1>13 DEF NoParty, Disband, Refresh
  <2> QED BY <1>0, <1>9, <1>13, <2>1, Changed
<1>14. ASSUME NEW p \in Players, PassLead(p) \/ RemoveMember(p) PROVE Room'
  <2>1. obj'[task[p].id].members \in {obj[task[p].id].members,
                                      RemoveFirst(obj[task[p].id].members, task[p].target)}
    <3>1. CASE PassLead(p)
      BY <1>0, <3>1, Changed DEF PassLead, MapleParty
    <3>2. CASE RemoveMember(p)
      <4>1. PICK lead : obj' = [obj EXCEPT ![task[p].id] =
                          [members |-> RemoveFirst(obj[task[p].id].members, task[p].target),
                           leader |-> lead]]
        BY <3>2 DEF RemoveMember
      <4> QED BY <1>0, <3>2, <4>1, Changed
    <3> QED BY <1>14, <3>1, <3>2
  <2>2. Len(obj'[task[p].id].members) <= Len(obj[task[p].id].members)
    BY <1>0, <1>14, <2>1, Changed, Removed, LenProperties
  <2>3. \A i \in Used : Len(obj'[i].members) <= Len(obj[i].members)
    BY <1>0, <1>14, <2>2, Changed, ListKind
  <2> QED BY <1>0, <1>14, <2>3, Changed, RoomKept DEF Used
<1>15. ASSUME NEW p \in Players, Join(p) PROVE Room'
  <2> DEFINE id == task[p].id
  <2>1. id \in Used /\ p \in Joining(id)
    BY <1>0, <1>15, Changed DEF Join, Joining, Kinds
  <2>2. Len(obj'[id].members) = Len(obj[id].members) + 1
    BY <1>0, <1>15, Changed, Added DEF Join
  <2>3. \A i \in Used : Joining(i)' = Joining(i) \ {p}
    BY <1>0, <1>15, Changed DEF Joining
  <2>4. ASSUME NEW i \in Used PROVE RoomOf(i)'
    <3>1. RoomOf(i) /\ Len(obj[i].members) \in Nat
      BY ListKind DEF Room
    <3>2. /\ IsFiniteSet(Joining(i)) /\ Cardinality(Joining(i)) \in Nat
          /\ Cardinality(Players) \in Nat /\ PartySize \in Nat
      BY JoiningFinite
    <3>3. /\ Cardinality(Joining(i)') \in Nat
          /\ Cardinality(Joining(i)') = IF p \in Joining(i) THEN Cardinality(Joining(i)) - 1
                                                            ELSE Cardinality(Joining(i))
      BY <2>3, <3>2, FS_RemoveElement, FS_CardinalityType
    <3>4. CASE i = id
      <4>1. Cardinality(Joining(i)') = Cardinality(Joining(i)) - 1
        BY <2>1, <3>3, <3>4
      <4>2. Len(obj'[i].members) = Len(obj[i].members) + 1
        BY <2>2, <3>4
      <4>3. Len(obj'[i].members) + Cardinality(Joining(i)') =
            Len(obj[i].members) + Cardinality(Joining(i))
        BY <3>1, <3>2, <4>1, <4>2
      <4> QED BY <3>1, <4>3 DEF RoomOf
    <3>5. CASE i # id
      <4>1. obj'[i] = obj[i]
        BY <1>0, <1>15, <3>5, Changed
      <4> QED BY <3>1, <3>2, <3>3, <4>1 DEF RoomOf
    <3> QED BY <3>4, <3>5
  <2> QED BY <1>0, <1>15, <2>4, Changed DEF Room, Used
<1>16. CASE UNCHANGED vars
  BY <1>16 DEF vars, Room, RoomOf, Joining, Used
<1> QED
  BY <1>2, <1>3, <1>4, <1>6, <1>7, <1>8, <1>10, <1>11, <1>12, <1>13, <1>14, <1>15, <1>16
  DEF Next, Handler, Step, Disconnect, Kick

\* Whatever the interleaving, a party outgrows its size by fewer members than there are
\* sessions: one that has seen room adds one member and no more.
THEOREM BoundedOvershoot == Spec => []Overshoot
<1>1. Init => Room
  BY PartyAssumption DEF Init, Room, Used
<1>2. Kinds /\ Room => Overshoot
  <2> SUFFICES ASSUME Kinds, Room, NEW id \in parties
               PROVE  Len(obj[id].members) < PartySize + Cardinality(Players)
    BY DEF Overshoot
  <2>1. id \in Used /\ RoomOf(id) /\ Len(obj[id].members) \in Nat
    BY UsedIds, ListKind DEF Kinds, Room
  <2>2. PartySize \in Nat /\ Cardinality(Players) \in Nat /\ Cardinality(Joining(id)) \in Nat
    BY JoiningFinite, PartyAssumption
  <2> QED BY <2>1, <2>2 DEF RoomOf
<1> QED BY InitKinds, NextKinds, NextRoom, <1>1, <1>2, PTL DEF Spec
-----------------------------------------------------------------------------
(* Who acts on whom.  The check that a session leads its party is not stale *)
(* when updateParty runs: nobody but that session can pass the lead on.     *)

Acting == \A p \in Players :
  task[p].phase = "update" /\ task[p].id \in parties =>
    /\ task[p].op \in {"EXPEL", "DISBAND", "CHANGE_LEADER"} => obj[task[p].id].leader = p
    /\ task[p].op = "LEAVE" => task[p].target = p

\* What updateParty does to the parties of others, and to their lists.
ActsFor(p) ==
  \A id \in parties : obj[id].leader # p =>
    /\ id \in parties' /\ obj'[id].leader = obj[id].leader
    /\ Members(id) \ Members(id)' \subseteq {p}

LEMMA UpdateActs ==
  ASSUME Kinds, Acting, NEW p \in Players,
         Join(p) \/ Disband(p) \/ PassLead(p) \/ Refresh(p) \/ RemoveMember(p) \/ NoParty(p)
  PROVE  ActsFor(p)
<1>0. TypeOK /\ parties \subseteq Ids /\ obj \in [Ids -> MapleParty]
  BY UsedIds DEF Kinds, TypeOK
<1> SUFFICES ASSUME NEW id \in parties, obj[id].leader # p
             PROVE  /\ id \in parties' /\ obj'[id].leader = obj[id].leader
                    /\ Members(id) \ Members(id)' \subseteq {p}
  BY DEF ActsFor
<1>1. CASE id # task[p].id
  <2>1. obj'[id] = obj[id]
    BY <1>0, <1>1, Changed
  <2>2. id \in parties'
    BY <1>1 DEF Join, Disband, PassLead, Refresh, RemoveMember, NoParty
  <2> QED BY <2>1, <2>2 DEF Members
<1>2. CASE id = task[p].id
  <2>1. task[p].phase = "update" /\ task[p].op \notin {"EXPEL", "DISBAND", "CHANGE_LEADER"}
    BY <1>0, <1>2, Changed DEF Acting
  <2>2. obj[id] \in MapleParty /\ obj[id].members \in Seq(Players)
    BY <1>0 DEF MapleParty
  <2>3. CASE Refresh(p) \/ NoParty(p)
    BY <2>3 DEF Refresh, NoParty, Members
  <2>4. CASE Join(p)
    <3>1. parties' = parties /\ obj' = [obj EXCEPT ![id].members = Append(obj[id].members, task[p].target)]
      BY <1>2, <2>4 DEF Join
    <3>2. ToSet(obj[id].members) \subseteq ToSet(Append(obj[id].members, task[p].target))
      BY <1>0, <2>2, <2>4, Added, Changed
    <3> QED BY <1>0, <2>2, <3>1, <3>2 DEF Members, MapleParty
  <2>5. CASE RemoveMember(p)
    <3>1. task[p].target = p /\ parties' = parties
      BY <1>2, <2>1, <2>5 DEF Acting, RemoveMember
    <3>2. obj' = [obj EXCEPT ![id] = [members |-> RemoveFirst(obj[id].members, p),
                                      leader |-> obj[id].leader]]
      BY <1>2, <2>5, <3>1 DEF RemoveMember
    <3>3. ToSet(obj[id].members) \ {p} \subseteq ToSet(RemoveFirst(obj[id].members, p))
      BY <2>2, Removed
    <3> QED BY <1>0, <3>1, <3>2, <3>3 DEF Members
  <2>6. CASE Disband(p) \/ PassLead(p)
    BY <2>1, <2>6 DEF Disband, PassLead
  <2> QED BY <2>3, <2>4, <2>5, <2>6
<1> QED BY <1>1, <1>2

\* A session that begins nothing it is not entitled to, while the parties stay.
LEMMA ActingKept ==
  ASSUME Kinds, Acting, NEW p \in Players, UNCHANGED <<parties, obj>>,
         \A q \in Players \ {p} : task'[q] = task[q],
         task'[p].phase = "update" /\ task'[p].id \in parties =>
           /\ task'[p].op \in {"EXPEL", "DISBAND", "CHANGE_LEADER"} => obj[task'[p].id].leader = p
           /\ task'[p].op = "LEAVE" => task'[p].target = p
  PROVE  Acting'
BY DEF Acting

LEMMA NextActing == Kinds /\ Acting /\ [Next]_vars => Acting'
<1> SUFFICES ASSUME Kinds, Acting, [Next]_vars PROVE Acting'
  OBVIOUS
<1>0. /\ TypeOK /\ parties \subseteq Used /\ Used \subseteq Ids /\ task \in [Players -> Task]
      /\ obj \in [Ids -> MapleParty]
  BY UsedIds DEF Kinds, TypeOK
<1>1. ASSUME NEW p \in Players, NEW id \in Used, NEW q \in Players, NEW then \in {"stay", "clear", "unload"},
             NEW op \in {"JOIN", "LEAVE", "EXPEL", "DISBAND", "CHANGE_LEADER", "SILENT_UPDATE"},
             op \in {"EXPEL", "DISBAND", "CHANGE_LEADER"} => obj[id].leader = p,
             op = "LEAVE" => q = p, UNCHANGED <<parties, obj>>,
             task' = [task EXCEPT ![p] = Call(op, id, q, then)]
      PROVE  Acting'
  <2>1. task'[p] = Call(op, id, q, then) /\ \A r \in Players \ {p} : task'[r] = task[r]
    BY <1>0, <1>1
  <2>2. task'[p].op = op /\ task'[p].id = id /\ task'[p].target = q
    BY <1>0, <2>1, CallKind
  <2> QED BY <1>1, <2>1, <2>2, ActingKept
<1>2. ASSUME NEW p \in Players, PartyOf(p) # None, NEW then \in {"clear", "unload"},
             UNCHANGED <<parties, obj>>,
             task' = [task EXCEPT ![p] = Call(DisbandOrLeave(p), PartyOf(p), p, then)]
      PROVE  Acting'
  <2>1. PartyOf(p) \in Used /\ (DisbandOrLeave(p) = "DISBAND" => obj[PartyOf(p)].leader = p)
    BY <1>0, <1>2, PartyOfKind, PartyAssumption DEF DisbandOrLeave, GetLeader
  <2>2. DisbandOrLeave(p) \in {"LEAVE", "DISBAND"}
    BY DEF DisbandOrLeave
  <2> QED BY <1>1, <1>2, <2>1, <2>2
<1>3. ASSUME NEW p \in Players, Leave(p) PROVE Acting'
  BY <1>2, <1>3 DEF Leave, Begin
<1>4. ASSUME NEW p \in Players, NEW q \in Players, Expel(p, q) \/ ChangeLeader(p, q) PROVE Acting'
  <2>1. PartyOf(p) \in Used /\ obj[PartyOf(p)].leader = p
    BY <1>0, <1>4, PartyOfKind, PartyAssumption DEF Expel, ChangeLeader, Leads, GetLeader
  <2> QED BY <1>1, <1>4, <2>1 DEF Expel, ChangeLeader, Begin
<1>5. ASSUME NEW p \in Players, NEW id \in Ids, Accept(p, id) PROVE Acting'
  BY <1>0, <1>1, <1>5 DEF Accept, Begin
<1>6. ASSUME NEW p \in Players, NEW q \in Players, Allow(p, q) PROVE Acting'
  BY <1>0, <1>1, <1>6, PartyOfKind DEF Allow, Begin
<1>7. ASSUME NEW p \in Players, SilentUpdate(p) PROVE Acting'
  BY <1>0, <1>1, <1>7 DEF SilentUpdate, Begin, Kinds
<1>8. ASSUME NEW p \in Players, Unload(p) PROVE Acting'
  <2>1. CASE PartyOf(p) # None /\ task' = [task EXCEPT ![p] = Call(DisbandOrLeave(p), PartyOf(p), p, "unload")]
    BY <1>2, <1>8, <2>1 DEF Unload
  <2>2. CASE task' = [task EXCEPT ![p] = Idle]
    BY <1>0, <1>8, <2>2, IdleKind, ActingKept DEF Unload
  <2> QED BY <1>8, <2>1, <2>2 DEF Unload
<1>9. ASSUME NEW p \in Players, Login(p) PROVE Acting'
  BY <1>9 DEF Login, Acting
<1>10. ASSUME NEW p \in Players, Notify(p) PROVE Acting'
  BY <1>0, <1>10, IdleKind, ActingKept DEF Notify
<1>11. ASSUME NEW p \in Players, Create(p) PROVE Acting'
  <2>1. /\ runningPartyId \in Ids /\ runningPartyId \notin Used /\ UNCHANGED task
        /\ parties' = parties \cup {runningPartyId}
        /\ obj' = [obj EXCEPT ![runningPartyId] = [members |-> <<p>>, leader |-> p]]
    BY <1>0, <1>11 DEF Create, Used, Ids, TypeOK
  <2>2. ASSUME NEW q \in Players, task[q].phase = "update", task[q].id \in parties'
        PROVE  task[q].id \in parties /\ obj'[task[q].id] = obj[task[q].id]
    BY <1>0, <2>1, <2>2 DEF Kinds
  <2> QED BY <2>1, <2>2 DEF Acting
<1>12. ASSUME NEW p \in Players,
              Join(p) \/ Disband(p) \/ PassLead(p) \/ Refresh(p) \/ RemoveMember(p) \/ NoParty(p)
       PROVE  Acting'
  <2>1. ActsFor(p) /\ task'[p].phase # "update" /\ \A q \in Players \ {p} : task'[q] = task[q]
    BY <1>0, <1>12, UpdateActs, Changed
  <2>2. parties' \subseteq parties
    BY <1>12 DEF Join, Disband, PassLead, Refresh, RemoveMember, NoParty
  <2> QED BY <2>1, <2>2 DEF Acting, ActsFor
<1>13. CASE UNCHANGED vars
  BY <1>13 DEF vars, Acting
<1> QED
  BY <1>3, <1>4, <1>5, <1>6, <1>7, <1>8, <1>9, <1>10, <1>11, <1>12, <1>13
  DEF Next, Handler, Step, Disconnect, Kick

\* However the sessions interleave, and however stale the check that a session leads its
\* party: it takes only its own player out of a party led by another, and neither disbands
\* that party nor changes its leader.
THEOREM LeadersAct == Spec => OnlyLeaderActs
<1>1. Init => Acting
  BY IdleKind DEF Init, Acting
<1>2. Kinds /\ Acting /\ [Next]_vars => [LeaderStep]_vars
  <2> SUFFICES ASSUME Kinds, Acting, Next PROVE LeaderStep
    OBVIOUS
  <2>0. TypeOK /\ task \in [Players -> Task]
    BY DEF Kinds, TypeOK
  <2>2. ASSUME UNCHANGED <<parties, obj>> PROVE LeaderStep
    BY <2>2 DEF LeaderStep, Members
  <2>3. ASSUME UNCHANGED task PROVE LeaderStep
    BY <2>3 DEF LeaderStep
  <2>4. ASSUME NEW p \in Players,
               Join(p) \/ Disband(p) \/ PassLead(p) \/ Refresh(p) \/ RemoveMember(p) \/ NoParty(p)
        PROVE  LeaderStep
    <3>1. ActsFor(p) /\ \A q \in Players \ {p} : task'[q] = task[q]
      BY <2>0, <2>4, UpdateActs, Changed
    <3> QED BY <3>1 DEF ActsFor, LeaderStep
  <2>5. ASSUME NEW p \in Players, Handler(p) \/ Kick(p) \/ Notify(p) PROVE LeaderStep
    <3>1. (UNCHANGED <<parties, obj>>) \/ UNCHANGED task
      BY <2>5 DEF Handler, Kick, Notify, Create, Leave, SilentUpdate, Disconnect, Login, Accept,
                  Allow, Expel, ChangeLeader, Begin, Unload
    <3> QED BY <2>2, <2>3, <3>1
  <2> QED BY <2>2, <2>4, <2>5 DEF Next, Step
<1> QED BY InitKinds, NextKinds, NextActing, <1>1, <1>2, PTL DEF Spec, OnlyLeaderActs
=============================================================================
