----------------------------- MODULE TradeProofs -----------------------------
(* Theorems about Trade, for any number of players, items, slots and mesos. *)
EXTENDS Trade, TLAPS

\* Objects f and g have the same owners and the same links.
SameLinks(f, g) ==
  \A s \in TradeIds : f[s].chr = g[s].chr /\ f[s].partner = g[s].partner

\* Replacing one object by one of the same owner and partner.
LEMMA Update ==
  ASSUME NEW f \in [TradeIds -> MapleTrade], NEW t \in TradeIds,
         NEW o \in MapleTrade, o.chr = f[t].chr, o.partner = f[t].partner
  PROVE  /\ [f EXCEPT ![t] = o] \in [TradeIds -> MapleTrade]
         /\ SameLinks([f EXCEPT ![t] = o], f)
BY DEF SameLinks

\* The fields a handler sets on an object it leaves linked as it was.
LEMMA Fields ==
  ASSUME NEW o \in MapleTrade, NEW S \in SUBSET Items, NEW n \in Nat
  PROVE  /\ [o EXCEPT !.locked = TRUE] \in MapleTrade
         /\ [o EXCEPT !.locked = TRUE].chr = o.chr
         /\ [o EXCEPT !.locked = TRUE].partner = o.partner
         /\ [o EXCEPT !.inTrade = TRUE] \in MapleTrade
         /\ [o EXCEPT !.inTrade = TRUE].chr = o.chr
         /\ [o EXCEPT !.inTrade = TRUE].partner = o.partner
         /\ [o EXCEPT !.xItems = S, !.xMeso = n] \in MapleTrade
         /\ [o EXCEPT !.xItems = S, !.xMeso = n].chr = o.chr
         /\ [o EXCEPT !.xItems = S, !.xMeso = n].partner = o.partner
BY DEF MapleTrade

\* What a cancelled trade gives back is well typed, and the objects keep
\* everything but their offer.
LEMMA RefundLemma ==
  ASSUME TypeOK, TradeAssumption,
         NEW T \in SUBSET TradeIds, NEW objs \in [TradeIds -> MapleTrade],
         Refund(T, objs)
  PROVE  /\ inv' \in [Players -> SUBSET Items]
         /\ purse' \in [Players -> Meso]
         /\ bank' \in [Players -> Nat]
         /\ lost' \subseteq Items
         /\ obj' \in [TradeIds -> MapleTrade]
         /\ SameLinks(obj', objs)
         /\ \A t \in TradeIds : t \notin T => obj'[t] = objs[t]
<1>1. PICK kept \in [T -> SUBSET Items] :
        /\ inv' = [p \in Players |->
                     inv[p] \cup UNION {kept[t] : t \in {s \in T : obj[s].chr = p}}]
        /\ lost' = lost \cup UNION {obj[t].items \ kept[t] : t \in T}
        /\ purse' = [p \in Players |-> PurseAfter(p, MesoDue(T, p))]
        /\ bank' = [p \in Players |-> BankAfter(p, MesoDue(T, p))]
        /\ obj' = [t \in TradeIds |->
                     IF t \in T THEN [objs[t] EXCEPT !.items = {}, !.meso = 0] ELSE objs[t]]
  BY DEF Refund
<1>2. inv' \in [Players -> SUBSET Items]
  <2>1. ASSUME NEW p \in Players
        PROVE  UNION {kept[t] : t \in {s \in T : obj[s].chr = p}} \subseteq Items
    OBVIOUS
  <2>2. QED BY <1>1, <2>1 DEF TypeOK
<1>3. ASSUME NEW p \in Players PROVE MesoDue(T, p) \in Nat
  <2>1. CASE \E t \in T : obj[t].chr = p
    <3>1. (CHOOSE t \in T : obj[t].chr = p) \in T
      BY <2>1
    <3>2. QED BY <2>1, <3>1 DEF MesoDue, TypeOK, MapleTrade
  <2>2. CASE ~ \E t \in T : obj[t].chr = p
    BY <2>2 DEF MesoDue
  <2>3. QED BY <2>1, <2>2
<1>4. purse' \in [Players -> Meso]
  <2>1. ASSUME NEW p \in Players PROVE PurseAfter(p, MesoDue(T, p)) \in Meso
    BY <1>3 DEF PurseAfter, TypeOK, Meso, TradeAssumption
  <2>2. QED BY <1>1, <2>1
<1>5. bank' \in [Players -> Nat]
  <2>1. ASSUME NEW p \in Players PROVE BankAfter(p, MesoDue(T, p)) \in Nat
    BY <1>3 DEF BankAfter, TypeOK
  <2>2. QED BY <1>1, <2>1
<1>6. lost' \subseteq Items
  <2>1. ASSUME NEW t \in T PROVE obj[t].items \subseteq Items
    BY DEF TypeOK, MapleTrade
  <2>2. lost \subseteq Items
    BY DEF TypeOK
  <2>3. QED BY <1>1, <2>1, <2>2
<1>7. /\ obj' \in [TradeIds -> MapleTrade]
      /\ SameLinks(obj', objs)
      /\ \A t \in TradeIds : t \notin T => obj'[t] = objs[t]
  <2>1. ASSUME NEW t \in TradeIds
        PROVE  [objs[t] EXCEPT !.items = {}, !.meso = 0] \in MapleTrade
    BY DEF MapleTrade
  <2>2. QED BY <1>1, <2>1 DEF MapleTrade, SameLinks
<1>8. QED BY <1>2, <1>4, <1>5, <1>6, <1>7

\* While owners and links stay, characters may leave their trades.
LEMMA LeaveTypeOK ==
  ASSUME TypeOK, NEW C, Leave(C) \/ trade' = trade,
         obj' \in [TradeIds -> MapleTrade], SameLinks(obj', obj),
         inv' \in [Players -> SUBSET Items], purse' \in [Players -> Meso],
         bank' \in [Players -> Nat], lost' \subseteq Items,
         ground' \subseteq Items, etc' \subseteq Items, eaten' \subseteq Items,
         online' \subseteq Players, earned' \in 0 .. MaxEarned
  PROVE  TypeOK'
<1>1. trade' \in [Players -> TradeIds \cup {None}]
  BY DEF Leave, TypeOK
<1>2. \A p \in Players : trade'[p] \in {trade[p], None}
  BY DEF Leave, TypeOK
<1>3. \A p \in Players : trade'[p] # None => obj'[trade'[p]].chr = p
  BY <1>2 DEF TypeOK, SameLinks
<1>4. ASSUME NEW t \in TradeIds, obj'[t].partner # None
      PROVE  obj'[obj'[t].partner].chr # None
  <2>1. obj[t].partner \in TradeIds
    BY <1>4 DEF TypeOK, MapleTrade, SameLinks
  <2>2. QED BY <1>4, <2>1 DEF TypeOK, SameLinks
<1>5. QED BY <1>1, <1>3, <1>4 DEF TypeOK, Meso

\* A cancelled trade preserves the type invariant, whoever leaves its trade.
LEMMA CancelTypeOK ==
  ASSUME TypeOK, TradeAssumption,
         NEW T \in SUBSET TradeIds, NEW objs \in [TradeIds -> MapleTrade],
         NEW C, Refund(T, objs), Leave(C),
         SameLinks(objs, obj),
         ground' \subseteq Items, etc' \subseteq Items, eaten' \subseteq Items,
         online' \subseteq Players, earned' \in 0 .. MaxEarned
  PROVE  TypeOK'
<1>1. /\ inv' \in [Players -> SUBSET Items]
      /\ purse' \in [Players -> Meso]
      /\ bank' \in [Players -> Nat]
      /\ lost' \subseteq Items
      /\ obj' \in [TradeIds -> MapleTrade]
      /\ SameLinks(obj', objs)
  BY RefundLemma
<1>2. SameLinks(obj', obj)
  BY <1>1 DEF SameLinks
<1>3. QED BY <1>1, <1>2, LeaveTypeOK DEF TypeOK

\* completeTrade's copy keeps the table of objects well typed and linked.
LEMMA OfferedType ==
  ASSUME TypeOK, NEW t \in TradeIds, NEW u \in TradeIds
  PROVE  Offered(t, u) \in [TradeIds -> MapleTrade] /\ SameLinks(Offered(t, u), obj)
<1>1. obj \in [TradeIds -> MapleTrade]
  BY DEF TypeOK
<1>2. obj[t].items \in SUBSET Items /\ obj[t].meso \in Nat
  BY <1>1 DEF MapleTrade
<1> DEFINE o1 == [obj[t] EXCEPT !.locked = TRUE]
           A  == [obj EXCEPT ![t] = o1]
           o2 == [A[u] EXCEPT !.xItems = obj[t].items, !.xMeso = obj[t].meso]
<1>3. o1 \in MapleTrade /\ o1.chr = obj[t].chr /\ o1.partner = obj[t].partner
  BY <1>1, <1>2, Fields
<1>4. A \in [TradeIds -> MapleTrade] /\ SameLinks(A, obj)
  BY <1>1, <1>3, Update
<1>5. A[u] \in MapleTrade
  BY <1>4
<1>6. o2 \in MapleTrade /\ o2.chr = A[u].chr /\ o2.partner = A[u].partner
  <2> HIDE DEF A
  <2>1. QED BY <1>2, <1>5, Fields
<1>7. /\ [A EXCEPT ![u] = o2] \in [TradeIds -> MapleTrade]
      /\ SameLinks([A EXCEPT ![u] = o2], A)
  <2> HIDE DEF A, o2
  <2>1. QED BY <1>4, <1>6, Update
<1>8. Offered(t, u) = [A EXCEPT ![u] = o2]
  BY <1>1 DEF Offered
<1>9. QED
  <2> HIDE DEF A, o2
  <2>1. QED BY <1>4, <1>7, <1>8 DEF SameLinks

\* The copy leaves the offers alone.
LEMMA OfferedOffers ==
  ASSUME TypeOK, NEW t \in TradeIds, NEW u \in TradeIds
  PROVE  \A s \in TradeIds : /\ Offered(t, u)[s].items = obj[s].items
                             /\ Offered(t, u)[s].meso = obj[s].meso
BY DEF Offered, TypeOK, MapleTrade

\* Completing a trade does not clear the offers either.
LEMMA CompletedOffers ==
  ASSUME TypeOK, NEW t \in TradeIds, NEW u \in TradeIds, CompleteTrade(t, u)
  PROVE  \A s \in TradeIds : obj'[s].items = obj[s].items /\ obj'[s].meso = obj[s].meso
<1> DEFINE A == Offered(t, u)
<1>1. A \in [TradeIds -> MapleTrade]
  BY OfferedType
<1>2. \A s \in TradeIds : A[s].items = obj[s].items /\ A[s].meso = obj[s].meso
  BY OfferedOffers
<1>3. obj' = [A EXCEPT ![t].xItems = {}, ![t].xMeso = 0, ![u].xItems = {}, ![u].xMeso = 0]
  BY DEF CompleteTrade
<1>4. QED
  <2> HIDE DEF A
  <2>1. QED BY <1>1, <1>2, <1>3 DEF MapleTrade

\* A completed trade preserves the type invariant.
LEMMA CompleteTypeOK ==
  ASSUME TypeOK, TradeAssumption, NEW t \in TradeIds, NEW u \in TradeIds,
         CompleteTrade(t, u), Leave(BothSides(t, u)),
         UNCHANGED <<ground, etc, online, earned>>
  PROVE  TypeOK'
<1> DEFINE p == obj[t].chr
           q == obj[u].chr
<1>1. obj[t] \in MapleTrade /\ obj[u] \in MapleTrade
  BY DEF TypeOK
<1>2. inv' \in [Players -> SUBSET Items] /\ eaten' \subseteq Items
  <2>1. PICK gone \in SUBSET (Buffs \cap (obj[t].xItems \cup obj[t].items)) :
          /\ inv' = [inv EXCEPT ![p] = @ \cup (obj[t].xItems \ gone),
                                ![q] = @ \cup (obj[t].items \ gone)]
          /\ eaten' = eaten \cup gone
    BY DEF CompleteTrade
  <2>2. QED BY <1>1, <2>1 DEF TypeOK, MapleTrade, TradeAssumption
<1>3. ASSUME NEW r \in Players, NEW m \in Nat
      PROVE  PurseAfter(r, m) \in Meso /\ BankAfter(r, m) \in Nat
  BY DEF PurseAfter, BankAfter, Meso, TypeOK, TradeAssumption
<1>4. purse' \in [Players -> Meso]
  <2>1. purse' = [purse EXCEPT ![p] = PurseAfter(p, obj[t].xMeso), ![q] = PurseAfter(q, obj[t].meso)]
    BY DEF CompleteTrade
  <2>2. QED BY <1>1, <1>3, <2>1 DEF TypeOK, MapleTrade
<1>5. bank' \in [Players -> Nat]
  <2>1. bank' = [bank EXCEPT ![p] = BankAfter(p, obj[t].xMeso), ![q] = BankAfter(q, obj[t].meso)]
    BY DEF CompleteTrade
  <2>2. QED BY <1>1, <1>3, <2>1 DEF TypeOK, MapleTrade
<1>6. obj' \in [TradeIds -> MapleTrade] /\ SameLinks(obj', obj)
  <2> DEFINE A == Offered(t, u)
             o1 == [A[t] EXCEPT !.xItems = {}, !.xMeso = 0]
             B == [A EXCEPT ![t] = o1]
             o2 == [B[u] EXCEPT !.xItems = {}, !.xMeso = 0]
  <2>1. A \in [TradeIds -> MapleTrade] /\ SameLinks(A, obj)
    BY OfferedType
  <2>2. o1 \in MapleTrade /\ o1.chr = A[t].chr /\ o1.partner = A[t].partner
    <3> HIDE DEF A
    <3>1. A[t] \in MapleTrade /\ {} \in SUBSET Items /\ 0 \in Nat
      BY <2>1
    <3>2. QED BY <3>1 DEF MapleTrade
  <2>3. B \in [TradeIds -> MapleTrade] /\ SameLinks(B, A)
    <3> HIDE DEF A, o1
    <3>1. QED BY <2>1, <2>2, Update
  <2>4. o2 \in MapleTrade /\ o2.chr = B[u].chr /\ o2.partner = B[u].partner
    <3> HIDE DEF B
    <3>1. B[u] \in MapleTrade /\ {} \in SUBSET Items /\ 0 \in Nat
      BY <2>3
    <3>2. QED BY <3>1 DEF MapleTrade
  <2>5. [B EXCEPT ![u] = o2] \in [TradeIds -> MapleTrade] /\ SameLinks([B EXCEPT ![u] = o2], B)
    <3> HIDE DEF B, o2
    <3>1. QED BY <2>3, <2>4, Update
  <2>6. obj' = [B EXCEPT ![u] = o2]
    <3>1. obj' = [A EXCEPT ![t].xItems = {}, ![t].xMeso = 0, ![u].xItems = {}, ![u].xMeso = 0]
      BY DEF CompleteTrade
    <3> HIDE DEF A
    <3>2. QED BY <2>1, <3>1
  <2>7. QED
    <3> HIDE DEF A, B, o2
    <3>1. QED BY <2>1, <2>3, <2>5, <2>6 DEF SameLinks
<1>7. UNCHANGED lost
  BY DEF CompleteTrade
<1>8. QED BY <1>2, <1>4, <1>5, <1>6, <1>7, LeaveTypeOK DEF TypeOK

\* Every reachable state is well typed, and a character's trade is its own.
LEMMA InitTypeOK == Init => TypeOK
<1> USE TradeAssumption
<1> SUFFICES ASSUME Init PROVE TypeOK
  OBVIOUS
<1>1. Blank \in MapleTrade /\ Blank.partner = None
  BY DEF Blank, MapleTrade
<1>2. inv \in [Players -> SUBSET Items]
  BY DEF Init
<1>3. ground \subseteq Items
  BY DEF Init
<1>4. earned \in 0 .. MaxEarned
  BY DEF Init
<1>5. QED BY <1>1, <1>2, <1>3, <1>4 DEF Init, TypeOK, Meso

\* declineTrade cancels objects in use only.
LEMMA DeclinedTrades ==
  ASSUME TypeOK, TradeAssumption, NEW p \in Players, DeclineTrade(p)
  PROVE  {trade[p]} \cup ({trade[obj[u].chr] : u \in Partner(trade[p])} \ {None})
           \in SUBSET TradeIds
<1>1. trade[p] \in TradeIds
  BY DEF DeclineTrade, TypeOK
<1>2. ASSUME NEW u \in Partner(trade[p]) PROVE obj[u].chr \in Players
  BY <1>1, <1>2 DEF TypeOK, Partner, MapleTrade
<1>3. ASSUME NEW u \in Partner(trade[p]) PROVE trade[obj[u].chr] \in TradeIds \cup {None}
  BY <1>2, <1>3 DEF TypeOK
<1>4. QED BY <1>1, <1>3

\* Every handler preserves the type invariant.
LEMMA NextTypeOK == TypeOK /\ [Next]_vars => TypeOK'
<1> USE TradeAssumption
<1> SUFFICES ASSUME TypeOK, [Next]_vars PROVE TypeOK'
  OBVIOUS
<1>1. ASSUME NEW p \in Players, StartTrade(p) PROVE TypeOK'
  <2>1. PICK t \in TradeIds : /\ Unused(t)
                              /\ obj' = [obj EXCEPT ![t] = Fresh(p, None)]
                              /\ trade' = [trade EXCEPT ![p] = t]
    BY <1>1 DEF StartTrade
  <2>2. /\ Fresh(p, None) \in MapleTrade
        /\ Fresh(p, None).chr = p /\ Fresh(p, None).partner = None
    BY DEF Fresh, Blank, MapleTrade
  <2>3. \A s \in TradeIds : obj'[s].partner # None => obj'[obj'[s].partner].chr # None
    BY <2>1, <2>2 DEF TypeOK, MapleTrade, TradeAssumption
  <2>4. QED BY <1>1, <2>1, <2>2, <2>3 DEF StartTrade, Unused, TypeOK, world
<1>2. ASSUME NEW p \in Players, NEW q \in Players, InviteTrade(p, q) PROVE TypeOK'
  <2>1. PICK t \in TradeIds :
          /\ Unused(t)
          /\ obj' = IF obj[trade[p]].locked
                    THEN [obj EXCEPT ![t] = Fresh(q, trade[p])]
                    ELSE [obj EXCEPT ![t] = Fresh(q, trade[p]), ![trade[p]].partner = t]
          /\ trade' = [trade EXCEPT ![q] = t]
    BY <1>2 DEF InviteTrade
  <2>2. trade[p] \in TradeIds /\ trade[p] # t /\ p # q
    BY <1>2, <2>1 DEF InviteTrade, Unused, TypeOK
  <2>3. Fresh(q, trade[p]) \in MapleTrade /\ Fresh(q, trade[p]).chr = q
    BY <2>2 DEF Fresh, Blank, MapleTrade
  <2>4. [obj[trade[p]] EXCEPT !.partner = t] \in MapleTrade
    BY <2>2 DEF MapleTrade, TypeOK
  <2>5. obj' \in [TradeIds -> MapleTrade]
    BY <2>1, <2>2, <2>3, <2>4 DEF TypeOK
  <2>6. \A s \in TradeIds \ {t} : obj'[s].chr = obj[s].chr
    BY <2>1, <2>2 DEF TypeOK, MapleTrade
  <2>7. obj'[t].chr = q /\ obj'[t].partner = trade[p]
    BY <2>1, <2>2, <2>3 DEF TypeOK, Fresh, Blank
  <2>8. \A s \in TradeIds \ {t} : obj'[s].partner \in {obj[s].partner, t}
    BY <2>1, <2>2 DEF TypeOK, MapleTrade
  <2>9. \A s \in TradeIds : obj'[s].partner # None => obj'[obj'[s].partner].chr # None
    BY <2>2, <2>5, <2>6, <2>7, <2>8 DEF TypeOK, MapleTrade, TradeAssumption
  <2>10. trade' \in [Players -> TradeIds \cup {None}]
    BY <2>1 DEF TypeOK
  <2>11. \A r \in Players : trade'[r] # None => obj'[trade'[r]].chr = r
    BY <2>1, <2>6, <2>7 DEF Unused, TypeOK
  <2>12. QED BY <1>2, <2>5, <2>9, <2>10, <2>11 DEF InviteTrade, TypeOK, world
<1>3. ASSUME NEW p \in Players, VisitTrade(p) PROVE TypeOK'
  <2>1. /\ trade[p] \in TradeIds
        /\ obj' = [obj EXCEPT ![trade[p]].inTrade = TRUE]
    BY <1>3 DEF VisitTrade, TypeOK
  <2> DEFINE o == [obj[trade[p]] EXCEPT !.inTrade = TRUE]
  <2>2. o \in MapleTrade /\ o.chr = obj[trade[p]].chr /\ o.partner = obj[trade[p]].partner
    BY <2>1, Fields DEF TypeOK
  <2>3. obj' = [obj EXCEPT ![trade[p]] = o]
    BY <2>1
  <2>4. obj' \in [TradeIds -> MapleTrade] /\ SameLinks(obj', obj)
    <3> HIDE DEF o
    <3>1. obj \in [TradeIds -> MapleTrade]
      BY DEF TypeOK
    <3> DEFINE t == trade[p]
    <3>2. t \in TradeIds /\ o.chr = obj[t].chr /\ o.partner = obj[t].partner
      BY <2>1, <2>2
    <3>3. obj' = [obj EXCEPT ![t] = o]
      BY <2>3
    <3> HIDE DEF t
    <3>4. /\ [obj EXCEPT ![t] = o] \in [TradeIds -> MapleTrade]
          /\ SameLinks([obj EXCEPT ![t] = o], obj)
      BY <3>1, <3>2, <2>2, Update
    <3>5. QED BY <3>3, <3>4
  <2>5. QED BY <1>3, <2>4, LeaveTypeOK DEF VisitTrade, TypeOK, world
<1>4. ASSUME NEW p \in Players, DeclineTrade(p) PROVE TypeOK'
  <2> DEFINE t == trade[p]
             T == {t} \cup ({trade[obj[u].chr] : u \in Partner(t)} \ {None})
  <2>1. T \in SUBSET TradeIds
    BY <1>4, DeclinedTrades
  <2>2. Refund(T, obj) /\ Leave(Owners(T))
    BY <1>4 DEF DeclineTrade
  <2>3. UNCHANGED <<ground, etc, online, earned, eaten>>
    BY <1>4 DEF DeclineTrade, world
  <2>4. QED BY <2>1, <2>2, <2>3, CancelTypeOK DEF TypeOK, SameLinks
<1>5. ASSUME NEW p \in Players, Confirm(p) PROVE TypeOK'
  <2> DEFINE t == trade[p]
             u == obj[t].partner
  <2>1. t \in TradeIds /\ u \in TradeIds
    BY <1>5 DEF Confirm, TypeOK, MapleTrade
  <2>2. UNCHANGED <<ground, etc, online, earned>>
    BY <1>5 DEF Confirm, world
  <2>3. Offered(t, u) \in [TradeIds -> MapleTrade] /\ SameLinks(Offered(t, u), obj)
    BY <2>1, OfferedType
  <2>4. CASE CompleteTrade(t, u) /\ Leave(BothSides(t, u))
    BY <2>1, <2>2, <2>4, CompleteTypeOK
  <2>5. CASE RejectTrade(t, u) /\ Leave(BothSides(t, u))
    BY <2>1, <2>2, <2>3, <2>5, CancelTypeOK DEF RejectTrade, TypeOK
  <2>6. CASE obj' = Offered(t, u) /\ UNCHANGED <<inv, purse, bank, trade, lost, eaten>>
    BY <2>2, <2>3, <2>6, LeaveTypeOK DEF TypeOK
  <2>7. QED BY <1>5, <2>4, <2>5, <2>6 DEF Confirm
<1>6. ASSUME NEW p \in Players, Exit(p) PROVE TypeOK'
  <2>1. trade[p] \in TradeIds /\ CancelTrade(p)
    BY <1>6 DEF Exit, TypeOK
  <2>2. UNCHANGED <<ground, etc, online, earned, eaten>>
    BY <1>6 DEF Exit, world
  <2>3. {trade[p]} \cup Partner(trade[p]) \in SUBSET TradeIds
    BY <2>1 DEF Partner, TypeOK, MapleTrade
  <2>4. QED BY <2>1, <2>2, <2>3, CancelTypeOK DEF CancelTrade, TypeOK, SameLinks
<1>7. ASSUME NEW p \in Players, Disconnect(p) PROVE TypeOK'
  <2>1. UNCHANGED <<ground, etc, earned, eaten>> /\ online' \subseteq Players
    BY <1>7 DEF Disconnect, TypeOK
  <2>2. CASE trade[p] = None
    BY <1>7, <2>1, <2>2 DEF Disconnect, TypeOK
  <2>3. CASE trade[p] # None
    <3>1. trade[p] \in TradeIds /\ CancelTrade(p)
      BY <1>7, <2>3 DEF Disconnect, TypeOK
    <3>2. {trade[p]} \cup Partner(trade[p]) \in SUBSET TradeIds
      BY <3>1 DEF Partner, TypeOK, MapleTrade
    <3>3. QED BY <2>1, <3>1, <3>2, CancelTypeOK DEF CancelTrade, TypeOK, SameLinks
  <2>4. QED BY <2>2, <2>3
<1>8. ASSUME NEW p \in Players, Login(p) PROVE TypeOK'
  BY <1>8 DEF Login, TypeOK
<1>9. ASSUME NEW p \in Players, NEW i \in Items, SetItems(p, i) PROVE TypeOK'
  BY <1>9 DEF SetItems, TypeOK, MapleTrade, world
<1>10. ASSUME NEW p \in Players, NEW i \in Items, PickUp(p, i) PROVE TypeOK'
  BY <1>10 DEF PickUp, PickedUp, TypeOK
<1>11. ASSUME NEW p \in Players, NEW i \in Items, DropItem(p, i) PROVE TypeOK'
  BY <1>11 DEF DropItem, TypeOK
<1>12. ASSUME NEW p \in Players, NEW i \in Items, PetLoot(p, i) PROVE TypeOK'
  BY <1>12 DEF PetLoot, TypeOK
<1>13. ASSUME NEW p \in Players, PetLootMeso(p) PROVE TypeOK'
  BY <1>13 DEF PetLootMeso, TypeOK, PurseAfter, BankAfter, Meso
<1>14. ASSUME NEW p \in Players, NEW m \in Meso, SetMeso(p, m) PROVE TypeOK'
  BY <1>14 DEF SetMeso, TypeOK, MapleTrade, Meso, world
<1>15. CASE UNCHANGED vars
  BY <1>15 DEF vars, world, TypeOK
<1>16. QED
  BY <1>1, <1>2, <1>3, <1>4, <1>5, <1>6, <1>7, <1>8, <1>9, <1>10, <1>11,
     <1>12, <1>13, <1>14, <1>15 DEF Next

\* Every reachable state is well typed, a character's trade is its own, and the
\* other side of a link always has an owner.
THEOREM TypeCorrect == Spec => []TypeOK
BY InitTypeOK, NextTypeOK, PTL DEF Spec

\* A refund empties only trades whose owners leave.
LEMMA RefundFrozen ==
  ASSUME TypeOK, TradeAssumption,
         NEW T \in SUBSET TradeIds, NEW objs \in [TradeIds -> MapleTrade], NEW C,
         Refund(T, objs), Leave(C), Owners(T) \subseteq C,
         \A t \in TradeIds : objs[t].items = obj[t].items /\ objs[t].meso = obj[t].meso
  PROVE  FrozenStep
<1> SUFFICES ASSUME NEW p \in Players, Locked(p), trade'[p] = trade[p]
             PROVE  Offer(p)' = Offer(p) /\ OfferedMeso(p)' = OfferedMeso(p)
  BY DEF FrozenStep
<1>1. trade[p] \in TradeIds /\ obj[trade[p]].chr = p
  BY DEF Locked, TypeOK
<1>2. trade[p] \notin T
  BY <1>1 DEF Owners, Leave, TradeAssumption
<1>3. \A t \in TradeIds : t \notin T => obj'[t] = objs[t]
  BY RefundLemma
<1>4. QED BY <1>1, <1>2, <1>3 DEF Offer, OfferedMeso, TradeAssumption

\* While the offers of all objects in use stay, so does every locked one.
LEMMA SameOffers ==
  ASSUME TypeOK, TradeAssumption,
         \A p \in Players : trade[p] # None =>
           /\ obj'[trade[p]].items = obj[trade[p]].items
           /\ obj'[trade[p]].meso = obj[trade[p]].meso
  PROVE  FrozenStep
BY DEF FrozenStep, Locked, Offer, OfferedMeso, TypeOK

\* No step changes an offer its owner has confirmed, short of closing the window,
\* however many characters trade and whatever they link to.
THEOREM OfferStaysFrozen == Spec => OfferFrozen
<1> USE TradeAssumption
<1>1. TypeOK /\ [Next]_vars => [FrozenStep]_vars
  <2> SUFFICES ASSUME TypeOK, Next PROVE FrozenStep
    OBVIOUS
  <2>1. ASSUME NEW p \in Players, StartTrade(p) PROVE FrozenStep
    <3>1. PICK t \in TradeIds : Unused(t) /\ obj' = [obj EXCEPT ![t] = Fresh(p, None)]
      BY <2>1 DEF StartTrade
    <3>2. QED BY <3>1, SameOffers DEF Unused, TypeOK
  <2>2. ASSUME NEW p \in Players, NEW q \in Players, InviteTrade(p, q) PROVE FrozenStep
    <3>1. PICK t \in TradeIds :
            /\ Unused(t)
            /\ obj' = IF obj[trade[p]].locked
                      THEN [obj EXCEPT ![t] = Fresh(q, trade[p])]
                      ELSE [obj EXCEPT ![t] = Fresh(q, trade[p]), ![trade[p]].partner = t]
      BY <2>2 DEF InviteTrade
    <3>2. trade[p] \in TradeIds
      BY <2>2 DEF InviteTrade, TypeOK
    <3>3. ASSUME NEW s \in TradeIds, s # t
          PROVE  obj'[s].items = obj[s].items /\ obj'[s].meso = obj[s].meso
      BY <3>1, <3>2, <3>3 DEF TypeOK, MapleTrade
    <3>4. QED BY <3>1, <3>3, SameOffers DEF Unused, TypeOK
  <2>3. ASSUME NEW p \in Players, VisitTrade(p) PROVE FrozenStep
    <3>1. obj' = [obj EXCEPT ![trade[p]].inTrade = TRUE]
      BY <2>3 DEF VisitTrade
    <3>2. QED BY <3>1, SameOffers DEF TypeOK, MapleTrade
  <2>4. ASSUME NEW p \in Players, DeclineTrade(p) PROVE FrozenStep
    <3> DEFINE T == {trade[p]} \cup ({trade[obj[u].chr] : u \in Partner(trade[p])} \ {None})
    <3>1. T \in SUBSET TradeIds
      BY <2>4, DeclinedTrades
    <3>2. Refund(T, obj) /\ Leave(Owners(T))
      BY <2>4 DEF DeclineTrade
    <3>3. QED BY <3>1, <3>2, RefundFrozen DEF TypeOK
  <2>5. ASSUME NEW p \in Players, Confirm(p) PROVE FrozenStep
    <3> DEFINE t == trade[p]
               u == obj[t].partner
    <3>1. t \in TradeIds /\ u \in TradeIds
      BY <2>5 DEF Confirm, TypeOK, MapleTrade
    <3>2. \A s \in TradeIds : /\ Offered(t, u)[s].items = obj[s].items
                              /\ Offered(t, u)[s].meso = obj[s].meso
      BY <3>1, OfferedOffers
    <3>3. CASE CompleteTrade(t, u)
      <4>1. \A s \in TradeIds : obj'[s].items = obj[s].items /\ obj'[s].meso = obj[s].meso
        BY <3>1, <3>3, CompletedOffers
      <4>2. QED BY <4>1, SameOffers DEF TypeOK
    <3>4. CASE RejectTrade(t, u) /\ Leave(BothSides(t, u))
      <4>1. Owners({t, u}) \subseteq BothSides(t, u)
        BY DEF Owners, BothSides
      <4>2. Offered(t, u) \in [TradeIds -> MapleTrade]
        BY <3>1, OfferedType
      <4>3. Refund({t, u}, Offered(t, u)) /\ {t, u} \in SUBSET TradeIds
        BY <3>1, <3>4 DEF RejectTrade
      <4>4. QED BY <3>2, <3>4, <4>1, <4>2, <4>3, RefundFrozen
    <3>5. CASE obj' = Offered(t, u)
      BY <3>2, <3>5, SameOffers DEF TypeOK
    <3>6. QED BY <2>5, <3>3, <3>4, <3>5 DEF Confirm
  <2>6. ASSUME NEW p \in Players, trade[p] # None, CancelTrade(p) PROVE FrozenStep
    <3> DEFINE T == {trade[p]} \cup Partner(trade[p])
    <3>1. T \in SUBSET TradeIds
      BY <2>6 DEF Partner, TypeOK, MapleTrade
    <3>2. Refund(T, obj) /\ Leave(Owners(T) \cup {p})
      BY <2>6 DEF CancelTrade
    <3>3. QED BY <3>1, <3>2, RefundFrozen DEF TypeOK
  <2>7. ASSUME NEW p \in Players, Exit(p) \/ Disconnect(p) PROVE FrozenStep
    <3>1. CASE trade[p] # None /\ CancelTrade(p)
      BY <2>6, <3>1
    <3>2. CASE UNCHANGED obj
      BY <3>2, SameOffers
    <3>3. QED BY <2>7, <3>1, <3>2 DEF Exit, Disconnect
  <2>8. ASSUME NEW p \in Players, NEW i \in Items, SetItems(p, i) PROVE FrozenStep
    <3>1. /\ trade[p] \in TradeIds /\ ~obj[trade[p]].locked
          /\ obj' = [obj EXCEPT ![trade[p]].items = @ \cup {i}]
      BY <2>8 DEF SetItems, TypeOK
    <3>2. QED BY <3>1 DEF FrozenStep, Locked, Offer, OfferedMeso, TypeOK
  <2>9. ASSUME NEW p \in Players, NEW m \in Meso, SetMeso(p, m) PROVE FrozenStep
    <3>1. /\ trade[p] \in TradeIds /\ ~obj[trade[p]].locked
          /\ obj' = [obj EXCEPT ![trade[p]].meso = @ + m]
      BY <2>9 DEF SetMeso, TypeOK
    <3>2. QED BY <3>1 DEF FrozenStep, Locked, Offer, OfferedMeso, TypeOK
  <2>10. ASSUME UNCHANGED obj PROVE FrozenStep
    BY <2>10, SameOffers
  <2>11. QED
    BY <2>1, <2>2, <2>3, <2>4, <2>5, <2>7, <2>8, <2>9, <2>10
       DEF Next, Login, PickUp, PickedUp, DropItem, PetLoot, PetLootMeso
<1>2. QED BY <1>1, TypeCorrect, PTL DEF Spec, OfferFrozen
=============================================================================
