--------------------------- MODULE TradePairProofs ---------------------------
(* Theorems about the goods in Trade.  While every open window links its two *)
(* sides to each other, what is offered is in one place, reaches the partner *)
(* who accepted it or comes back; and with one pair of characters windows    *)
(* always link so.  A third character breaks the links first: with three,    *)
(* Linked is false, and so are the theorems' conclusions.                    *)
EXTENDS TradeProofs, FiniteSetTheorems

\* The partner of a window has another owner, who has it open and is linked back; nobody
\* confirms alone.
Linked ==
  \A p \in Players : trade[p] # None =>
    LET t == trade[p]
        u == obj[t].partner IN
      /\ u # None => obj[u].chr # p /\ trade[obj[u].chr] = u /\ obj[u].partner = t
      /\ obj[t].locked => u # None

\* One pair of characters.
Pair == \A p, q, r \in Players : p = q \/ q = r \/ p = r

\* The two sides of p's window.
LEMMA Sides ==
  ASSUME TypeOK, Linked, NEW p \in Players, trade[p] # None
  PROVE  /\ trade[p] \in TradeIds /\ obj[trade[p]] \in MapleTrade /\ obj[trade[p]].chr = p
         /\ obj[trade[p]].partner # None =>
              LET u == obj[trade[p]].partner
                  q == obj[u].chr IN
                /\ u \in TradeIds /\ obj[u] \in MapleTrade /\ u # trade[p]
                /\ q \in Players /\ q # p /\ trade[q] = u /\ obj[u].partner = trade[p]
<1>1. trade[p] \in TradeIds /\ obj[trade[p]] \in MapleTrade /\ obj[trade[p]].chr = p
  BY DEF TypeOK
<1> SUFFICES ASSUME obj[trade[p]].partner # None
             PROVE  LET u == obj[trade[p]].partner
                        q == obj[u].chr IN
                      /\ u \in TradeIds /\ obj[u] \in MapleTrade /\ u # trade[p]
                      /\ q \in Players /\ q # p /\ trade[q] = u /\ obj[u].partner = trade[p]
  BY <1>1
<1> DEFINE u == obj[trade[p]].partner
<1>2. u \in TradeIds /\ obj[u] \in MapleTrade /\ obj[u].chr # None
  BY <1>1 DEF TypeOK, MapleTrade
<1>3. obj[u].chr \in Players /\ obj[u].chr # p /\ trade[obj[u].chr] = u /\ obj[u].partner = trade[p]
  BY <1>2 DEF Linked, MapleTrade
<1> QED BY <1>1, <1>2, <1>3

-----------------------------------------------------------------------------
(* Windows that close: the characters of C leave, and p gets K[p] back.     *)

Closing(C, K) ==
  /\ C \subseteq Players /\ K \in [Players -> SUBSET Items]
  /\ \A p \in C : /\ trade[p] # None /\ trade'[p] = None
                  /\ K[p] \in Kept(p, Offer(p)) /\ inv'[p] = inv[p] \cup K[p]
                  /\ obj[trade[p]].partner # None => obj[obj[trade[p]].partner].chr \in C
  /\ \A p \in Players \ C : inv'[p] = inv[p] /\ trade'[p] = trade[p]
  /\ \A p \in Players \ C : trade[p] # None => obj'[trade[p]] = obj[trade[p]]
  /\ lost' = lost \cup UNION {Offer(p) \ K[p] : p \in C}
  /\ \A p \in Players : Wealth(p)' = Wealth(p)

\* What is due to p goes to the purse or to the bank.
LEMMA Paid ==
  ASSUME TypeOK, TradeAssumption, NEW p \in Players, NEW m \in Nat,
         purse'[p] = PurseAfter(p, m), bank'[p] = BankAfter(p, m)
  PROVE  purse'[p] + bank'[p] = purse[p] + bank[p] + m
<1>1. purse[p] \in Nat /\ bank[p] \in Nat /\ MaxMeso \in Nat
  BY TradeAssumption DEF TypeOK, Meso
<1>2. CASE purse[p] + m > MaxMeso
  BY <1>1, <1>2 DEF PurseAfter, BankAfter
<1>3. CASE ~(purse[p] + m > MaxMeso)
  BY <1>1, <1>3 DEF PurseAfter, BankAfter
<1> QED BY <1>2, <1>3

LEMMA Coins ==
  ASSUME TypeOK, NEW p \in Players
  PROVE  purse[p] \in Nat /\ bank[p] \in Nat /\ OfferedMeso(p) \in Nat /\ Wealth(p) \in Nat
<1>1. purse[p] \in Nat /\ bank[p] \in Nat
  BY DEF TypeOK, Meso
<1>2. OfferedMeso(p) \in Nat
  BY DEF OfferedMeso, TypeOK, MapleTrade
<1> QED BY <1>1, <1>2 DEF Wealth

\* A refund of open windows, with both sides of each, closes them.
LEMMA RefundCloses ==
  ASSUME TypeOK, TradeAssumption, Linked, NEW T \in SUBSET TradeIds,
         NEW objs \in [TradeIds -> MapleTrade], Refund(T, objs), NEW C, Leave(C), C = Owners(T),
         \A t \in T : /\ obj[t].chr \in Players /\ trade[obj[t].chr] = t
                      /\ obj[t].partner # None => obj[t].partner \in T,
         \A t \in TradeIds \ T : objs[t] = obj[t]
  PROVE  \E K : Closing(C, K)
<1>1. PICK kept \in [T -> SUBSET Items] :
        /\ \A t \in T : kept[t] \in Kept(obj[t].chr, obj[t].items)
        /\ inv' = [p \in Players |->
                     inv[p] \cup UNION {kept[t] : t \in {s \in T : obj[s].chr = p}}]
        /\ lost' = lost \cup UNION {obj[t].items \ kept[t] : t \in T}
        /\ purse' = [p \in Players |-> PurseAfter(p, MesoDue(T, p))]
        /\ bank' = [p \in Players |-> BankAfter(p, MesoDue(T, p))]
  BY DEF Refund
<1>2. C \subseteq Players /\ \A p \in C : trade[p] \in T /\ obj[trade[p]].chr = p
  BY DEF Owners
<1> DEFINE K == [p \in Players |-> IF p \in C THEN kept[trade[p]] ELSE {}]
<1>3. K \in [Players -> SUBSET Items]
  BY <1>2
<1>4. \A p \in Players : {s \in T : obj[s].chr = p} = IF p \in C THEN {trade[p]} ELSE {}
  BY <1>2 DEF Owners
<1>5. ASSUME NEW p \in Players
      PROVE  inv'[p] = inv[p] \cup K[p]
  <2>1. inv'[p] = inv[p] \cup UNION {kept[t] : t \in {s \in T : obj[s].chr = p}}
    BY <1>1
  <2>2. CASE p \in C
    <3>1. {kept[t] : t \in {s \in T : obj[s].chr = p}} = {kept[trade[p]]}
      BY <1>4, <2>2
    <3> QED BY <2>1, <2>2, <3>1
  <2>3. CASE p \notin C
    <3>1. {kept[t] : t \in {s \in T : obj[s].chr = p}} = {}
      BY <1>4, <2>3
    <3> QED BY <2>1, <2>3, <3>1
  <2> QED BY <2>2, <2>3
<1>6. \A p \in C : Offer(p) = obj[trade[p]].items /\ trade[p] # None
  BY <1>2 DEF Offer, TradeAssumption
<1>7. ASSUME NEW p \in C
      PROVE  /\ trade'[p] = None /\ K[p] \in Kept(p, Offer(p))
             /\ obj[trade[p]].partner # None => obj[obj[trade[p]].partner].chr \in C
  BY <1>1, <1>2, <1>6 DEF Leave, Owners
<1>8. ASSUME NEW p \in Players \ C
      PROVE  inv'[p] = inv[p] /\ trade'[p] = trade[p] /\ (trade[p] # None => obj'[trade[p]] = obj[trade[p]])
  <2>1. K[p] = {} /\ trade'[p] = trade[p]
    BY DEF Leave
  <2>2. trade[p] # None => trade[p] \in TradeIds \ T
    BY DEF TypeOK, Owners
  <2>3. \A t \in TradeIds : t \notin T => obj'[t] = objs[t]
    BY RefundLemma
  <2>4. trade[p] # None => obj'[trade[p]] = obj[trade[p]]
    BY <2>2, <2>3
  <2>5. p \in Players /\ inv'[p] = inv[p] \cup K[p]
    BY <1>5
  <2> HIDE DEF K
  <2> QED BY <2>1, <2>4, <2>5
<1>9. {obj[t].items \ kept[t] : t \in T} = {Offer(p) \ K[p] : p \in C}
  <2>1. \A t \in T : obj[t].chr \in C /\ obj[t].items \ kept[t] = Offer(obj[t].chr) \ K[obj[t].chr]
    BY <1>2, <1>6 DEF Owners
  <2>2. \A p \in C : trade[p] \in T /\ Offer(p) \ K[p] = obj[trade[p]].items \ kept[trade[p]]
    BY <1>2, <1>6
  <2> DEFINE A == {obj[t].items \ kept[t] : t \in T}
             B == {Offer(p) \ K[p] : p \in C}
  <2>3. ASSUME NEW S \in A PROVE S \in B
    <3>1. PICK t \in T : S = obj[t].items \ kept[t]
      OBVIOUS
    <3>2. S = Offer(obj[t].chr) \ K[obj[t].chr] /\ obj[t].chr \in C
      BY <2>1, <3>1
    <3> QED BY <3>2
  <2>4. ASSUME NEW S \in B PROVE S \in A
    <3>1. PICK p \in C : S = Offer(p) \ K[p]
      OBVIOUS
    <3>2. S = obj[trade[p]].items \ kept[trade[p]] /\ trade[p] \in T
      BY <2>2, <3>1
    <3> QED BY <3>2
  <2> QED BY <2>3, <2>4
<1>10. lost' = lost \cup UNION {Offer(p) \ K[p] : p \in C}
  BY <1>1, <1>9
<1> HIDE DEF K
<1>11. ASSUME NEW p \in Players PROVE Wealth(p)' = Wealth(p)
  <2>1. purse'[p] = PurseAfter(p, MesoDue(T, p)) /\ bank'[p] = BankAfter(p, MesoDue(T, p))
    BY <1>1
  <2>2. CASE p \in C
    <3>1. \A t \in T : obj[t].chr = p => t = trade[p]
      OBVIOUS
    <3>2. MesoDue(T, p) = obj[trade[p]].meso
      BY <1>2, <2>2, <3>1 DEF MesoDue
    <3>3. MesoDue(T, p) = OfferedMeso(p) /\ OfferedMeso(p)' = 0
      BY <1>6, <1>7, <2>2, <3>2 DEF OfferedMeso
    <3>4. purse'[p] + bank'[p] = purse[p] + bank[p] + OfferedMeso(p)
      BY <2>1, <3>3, Coins, Paid
    <3>5. purse' \in [Players -> Meso] /\ bank' \in [Players -> Nat]
      BY RefundLemma
    <3>6. purse'[p] \in Nat /\ bank'[p] \in Nat
      BY <3>5, TradeAssumption DEF Meso
    <3> QED BY <3>3, <3>4, <3>6 DEF Wealth
  <2>3. CASE p \notin C
    <3>1. MesoDue(T, p) = 0
      BY <2>3 DEF MesoDue, Owners
    <3>2. purse'[p] = purse[p] /\ bank'[p] = bank[p]
      BY <2>1, <3>1, TradeAssumption DEF PurseAfter, BankAfter, TypeOK, Meso
    <3>3. OfferedMeso(p)' = OfferedMeso(p)
      BY <1>8, <2>3 DEF OfferedMeso
    <3> QED BY <3>2, <3>3 DEF Wealth
  <2> QED BY <2>2, <2>3
<1> QED BY <1>2, <1>3, <1>5, <1>6, <1>7, <1>8, <1>10, <1>11 DEF Closing

\* Both sides of p's window are open, and nobody else's.
LEMMA Window ==
  ASSUME TypeOK, TradeAssumption, Linked, NEW p \in Players, trade[p] # None
  PROVE  LET T == {trade[p]} \cup Partner(trade[p]) IN
           /\ T \in SUBSET TradeIds /\ p \in Owners(T)
           /\ \A t \in T : /\ obj[t].chr \in Players /\ trade[obj[t].chr] = t
                           /\ obj[t].partner # None => obj[t].partner \in T
BY Sides DEF Partner, Owners

LEMMA CancelCloses ==
  ASSUME TypeOK, TradeAssumption, Linked, NEW p \in Players, trade[p] # None, CancelTrade(p)
  PROVE  \E C, K : Closing(C, K)
<1> DEFINE T == {trade[p]} \cup Partner(trade[p])
<1>1. /\ T \in SUBSET TradeIds /\ p \in Owners(T)
      /\ \A t \in T : /\ obj[t].chr \in Players /\ trade[obj[t].chr] = t
                      /\ obj[t].partner # None => obj[t].partner \in T
  BY Window
<1>2. Refund(T, obj) /\ Leave(Owners(T) \cup {p})
  BY DEF CancelTrade
<1>3. obj \in [TradeIds -> MapleTrade] /\ Owners(T) \cup {p} = Owners(T)
  BY <1>1 DEF TypeOK
<1> HIDE DEF T
<1> QED BY <1>1, <1>2, <1>3, RefundCloses

LEMMA DeclineCloses ==
  ASSUME TypeOK, TradeAssumption, Linked, NEW p \in Players, DeclineTrade(p)
  PROVE  \E C, K : Closing(C, K)
<1> DEFINE T == {trade[p]} \cup Partner(trade[p])
           S == {trade[p]} \cup ({trade[obj[u].chr] : u \in Partner(trade[p])} \ {None})
<1>1. trade[p] # None
  BY DEF DeclineTrade
<1>2. /\ T \in SUBSET TradeIds
      /\ \A t \in T : /\ obj[t].chr \in Players /\ trade[obj[t].chr] = t
                      /\ obj[t].partner # None => obj[t].partner \in T
  BY <1>1, Window
<1>3. S = T
  <2>1. \A u \in Partner(trade[p]) : trade[obj[u].chr] = u /\ u # None
    BY <1>2, TradeAssumption
  <2> QED BY <2>1
<1>4. Refund(S, obj) /\ Leave(Owners(S))
  BY DEF DeclineTrade
<1>5. Refund(T, obj) /\ Leave(Owners(T)) /\ obj \in [TradeIds -> MapleTrade]
  BY <1>3, <1>4 DEF TypeOK
<1> HIDE DEF T, S
<1> QED BY <1>2, <1>5, RefundCloses

LEMMA RejectCloses ==
  ASSUME TypeOK, TradeAssumption, Linked, NEW p \in Players, trade[p] # None,
         NEW u, u = obj[trade[p]].partner, u # None,
         RejectTrade(trade[p], u), Leave(BothSides(trade[p], u))
  PROVE  \E C, K : Closing(C, K)
<1> DEFINE T == {trade[p]} \cup Partner(trade[p])
<1>1. /\ T \in SUBSET TradeIds
      /\ \A t \in T : /\ obj[t].chr \in Players /\ trade[obj[t].chr] = t
                      /\ obj[t].partner # None => obj[t].partner \in T
  BY Window
<1>2. T = {trade[p], u} /\ trade[p] \in TradeIds /\ u \in TradeIds
  BY <1>1 DEF Partner
<1>3. Refund(T, Offered(trade[p], u)) /\ Leave(Owners(T))
  <2>1. Owners(T) = BothSides(trade[p], u)
    BY <1>2 DEF Owners, BothSides
  <2> HIDE DEF T
  <2> QED BY <1>2, <2>1 DEF RejectTrade
<1>4. Offered(trade[p], u) \in [TradeIds -> MapleTrade]
  BY <1>2, OfferedType
<1>5. \A t \in TradeIds \ T : Offered(trade[p], u)[t] = obj[t]
  BY <1>2 DEF Offered, TypeOK
<1> HIDE DEF T
<1> QED BY <1>1, <1>3, <1>4, <1>5, RefundCloses

-----------------------------------------------------------------------------
(* Links.                                                                   *)

\* The sides that stay open keep their partners.
LEMMA ClosingOthers ==
  ASSUME TypeOK, TradeAssumption, Linked, NEW C, NEW K, Closing(C, K),
         NEW p \in Players, trade'[p] # None
  PROVE  /\ p \notin C /\ trade'[p] = trade[p] /\ obj'[trade[p]] = obj[trade[p]]
         /\ obj[trade[p]].partner # None =>
              LET u == obj[trade[p]].partner IN
                /\ obj'[u] = obj[u] /\ obj[u].chr # p
                /\ trade'[obj[u].chr] = u /\ obj[u].partner = trade[p]
<1>1. p \notin C /\ trade'[p] = trade[p] /\ obj'[trade[p]] = obj[trade[p]]
  BY DEF Closing
<1>2. ASSUME obj[trade[p]].partner # None
      PROVE  LET u == obj[trade[p]].partner IN
               /\ obj'[u] = obj[u] /\ obj[u].chr # p
               /\ trade'[obj[u].chr] = u /\ obj[u].partner = trade[p]
  <2> DEFINE u == obj[trade[p]].partner
             q == obj[u].chr
  <2>1. q \in Players /\ q # p /\ trade[q] = u /\ obj[u].partner = trade[p] /\ u # None
        /\ obj[trade[p]].chr = p
    BY <1>1, <1>2, Sides
  <2>2. q \notin C
    <3>1. q \in C => obj[obj[trade[q]].partner].chr \in C
      BY <2>1, <1>1, TradeAssumption, Sides DEF Closing
    <3> QED BY <1>1, <2>1, <3>1
  <2>3. trade'[q] = u /\ obj'[u] = obj[u]
    BY <2>1, <2>2 DEF Closing
  <2> QED BY <2>1, <2>3
<1> QED BY <1>1, <1>2

LEMMA ClosingLinks ==
  ASSUME TypeOK, TradeAssumption, Linked, NEW C, NEW K, Closing(C, K) PROVE Linked'
<1>1. \A p \in Players : trade'[p] # None =>
        /\ trade'[p] = trade[p] /\ obj'[trade[p]] = obj[trade[p]]
        /\ obj[trade[p]].partner # None =>
             LET u == obj[trade[p]].partner IN
               /\ obj'[u] = obj[u] /\ obj[u].chr # p
               /\ trade'[obj[u].chr] = u /\ obj[u].partner = trade[p]
  BY ClosingOthers
<1> QED BY <1>1 DEF Linked

\* A step that opens and closes no window and relinks none.
LEMMA SameWindows ==
  ASSUME TypeOK, TradeAssumption, Linked, trade' = trade, SameLinks(obj', obj),
         \A t \in TradeIds : obj'[t].locked => obj[t].locked \/ obj[t].partner # None
  PROVE  Linked'
<1> SUFFICES ASSUME NEW p \in Players, trade[p] # None
             PROVE  LET t == trade[p]
                        u == obj'[t].partner IN
                      /\ u # None => obj'[u].chr # p /\ trade[obj'[u].chr] = u /\ obj'[u].partner = t
                      /\ obj'[t].locked => u # None
  BY DEF Linked
<1>1. trade[p] \in TradeIds /\ (obj[trade[p]].locked => obj[trade[p]].partner # None)
  BY Sides DEF Linked
<1>2. obj'[trade[p]].partner = obj[trade[p]].partner
  BY <1>1 DEF SameLinks
<1>3. ASSUME obj[trade[p]].partner # None
      PROVE  LET u == obj[trade[p]].partner IN
               obj'[u].chr # p /\ trade[obj'[u].chr] = u /\ obj'[u].partner = trade[p]
  BY <1>3, Sides DEF SameLinks
<1> QED BY <1>1, <1>2, <1>3

\* What ends a window without an exchange.
LEMMA Ended ==
  ASSUME TypeOK, TradeAssumption, Linked, NEW p \in Players,
         DeclineTrade(p) \/ Exit(p) \/ (Disconnect(p) /\ trade[p] # None)
  PROVE  /\ \E C, K : Closing(C, K)
         /\ trade'[p] = None /\ UNCHANGED <<ground, etc, earned, eaten>>
         /\ online' = online \/ online' = online \ {p}
<1>1. CASE DeclineTrade(p)
  <2>1. trade[p] # None /\ Leave(Owners({trade[p]} \cup ({trade[obj[u].chr] : u \in Partner(trade[p])} \ {None})))
    BY <1>1 DEF DeclineTrade
  <2>2. trade'[p] = None
    BY <2>1 DEF Leave, Owners, TypeOK
  <2> QED BY <1>1, <2>2, DeclineCloses DEF DeclineTrade, world
<1>2. CASE Exit(p) \/ (Disconnect(p) /\ trade[p] # None)
  <2>1. trade[p] # None /\ CancelTrade(p)
    BY <1>2 DEF Exit, Disconnect
  <2>2. trade'[p] = None
    BY <2>1 DEF CancelTrade, Leave
  <2> QED BY <1>2, <2>1, <2>2, CancelCloses DEF Exit, Disconnect, world
<1> QED BY <1>1, <1>2

\* Confirming is the first of two confirmations, or completes the trade, or ends it.
LEMMA Confirmed ==
  ASSUME TypeOK, TradeAssumption, Linked, NEW p \in Players, Confirm(p)
  PROVE  LET t == trade[p]
             u == obj[t].partner IN
           /\ t # None /\ u # None /\ ~ obj[t].locked /\ UNCHANGED <<ground, etc, online, earned>>
           /\ \/ obj[u].locked /\ CompleteTrade(t, u) /\ Leave(BothSides(t, u))
              \/ (\E C, K : Closing(C, K)) /\ UNCHANGED eaten
              \/ ~ obj[u].locked /\ obj' = Offered(t, u) /\ UNCHANGED <<inv, purse, bank, trade, lost, eaten>>
<1> DEFINE t == trade[p]
           u == obj[t].partner
<1>1. t # None /\ u # None /\ ~ obj[t].locked /\ UNCHANGED <<ground, etc, online, earned>>
  BY DEF Confirm, world
<1>2. CASE obj[u].locked /\ CompleteTrade(t, u) /\ Leave(BothSides(t, u))
  BY <1>1, <1>2
<1>3. CASE RejectTrade(t, u) /\ Leave(BothSides(t, u))
  BY <1>1, <1>3, RejectCloses DEF RejectTrade
<1>4. CASE ~ obj[u].locked /\ obj' = Offered(t, u) /\ UNCHANGED <<inv, purse, bank, trade, lost, eaten>>
  BY <1>1, <1>4
<1> QED BY <1>1, <1>2, <1>3, <1>4 DEF Confirm

\* A new window of q, with no partner or with s; the object was in nobody's reach.
LEMMA Opened ==
  ASSUME TypeOK, TradeAssumption, Linked, NEW q \in Players, trade[q] = None,
         NEW t \in TradeIds, Unused(t), trade' = [trade EXCEPT ![q] = t]
  PROVE  \A r \in Players \ {q} : /\ trade'[r] = trade[r]
                                  /\ trade[r] # None => /\ trade[r] # t /\ obj[trade[r]].partner # t
                                                        /\ obj[trade[r]].partner # None =>
                                                             obj[obj[trade[r]].partner].chr # q
<1> SUFFICES ASSUME NEW r \in Players \ {q}, trade[r] # None
             PROVE  /\ trade[r] # t /\ obj[trade[r]].partner # t
                    /\ obj[trade[r]].partner # None => obj[obj[trade[r]].partner].chr # q
  BY DEF TypeOK
<1> QED BY Sides, TradeAssumption DEF Unused, Linked

LEMMA StartLinked ==
  ASSUME TypeOK, TradeAssumption, Linked, NEW p \in Players, StartTrade(p) PROVE Linked'
<1>1. PICK t \in TradeIds : /\ Unused(t) /\ trade[p] = None /\ obj' = [obj EXCEPT ![t] = Fresh(p, None)]
                            /\ trade' = [trade EXCEPT ![p] = t]
  BY DEF StartTrade
<1>2. obj'[t] = Fresh(p, None) /\ \A s \in TradeIds \ {t} : obj'[s] = obj[s]
  BY <1>1 DEF TypeOK
<1>3. Fresh(p, None).partner = None /\ ~ Fresh(p, None).locked
  BY DEF Fresh, Blank
<1> SUFFICES ASSUME NEW r \in Players, trade'[r] # None
             PROVE  LET s == trade'[r]
                        u == obj'[s].partner IN
                      /\ u # None => obj'[u].chr # r /\ trade'[obj'[u].chr] = u /\ obj'[u].partner = s
                      /\ obj'[s].locked => u # None
  BY DEF Linked
<1>6. \A x \in Players \ {p} : /\ trade'[x] = trade[x]
                               /\ trade[x] # None => /\ trade[x] # t /\ obj[trade[x]].partner # t
                                                     /\ obj[trade[x]].partner # None =>
                                                          obj[obj[trade[x]].partner].chr # p
  BY <1>1, Opened
<1>4. CASE r = p
  BY <1>1, <1>2, <1>3, <1>4 DEF TypeOK
<1>5. CASE r # p
  <2>1. /\ trade'[r] = trade[r] /\ trade[r] # t /\ trade[r] # None
        /\ obj[trade[r]].partner # t
        /\ obj[trade[r]].partner # None => obj[obj[trade[r]].partner].chr # p
    BY <1>5, <1>6
  <2>2. trade[r] \in TradeIds /\ obj'[trade[r]] = obj[trade[r]]
    BY <1>2, <2>1, Sides
  <2>3. ASSUME obj[trade[r]].partner # None
        PROVE  LET u == obj[trade[r]].partner
                   q == obj[u].chr IN
                 /\ q # r /\ obj'[u] = obj[u] /\ trade'[q] = u /\ obj[u].partner = trade[r]
    <3> DEFINE u == obj[trade[r]].partner
               q == obj[u].chr
    <3>1. u \in TradeIds /\ q \in Players /\ q # r /\ trade[q] = u /\ obj[u].partner = trade[r]
      BY <2>1, <2>3, Sides
    <3>2. q # p /\ u # t
      BY <2>1, <2>3
    <3> QED BY <1>1, <1>2, <3>1, <3>2 DEF TypeOK
  <2>4. obj[trade[r]].locked => obj[trade[r]].partner # None
    BY <2>1 DEF Linked
  <2> QED BY <2>1, <2>2, <2>3, <2>4
<1> QED BY <1>4, <1>5

LEMMA InviteLinked ==
  ASSUME TypeOK, TradeAssumption, Linked, Pair, NEW p \in Players, NEW q \in Players, InviteTrade(p, q)
  PROVE  Linked'
<1> DEFINE s == trade[p]
<1>1. PICK t \in TradeIds :
        /\ Unused(t) /\ s # None /\ trade[q] = None /\ trade' = [trade EXCEPT ![q] = t]
        /\ obj' = IF obj[s].locked THEN [obj EXCEPT ![t] = Fresh(q, s)]
                  ELSE [obj EXCEPT ![t] = Fresh(q, s), ![s].partner = t]
  BY DEF InviteTrade
<1>2. p # q /\ s # t /\ s \in TradeIds /\ obj[s].chr = p /\ \A r \in Players : r = p \/ r = q
  BY <1>1, Sides DEF Unused, Pair
<1>3. obj[s].partner = None
  BY <1>1, <1>2, Sides
<1>4. ~ obj[s].locked
  BY <1>1, <1>3 DEF Linked
<1>5. obj'[t] = Fresh(q, s) /\ obj'[s].partner = t /\ obj'[s].chr = p /\ obj'[s].locked = obj[s].locked
  BY <1>1, <1>2, <1>4 DEF TypeOK, MapleTrade
<1>6. Fresh(q, s).chr = q /\ Fresh(q, s).partner = s /\ ~ Fresh(q, s).locked
  BY DEF Fresh, Blank
<1>7. trade'[p] = s /\ trade'[q] = t
  BY <1>1, <1>2 DEF TypeOK
<1> HIDE DEF s
<1>8. ASSUME NEW r \in Players
      PROVE  LET w == trade'[r]
                 u == obj'[w].partner IN
               /\ u # None => obj'[u].chr # r /\ trade'[obj'[u].chr] = u /\ obj'[u].partner = w
               /\ obj'[w].locked => u # None
  <2>1. CASE r = p
    BY <1>2, <1>4, <1>5, <1>6, <1>7, <2>1
  <2>2. CASE r = q
    BY <1>2, <1>4, <1>5, <1>6, <1>7, <2>2
  <2> QED BY <1>2, <2>1, <2>2
<1> QED BY <1>8 DEF Linked

\* Nobody's step but an invitation can break a link.
LEMMA NextLinked == ASSUME Pair PROVE TypeOK /\ Linked /\ [Next]_vars => Linked'
<1> USE TradeAssumption
<1> SUFFICES ASSUME TypeOK, Linked, [Next]_vars PROVE Linked'
  OBVIOUS
<1>1. ASSUME UNCHANGED <<trade, obj>> PROVE Linked'
  BY <1>1 DEF Linked
<1>2. ASSUME NEW p \in Players, VisitTrade(p) PROVE Linked'
  <2>1. trade' = trade /\ trade[p] \in TradeIds /\ obj' = [obj EXCEPT ![trade[p]].inTrade = TRUE]
    BY <1>2 DEF VisitTrade, TypeOK
  <2>2. SameLinks(obj', obj) /\ \A t \in TradeIds : obj'[t].locked = obj[t].locked
    BY <2>1 DEF SameLinks, TypeOK, MapleTrade
  <2> QED BY <2>1, <2>2, SameWindows
<1>3. ASSUME NEW p \in Players, NEW i \in Items, SetItems(p, i) PROVE Linked'
  <2>1. trade' = trade /\ trade[p] \in TradeIds /\ obj' = [obj EXCEPT ![trade[p]].items = @ \cup {i}]
    BY <1>3 DEF SetItems, TypeOK
  <2>2. SameLinks(obj', obj) /\ \A t \in TradeIds : obj'[t].locked = obj[t].locked
    BY <2>1 DEF SameLinks, TypeOK, MapleTrade
  <2> QED BY <2>1, <2>2, SameWindows
<1>4. ASSUME NEW p \in Players, NEW m \in Meso, SetMeso(p, m) PROVE Linked'
  <2>1. trade' = trade /\ trade[p] \in TradeIds /\ obj' = [obj EXCEPT ![trade[p]].meso = @ + m]
    BY <1>4 DEF SetMeso, TypeOK
  <2>2. SameLinks(obj', obj) /\ \A t \in TradeIds : obj'[t].locked = obj[t].locked
    BY <2>1 DEF SameLinks, TypeOK, MapleTrade
  <2> QED BY <2>1, <2>2, SameWindows
<1>5. ASSUME NEW p \in Players, Confirm(p) PROVE Linked'
  <2> DEFINE t == trade[p]
             u == obj[t].partner
  <2>1. t # None /\ u # None /\ t \in TradeIds /\ u \in TradeIds /\ obj[u].chr \in Players
        /\ obj[u].chr # p /\ obj[t].chr = p
    BY <1>5, Confirmed, Sides
  <2>2. CASE Leave(BothSides(t, u))
    <3>1. \A r \in Players : r \in BothSides(t, u)
      BY <2>1 DEF BothSides, Pair
    <3>2. \A r \in Players : trade'[r] = None
      BY <2>2, <3>1 DEF Leave
    <3> QED BY <3>2 DEF Linked
  <2>3. CASE \E C, K : Closing(C, K)
    BY <2>3, ClosingLinks
  <2>4. CASE obj' = Offered(t, u) /\ trade' = trade
    <3>1. SameLinks(obj', obj)
      BY <2>1, <2>4, OfferedType
    <3>2. \A s \in TradeIds : obj'[s].locked => obj[s].locked \/ s = t
      BY <2>1, <2>4 DEF Offered, TypeOK, MapleTrade
    <3> QED BY <2>1, <2>4, <3>1, <3>2, SameWindows
  <2> QED BY <1>5, <2>2, <2>3, <2>4, Confirmed
<1>6. ASSUME NEW p \in Players, DeclineTrade(p) \/ Exit(p) \/ Disconnect(p) PROVE Linked'
  <2>1. CASE DeclineTrade(p) \/ Exit(p) \/ (Disconnect(p) /\ trade[p] # None)
    BY <2>1, Ended, ClosingLinks
  <2>2. CASE Disconnect(p) /\ trade[p] = None
    BY <1>1, <2>2 DEF Disconnect
  <2> QED BY <1>6, <2>1, <2>2
<1>7. ASSUME NEW p \in Players, NEW i \in Items,
             Login(p) \/ PetLootMeso(p) \/ PickUp(p, i) \/ DropItem(p, i) \/ PetLoot(p, i)
      PROVE  Linked'
  BY <1>1, <1>7 DEF Login, PetLootMeso, PickUp, PickedUp, DropItem, PetLoot
<1>8. ASSUME NEW p \in Players, Login(p) \/ PetLootMeso(p) PROVE Linked'
  BY <1>1, <1>8 DEF Login, PetLootMeso
<1>9. CASE UNCHANGED vars
  BY <1>1, <1>9 DEF vars
<1> QED
  BY <1>2, <1>3, <1>4, <1>5, <1>6, <1>7, <1>8, <1>9, StartLinked, InviteLinked DEF Next

\* With one pair of characters the two sides of a window always link to each other.
THEOREM PairLinks == ASSUME Pair PROVE Spec => []Linked
<1>1. Init => Linked
  BY DEF Init, Linked
<1> QED BY InitTypeOK, NextTypeOK, NextLinked, <1>1, PTL DEF Spec

\* So the sides of a window agree that they trade with each other, for any number of items,
\* slots, mesos and window objects.
THEOREM LinksStayAgreed == ASSUME Pair PROVE Spec => []LinksAgree
<1>1. Linked => LinksAgree
  BY DEF Linked, LinksAgree
<1> QED BY PairLinks, <1>1, PTL

-----------------------------------------------------------------------------
(* What is accepted.                                                        *)

\* Side p and its partner are as they were, in what the partner has accepted.
LEMMA SameAcceptance ==
  ASSUME AcceptedOffer, NEW p \in Players, trade'[p] = trade[p], trade[p] # None,
         LET t == trade[p]
             u == obj[t].partner IN
           /\ obj'[t].partner = u /\ obj'[t].locked = obj[t].locked
           /\ obj'[t].xItems = obj[t].xItems /\ obj'[t].xMeso = obj[t].xMeso
           /\ u # None => /\ obj'[u].locked = obj[u].locked
                          /\ obj[u].locked => obj'[u].items = obj[u].items /\ obj'[u].meso = obj[u].meso
  PROVE  LET t == trade'[p]
             u == obj'[t].partner IN
           u # None /\ obj'[u].locked => /\ obj'[t].xItems = obj'[u].items
                                         /\ obj'[t].xMeso = obj'[u].meso /\ ~ obj'[t].locked
BY DEF AcceptedOffer

Accepts(p) ==
  LET t == trade[p]
      u == obj[t].partner IN
    trade[p] # None /\ u # None /\ obj[u].locked =>
      obj[t].xItems = obj[u].items /\ obj[t].xMeso = obj[u].meso /\ ~ obj[t].locked

\* The windows of characters who take no part in p's trade, while only its two objects change.
LEMMA Bystanders ==
  ASSUME TypeOK, TradeAssumption, Linked, NEW p \in Players, trade[p] # None, obj[trade[p]].partner # None,
         NEW r \in Players, r # p, r # obj[obj[trade[p]].partner].chr, trade[r] # None,
         \A s \in TradeIds \ {trade[p], obj[trade[p]].partner} : obj'[s] = obj[s]
  PROVE  /\ obj'[trade[r]] = obj[trade[r]]
         /\ obj[trade[r]].partner # None => obj'[obj[trade[r]].partner] = obj[obj[trade[r]].partner]
<1> DEFINE t == trade[p]
           u == obj[t].partner
           v == trade[r]
           w == obj[v].partner
<1>1. /\ t \in TradeIds /\ u \in TradeIds /\ v \in TradeIds /\ obj[v].chr = r /\ obj[t].chr = p
      /\ obj[u].partner = t
  BY Sides
<1>2. v # t /\ v # u
  BY <1>1
<1>3. w # None => w \in TradeIds /\ obj[w].partner = v
  BY Sides
<1>4. w # None => w # t /\ w # u
  BY <1>1, <1>2, <1>3
<1> QED BY <1>1, <1>2, <1>3, <1>4
\* While p is the first to confirm, its offer is copied and nothing else.
LEMMA OfferedFields ==
  ASSUME TypeOK, NEW t \in TradeIds, NEW u \in TradeIds, t # u
  PROVE  LET o == Offered(t, u) IN
           /\ o[t].xItems = obj[t].xItems /\ o[t].xMeso = obj[t].xMeso /\ o[t].locked
           /\ o[u].xItems = obj[t].items /\ o[u].xMeso = obj[t].meso /\ o[u].locked = obj[u].locked
           /\ o[t].partner = obj[t].partner /\ o[u].partner = obj[u].partner
           /\ \A s \in TradeIds \ {t, u} : o[s] = obj[s]
           /\ \A s \in TradeIds : o[s].items = obj[s].items /\ o[s].meso = obj[s].meso
<1> DEFINE o == Offered(t, u)
           a == [obj[t] EXCEPT !.locked = TRUE]
           b == [obj[u] EXCEPT !.xItems = obj[t].items, !.xMeso = obj[t].meso]
<1>1. obj \in [TradeIds -> MapleTrade] /\ obj[t] \in MapleTrade /\ obj[u] \in MapleTrade
  BY DEF TypeOK
<1>2. o[t] = a /\ o[u] = b /\ \A s \in TradeIds \ {t, u} : o[s] = obj[s]
  BY <1>1 DEF Offered
<1>3. a.xItems = obj[t].xItems /\ a.xMeso = obj[t].xMeso /\ a.locked /\ a.partner = obj[t].partner
  BY <1>1 DEF MapleTrade
<1>4. b.xItems = obj[t].items /\ b.xMeso = obj[t].meso /\ b.locked = obj[u].locked /\ b.partner = obj[u].partner
  BY <1>1 DEF MapleTrade
<1> HIDE DEF o, a, b
<1>5. \A s \in TradeIds : o[s].items = obj[s].items /\ o[s].meso = obj[s].meso
  BY OfferedOffers DEF o
<1>6. /\ o[t].xItems = obj[t].xItems /\ o[t].xMeso = obj[t].xMeso /\ o[t].locked
      /\ o[u].xItems = obj[t].items /\ o[u].xMeso = obj[t].meso /\ o[u].locked = obj[u].locked
      /\ o[t].partner = obj[t].partner /\ o[u].partner = obj[u].partner
  BY <1>2, <1>3, <1>4
<1> QED BY <1>2, <1>5, <1>6 DEF o

LEMMA AcceptStart ==
  ASSUME TypeOK, TradeAssumption, Linked, AcceptedOffer, NEW p \in Players, StartTrade(p)
  PROVE  AcceptedOffer'
<1>1. PICK t \in TradeIds : /\ Unused(t) /\ trade[p] = None /\ obj' = [obj EXCEPT ![t] = Fresh(p, None)]
                            /\ trade' = [trade EXCEPT ![p] = t]
  BY DEF StartTrade
<1>2. obj'[t].partner = None /\ \A s \in TradeIds \ {t} : obj'[s] = obj[s]
  BY <1>1 DEF TypeOK, Fresh, Blank
<1>3. \A x \in Players \ {p} : /\ trade'[x] = trade[x]
                               /\ trade[x] # None => /\ trade[x] # t /\ obj[trade[x]].partner # t
                                                     /\ obj[trade[x]].partner # None =>
                                                          obj[obj[trade[x]].partner].chr # p
  BY <1>1, Opened
<1> SUFFICES ASSUME NEW r \in Players PROVE Accepts(r)'
  BY DEF AcceptedOffer, Accepts
<1>4. CASE r = p
  BY <1>1, <1>2, <1>4 DEF Accepts, TypeOK
<1>5. CASE r # p /\ trade[r] # None
  <2>1. trade'[r] = trade[r] /\ trade[r] \in TradeIds \ {t} /\ obj'[trade[r]] = obj[trade[r]]
    BY <1>2, <1>3, <1>5, Sides
  <2>2. obj[trade[r]].partner # None => obj'[obj[trade[r]].partner] = obj[obj[trade[r]].partner]
    BY <1>2, <1>3, <1>5, Sides
  <2> QED BY <1>5, <2>1, <2>2, SameAcceptance DEF Accepts
<1>6. CASE r # p /\ trade[r] = None
  BY <1>3, <1>6 DEF Accepts
<1> QED BY <1>4, <1>5, <1>6

\* An invitation while the inviter is locked would leave a link that is not returned.
LEMMA AcceptInvite ==
  ASSUME TypeOK, TradeAssumption, Linked, Linked', AcceptedOffer,
         NEW p \in Players, NEW q \in Players, InviteTrade(p, q)
  PROVE  AcceptedOffer'
<1> DEFINE s == trade[p]
<1>1. PICK t \in TradeIds :
        /\ Unused(t) /\ s # None /\ trade[q] = None /\ trade' = [trade EXCEPT ![q] = t]
        /\ obj' = IF obj[s].locked THEN [obj EXCEPT ![t] = Fresh(q, s)]
                  ELSE [obj EXCEPT ![t] = Fresh(q, s), ![s].partner = t]
  BY DEF InviteTrade
<1>2. p # q /\ s # t /\ s \in TradeIds /\ obj[s].chr = p /\ trade'[q] = t /\ t # None
  BY <1>1, Sides, TradeAssumption DEF Unused, TypeOK
<1>3. obj'[t].partner = s /\ ~ obj'[t].locked
  BY <1>1, <1>2 DEF TypeOK, MapleTrade, Fresh, Blank
<1>4. obj'[s].partner = t
  BY <1>2, <1>3, TradeAssumption DEF Linked
<1>5. ~ obj[s].locked
  <2> SUFFICES ASSUME obj[s].locked PROVE FALSE
    OBVIOUS
  <2>1. obj'[s].partner = obj[s].partner
    BY <1>1, <1>2 DEF TypeOK
  <2> QED BY <1>1, <1>4, <2>1 DEF Unused
<1>6. ~ obj'[s].locked /\ \A w \in TradeIds \ {s, t} : obj'[w] = obj[w]
  BY <1>1, <1>2, <1>5 DEF TypeOK, MapleTrade
<1>7. \A x \in Players \ {q} : /\ trade'[x] = trade[x]
                               /\ trade[x] # None => /\ trade[x] # t /\ obj[trade[x]].partner # t
                                                     /\ obj[trade[x]].partner # None =>
                                                          obj[obj[trade[x]].partner].chr # q
  BY <1>1, Opened
<1> SUFFICES ASSUME NEW r \in Players PROVE Accepts(r)'
  BY DEF AcceptedOffer, Accepts
<1>8. CASE r = p \/ r = q
  BY <1>2, <1>3, <1>4, <1>6, <1>7, <1>8 DEF Accepts
<1>9. CASE r # p /\ r # q /\ trade[r] # None
  <2>1. /\ trade'[r] = trade[r] /\ trade[r] \in TradeIds \ {s, t}
        /\ obj'[trade[r]] = obj[trade[r]]
    BY <1>2, <1>6, <1>7, <1>9, Sides
  <2>2. CASE obj[trade[r]].partner = s
    BY <1>6, <2>1, <2>2 DEF Accepts
  <2>3. CASE obj[trade[r]].partner # s
    <3>1. obj[trade[r]].partner # None => obj'[obj[trade[r]].partner] = obj[obj[trade[r]].partner]
      BY <1>6, <1>7, <1>9, <2>3, Sides
    <3> QED BY <1>9, <2>1, <3>1, SameAcceptance DEF Accepts
  <2> QED BY <2>2, <2>3
<1>10. CASE r # q /\ trade[r] = None
  BY <1>7, <1>10 DEF Accepts
<1> QED BY <1>8, <1>9, <1>10

\* One side, not locked, changes nothing of what it will receive.
LEMMA AcceptOwn ==
  ASSUME TypeOK, TradeAssumption, Linked, AcceptedOffer, NEW p \in Players, trade[p] # None,
         trade' = trade, \A s \in TradeIds \ {trade[p]} : obj'[s] = obj[s],
         LET t == trade[p] IN
           /\ obj'[t].partner = obj[t].partner /\ obj'[t].locked = obj[t].locked
           /\ obj'[t].xItems = obj[t].xItems /\ obj'[t].xMeso = obj[t].xMeso
           /\ obj[t].locked => obj'[t].items = obj[t].items /\ obj'[t].meso = obj[t].meso
  PROVE  AcceptedOffer'
<1> SUFFICES ASSUME NEW r \in Players, trade[r] # None PROVE Accepts(r)'
  BY DEF AcceptedOffer, Accepts
<1> DEFINE v == trade[r]
           w == obj[v].partner
<1>1. v \in TradeIds /\ (w # None => w \in TradeIds)
  BY Sides
<1>2. /\ obj'[v].partner = w /\ obj'[v].locked = obj[v].locked
      /\ obj'[v].xItems = obj[v].xItems /\ obj'[v].xMeso = obj[v].xMeso
  BY <1>1
<1>3. w # None => /\ obj'[w].locked = obj[w].locked
                  /\ obj[w].locked => obj'[w].items = obj[w].items /\ obj'[w].meso = obj[w].meso
  BY <1>1
<1>4. trade'[r] = trade[r]
  OBVIOUS
<1> HIDE DEF v, w
<1>5. v = trade[r] /\ w = obj[trade[r]].partner
  BY DEF v, w
<1> QED BY <1>2, <1>3, <1>4, <1>5, SameAcceptance DEF Accepts
\* Windows that close leave the others as they were.
LEMMA AcceptClosing ==
  ASSUME TypeOK, TradeAssumption, Linked, AcceptedOffer, NEW C, NEW K, Closing(C, K)
  PROVE  AcceptedOffer'
<1> SUFFICES ASSUME NEW r \in Players, trade'[r] # None PROVE Accepts(r)'
  BY DEF AcceptedOffer, Accepts
<1>1. /\ trade'[r] = trade[r] /\ obj'[trade[r]] = obj[trade[r]]
      /\ obj[trade[r]].partner # None => obj'[obj[trade[r]].partner] = obj[obj[trade[r]].partner]
  BY ClosingOthers
<1> QED BY <1>1, SameAcceptance DEF Accepts
\* The first to confirm hands over a copy; the second ends both windows.
LEMMA AcceptConfirm ==
  ASSUME TypeOK, TradeAssumption, Linked, AcceptedOffer, NEW p \in Players, Confirm(p)
  PROVE  AcceptedOffer'
<1> DEFINE t == trade[p]
           u == obj[t].partner
<1>1. PICK q \in Players :
        /\ t # None /\ u # None /\ t # u /\ t \in TradeIds /\ u \in TradeIds /\ ~ obj[t].locked
        /\ q = obj[u].chr /\ q # p /\ trade[q] = u /\ obj[u].partner = t /\ obj[t].chr = p
  BY Confirmed, Sides
<1>2. CASE \E C, K : Closing(C, K)
  BY <1>2, AcceptClosing
<1>3. ASSUME \A s \in TradeIds \ {t, u} : obj'[s] = obj[s],
             NEW r \in Players, r # p, r # q, trade'[r] = trade[r]
      PROVE  Accepts(r)'
  <2>1. CASE trade[r] = None
    BY <1>3, <2>1 DEF Accepts
  <2>2. CASE trade[r] # None
    <3>1. /\ obj'[trade[r]] = obj[trade[r]]
          /\ obj[trade[r]].partner # None => obj'[obj[trade[r]].partner] = obj[obj[trade[r]].partner]
      BY <1>1, <1>3, <2>2, Bystanders
    <3> QED BY <1>3, <2>2, <3>1, SameAcceptance DEF Accepts
  <2> QED BY <2>1, <2>2
<1>4. CASE CompleteTrade(t, u) /\ Leave(BothSides(t, u))
  <2>1. trade'[p] = None /\ trade'[q] = None /\ \A r \in Players : r # p /\ r # q => trade'[r] = trade[r]
    BY <1>1, <1>4 DEF Leave, BothSides
  <2>2. \A s \in TradeIds \ {t, u} : obj'[s] = obj[s]
    <3> DEFINE A == Offered(t, u)
    <3>1. A \in [TradeIds -> MapleTrade] /\ \A s \in TradeIds \ {t, u} : A[s] = obj[s]
      BY <1>1, OfferedType, OfferedFields
    <3>2. obj' = [A EXCEPT ![t].xItems = {}, ![t].xMeso = 0, ![u].xItems = {}, ![u].xMeso = 0]
      BY <1>4 DEF CompleteTrade
    <3> HIDE DEF A
    <3> QED BY <3>1, <3>2
  <2>3. Accepts(p)' /\ Accepts(q)'
    BY <2>1 DEF Accepts
  <2>4. ASSUME NEW r \in Players PROVE Accepts(r)'
    BY <1>3, <2>1, <2>2, <2>3
  <2> QED BY <2>4 DEF AcceptedOffer, Accepts
<1>5. CASE ~ obj[u].locked /\ obj' = Offered(t, u) /\ trade' = trade
  <2>1. /\ obj'[u].xItems = obj'[t].items /\ obj'[u].xMeso = obj'[t].meso
        /\ ~ obj'[u].locked /\ obj'[t].partner = u /\ obj'[u].partner = t
        /\ \A s \in TradeIds \ {t, u} : obj'[s] = obj[s]
    BY <1>1, <1>5, OfferedFields
  <2>2. Accepts(p)' /\ Accepts(q)'
    BY <1>1, <1>5, <2>1 DEF Accepts
  <2>3. ASSUME NEW r \in Players PROVE Accepts(r)'
    BY <1>3, <1>5, <2>1, <2>2
  <2> QED BY <2>3 DEF AcceptedOffer, Accepts
<1> QED BY <1>2, <1>4, <1>5, Confirmed

\* No step changes what was accepted while the windows link both ways.
LEMMA NextAccepted == TypeOK /\ Linked /\ Linked' /\ AcceptedOffer /\ [Next]_vars => AcceptedOffer'
<1> USE TradeAssumption
<1> SUFFICES ASSUME TypeOK, Linked, Linked', AcceptedOffer, [Next]_vars PROVE AcceptedOffer'
  OBVIOUS
<1>1. ASSUME UNCHANGED <<trade, obj>> PROVE AcceptedOffer'
  BY <1>1 DEF AcceptedOffer
<1>2. ASSUME NEW p \in Players, VisitTrade(p) PROVE AcceptedOffer'
  <2>1. trade' = trade /\ trade[p] # None /\ trade[p] \in TradeIds /\ obj' = [obj EXCEPT ![trade[p]].inTrade = TRUE]
    BY <1>2 DEF VisitTrade, TypeOK
  <2>2. /\ \A s \in TradeIds \ {trade[p]} : obj'[s] = obj[s]
        /\ LET t == trade[p] IN
             /\ obj'[t].partner = obj[t].partner /\ obj'[t].locked = obj[t].locked
             /\ obj'[t].xItems = obj[t].xItems /\ obj'[t].xMeso = obj[t].xMeso
             /\ obj'[t].items = obj[t].items /\ obj'[t].meso = obj[t].meso
    BY <2>1 DEF TypeOK, MapleTrade
  <2> QED BY <2>1, <2>2, AcceptOwn
<1>3. ASSUME NEW p \in Players, NEW i \in Items, SetItems(p, i) PROVE AcceptedOffer'
  <2>1. /\ trade' = trade /\ trade[p] # None /\ trade[p] \in TradeIds /\ ~ obj[trade[p]].locked
        /\ obj' = [obj EXCEPT ![trade[p]].items = @ \cup {i}]
    BY <1>3 DEF SetItems, TypeOK
  <2>2. /\ \A s \in TradeIds \ {trade[p]} : obj'[s] = obj[s]
        /\ LET t == trade[p] IN
             /\ obj'[t].partner = obj[t].partner /\ obj'[t].locked = obj[t].locked
             /\ obj'[t].xItems = obj[t].xItems /\ obj'[t].xMeso = obj[t].xMeso
    BY <2>1 DEF TypeOK, MapleTrade
  <2> QED BY <2>1, <2>2, AcceptOwn
<1>4. ASSUME NEW p \in Players, NEW m \in Meso, SetMeso(p, m) PROVE AcceptedOffer'
  <2>1. /\ trade' = trade /\ trade[p] # None /\ trade[p] \in TradeIds /\ ~ obj[trade[p]].locked
        /\ obj' = [obj EXCEPT ![trade[p]].meso = @ + m]
    BY <1>4 DEF SetMeso, TypeOK
  <2>2. /\ \A s \in TradeIds \ {trade[p]} : obj'[s] = obj[s]
        /\ LET t == trade[p] IN
             /\ obj'[t].partner = obj[t].partner /\ obj'[t].locked = obj[t].locked
             /\ obj'[t].xItems = obj[t].xItems /\ obj'[t].xMeso = obj[t].xMeso
    BY <2>1 DEF TypeOK, MapleTrade
  <2> QED BY <2>1, <2>2, AcceptOwn
<1>5. ASSUME NEW p \in Players, DeclineTrade(p) \/ Exit(p) \/ Disconnect(p) PROVE AcceptedOffer'
  <2>1. CASE DeclineTrade(p) \/ Exit(p) \/ (Disconnect(p) /\ trade[p] # None)
    BY <2>1, Ended, AcceptClosing
  <2>2. CASE Disconnect(p) /\ trade[p] = None
    BY <1>1, <2>2 DEF Disconnect
  <2> QED BY <1>5, <2>1, <2>2
<1>6. ASSUME NEW p \in Players, NEW i \in Items, PickUp(p, i) \/ DropItem(p, i) \/ PetLoot(p, i)
      PROVE  AcceptedOffer'
  BY <1>1, <1>6 DEF PickUp, PickedUp, DropItem, PetLoot
<1>7. ASSUME NEW p \in Players, Login(p) \/ PetLootMeso(p) PROVE AcceptedOffer'
  BY <1>1, <1>7 DEF Login, PetLootMeso
<1>8. CASE UNCHANGED vars
  BY <1>1, <1>8 DEF vars
<1> QED
  BY <1>2, <1>3, <1>4, <1>5, <1>6, <1>7, <1>8, AcceptStart, AcceptInvite, AcceptConfirm DEF Next

LEMMA InitAccepted == Init => AcceptedOffer
BY DEF Init, AcceptedOffer

\* For any number of characters: as long as windows link their two sides to each other, what
\* completeTrade will hand over is what the partner accepted.  The third character of the
\* README's finding gets past acceptance by breaking a link, and in no other way.
THEOREM LinkedAreAccepted == Spec /\ []Linked => []AcceptedOffer
BY InitTypeOK, NextTypeOK, InitAccepted, NextAccepted, PTL DEF Spec

\* With one pair of characters a side receives what its partner accepted, item for item and
\* meso for meso, and the two are never both locked.
THEOREM PairReceivesWhatWasAccepted == ASSUME Pair PROVE Spec => []AcceptedOffer
BY PairLinks, LinkedAreAccepted, PTL
-----------------------------------------------------------------------------
(* Goods: what a step may do with items.                                    *)

OffersKept == \A r \in Players : Offer(r)' = Offer(r)
MesosKept == \A r \in Players : OfferedMeso(r)' = OfferedMeso(r)

\* p puts i into the window.
PutIn(p, i) ==
  /\ trade[p] # None /\ trade' = trade /\ i \in inv[p]
  /\ inv' = [inv EXCEPT ![p] = @ \ {i}] /\ Offer(p)' = Offer(p) \cup {i}
  /\ \A r \in Players \ {p} : Offer(r)' = Offer(r)
  /\ UNCHANGED <<ground, etc, lost, eaten, online>>

\* The characters of C close their windows and get K back.
Back(C, K) ==
  /\ Closing(C, K) /\ \A p \in C : Offer(p)' = {}
  /\ \A p \in Players \ C : Offer(p)' = Offer(p)
  /\ UNCHANGED <<ground, etc, eaten>>
  /\ \A p \in Players : p \in online /\ p \notin online' => p \in C \/ trade[p] = None

\* p and q exchange their offers; the items of gone are discarded.
Exchange(p, q, gone) ==
  /\ p # q /\ trade[p] # None /\ trade[q] # None /\ trade'[p] = None /\ trade'[q] = None
  /\ Locked(q) /\ gone \subseteq Buffs \cap (Offer(p) \cup Offer(q))
  /\ Cardinality(Offer(q)) <= Free(p) /\ Cardinality(Offer(p)) <= Free(q)
  /\ inv'[p] = inv[p] \cup (Offer(q) \ gone) /\ inv'[q] = inv[q] \cup (Offer(p) \ gone)
  /\ \A r \in Players \ {p, q} : inv'[r] = inv[r] /\ trade'[r] = trade[r] /\ Offer(r)' = Offer(r)
  /\ Offer(p)' = {} /\ Offer(q)' = {} /\ eaten' = eaten \cup gone
  /\ purse'[p] = purse[p] + OfferedMeso(q) /\ purse'[q] = purse[q] + OfferedMeso(p)
  /\ OfferedMeso(p)' = 0 /\ OfferedMeso(q)' = 0 /\ \A r \in Players : bank'[r] = bank[r]
  /\ \A r \in Players \ {p, q} : purse'[r] = purse[r] /\ OfferedMeso(r)' = OfferedMeso(r)
  /\ UNCHANGED <<ground, etc, lost, online>>

\* Items stay where they are; windows open, characters come and go without one.
Still ==
  /\ OffersKept /\ UNCHANGED <<inv, ground, etc, lost, eaten>>
  /\ \A p \in Players : /\ trade'[p] # None => trade[p] # None \/ p \in online
                        /\ trade[p] # None => trade'[p] # None
                        /\ p \in online /\ p \notin online' => trade'[p] = None

\* The kinds of steps.
Goods ==
  \/ Still
  \/ \E p \in Players : \E i \in Items : /\ OffersKept
                                         /\ PickUp(p, i) \/ DropItem(p, i) \/ PetLoot(p, i)
  \/ \E p \in Players : \E i \in Items : PutIn(p, i)
  \/ \E C, K : Back(C, K)
  \/ \E p \in Players : \E q \in Players : \E gone : Exchange(p, q, gone)

LEMMA OffersAlike ==
  ASSUME TypeOK, TradeAssumption, trade' = trade,
         \A t \in TradeIds : obj'[t].items = obj[t].items
  PROVE  OffersKept
BY DEF OffersKept, Offer, TypeOK

\* A new window offers nothing.
LEMMA StartStill ==
  ASSUME TypeOK, TradeAssumption, NEW p \in Players, StartTrade(p)
  PROVE  Still /\ MesosKept
<1>1. PICK t \in TradeIds : /\ Unused(t) /\ obj' = [obj EXCEPT ![t] = Fresh(p, None)]
                            /\ trade' = [trade EXCEPT ![p] = t]
  BY DEF StartTrade
<1>2. /\ p \in online /\ online' = online /\ UNCHANGED <<inv, ground, etc, lost, eaten>>
      /\ trade[p] = None
  BY DEF StartTrade, world
<1>3. /\ obj'[t].items = {} /\ obj'[t].meso = 0 /\ trade'[p] = t /\ \A s \in TradeIds \ {t} : obj'[s] = obj[s]
      /\ \A r \in Players \ {p} : trade'[r] = trade[r]
  BY <1>1 DEF TypeOK, Fresh, Blank
<1>4. \A r \in Players : trade[r] # None => trade[r] \in TradeIds \ {t}
  BY <1>1 DEF Unused, TypeOK
<1>5. Offer(p)' = {} /\ Offer(p) = {} /\ OfferedMeso(p)' = 0 /\ OfferedMeso(p) = 0
  BY <1>1, <1>2, <1>3, TradeAssumption DEF Offer, OfferedMeso
<1>6. \A r \in Players \ {p} : Offer(r)' = Offer(r) /\ OfferedMeso(r)' = OfferedMeso(r)
  BY <1>3, <1>4 DEF Offer, OfferedMeso
<1>7. OffersKept /\ MesosKept
  BY <1>5, <1>6 DEF OffersKept, MesosKept
<1> QED BY <1>1, <1>2, <1>3, <1>4, <1>7, TradeAssumption DEF Still

LEMMA InviteStill ==
  ASSUME TypeOK, TradeAssumption, NEW p \in Players, NEW q \in Players, InviteTrade(p, q)
  PROVE  Still /\ MesosKept
<1> DEFINE s == trade[p]
<1>1. PICK t \in TradeIds : /\ Unused(t) /\ trade' = [trade EXCEPT ![q] = t]
                            /\ obj' = IF obj[s].locked THEN [obj EXCEPT ![t] = Fresh(q, s)]
                                      ELSE [obj EXCEPT ![t] = Fresh(q, s), ![s].partner = t]
  BY DEF InviteTrade
<1>2. /\ q \in online /\ online' = online /\ UNCHANGED <<inv, ground, etc, lost, eaten>>
      /\ trade[q] = None /\ s # None
  BY DEF InviteTrade, world
<1>3. s \in TradeIds \ {t}
  BY <1>1, <1>2 DEF Unused, TypeOK
<1>4. /\ obj'[t].items = {} /\ obj'[t].meso = 0 /\ trade'[q] = t
      /\ \A r \in Players \ {q} : trade'[r] = trade[r]
  BY <1>1, <1>3 DEF TypeOK, Fresh, Blank, MapleTrade
<1>5. \A w \in TradeIds \ {t} : obj'[w].items = obj[w].items /\ obj'[w].meso = obj[w].meso
  BY <1>1, <1>3 DEF TypeOK, MapleTrade
<1>6. \A r \in Players : trade[r] # None => trade[r] \in TradeIds \ {t}
  BY <1>1 DEF Unused, TypeOK
<1>7. Offer(q)' = {} /\ Offer(q) = {} /\ OfferedMeso(q)' = 0 /\ OfferedMeso(q) = 0
  BY <1>1, <1>2, <1>4, TradeAssumption DEF Offer, OfferedMeso
<1>8. \A r \in Players \ {q} : Offer(r)' = Offer(r) /\ OfferedMeso(r)' = OfferedMeso(r)
  BY <1>4, <1>5, <1>6 DEF Offer, OfferedMeso
<1>9. OffersKept /\ MesosKept
  BY <1>7, <1>8 DEF OffersKept, MesosKept
<1> QED BY <1>1, <1>2, <1>4, <1>6, <1>9, TradeAssumption DEF Still

\* Windows that close offer nothing any more.
LEMMA ClosingBack ==
  ASSUME TypeOK, TradeAssumption, Linked, NEW C, NEW K, Closing(C, K), UNCHANGED <<ground, etc, eaten>>,
         \A p \in Players : p \in online /\ p \notin online' => p \in C \/ trade[p] = None
  PROVE  Back(C, K)
<1>1. \A p \in C : Offer(p)' = {}
  BY DEF Closing, Offer
<1>2. ASSUME NEW p \in Players \ C PROVE Offer(p)' = Offer(p)
  BY DEF Closing, Offer
<1> QED BY <1>1, <1>2 DEF Back

\* With the partner locked, completing is an exchange of offers.
LEMMA CompleteExchange ==
  ASSUME TypeOK, TradeAssumption, Linked, AcceptedOffer, NEW p \in Players, Confirm(p),
         obj[obj[trade[p]].partner].locked,
         CompleteTrade(trade[p], obj[trade[p]].partner),
         Leave(BothSides(trade[p], obj[trade[p]].partner))
  PROVE  \E q \in Players : \E gone : Exchange(p, q, gone)
<1> DEFINE t == trade[p]
           u == obj[t].partner
<1>1. PICK q \in Players :
        /\ t # None /\ u # None /\ t # u /\ t \in TradeIds /\ u \in TradeIds
        /\ q = obj[u].chr /\ q # p /\ trade[q] = u /\ obj[u].partner = t /\ obj[t].chr = p
        /\ UNCHANGED <<ground, etc, online>>
  BY Confirmed, Sides
<1>2. obj[t].xItems = obj[u].items /\ obj[t].xMeso = obj[u].meso
  BY <1>1 DEF AcceptedOffer
<1>3. /\ Offer(p) = obj[t].items /\ Offer(q) = obj[u].items
      /\ OfferedMeso(p) = obj[t].meso /\ OfferedMeso(q) = obj[u].meso /\ Locked(q)
  BY <1>1 DEF Offer, OfferedMeso, Locked
<1>4. /\ Check(t, Offer(q), OfferedMeso(q)) /\ Check(u, Offer(p), OfferedMeso(p)) /\ UNCHANGED lost
      /\ purse' = [purse EXCEPT ![p] = PurseAfter(p, OfferedMeso(q)), ![q] = PurseAfter(q, OfferedMeso(p))]
  BY <1>1, <1>2, <1>3 DEF CompleteTrade
<1>5. PICK gone \in SUBSET (Buffs \cap (Offer(q) \cup Offer(p))) :
        /\ inv' = [inv EXCEPT ![p] = @ \cup (Offer(q) \ gone), ![q] = @ \cup (Offer(p) \ gone)]
        /\ eaten' = eaten \cup gone
  <2>1. CompleteTrade(t, u)
    OBVIOUS
  <2>2. PICK gone \in SUBSET (Buffs \cap (obj[t].xItems \cup obj[t].items)) :
          /\ inv' = [inv EXCEPT ![obj[t].chr] = @ \cup (obj[t].xItems \ gone),
                                ![obj[u].chr] = @ \cup (obj[t].items \ gone)]
          /\ eaten' = eaten \cup gone
    BY <2>1 DEF CompleteTrade
  <2>3. obj[t].xItems = Offer(q) /\ obj[t].items = Offer(p) /\ obj[t].chr = p /\ obj[u].chr = q
    BY <1>1, <1>2, <1>3
  <2> QED BY <2>2, <2>3
<1>6. \A s \in TradeIds : obj'[s].items = obj[s].items /\ obj'[s].meso = obj[s].meso
  BY <1>1, CompletedOffers
<1>7. trade'[p] = None /\ trade'[q] = None /\ \A r \in Players \ {p, q} : trade'[r] = trade[r]
  BY <1>1 DEF Leave, BothSides
<1>8. Offer(p)' = {} /\ Offer(q)' = {} /\ OfferedMeso(p)' = 0 /\ OfferedMeso(q)' = 0
  BY <1>7 DEF Offer, OfferedMeso
<1>9. ASSUME NEW r \in Players \ {p, q}
      PROVE  /\ inv'[r] = inv[r] /\ trade'[r] = trade[r] /\ purse'[r] = purse[r]
             /\ Offer(r)' = Offer(r) /\ OfferedMeso(r)' = OfferedMeso(r)
  <2>1. inv'[r] = inv[r] /\ purse'[r] = purse[r]
    BY <1>4, <1>5 DEF TypeOK
  <2>2. trade'[r] = trade[r] /\ (trade[r] # None => trade[r] \in TradeIds)
    BY <1>7 DEF TypeOK
  <2> QED BY <1>6, <2>1, <2>2 DEF Offer, OfferedMeso
<1>10. /\ Cardinality(Offer(q)) <= Free(p) /\ Cardinality(Offer(p)) <= Free(q)
       /\ purse[p] + OfferedMeso(q) <= MaxMeso /\ purse[q] + OfferedMeso(p) <= MaxMeso
  BY <1>1, <1>4 DEF Check
<1>11. OfferedMeso(p) \in Nat /\ OfferedMeso(q) \in Nat /\ purse[p] \in Nat /\ purse[q] \in Nat /\ MaxMeso \in Nat
  BY <1>1, <1>3, TradeAssumption DEF TypeOK, MapleTrade, Meso
<1>12. purse'[p] = purse[p] + OfferedMeso(q) /\ purse'[q] = purse[q] + OfferedMeso(p)
  <2>1. PurseAfter(p, OfferedMeso(q)) = purse[p] + OfferedMeso(q) /\ PurseAfter(q, OfferedMeso(p)) = purse[q] + OfferedMeso(p)
    BY <1>10, <1>11 DEF PurseAfter
  <2> QED BY <1>1, <1>4, <2>1 DEF TypeOK
<1>17. \A r \in Players : bank'[r] = bank[r]
  <2> SUFFICES ASSUME NEW r \in Players PROVE bank'[r] = bank[r]
    OBVIOUS
  <2>1. BankAfter(p, OfferedMeso(q)) = bank[p] /\ BankAfter(q, OfferedMeso(p)) = bank[q]
    BY <1>10, <1>11 DEF BankAfter
  <2>2. bank' = [bank EXCEPT ![p] = BankAfter(p, OfferedMeso(q)), ![q] = BankAfter(q, OfferedMeso(p))]
    BY <1>1, <1>2, <1>3 DEF CompleteTrade
  <2> QED BY <1>1, <2>1, <2>2 DEF TypeOK
<1>13. inv'[p] = inv[p] \cup (Offer(q) \ gone) /\ inv'[q] = inv[q] \cup (Offer(p) \ gone)
  BY <1>1, <1>5 DEF TypeOK
<1>14. gone \subseteq Buffs \cap (Offer(p) \cup Offer(q))
  BY <1>5
<1>15. UNCHANGED <<ground, etc, lost, online>>
  BY <1>1, <1>4
<1> HIDE DEF t, u
<1>16. trade[p] # None /\ trade[q] # None
  BY <1>1 DEF t
<1>18. /\ p # q /\ q \in Players /\ Locked(q) /\ eaten' = eaten \cup gone
       /\ Cardinality(Offer(q)) <= Free(p) /\ Cardinality(Offer(p)) <= Free(q)
  BY <1>1, <1>3, <1>5, <1>10
<1>19. /\ \A r \in Players \ {p, q} : inv'[r] = inv[r] /\ trade'[r] = trade[r] /\ Offer(r)' = Offer(r)
       /\ \A r \in Players \ {p, q} : purse'[r] = purse[r] /\ OfferedMeso(r)' = OfferedMeso(r)
  BY <1>9
<1>20. trade'[p] = None /\ trade'[q] = None
  BY <1>7
<1>21. Exchange(p, q, gone)
  BY <1>8, <1>12, <1>13, <1>14, <1>15, <1>16, <1>17, <1>18, <1>19, <1>20 DEF Exchange
<1> QED BY <1>18, <1>21

LEMMA NextGoods == TypeOK /\ Linked /\ AcceptedOffer /\ [Next]_vars => Goods
<1> USE TradeAssumption
<1> SUFFICES ASSUME TypeOK, Linked, AcceptedOffer, [Next]_vars PROVE Goods
  OBVIOUS
<1>1. ASSUME UNCHANGED <<inv, ground, etc, lost, eaten, trade>>, OffersKept,
             \A p \in Players : p \in online /\ p \notin online' => trade[p] = None
      PROVE  Goods
  BY <1>1 DEF Still, Goods
<1>2. ASSUME UNCHANGED <<trade, obj>> PROVE OffersKept
  BY <1>2 DEF OffersKept, Offer
<1>3. ASSUME NEW p \in Players, VisitTrade(p) PROVE Goods
  <2>1. trade' = trade /\ obj' = [obj EXCEPT ![trade[p]].inTrade = TRUE] /\ UNCHANGED <<inv, world, lost, eaten>>
    BY <1>3 DEF VisitTrade
  <2>2. \A t \in TradeIds : obj'[t].items = obj[t].items
    BY <2>1 DEF TypeOK, MapleTrade
  <2> QED BY <1>1, <2>1, <2>2, OffersAlike DEF world
<1>4. ASSUME NEW p \in Players, NEW i \in Items, SetItems(p, i) PROVE Goods
  <2>1. /\ trade' = trade /\ trade[p] # None /\ trade[p] \in TradeIds /\ i \in inv[p]
        /\ obj' = [obj EXCEPT ![trade[p]].items = @ \cup {i}]
        /\ inv' = [inv EXCEPT ![p] = @ \ {i}] /\ UNCHANGED <<ground, etc, lost, eaten, online>>
    BY <1>4 DEF SetItems, TypeOK, world
  <2>2. obj'[trade[p]].items = obj[trade[p]].items \cup {i} /\ \A s \in TradeIds \ {trade[p]} : obj'[s] = obj[s]
    BY <2>1 DEF TypeOK, MapleTrade
  <2>3. Offer(p)' = Offer(p) \cup {i}
    BY <2>1, <2>2 DEF Offer
  <2>4. ASSUME NEW r \in Players \ {p} PROVE Offer(r)' = Offer(r)
    <3>1. trade[r] # None => trade[r] \in TradeIds \ {trade[p]}
      BY <2>1, Sides
    <3> QED BY <2>1, <2>2, <3>1 DEF Offer
  <2>5. PutIn(p, i)
    BY <2>1, <2>3, <2>4 DEF PutIn
  <2> QED BY <2>5 DEF Goods
<1>5. ASSUME NEW p \in Players, NEW m \in Meso, SetMeso(p, m) PROVE Goods
  <2>1. trade' = trade /\ obj' = [obj EXCEPT ![trade[p]].meso = @ + m] /\ UNCHANGED <<inv, world, lost, eaten>>
    BY <1>5 DEF SetMeso
  <2>2. \A t \in TradeIds : obj'[t].items = obj[t].items
    BY <2>1 DEF TypeOK, MapleTrade
  <2> QED BY <1>1, <2>1, <2>2, OffersAlike DEF world
<1>6. ASSUME NEW p \in Players, Confirm(p) PROVE Goods
  <2> DEFINE t == trade[p]
             u == obj[t].partner
  <2>1. UNCHANGED <<ground, etc, online>> /\ t \in TradeIds /\ u \in TradeIds
    BY <1>6, Confirmed, Sides
  <2>2. CASE obj[u].locked /\ CompleteTrade(t, u) /\ Leave(BothSides(t, u))
    BY <1>6, <2>2, CompleteExchange DEF Goods
  <2>3. CASE (\E C, K : Closing(C, K)) /\ UNCHANGED eaten
    BY <2>1, <2>3, ClosingBack DEF Goods
  <2>4. CASE ~ obj[u].locked /\ obj' = Offered(t, u) /\ UNCHANGED <<inv, purse, bank, trade, lost, eaten>>
    <3>1. \A s \in TradeIds : obj'[s].items = obj[s].items
      BY <2>1, <2>4, OfferedOffers
    <3> QED BY <1>1, <2>1, <2>4, <3>1, OffersAlike
  <2> QED BY <1>6, <2>2, <2>3, <2>4, Confirmed
<1>7. ASSUME NEW p \in Players, DeclineTrade(p) \/ Exit(p) \/ (Disconnect(p) /\ trade[p] # None) PROVE Goods
  <2>1. PICK C, K : Closing(C, K)
    BY <1>7, Ended
  <2>2. UNCHANGED <<ground, etc, eaten>> /\ trade'[p] = None
    BY <1>7, Ended
  <2>3. \A r \in Players : r \in online /\ r \notin online' => r = p
    BY <1>7, Ended
  <2>4. p \in C
    BY <1>7, <2>1, <2>2 DEF Closing, DeclineTrade, Exit
  <2>5. Back(C, K)
    BY <2>1, <2>2, <2>3, <2>4, ClosingBack
  <2> QED BY <2>5 DEF Goods
<1>8. ASSUME NEW p \in Players, Disconnect(p), trade[p] = None PROVE Goods
  <2>1. UNCHANGED <<inv, ground, etc, lost, eaten, trade, obj>> /\ online' = online \ {p}
    BY <1>8 DEF Disconnect
  <2> QED BY <1>1, <1>2, <1>8, <2>1
<1>9. ASSUME NEW p \in Players, Login(p) \/ PetLootMeso(p) PROVE Goods
  <2>1. UNCHANGED <<inv, ground, etc, lost, eaten, trade, obj>> /\ online \subseteq online'
    BY <1>9 DEF Login, PetLootMeso
  <2> QED BY <1>1, <1>2, <2>1
<1>10. ASSUME NEW p \in Players, NEW i \in Items, PickUp(p, i) \/ DropItem(p, i) \/ PetLoot(p, i) PROVE Goods
  <2>1. UNCHANGED <<trade, obj>>
    BY <1>10 DEF PickUp, PickedUp, DropItem, PetLoot
  <2> QED BY <1>2, <1>10, <2>1 DEF Goods
<1>11. CASE UNCHANGED vars
  BY <1>1, <1>2, <1>11 DEF vars, world
<1>12. ASSUME NEW p \in Players, NEW q \in Players, StartTrade(p) \/ InviteTrade(p, q) PROVE Goods
  BY <1>12, StartStill, InviteStill DEF Goods
<1> QED
  BY <1>3, <1>4, <1>5, <1>6, <1>7, <1>8, <1>9, <1>10, <1>11, <1>12 DEF Next

-----------------------------------------------------------------------------
(* No item is in two places.                                                *)

Separate ==
  /\ \A p \in Players : /\ inv[p] \cap Offer(p) = {}
                        /\ (inv[p] \cup Offer(p)) \cap (ground \cup etc \cup lost \cup eaten) = {}
  /\ \A p, q \in Players : p # q => (inv[p] \cup Offer(p)) \cap (inv[q] \cup Offer(q)) = {}
  /\ ground \cap (etc \cup lost \cup eaten) = {} /\ etc \cap (lost \cup eaten) = {} /\ lost \cap eaten = {}

LEMMA SeparateBack ==
  ASSUME TypeOK, Separate, NEW C, NEW K, Back(C, K) PROVE Separate'
<1>1. C \subseteq Players /\ UNCHANGED <<ground, etc, eaten>>
  BY DEF Back, Closing
<1>2. ASSUME NEW p \in Players
      PROVE  /\ inv[p] \subseteq inv'[p]
             /\ inv'[p] \cup Offer(p)' \subseteq inv[p] \cup Offer(p)
             /\ inv'[p] \cap Offer(p)' = {}
  <2>1. CASE p \in C
    <3>1. K[p] \subseteq Offer(p) /\ inv'[p] = inv[p] \cup K[p] /\ Offer(p)' = {}
      BY <2>1 DEF Back, Closing, Kept
    <3> QED BY <3>1
  <2>2. CASE p \notin C
    <3>1. inv'[p] = inv[p] /\ Offer(p)' = Offer(p)
      BY <2>2 DEF Back, Closing
    <3> QED BY <3>1 DEF Separate
  <2> QED BY <2>1, <2>2
<1>3. ASSUME NEW i \in lost', i \notin lost
      PROVE  \E p \in Players : i \in Offer(p) /\ \A q \in Players : i \notin inv'[q] \cup Offer(q)'
  <2>1. PICK p \in C : i \in Offer(p) \ K[p]
    BY <1>3 DEF Back, Closing
  <2>2. inv'[p] = inv[p] \cup K[p] /\ Offer(p)' = {} /\ p \in Players
    BY <1>1 DEF Back, Closing
  <2>3. i \notin inv[p]
    BY <2>1, <2>2 DEF Separate
  <2>4. \A q \in Players : q # p => i \notin inv[q] \cup Offer(q)
    BY <2>1, <2>2 DEF Separate
  <2>5. \A q \in Players : i \notin inv'[q] \cup Offer(q)'
    BY <1>2, <2>1, <2>2, <2>3, <2>4
  <2> QED BY <2>1, <2>2, <2>5
<1>4. \A p \in Players : (inv'[p] \cup Offer(p)') \cap (ground \cup etc \cup lost \cup eaten) = {}
  BY <1>2 DEF Separate
<1>5. \A p \in Players : (inv'[p] \cup Offer(p)') \cap lost' = {}
  BY <1>3, <1>4
<1>6. \A p, q \in Players : p # q => (inv'[p] \cup Offer(p)') \cap (inv'[q] \cup Offer(q)') = {}
  BY <1>2 DEF Separate
<1>7. ASSUME NEW i \in lost' PROVE i \notin ground /\ i \notin etc /\ i \notin eaten
  BY <1>3 DEF Separate
<1>8. ground \cap etc = {} /\ ground \cap eaten = {} /\ etc \cap eaten = {}
  BY DEF Separate
<1> QED BY <1>1, <1>2, <1>4, <1>5, <1>6, <1>7, <1>8 DEF Separate

LEMMA SeparateExchange ==
  ASSUME TypeOK, Separate, NEW p \in Players, NEW q \in Players, NEW gone, Exchange(p, q, gone) PROVE Separate'
<1>1. /\ p # q /\ Offer(p)' = {} /\ Offer(q)' = {} /\ gone \subseteq Offer(p) \cup Offer(q)
      /\ inv'[p] = inv[p] \cup (Offer(q) \ gone) /\ inv'[q] = inv[q] \cup (Offer(p) \ gone)
      /\ UNCHANGED <<ground, etc, lost>> /\ eaten' = eaten \cup gone
  BY DEF Exchange
<1>2. \A r \in Players \ {p, q} : inv'[r] = inv[r] /\ Offer(r)' = Offer(r)
  BY DEF Exchange
<1> DEFINE Own(r) == inv[r] \cup Offer(r)
           New(r) == inv'[r] \cup Offer(r)'
<1>3. /\ New(p) \subseteq (inv[p] \cup Offer(q)) \ gone /\ New(q) \subseteq (inv[q] \cup Offer(p)) \ gone
      /\ \A r \in Players \ {p, q} : New(r) = Own(r) /\ inv'[r] \cap Offer(r)' = {}
  <2>1. inv[p] \cap gone = {} /\ inv[q] \cap gone = {}
    BY <1>1 DEF Separate
  <2> QED BY <1>1, <1>2, <2>1 DEF Separate
<1>4. \A r, s \in Players : r # s => Own(r) \cap Own(s) = {}
  BY DEF Separate
<1>5. inv[p] \cap Offer(p) = {} /\ inv[q] \cap Offer(q) = {}
  BY DEF Separate
<1>6. \A r \in Players : Own(r) \cap (ground \cup etc \cup lost \cup eaten) = {}
  BY DEF Separate
<1>7. \A r \in Players : New(r) \cap (ground \cup etc \cup lost \cup eaten) = {}
  BY <1>3, <1>6
<1>8. \A r \in Players : New(r) \cap gone = {}
  BY <1>1, <1>3, <1>4
<1>9. ASSUME NEW r \in Players, NEW s \in Players, r # s PROVE New(r) \cap New(s) = {}
  <2>1. CASE r \in {p, q} /\ s \in {p, q}
    BY <1>1, <1>3, <1>4, <1>5, <1>9, <2>1
  <2>2. CASE r \in {p, q} /\ s \notin {p, q}
    BY <1>3, <1>4, <1>9, <2>2
  <2>3. CASE r \notin {p, q} /\ s \in {p, q}
    BY <1>3, <1>4, <1>9, <2>3
  <2>4. CASE r \notin {p, q} /\ s \notin {p, q}
    BY <1>3, <1>4, <1>9, <2>4
  <2> QED BY <2>1, <2>2, <2>3, <2>4
<1>10. \A r \in Players : inv'[r] \cap Offer(r)' = {}
  BY <1>1, <1>3
<1>11. gone \cap (ground \cup etc \cup lost) = {}
  BY <1>1, <1>6
<1>12. ground' \cap (etc' \cup lost' \cup eaten') = {} /\ etc' \cap (lost' \cup eaten') = {} /\ lost' \cap eaten' = {}
  BY <1>1, <1>11 DEF Separate
<1>13. \A r \in Players : (inv'[r] \cup Offer(r)') \cap (ground' \cup etc' \cup lost' \cup eaten') = {}
  BY <1>1, <1>7, <1>8
<1> QED BY <1>9, <1>10, <1>12, <1>13 DEF Separate
\* Whatever the step, goods stay apart.
LEMMA SeparateNext ==
  ASSUME TypeOK, Separate, Goods PROVE Separate'
<1>1. CASE Still
  <2>1. \A r \in Players : Offer(r)' = Offer(r) /\ inv'[r] = inv[r]
    BY <1>1 DEF Still, OffersKept
  <2>2. UNCHANGED <<ground, etc, lost, eaten>>
    BY <1>1 DEF Still
  <2> QED BY <2>1, <2>2 DEF Separate
<1>2. ASSUME NEW p \in Players, NEW i \in Items, OffersKept, PickUp(p, i) PROVE Separate'
  <2>1. i \in ground /\ ground' = ground \ {i} /\ UNCHANGED lost
    BY <1>2 DEF PickUp, PickedUp
  <2>2. \A r \in Players : Offer(r)' = Offer(r)
    BY <1>2 DEF OffersKept
  <2>3. CASE inv' = [inv EXCEPT ![p] = @ \cup {i}] /\ UNCHANGED <<etc, eaten>>
    <3>1. inv'[p] = inv[p] \cup {i} /\ \A r \in Players \ {p} : inv'[r] = inv[r]
      BY <2>3 DEF TypeOK
    <3> QED BY <2>1, <2>2, <2>3, <3>1 DEF Separate
  <2>4. CASE UNCHANGED <<inv, etc>> /\ eaten' = eaten \cup {i}
    BY <2>1, <2>2, <2>4 DEF Separate
  <2>5. CASE UNCHANGED <<inv, eaten>> /\ etc' = etc \cup {i}
    BY <2>1, <2>2, <2>5 DEF Separate
  <2> QED BY <1>2, <2>3, <2>4, <2>5 DEF PickUp, PickedUp
<1>3. ASSUME NEW p \in Players, NEW i \in Items, OffersKept, DropItem(p, i) PROVE Separate'
  <2>1. /\ i \in inv[p] /\ inv'[p] = inv[p] \ {i} /\ \A r \in Players \ {p} : inv'[r] = inv[r]
        /\ UNCHANGED <<etc, lost>>
    BY <1>3 DEF DropItem, TypeOK
  <2>2. \A r \in Players : Offer(r)' = Offer(r)
    BY <1>3 DEF OffersKept
  <2>3. \/ ground' = ground \cup {i} /\ UNCHANGED eaten
        \/ eaten' = eaten \cup {i} /\ UNCHANGED ground
    BY <1>3 DEF DropItem
  <2> QED BY <2>1, <2>2, <2>3 DEF Separate
<1>4. ASSUME NEW p \in Players, NEW i \in Items, OffersKept, PetLoot(p, i) PROVE Separate'
  <2>1. \A r \in Players : Offer(r)' = Offer(r)
    BY <1>4 DEF OffersKept
  <2>2. i \in ground /\ ground' = ground \ {i} /\ UNCHANGED eaten
    BY <1>4 DEF PetLoot
  <2>3. CASE inv' = [inv EXCEPT ![p] = @ \cup {i}] /\ UNCHANGED <<etc, lost>>
    <3>1. inv'[p] = inv[p] \cup {i} /\ \A r \in Players \ {p} : inv'[r] = inv[r]
      BY <2>3 DEF TypeOK
    <3> QED BY <2>1, <2>2, <2>3, <3>1 DEF Separate
  <2>4. CASE UNCHANGED inv /\ etc' = etc \cup {i} /\ UNCHANGED lost
    BY <2>1, <2>2, <2>4 DEF Separate
  <2>5. CASE UNCHANGED inv /\ lost' = lost \cup {i} /\ UNCHANGED etc
    BY <2>1, <2>2, <2>5 DEF Separate
  <2> QED BY <1>4, <2>3, <2>4, <2>5 DEF PetLoot
<1>5. ASSUME NEW p \in Players, NEW i \in Items, PutIn(p, i) PROVE Separate'
  <2>1. /\ i \in inv[p] /\ inv'[p] = inv[p] \ {i} /\ Offer(p)' = Offer(p) \cup {i}
        /\ \A r \in Players \ {p} : inv'[r] = inv[r] /\ Offer(r)' = Offer(r)
        /\ UNCHANGED <<ground, etc, lost, eaten>>
    BY <1>5 DEF PutIn, TypeOK
  <2> QED BY <2>1 DEF Separate
<1> QED BY <1>1, <1>2, <1>3, <1>4, <1>5, SeparateBack, SeparateExchange DEF Goods

LEMMA SeparateInit == Init => Separate
BY TradeAssumption DEF Init, Separate, Offer

\* Places hold what they are named after.
LEMMA PlaceContents ==
  ASSUME NEW a \in Places
  PROVE  \/ \E p \in Players : a = <<"inv", p>> /\ Contents(a) = inv[p]
         \/ \E p \in Players : a = <<"offer", p>> /\ Contents(a) = Offer(p)
         \/ a = <<"ground">> /\ Contents(a) = ground
         \/ a = <<"etc">> /\ Contents(a) = etc
         \/ a = <<"lost">> /\ Contents(a) = lost
         \/ a = <<"eaten">> /\ Contents(a) = eaten
<1>1. \A p \in Players : Contents(<<"inv", p>>) = inv[p] /\ Contents(<<"offer", p>>) = Offer(p)
  BY DEF Contents
<1>2. /\ Contents(<<"ground">>) = ground /\ Contents(<<"etc">>) = etc
      /\ Contents(<<"lost">>) = lost /\ Contents(<<"eaten">>) = eaten
  BY DEF Contents
<1> QED BY <1>1, <1>2 DEF Places

LEMMA SeparateNoDuplicate == Separate => NoDuplicate
<1> SUFFICES ASSUME Separate, NEW a \in Places, NEW b \in Places, a # b
             PROVE  Contents(a) \cap Contents(b) = {}
  BY DEF NoDuplicate
<1> DEFINE Held(x) == \E p \in Players : (x = <<"inv", p>> /\ Contents(x) = inv[p])
                                          \/ (x = <<"offer", p>> /\ Contents(x) = Offer(p))
           Else(x) == \/ x = <<"ground">> /\ Contents(x) = ground
                      \/ x = <<"etc">> /\ Contents(x) = etc
                      \/ x = <<"lost">> /\ Contents(x) = lost
                      \/ x = <<"eaten">> /\ Contents(x) = eaten
<1>1. (Held(a) \/ Else(a)) /\ (Held(b) \/ Else(b))
  BY PlaceContents
<1>2. CASE Held(a) /\ Held(b)
  <2>1. PICK p \in Players : (a = <<"inv", p>> /\ Contents(a) = inv[p]) \/ (a = <<"offer", p>> /\ Contents(a) = Offer(p))
    BY <1>2
  <2>2. PICK q \in Players : (b = <<"inv", q>> /\ Contents(b) = inv[q]) \/ (b = <<"offer", q>> /\ Contents(b) = Offer(q))
    BY <1>2
  <2>3. CASE p = q
    BY <2>1, <2>2, <2>3 DEF Separate
  <2>4. CASE p # q
    <3>1. Contents(a) \subseteq inv[p] \cup Offer(p) /\ Contents(b) \subseteq inv[q] \cup Offer(q)
      BY <2>1, <2>2
    <3> QED BY <2>4, <3>1 DEF Separate
  <2> QED BY <2>3, <2>4
<1>3. ASSUME NEW x, NEW y, Held(x), Else(y) PROVE Contents(x) \cap Contents(y) = {}
  <2>1. PICK p \in Players : Contents(x) \subseteq inv[p] \cup Offer(p)
    BY <1>3
  <2>2. Contents(y) \subseteq ground \cup etc \cup lost \cup eaten
    BY <1>3
  <2> QED BY <2>1, <2>2 DEF Separate
<1>4. CASE Else(a) /\ Else(b)
  BY <1>4 DEF Separate
<1> QED BY <1>1, <1>2, <1>3, <1>4

\* What the goods need of the windows, and what they keep.
Orderly == TypeOK /\ Linked /\ AcceptedOffer

LEMMA PairOrderly == ASSUME Pair PROVE Spec => []Orderly
<1>1. TypeOK /\ Linked /\ AcceptedOffer <=> Orderly
  BY DEF Orderly
<1> QED BY TypeCorrect, PairLinks, PairReceivesWhatWasAccepted, <1>1, PTL

\* For any number of characters: while windows link their two sides and what is handed over
\* is what was accepted, no item is ever in two places.
THEOREM OrderlyTradesDuplicateNothing == Spec /\ []Orderly => []NoDuplicate
<1>1. Orderly /\ Separate /\ [Next]_vars => Separate'
  BY NextGoods, SeparateNext DEF Orderly
<1> QED BY SeparateInit, SeparateNoDuplicate, <1>1, PTL DEF Spec

\* With one pair of characters no item is ever in two places.
THEOREM PairDuplicatesNothing == ASSUME Pair PROVE Spec => []NoDuplicate
BY PairOrderly, OrderlyTradesDuplicateNothing, PTL
-----------------------------------------------------------------------------
(* What comes back finds its slot.                                          *)

\* Nobody holds more than fits; what a trader has put into the window still fits, unless a
\* pet has looted for it; and a trader is on the map, so that addFromDrop serves it.
Roomy ==
  \A p \in Players :
    /\ trade[p] # None => p \in online
    /\ Cardinality(inv[p]) <= Slots
    /\ (inv[p] \cup Offer(p)) \cap Drops = {} =>
         Cardinality(inv[p]) + Cardinality(Offer(p)) <= Slots

LEMMA Sizes ==
  ASSUME TypeOK, TradeAssumption, NEW p \in Players
  PROVE  /\ IsFiniteSet(inv[p]) /\ Cardinality(inv[p]) \in Nat /\ inv[p] \subseteq Items
         /\ IsFiniteSet(Offer(p)) /\ Cardinality(Offer(p)) \in Nat /\ Offer(p) \subseteq Items
         /\ Free(p) = Slots - Cardinality(inv[p]) /\ Slots \in Nat
<1>1. inv[p] \subseteq Items /\ Offer(p) \subseteq Items
  BY DEF TypeOK, MapleTrade, Offer
<1>2. IsFiniteSet(inv[p]) /\ IsFiniteSet(Offer(p))
  BY <1>1, FS_Subset, TradeAssumption
<1> QED BY <1>1, <1>2, FS_CardinalityType, TradeAssumption DEF Free

\* Putting goods on top of others.
LEMMA Adding ==
  ASSUME NEW A, NEW B, IsFiniteSet(A), IsFiniteSet(B)
  PROVE  /\ Cardinality(A) \in Nat /\ Cardinality(B) \in Nat
         /\ IsFiniteSet(A \cup B) /\ Cardinality(A \cup B) \in Nat
         /\ Cardinality(A \cup B) <= Cardinality(A) + Cardinality(B)
         /\ A \cap B = {} => Cardinality(A \cup B) = Cardinality(A) + Cardinality(B)
<1>1. /\ Cardinality(A) \in Nat /\ Cardinality(B) \in Nat
      /\ IsFiniteSet(A \cup B) /\ Cardinality(A \cup B) \in Nat
      /\ IsFiniteSet(A \cap B) /\ Cardinality(A \cap B) \in Nat
      /\ Cardinality(A \cup B) = Cardinality(A) + Cardinality(B) - Cardinality(A \cap B)
  BY FS_Union, FS_Intersection, FS_CardinalityType
<1>2. A \cap B = {} => Cardinality(A \cap B) = 0
  BY FS_EmptySet
<1> QED BY <1>1, <1>2

\* What is given back fits, and where something is not given back no slot is left.
LEMMA BackFits ==
  ASSUME TypeOK, TradeAssumption, Separate, Roomy, NEW C, NEW K, Back(C, K), NEW p \in C
  PROVE  /\ p \in Players /\ K[p] \subseteq Offer(p) /\ Cardinality(inv'[p]) <= Slots
         /\ K[p] # Offer(p) => /\ Cardinality(inv'[p]) = Slots
                               /\ (inv[p] \cup Offer(p)) \cap Drops # {}
<1>1. /\ p \in Players /\ trade[p] # None /\ inv'[p] = inv[p] \cup K[p] /\ K[p] \in Kept(p, Offer(p))
  BY DEF Back, Closing
<1>2. /\ K[p] \subseteq Offer(p) /\ Cardinality(K[p]) <= Free(p)
      /\ K[p] = Offer(p) \/ Cardinality(K[p]) = Free(p)
  BY <1>1 DEF Kept, Roomy
<1>3. inv[p] \cap K[p] = {}
  BY <1>1, <1>2 DEF Separate
<1>4. IsFiniteSet(K[p]) /\ IsFiniteSet(inv[p]) /\ IsFiniteSet(Offer(p)) /\ Cardinality(Offer(p)) \in Nat
      /\ Free(p) = Slots - Cardinality(inv[p]) /\ Slots \in Nat
  BY <1>1, <1>2, Sizes, FS_Subset
<1>5. Cardinality(inv'[p]) = Cardinality(inv[p]) + Cardinality(K[p])
      /\ Cardinality(inv[p]) \in Nat /\ Cardinality(K[p]) \in Nat
  BY <1>1, <1>3, <1>4, Adding
<1>6. Cardinality(inv'[p]) <= Slots
  BY <1>2, <1>4, <1>5
<1>7. ASSUME K[p] # Offer(p)
      PROVE  Cardinality(inv'[p]) = Slots /\ (inv[p] \cup Offer(p)) \cap Drops # {}
  <2>1. Cardinality(inv'[p]) = Slots
    BY <1>2, <1>4, <1>5, <1>7
  <2>2. Cardinality(K[p]) < Cardinality(Offer(p))
    BY <1>2, <1>4, <1>5, <1>7, FS_Subset
  <2>3. ASSUME (inv[p] \cup Offer(p)) \cap Drops = {} PROVE FALSE
    <3>1. Cardinality(inv[p]) + Cardinality(Offer(p)) <= Slots
      BY <1>1, <2>3 DEF Roomy
    <3> QED BY <1>4, <1>5, <2>1, <2>2, <3>1
  <2> QED BY <2>1, <2>3
<1> QED BY <1>1, <1>2, <1>6, <1>7

\* A step on p's side alone, which has no trade.
LEMMA RoomyNext ==
  ASSUME TypeOK, TradeAssumption, Separate, Roomy, Goods PROVE Roomy'
<1> DEFINE Roomy1(p) == /\ trade[p] # None => p \in online
                        /\ Cardinality(inv[p]) <= Slots
                        /\ (inv[p] \cup Offer(p)) \cap Drops = {} =>
                             Cardinality(inv[p]) + Cardinality(Offer(p)) <= Slots
<1> SUFFICES ASSUME NEW p \in Players PROVE Roomy1(p)'
  BY DEF Roomy
<1>1. Roomy1(p) /\ Slots \in Nat
  BY TradeAssumption DEF Roomy
<1>2. ASSUME inv'[p] = inv[p], Offer(p)' = Offer(p), trade'[p] # None => trade[p] # None \/ p \in online,
             p \in online /\ p \notin online' => trade'[p] = None
      PROVE  Roomy1(p)'
  BY <1>1, <1>2
<1>3. ASSUME trade'[p] = None, Cardinality(inv'[p]) <= Slots, IsFiniteSet(inv'[p]) PROVE Roomy1(p)'
  <2>1. Offer(p)' = {} /\ Cardinality({}) = 0 /\ Cardinality(inv'[p]) \in Nat
    BY <1>3, FS_EmptySet, FS_CardinalityType DEF Offer
  <2> QED BY <1>3, <2>1
<1>4. CASE Still
  BY <1>2, <1>4 DEF Still, OffersKept
<1>5. ASSUME NEW q \in Players, NEW i \in Items, OffersKept,
             PickUp(q, i) \/ DropItem(q, i) \/ PetLoot(q, i)
      PROVE  Roomy1(p)'
  <2>1. trade' = trade /\ online' = online /\ Offer(p)' = Offer(p)
    BY <1>5 DEF OffersKept, PickUp, PickedUp, DropItem, PetLoot
  <2>2. CASE inv'[p] = inv[p]
    BY <1>2, <2>1, <2>2
  <2>3. CASE inv'[p] # inv[p]
    <3>1. p = q /\ (trade[p] = None \/ i \in Drops)
          /\ ((inv'[p] = inv[p] \cup {i} /\ Free(p) > 0) \/ inv'[p] = inv[p] \ {i})
          /\ (inv'[p] = inv[p] \cup {i} \/ trade[p] = None)
      BY <1>5, <2>3 DEF PickUp, PickedUp, DropItem, PetLoot, TypeOK
    <3>2. IsFiniteSet(inv[p]) /\ Cardinality(inv[p]) \in Nat /\ Free(p) = Slots - Cardinality(inv[p])
      BY Sizes
    <3>3. IsFiniteSet(inv'[p]) /\ Cardinality(inv'[p]) <= Slots
      <4>1. CASE inv'[p] = inv[p] \cup {i} /\ Free(p) > 0
        <5>1. IsFiniteSet(inv'[p]) /\ Cardinality(inv'[p]) \in Nat /\ Cardinality(inv'[p]) <= Cardinality(inv[p]) + 1
          <6>1. /\ IsFiniteSet(inv[p] \cup {i})
                /\ Cardinality(inv[p] \cup {i}) = IF i \in inv[p] THEN Cardinality(inv[p]) ELSE Cardinality(inv[p]) + 1
            BY <3>2, FS_AddElement
          <6> QED BY <3>2, <4>1, <6>1
        <5> QED BY <1>1, <3>2, <4>1, <5>1
      <4>2. CASE inv'[p] = inv[p] \ {i}
        <5>1. IsFiniteSet(inv'[p]) /\ Cardinality(inv'[p]) \in Nat /\ Cardinality(inv'[p]) <= Cardinality(inv[p])
          BY <3>2, <4>2, FS_Subset, FS_CardinalityType
        <5> QED BY <1>1, <3>2, <5>1
      <4> QED BY <3>1, <4>1, <4>2
    <3>4. CASE trade[p] = None
      BY <1>3, <2>1, <3>3, <3>4
    <3>5. CASE i \in Drops /\ inv'[p] = inv[p] \cup {i}
      BY <1>1, <2>1, <3>3, <3>5
    <3> QED BY <3>1, <3>4, <3>5
  <2> QED BY <2>2, <2>3
<1>6. ASSUME NEW q \in Players, NEW i \in Items, PutIn(q, i) PROVE Roomy1(p)'
  <2>1. /\ i \in inv[q] /\ inv'[q] = inv[q] \ {i} /\ Offer(q)' = Offer(q) \cup {i}
        /\ \A r \in Players \ {q} : inv'[r] = inv[r] /\ Offer(r)' = Offer(r)
        /\ trade' = trade /\ online' = online
    BY <1>6 DEF PutIn, TypeOK
  <2>2. CASE p # q
    BY <1>2, <2>1, <2>2
  <2>3. CASE p = q
    <3>1. inv'[p] \cup Offer(p)' = inv[p] \cup Offer(p) /\ i \notin Offer(p)
      BY <2>1, <2>3 DEF Separate
    <3>2. /\ Cardinality(inv'[p]) = Cardinality(inv[p]) - 1 /\ Cardinality(inv[p]) \in Nat
          /\ Cardinality(Offer(p)') = Cardinality(Offer(p)) + 1 /\ Cardinality(Offer(p)) \in Nat
      <4>1. /\ IsFiniteSet(inv[p]) /\ Cardinality(inv[p]) \in Nat
            /\ IsFiniteSet(Offer(p)) /\ Cardinality(Offer(p)) \in Nat
        BY Sizes
      <4>2. Cardinality(inv[p] \ {i}) = Cardinality(inv[p]) - 1
        BY <2>1, <2>3, <4>1, FS_RemoveElement
      <4>3. Cardinality(Offer(p) \cup {i}) = Cardinality(Offer(p)) + 1
        BY <3>1, <4>1, FS_AddElement
      <4> QED BY <2>1, <2>3, <4>1, <4>2, <4>3
    <3> QED BY <1>1, <2>1, <3>1, <3>2
  <2> QED BY <2>2, <2>3
<1>7. ASSUME NEW C, NEW K, Back(C, K) PROVE Roomy1(p)'
  <2>1. CASE p \in C
    <3>1. Cardinality(inv'[p]) <= Slots /\ K[p] \subseteq Offer(p)
      BY <1>7, <2>1, BackFits
    <3>2. trade'[p] = None /\ inv'[p] = inv[p] \cup K[p]
      BY <1>7, <2>1 DEF Back, Closing
    <3>3. IsFiniteSet(inv'[p])
      BY <3>1, <3>2, Sizes, FS_Subset, FS_Union
    <3> QED BY <1>3, <3>1, <3>2, <3>3
  <2>2. CASE p \notin C
    BY <1>2, <1>7, <2>2 DEF Back, Closing
  <2> QED BY <2>1, <2>2
<1>8. ASSUME NEW x \in Players, NEW y \in Players, NEW gone, Exchange(x, y, gone) PROVE Roomy1(p)'
  <2>1. ASSUME NEW S, inv'[p] = inv[p] \cup (S \ gone), IsFiniteSet(S), Cardinality(S) <= Free(p), trade'[p] = None
        PROVE  Roomy1(p)'
    <3>1. IsFiniteSet(S \ gone) /\ Cardinality(S \ gone) <= Cardinality(S) /\ Cardinality(S) \in Nat
      BY <2>1, FS_Subset, FS_CardinalityType
    <3>2. IsFiniteSet(inv[p]) /\ Free(p) = Slots - Cardinality(inv[p])
      BY Sizes
    <3>3. /\ IsFiniteSet(inv'[p]) /\ Cardinality(inv'[p]) \in Nat
          /\ Cardinality(inv'[p]) <= Cardinality(inv[p]) + Cardinality(S \ gone)
          /\ Cardinality(inv[p]) \in Nat /\ Cardinality(S \ gone) \in Nat
      BY <2>1, <3>1, <3>2, Adding
    <3>4. Cardinality(inv'[p]) <= Slots
      BY <1>1, <2>1, <3>1, <3>2, <3>3
    <3> QED BY <1>3, <2>1, <3>3, <3>4
  <2>2. CASE p = x
    BY <1>8, <2>1, <2>2, Sizes DEF Exchange
  <2>3. CASE p = y
    BY <1>8, <2>1, <2>3, Sizes DEF Exchange
  <2>4. CASE p # x /\ p # y
    BY <1>2, <1>8, <2>4 DEF Exchange
  <2> QED BY <2>2, <2>3, <2>4
<1> QED BY <1>4, <1>5, <1>6, <1>7, <1>8 DEF Goods
LEMMA RoomyInit == Init => Roomy
<1> SUFFICES ASSUME Init, NEW p \in Players
             PROVE  /\ trade[p] # None => p \in online
                    /\ Cardinality(inv[p]) <= Slots
                    /\ Cardinality(inv[p]) + Cardinality(Offer(p)) <= Slots
  BY DEF Roomy
<1>1. trade[p] = None /\ Cardinality(inv[p]) <= Slots /\ inv[p] \subseteq Items
  BY DEF Init
<1>2. Offer(p) = {} /\ Cardinality({}) = 0 /\ Cardinality(inv[p]) \in Nat
  BY <1>1, FS_EmptySet, FS_Subset, FS_CardinalityType, TradeAssumption DEF Offer
<1> QED BY <1>1, <1>2, TradeAssumption

\* The items a step loses: what a pet pushed off the map, or what a full inventory refused.
LEMMA GoodsLost ==
  ASSUME TypeOK, TradeAssumption, Separate, Roomy, Goods, NEW i \in lost', i \notin lost
  PROVE  \/ i \in ground \cap Drops
         \/ \E p \in Players : /\ i \in Offer(p) /\ Cardinality(inv'[p]) = Slots
                               /\ (inv[p] \cup Offer(p)) \cap Drops # {}
<1>1. CASE \E p \in Players : \E j \in Items : PickUp(p, j) \/ DropItem(p, j) \/ PetLoot(p, j)
  BY <1>1 DEF PickUp, PickedUp, DropItem, PetLoot
<1>2. CASE \E C, K : Back(C, K)
  <2>1. PICK C, K : Back(C, K)
    BY <1>2
  <2>2. PICK p \in C : i \in Offer(p) \ K[p]
    BY <2>1 DEF Back, Closing
  <2> QED BY <2>1, <2>2, BackFits
<1>3. CASE Still \/ (\E p \in Players : \E j \in Items : PutIn(p, j))
           \/ (\E p \in Players : \E q \in Players : \E gone : Exchange(p, q, gone))
  BY <1>3 DEF Still, PutIn, Exchange
<1> QED BY <1>1, <1>2, <1>3 DEF Goods

LEMMA LossStepped ==
  ASSUME TypeOK, TradeAssumption, Separate, Roomy, Goods PROVE LossStep
<1> SUFFICES ASSUME NEW p \in Players, NEW i \in Offer(p), i \in lost', i \notin lost
             PROVE  Cardinality(inv'[p]) = Slots /\ (Offer(p) \cup inv[p]) \cap Drops # {}
  BY DEF LossStep
<1>1. i \notin ground
  BY DEF Separate
<1>2. PICK q \in Players : /\ i \in Offer(q) /\ Cardinality(inv'[q]) = Slots
                           /\ (inv[q] \cup Offer(q)) \cap Drops # {}
  BY <1>1, GoodsLost
<1>3. p = q
  BY <1>2 DEF Separate
<1> QED BY <1>2, <1>3

\* For any number of characters whose windows are orderly, a refund that finds no slot
\* belongs to a full inventory into which a pet has looted.
THEOREM OrderlyLossNeedsLoot == Spec /\ []Orderly => LossNeedsLoot
<1> USE TradeAssumption
<1>1. Orderly /\ Separate /\ [Next]_vars => Separate'
  BY NextGoods, SeparateNext DEF Orderly
<1>2. Orderly /\ Separate /\ Roomy /\ [Next]_vars => Roomy'
  BY NextGoods, RoomyNext DEF Orderly
<1>3. Orderly /\ Separate /\ Roomy /\ [Next]_vars => [LossStep]_vars
  BY NextGoods, LossStepped DEF Orderly
<1> QED BY SeparateInit, RoomyInit, <1>1, <1>2, <1>3, PTL DEF Spec, LossNeedsLoot

\* With one pair of characters it takes a looting pet and a full inventory to lose an offer.
THEOREM PairLossNeedsLoot == ASSUME Pair PROVE Spec => LossNeedsLoot
BY PairOrderly, OrderlyLossNeedsLoot, PTL

-----------------------------------------------------------------------------
(* Without pets nothing is lost.                                            *)

Somewhere ==
  /\ \A i \in Items : i \in ground \cup etc \cup eaten \/ \E p \in Players : i \in inv[p] \cup Offer(p)
  /\ lost = {}

LEMMA SomewhereInit == Init => Somewhere
<1> SUFFICES ASSUME Init, NEW i \in Items, i \notin ground PROVE \E p \in Players : i \in inv[p]
  BY DEF Init, Somewhere
<1> QED BY DEF Init

LEMMA SomewhereNext ==
  ASSUME TypeOK, TradeAssumption, Separate, Roomy, Somewhere, Goods, Drops = {} PROVE Somewhere'
<1>1. lost' = {}
  BY GoodsLost DEF Somewhere, Goods, Still, PickUp, PickedUp, DropItem, PetLoot, PutIn, Back, Closing, Exchange
<1> DEFINE At(i) == i \in ground \cup etc \cup eaten \/ \E p \in Players : i \in inv[p] \cup Offer(p)
<1>2. ASSUME NEW i \in Items PROVE At(i)'
  <2>1. At(i)
    BY DEF Somewhere
  <2>2. CASE Still
    BY <2>1, <2>2 DEF Still, OffersKept
  <2>3. ASSUME NEW q \in Players, NEW j \in Items, OffersKept, PickUp(q, j) PROVE At(i)'
    <3>1. /\ \/ inv'[q] = inv[q] \cup {j} /\ UNCHANGED <<etc, eaten>>
             \/ inv'[q] = inv[q] /\ eaten' = eaten \cup {j} /\ UNCHANGED etc
             \/ inv'[q] = inv[q] /\ etc' = etc \cup {j} /\ UNCHANGED eaten
          /\ \A r \in Players \ {q} : inv'[r] = inv[r]
          /\ ground' = ground \ {j}
      BY <2>3 DEF PickUp, PickedUp, TypeOK
    <3>2. \A r \in Players : Offer(r)' = Offer(r)
      BY <2>3 DEF OffersKept
    <3> QED BY <2>1, <3>1, <3>2
  <2>4. ASSUME NEW q \in Players, NEW j \in Items, OffersKept, DropItem(q, j) PROVE At(i)'
    <3>1. /\ inv'[q] = inv[q] \ {j} /\ \A r \in Players \ {q} : inv'[r] = inv[r]
          /\ \/ ground' = ground \cup {j} /\ UNCHANGED eaten
             \/ eaten' = eaten \cup {j} /\ UNCHANGED ground
          /\ UNCHANGED etc
      BY <2>4 DEF DropItem, TypeOK
    <3>2. \A r \in Players : Offer(r)' = Offer(r)
      BY <2>4 DEF OffersKept
    <3> QED BY <2>1, <3>1, <3>2
  <2>5. ASSUME NEW q \in Players, NEW j \in Items, PetLoot(q, j) PROVE FALSE
    BY <2>5 DEF PetLoot
  <2>6. ASSUME NEW q \in Players, NEW j \in Items, PutIn(q, j) PROVE At(i)'
    <3>1. /\ inv'[q] = inv[q] \ {j} /\ Offer(q)' = Offer(q) \cup {j}
          /\ \A r \in Players \ {q} : inv'[r] = inv[r] /\ Offer(r)' = Offer(r)
          /\ UNCHANGED <<ground, etc, eaten>>
      BY <2>6 DEF PutIn, TypeOK
    <3> QED BY <2>1, <3>1
  <2>7. ASSUME NEW C, NEW K, Back(C, K) PROVE At(i)'
    <3>1. \A p \in C : K[p] = Offer(p)
      BY <2>7, BackFits
    <3>2. /\ \A p \in C : inv'[p] = inv[p] \cup K[p]
          /\ \A p \in Players \ C : inv'[p] = inv[p] /\ Offer(p)' = Offer(p)
          /\ UNCHANGED <<ground, etc, eaten>>
      BY <2>7 DEF Back, Closing
    <3> QED BY <2>1, <3>1, <3>2
  <2>8. ASSUME NEW x \in Players, NEW y \in Players, NEW gone, Exchange(x, y, gone) PROVE At(i)'
    <3>1. /\ inv'[x] = inv[x] \cup (Offer(y) \ gone) /\ inv'[y] = inv[y] \cup (Offer(x) \ gone)
          /\ \A r \in Players \ {x, y} : inv'[r] = inv[r] /\ Offer(r)' = Offer(r)
          /\ UNCHANGED <<ground, etc>> /\ eaten' = eaten \cup gone
      BY <2>8 DEF Exchange
    <3> QED BY <2>1, <3>1
  <2> QED BY <2>2, <2>3, <2>4, <2>5, <2>6, <2>7, <2>8 DEF Goods
<1> QED BY <1>1, <1>2 DEF Somewhere

LEMMA SomewhereKept == Somewhere => NothingLost
<1> SUFFICES ASSUME Somewhere, NEW i \in Items PROVE \E a \in Places : i \in Contents(a)
  BY DEF NothingLost, Somewhere
<1>1. \A p \in Players : /\ <<"inv", p>> \in Places /\ Contents(<<"inv", p>>) = inv[p]
                         /\ <<"offer", p>> \in Places /\ Contents(<<"offer", p>>) = Offer(p)
  BY DEF Places, Contents
<1>2. /\ <<"ground">> \in Places /\ Contents(<<"ground">>) = ground
      /\ <<"etc">> \in Places /\ Contents(<<"etc">>) = etc
      /\ <<"eaten">> \in Places /\ Contents(<<"eaten">>) = eaten
  BY DEF Places, Contents
<1> QED BY <1>1, <1>2 DEF Somewhere

\* For any number of characters whose windows are orderly: where no monster drops lie about
\* for pets, every item stays somewhere, and what a window gives back finds its slot.
THEOREM OrderlyLosesNothing == ASSUME Drops = {} PROVE Spec /\ []Orderly => []NothingLost
<1> USE TradeAssumption
<1>1. Orderly /\ Separate /\ [Next]_vars => Separate'
  BY NextGoods, SeparateNext DEF Orderly
<1>2. Orderly /\ Separate /\ Roomy /\ [Next]_vars => Roomy'
  BY NextGoods, RoomyNext DEF Orderly
<1>3. Orderly /\ Separate /\ Roomy /\ Somewhere /\ [Next]_vars => Somewhere'
  BY NextGoods, SomewhereNext DEF Orderly
<1> QED BY SeparateInit, RoomyInit, SomewhereInit, SomewhereKept, <1>1, <1>2, <1>3, PTL DEF Spec

\* With one pair of characters and no such drops, nothing is lost.
THEOREM PairLosesNothing == ASSUME Pair, Drops = {} PROVE Spec => []NothingLost
BY PairOrderly, OrderlyLosesNothing, PTL

-----------------------------------------------------------------------------
(* All or nothing.                                                          *)

\* Only an exchange brings p what q offered.
LEMMA ExchangeStepped ==
  ASSUME TypeOK, Separate, Goods PROVE ExchangeStep
<1> SUFFICES ASSUME NEW p \in Players, NEW q \in Players, p # q, NEW i \in Offer(q), i \in inv'[p]
             PROVE  /\ Locked(p) \/ Locked(q)
                    /\ Offer(p) \ Buffs \subseteq inv'[q]
                    /\ Offer(q) \ Buffs \subseteq inv'[p]
                    /\ purse'[p] = purse[p] + OfferedMeso(q)
                    /\ purse'[q] = purse[q] + OfferedMeso(p)
  BY DEF ExchangeStep
<1>1. i \notin inv[p] /\ i \notin Offer(p) /\ i \notin ground
      /\ \A r \in Players : r # q => i \notin inv[r] \cup Offer(r)
  BY DEF Separate
<1>2. Still => FALSE
  BY <1>1 DEF Still
<1>3. ASSUME NEW r \in Players, NEW j \in Items, PickUp(r, j) \/ DropItem(r, j) \/ PetLoot(r, j) PROVE FALSE
  BY <1>1, <1>3 DEF PickUp, PickedUp, DropItem, PetLoot, TypeOK
<1>4. ASSUME NEW r \in Players, NEW j \in Items, PutIn(r, j) PROVE FALSE
  BY <1>1, <1>4 DEF PutIn, TypeOK
<1>5. ASSUME NEW C, NEW K, Back(C, K) PROVE FALSE
  <2>1. p \in C => inv'[p] \subseteq inv[p] \cup Offer(p)
    BY <1>5 DEF Back, Closing, Kept
  <2>2. p \notin C => inv'[p] = inv[p]
    BY <1>5 DEF Back, Closing
  <2> QED BY <1>1, <2>1, <2>2
<1>6. ASSUME NEW x \in Players, NEW y \in Players, NEW gone, Exchange(x, y, gone)
      PROVE  (p = x /\ q = y) \/ (p = y /\ q = x)
  <2>1. p \in {x, y}
    BY <1>1, <1>6 DEF Exchange
  <2>2. inv'[x] \subseteq inv[x] \cup Offer(y) /\ inv'[y] \subseteq inv[y] \cup Offer(x)
    BY <1>6 DEF Exchange
  <2> QED BY <1>1, <2>1, <2>2
<1>7. PICK x \in Players, y \in Players : \E gone : Exchange(x, y, gone)
  BY <1>2, <1>3, <1>4, <1>5 DEF Goods
<1>8. PICK gone : Exchange(x, y, gone)
  BY <1>7
<1>9. gone \subseteq Buffs
  BY <1>8 DEF Exchange
<1> QED BY <1>6, <1>8, <1>9 DEF Exchange

\* For any number of characters whose windows are orderly, a trade is all or nothing: goods
\* change hands for the partner's goods and mesos, after one side confirmed.
THEOREM OrderlyTradesAreFair == Spec /\ []Orderly => AllOrNothing
<1>1. Orderly /\ Separate /\ [Next]_vars => Separate'
  BY NextGoods, SeparateNext DEF Orderly
<1>2. Orderly /\ Separate /\ [Next]_vars => [ExchangeStep]_vars
  BY NextGoods, ExchangeStepped DEF Orderly
<1> QED BY SeparateInit, <1>1, <1>2, PTL DEF Spec, AllOrNothing

\* With one pair of characters a trade is all or nothing.
THEOREM PairTradesAreFair == ASSUME Pair PROVE Spec => AllOrNothing
BY PairOrderly, OrderlyTradesAreFair, PTL
-----------------------------------------------------------------------------
(* Mesos.                                                                   *)

\* A step that changes nobody's wealth is balanced if nothing was looted.
LEMMA Level ==
  ASSUME TypeOK, NEW p \in Players, earned' = earned, \A r \in Players : Wealth(r)' = Wealth(r)
  PROVE  BalanceStep
<1>1. Wealth(p)' - Wealth(p) = 0 /\ earned' - earned = 0
  BY Coins DEF TypeOK
<1> QED BY <1>1 DEF BalanceStep

LEMMA Untouched ==
  ASSUME TypeOK, NEW p \in Players, UNCHANGED <<purse, bank, earned>>, MesosKept
  PROVE  BalanceStep
<1>1. \A r \in Players : Wealth(r)' = Wealth(r)
  BY DEF Wealth, MesosKept
<1> QED BY <1>1, Level

\* What p puts into the window leaves the purse.
LEMMA SetMesoBalance ==
  ASSUME TypeOK, TradeAssumption, Linked, NEW p \in Players, NEW m \in Meso, SetMeso(p, m)
  PROVE  BalanceStep
<1>1. /\ trade' = trade /\ trade[p] # None /\ trade[p] \in TradeIds /\ m \in Nat /\ purse[p] >= m
      /\ obj' = [obj EXCEPT ![trade[p]].meso = @ + m] /\ purse' = [purse EXCEPT ![p] = @ - m]
      /\ UNCHANGED <<bank, earned>>
  BY DEF SetMeso, TypeOK, world, Meso
<1>2. /\ obj'[trade[p]].meso = obj[trade[p]].meso + m
      /\ \A s \in TradeIds \ {trade[p]} : obj'[s] = obj[s]
  BY <1>1 DEF TypeOK, MapleTrade
<1>3. OfferedMeso(p)' = OfferedMeso(p) + m /\ purse'[p] = purse[p] - m
  BY <1>1, <1>2 DEF OfferedMeso, TypeOK
<1>4. Wealth(p)' = Wealth(p)
  BY <1>1, <1>3, Coins DEF Wealth
<1>5. ASSUME NEW r \in Players \ {p} PROVE Wealth(r)' = Wealth(r)
  <2>1. trade[r] # None => trade[r] \in TradeIds \ {trade[p]}
    BY <1>1, Sides
  <2>2. purse'[r] = purse[r] /\ OfferedMeso(r)' = OfferedMeso(r)
    BY <1>1, <1>2, <2>1 DEF OfferedMeso, TypeOK
  <2> QED BY <1>1, <2>2 DEF Wealth
<1> QED BY <1>1, <1>4, <1>5, Level

\* What a pet loots is the only gain.
LEMMA LootBalance ==
  ASSUME TypeOK, TradeAssumption, NEW p \in Players, PetLootMeso(p)
  PROVE  BalanceStep
<1>1. /\ purse'[p] = PurseAfter(p, 1) /\ bank'[p] = BankAfter(p, 1) /\ earned' = earned + 1
      /\ \A r \in Players \ {p} : purse'[r] = purse[r] /\ bank'[r] = bank[r]
      /\ UNCHANGED <<trade, obj>>
  BY DEF PetLootMeso, TypeOK
<1>2. \A r \in Players : OfferedMeso(r)' = OfferedMeso(r)
  BY <1>1 DEF OfferedMeso
<1>3. purse'[p] + bank'[p] = purse[p] + bank[p] + 1
  BY <1>1, Paid
<1>4. Wealth(p)' = Wealth(p) + 1
  <2>1. Wealth(p)' = purse'[p] + bank'[p] + OfferedMeso(p)
    BY <1>2 DEF Wealth
  <2> QED BY <1>3, <2>1, Coins DEF Wealth
<1>5. \A r \in Players \ {p} : Wealth(r)' = Wealth(r)
  BY <1>1, <1>2 DEF Wealth
<1>6. Wealth(p)' - Wealth(p) = earned' - earned
  BY <1>1, <1>4, Coins DEF TypeOK
<1> QED BY <1>5, <1>6 DEF BalanceStep

\* In an exchange what one gains the other loses.
LEMMA ExchangeBalance ==
  ASSUME TypeOK, NEW p \in Players, NEW q \in Players, NEW gone, Exchange(p, q, gone), earned' = earned
  PROVE  BalanceStep
<1>1. /\ p # q /\ bank'[p] = bank[p] /\ bank'[q] = bank[q]
      /\ purse'[p] = purse[p] + OfferedMeso(q) /\ purse'[q] = purse[q] + OfferedMeso(p)
      /\ OfferedMeso(p)' = 0 /\ OfferedMeso(q)' = 0
  BY DEF Exchange
<1>2. /\ Wealth(p)' = purse[p] + OfferedMeso(q) + bank[p]
      /\ Wealth(q)' = purse[q] + OfferedMeso(p) + bank[q]
  BY <1>1, Coins DEF Wealth
<1>3. Wealth(p)' + Wealth(q)' - (Wealth(p) + Wealth(q)) = 0 /\ earned' - earned = 0
  <2>1. /\ Wealth(p) = purse[p] + bank[p] + OfferedMeso(p)
        /\ Wealth(q) = purse[q] + bank[q] + OfferedMeso(q)
    BY DEF Wealth
  <2> QED BY <1>2, <2>1, Coins DEF TypeOK
<1>4. \A r \in Players \ {p, q} : Wealth(r)' = Wealth(r)
  BY DEF Exchange, Wealth
<1> QED BY <1>1, <1>3, <1>4 DEF BalanceStep

LEMMA NextBalance == TypeOK /\ Linked /\ AcceptedOffer /\ [Next]_vars => [BalanceStep]_vars
<1> USE TradeAssumption
<1> SUFFICES ASSUME TypeOK, Linked, AcceptedOffer, Next PROVE BalanceStep
  OBVIOUS
<1>1. ASSUME UNCHANGED trade, \A t \in TradeIds : obj'[t].meso = obj[t].meso PROVE MesosKept
  BY <1>1 DEF MesosKept, OfferedMeso, TypeOK
<1>2. ASSUME NEW p \in Players, VisitTrade(p) PROVE BalanceStep
  <2>1. trade' = trade /\ obj' = [obj EXCEPT ![trade[p]].inTrade = TRUE] /\ UNCHANGED <<purse, bank, earned>>
    BY <1>2 DEF VisitTrade, world
  <2>2. \A t \in TradeIds : obj'[t].meso = obj[t].meso
    BY <2>1 DEF TypeOK, MapleTrade
  <2> QED BY <1>1, <2>1, <2>2, Untouched
<1>3. ASSUME NEW p \in Players, NEW i \in Items, SetItems(p, i) PROVE BalanceStep
  <2>1. trade' = trade /\ obj' = [obj EXCEPT ![trade[p]].items = @ \cup {i}] /\ UNCHANGED <<purse, bank, earned>>
    BY <1>3 DEF SetItems, world
  <2>2. \A t \in TradeIds : obj'[t].meso = obj[t].meso
    BY <2>1 DEF TypeOK, MapleTrade
  <2> QED BY <1>1, <2>1, <2>2, Untouched
<1>4. ASSUME NEW p \in Players, Confirm(p) PROVE BalanceStep
  <2> DEFINE t == trade[p]
             u == obj[t].partner
  <2>1. earned' = earned /\ t \in TradeIds /\ u \in TradeIds
    BY <1>4, Confirmed, Sides
  <2>2. CASE obj[u].locked /\ CompleteTrade(t, u) /\ Leave(BothSides(t, u))
    BY <1>4, <2>1, <2>2, CompleteExchange, ExchangeBalance
  <2>3. CASE \E C, K : Closing(C, K)
    BY <2>1, <2>3, Level DEF Closing
  <2>4. CASE obj' = Offered(t, u) /\ UNCHANGED <<purse, bank, trade>>
    <3>1. \A s \in TradeIds : obj'[s].meso = obj[s].meso
      BY <2>1, <2>4, OfferedOffers
    <3> QED BY <1>1, <2>1, <2>4, <3>1, Untouched
  <2> QED BY <1>4, <2>2, <2>3, <2>4, Confirmed
<1>5. ASSUME NEW p \in Players, DeclineTrade(p) \/ Exit(p) \/ (Disconnect(p) /\ trade[p] # None)
      PROVE  BalanceStep
  <2>1. (\E C, K : Closing(C, K)) /\ earned' = earned
    BY <1>5, Ended
  <2> QED BY <2>1, Level DEF Closing
<1>6. ASSUME NEW p \in Players, UNCHANGED <<purse, bank, earned, trade, obj>> PROVE BalanceStep
  BY <1>1, <1>6, Untouched
<1>7. ASSUME NEW p \in Players, (Disconnect(p) /\ trade[p] = None) \/ Login(p) PROVE BalanceStep
  BY <1>6, <1>7 DEF Disconnect, Login
<1>8. ASSUME NEW p \in Players, NEW i \in Items, PickUp(p, i) \/ DropItem(p, i) \/ PetLoot(p, i)
      PROVE  BalanceStep
  BY <1>6, <1>8 DEF PickUp, PickedUp, DropItem, PetLoot
<1>9. ASSUME NEW p \in Players, NEW q \in Players, StartTrade(p) \/ InviteTrade(p, q) PROVE BalanceStep
  <2>1. UNCHANGED <<purse, bank, earned>>
    BY <1>9 DEF StartTrade, InviteTrade, world
  <2> QED BY <1>9, <2>1, StartStill, InviteStill, Untouched
<1> QED
  BY <1>2, <1>3, <1>4, <1>5, <1>7, <1>8, <1>9, SetMesoBalance, LootBalance DEF Next

\* For any number of characters whose windows are orderly: no step makes mesos but a pet's loot,
\* and none destroys them, whatever is offered, exchanged, refunded into a full purse or cut off.
THEOREM OrderlyMesosConserved == Spec /\ []Orderly => MesoConserved
<1>1. Orderly /\ [Next]_vars => [BalanceStep]_vars
  BY NextBalance DEF Orderly
<1> QED BY <1>1, PTL DEF Spec, MesoConserved

\* With one pair of characters mesos are conserved.
THEOREM PairMesosConserved == ASSUME Pair PROVE Spec => MesoConserved
BY PairOrderly, OrderlyMesosConserved, PTL
=============================================================================
