-------------------------------- MODULE Trade --------------------------------
(***************************************************************************)
(* The trade window (server/MapleTrade.java and the trade cases of         *)
(* PlayerInteractionHandler).  A MapleTrade is one side of a window; the   *)
(* two sides point at each other through `partner'.  What a player puts    *)
(* into the window leaves the inventory at once and comes back, or goes to *)
(* the partner, when the window closes.                                    *)
(*                                                                         *)
(* One action is one packet handler, run to its end.  An item is one       *)
(* inventory slot's worth of goods, offered or dropped whole; how many of  *)
(* a stack a packet names is left out.  Objects are recycled once no player *)
(* and no live trade refers to them, as the garbage collector does.        *)
(* Definitions marked (slip) are mutations; no action uses them.           *)
(***************************************************************************)
EXTENDS Integers, FiniteSets

CONSTANTS Players,      \* characters of one map
          Items,        \* item stacks
          Buffs,        \* the timed items of isRealBuff
          Untradeable,  \* items flagged UNTRADEABLE or LOCK
          Drops,        \* monster drops that lie on the map, for a pet to loot
          EtcDrops,     \* those of the kind ETC, which the overflow store takes
          Consumed,     \* those of the kind USE that are used as a character picks them up
          Lasting,      \* items that a character can drop on the map (of the kind SETUP)
          Slots,        \* inventory slots of a player
          OfferSlots,   \* slots of the trade window (9)
          MaxMeso,      \* Integer.MAX_VALUE
          MaxEarned,    \* bound: mesos looted in a behaviour
          TradeIds,     \* names for MapleTrade objects
          None          \* null

ASSUME TradeAssumption ==
  /\ IsFiniteSet(Players) /\ IsFiniteSet(Items)
  /\ Buffs \subseteq Items /\ Untradeable \subseteq Items /\ Drops \subseteq Items
  /\ EtcDrops \subseteq Drops /\ Consumed \subseteq Drops \ EtcDrops /\ Lasting \subseteq Items
  /\ Slots \in Nat /\ OfferSlots \in Nat /\ MaxMeso \in Nat /\ MaxEarned \in Nat
  /\ None \notin TradeIds /\ None \notin Players

VARIABLES inv,     \* inventory of each character; what was saved, when offline
          purse,   \* MapleCharacter.meso
          bank,    \* MapleCharacter.bank, where mesos beyond MaxMeso go
          ground,  \* items lying on the map
          etc,     \* items in the overflow store
          online,  \* characters on the map
          trade,   \* MapleCharacter.trade
          obj,     \* the MapleTrade objects
          earned,  \* history: mesos looted so far
          lost,    \* history: items that were refused a place and nobody kept
          eaten    \* history: items that are used up or destroyed: timed items in a completed
                   \* trade, what a character drops, what is used as it is picked up

world == <<ground, etc, online, earned>>
vars == <<inv, purse, bank, world, trade, obj, lost, eaten>>

\* A MapleTrade object nobody has used yet.
Blank == [chr |-> None, partner |-> None, items |-> {}, meso |-> 0,
          xItems |-> {}, xMeso |-> 0, locked |-> FALSE, inTrade |-> FALSE]

\* A new MapleTrade of p: nothing offered, not locked.
Fresh(p, partner) == [Blank EXCEPT !.chr = p, !.partner = partner]

Meso == 0 .. MaxMeso

MapleTrade == [chr : Players \cup {None}, partner : TradeIds \cup {None},
               items : SUBSET Items, meso : Nat, xItems : SUBSET Items, xMeso : Nat,
               locked : BOOLEAN, inTrade : BOOLEAN]

TypeOK ==
  /\ inv \in [Players -> SUBSET Items]
  /\ purse \in [Players -> Meso]
  /\ bank \in [Players -> Nat]
  /\ ground \subseteq Items /\ etc \subseteq Items /\ lost \subseteq Items /\ eaten \subseteq Items
  /\ online \subseteq Players
  /\ earned \in 0 .. MaxEarned
  /\ trade \in [Players -> TradeIds \cup {None}]
  /\ obj \in [TradeIds -> MapleTrade]
  /\ \A p \in Players : trade[p] # None => obj[trade[p]].chr = p
  /\ \A t \in TradeIds : obj[t].partner # None => obj[obj[t].partner].chr # None

Init ==
  /\ inv \in [Players -> SUBSET (Items \ Drops)]
  /\ \A p, q \in Players : p # q => inv[p] \cap inv[q] = {}
  /\ \A p \in Players : Cardinality(inv[p]) <= Slots
  /\ purse \in [Players -> Meso]
  /\ bank = [p \in Players |-> 0]
  /\ ground = Items \ UNION {inv[p] : p \in Players}
  /\ online = Players
  /\ trade = [p \in Players |-> None]
  /\ obj = [t \in TradeIds |-> Blank]
  /\ etc = {} /\ earned = 0
  /\ lost = {} /\ eaten = {}

-----------------------------------------------------------------------------
(* Helpers *)

Free(p) == Slots - Cardinality(inv[p])

\* An object nobody can reach any more.
Unused(t) == \A p \in Players :
  trade[p] # None => t # trade[p] /\ t # obj[trade[p]].partner

\* (slip) gainMeso without the bank: the purse overflows, or the excess is gone.
PurseUnbanked(p, gain) == purse[p] + gain
BankLoses(p, gain) == bank[p]

\* gainMeso: what does not fit the int of the purse goes to the bank.
PurseAfter(p, gain) == IF purse[p] + gain > MaxMeso THEN purse[p] ELSE purse[p] + gain
BankAfter(p, gain) == IF purse[p] + gain > MaxMeso THEN bank[p] + gain ELSE bank[p]

\* (slip) the last free slot is not used.
KeptWithSlack(p, S) ==
  IF p \notin online THEN {{}}
  ELSE {K \in SUBSET S : IF Cardinality(S) < Free(p) THEN K = S
                         ELSE Cardinality(K) + 1 = Free(p)}

\* addFromDrop over a list: the items that find a slot.  An offline character
\* has no client player, and addFromDrop refuses everything.
Kept(p, S) ==
  IF p \notin online THEN {{}}
  ELSE {K \in SUBSET S : /\ Cardinality(K) <= Free(p)
                         /\ K = S \/ Cardinality(K) = Free(p)}

\* Mesos owed to p when the trades of T are cancelled.
MesoDue(T, p) ==
  IF \E t \in T : obj[t].chr = p THEN obj[CHOOSE t \in T : obj[t].chr = p].meso ELSE 0

\* cancel(c, chr) on every trade of T (of different owners): items go back
\* through addFromDrop, mesos through gainMeso, and the offer is emptied.
\* objs is the object table the caller has already updated.
Refund(T, objs) ==
  \E kept \in [T -> SUBSET Items] :
    /\ \A t \in T : kept[t] \in Kept(obj[t].chr, obj[t].items)
    /\ inv' = [p \in Players |->
                 inv[p] \cup UNION {kept[t] : t \in {s \in T : obj[s].chr = p}}]
    /\ lost' = lost \cup UNION {obj[t].items \ kept[t] : t \in T}
    /\ purse' = [p \in Players |-> PurseAfter(p, MesoDue(T, p))]
    /\ bank' = [p \in Players |-> BankAfter(p, MesoDue(T, p))]
    /\ obj' = [t \in TradeIds |->
                 IF t \in T THEN [objs[t] EXCEPT !.items = {}, !.meso = 0] ELSE objs[t]]

Owners(T) == {obj[t].chr : t \in T}

\* setTrade(null) on the characters of C.
Leave(C) == trade' = [p \in Players |-> IF p \in C THEN None ELSE trade[p]]

Partner(t) == IF obj[t].partner = None THEN {} ELSE {obj[t].partner}

\* (slip) only the character who confirms leaves the trade.
LocalSide(t, u) == {obj[t].chr}

\* The two characters a completed trade sends away.
BothSides(t, u) == {obj[t].chr, obj[u].chr}

\* (slip) the partner is refunded but stays in its trade.
CancelOwn(p) ==
  LET T == {trade[p]} \cup Partner(trade[p]) IN
    /\ Refund(T, obj)
    /\ Leave({p})

\* cancelTrade: this side, then the other side if there is one.
CancelTrade(p) ==
  LET T == {trade[p]} \cup Partner(trade[p]) IN
    /\ Refund(T, obj)
    /\ Leave(Owners(T) \cup {p})

-----------------------------------------------------------------------------
(* Packet handlers *)

\* CREATE: startTrade.
StartTrade(p) ==
  /\ p \in online /\ trade[p] = None
  /\ \E t \in TradeIds :
       /\ Unused(t)
       /\ obj' = [obj EXCEPT ![t] = Fresh(p, None)]
       /\ trade' = [trade EXCEPT ![p] = t]
  /\ UNCHANGED <<inv, purse, bank, world, lost, eaten>>

\* INVITE_TRADE: a free target gets the other side; the handler returns early
\* on a target that is in a trade already (hasBlockedInventory).
InviteTrade(p, q) ==
  /\ p \in online /\ q \in online /\ trade[p] # None /\ trade[q] = None
  /\ \E t \in TradeIds :
       /\ Unused(t)
       /\ obj' = IF obj[trade[p]].locked
                 THEN [obj EXCEPT ![t] = Fresh(q, trade[p])]
                 ELSE [obj EXCEPT ![t] = Fresh(q, trade[p]), ![trade[p]].partner = t]
       /\ trade' = [trade EXCEPT ![q] = t]
  /\ UNCHANGED <<inv, purse, bank, world, lost, eaten>>

\* VISIT: the invitation is taken up if both sides still point at each other.
VisitTrade(p) ==
  /\ p \in online /\ trade[p] # None
  /\ LET t == trade[p]
         u == obj[t].partner IN
       /\ u # None /\ ~obj[t].inTrade
       /\ trade[obj[u].chr] = u /\ obj[u].partner = t
       /\ obj' = [obj EXCEPT ![t].inTrade = TRUE]
  /\ UNCHANGED <<inv, purse, bank, world, trade, lost, eaten>>

\* DENY_TRADE: cancels whatever trade the partner's owner is in now, then ours.
DeclineTrade(p) ==
  /\ p \in online /\ trade[p] # None
  /\ LET t == trade[p]
         others == {trade[obj[u].chr] : u \in Partner(t)} \ {None}
         T == {t} \cup others IN
       /\ Refund(T, obj)
       /\ Leave(Owners(T))
  /\ UNCHANGED <<world, eaten>>

\* (slip) setItems forgets that this side is locked.
SetItemsUnlocked(p, i) ==
  /\ p \in online /\ trade[p] # None /\ i \in inv[p] \ Untradeable
  /\ LET t == trade[p] IN
       /\ obj[t].partner # None
       /\ Cardinality(obj[t].items) < OfferSlots
       /\ obj' = [obj EXCEPT ![t].items = @ \cup {i}]
  /\ inv' = [inv EXCEPT ![p] = @ \ {i}]
  /\ UNCHANGED <<purse, bank, world, trade, lost, eaten>>

\* SET_ITEMS: setItems takes the item out of the inventory and addItem puts
\* it into the window.
SetItems(p, i) ==
  /\ p \in online /\ trade[p] # None /\ i \in inv[p]
  /\ LET t == trade[p] IN
       /\ obj[t].partner # None /\ ~obj[t].locked
       /\ Cardinality(obj[t].items) < OfferSlots
       /\ i \notin Untradeable
       /\ obj' = [obj EXCEPT ![t].items = @ \cup {i}]
  /\ inv' = [inv EXCEPT ![p] = @ \ {i}]
  /\ UNCHANGED <<purse, bank, world, trade, lost, eaten>>

\* (slip) setMeso forgets that this side is locked.
SetMesoUnlocked(p, m) ==
  /\ p \in online /\ trade[p] # None
  /\ LET t == trade[p] IN
       /\ obj[t].partner # None
       /\ m > 0 /\ obj[t].meso + m <= MaxMeso
       /\ purse[p] >= m
       /\ obj' = [obj EXCEPT ![t].meso = @ + m]
  /\ purse' = [purse EXCEPT ![p] = @ - m]
  /\ UNCHANGED <<inv, bank, world, trade, lost, eaten>>

\* SET_MESO: setMeso; the sum offered must not overflow the int.
SetMeso(p, m) ==
  /\ p \in online /\ trade[p] # None
  /\ LET t == trade[p] IN
       /\ ~obj[t].locked /\ obj[t].partner # None
       /\ m > 0 /\ obj[t].meso + m <= MaxMeso
       /\ purse[p] >= m
       /\ obj' = [obj EXCEPT ![t].meso = @ + m]
  /\ purse' = [purse EXCEPT ![p] = @ - m]
  /\ UNCHANGED <<inv, bank, world, trade, lost, eaten>>

\* check(): the mesos fit the int and each item finds a free slot.
Check(t, items, meso) ==
  /\ purse[obj[t].chr] + meso <= MaxMeso
  /\ Cardinality(items) <= Free(obj[t].chr)

\* (slip) the mesos of the offer are not copied.
OfferedItemsOnly(t, u) ==
  [obj EXCEPT ![t].locked = TRUE, ![u].xItems = obj[t].items]

\* CONFIRM_TRADE: completeTrade locks this side and hands its offer to the
\* other side; the second one to confirm carries the exchange out, or cancels
\* both sides when one of them has no room.
Offered(t, u) ==
  [obj EXCEPT ![t].locked = TRUE, ![u].xItems = obj[t].items, ![u].xMeso = obj[t].meso]

CompleteTrade(t, u) ==
  LET p == obj[t].chr
      q == obj[u].chr IN
    /\ Check(t, obj[t].xItems, obj[t].xMeso) /\ Check(u, obj[t].items, obj[t].meso)
    /\ \E gone \in SUBSET (Buffs \cap (obj[t].xItems \cup obj[t].items)) :
         /\ inv' = [inv EXCEPT ![p] = @ \cup (obj[t].xItems \ gone),
                               ![q] = @ \cup (obj[t].items \ gone)]
         /\ eaten' = eaten \cup gone
    /\ purse' = [purse EXCEPT ![p] = PurseAfter(p, obj[t].xMeso), ![q] = PurseAfter(q, obj[t].meso)]
    /\ bank' = [bank EXCEPT ![p] = BankAfter(p, obj[t].xMeso), ![q] = BankAfter(q, obj[t].meso)]
    /\ obj' = [Offered(t, u) EXCEPT ![t].xItems = {}, ![t].xMeso = 0,
                                    ![u].xItems = {}, ![u].xMeso = 0]
    /\ UNCHANGED lost

RejectTrade(t, u) ==
  /\ ~(Check(t, obj[t].xItems, obj[t].xMeso) /\ Check(u, obj[t].items, obj[t].meso))
  /\ Refund({t, u}, Offered(t, u))
  /\ UNCHANGED eaten

Confirm(p) ==
  /\ p \in online /\ trade[p] # None
  /\ LET t == trade[p]
         u == obj[t].partner IN
       /\ u # None /\ ~obj[t].locked
       /\ IF obj[u].locked
          THEN /\ CompleteTrade(t, u) \/ RejectTrade(t, u)
               /\ Leave(BothSides(t, u))
          ELSE /\ obj' = Offered(t, u)
               /\ UNCHANGED <<inv, purse, bank, trade, lost, eaten>>
  /\ UNCHANGED world

\* EXIT, a portal, a map change: cancelTrade.
Exit(p) ==
  /\ p \in online /\ trade[p] # None
  /\ CancelTrade(p)
  /\ UNCHANGED <<world, eaten>>

\* A lost session: removalTask takes the character off the map, which cancels
\* the trade, and only then saveToDB writes the inventory.
Disconnect(p) ==
  /\ p \in online
  /\ IF trade[p] = None
     THEN UNCHANGED <<inv, purse, bank, trade, obj, lost>>
     ELSE CancelTrade(p)
  /\ online' = online \ {p}
  /\ UNCHANGED <<ground, etc, earned, eaten>>

Login(p) ==
  /\ p \in Players \ online
  /\ online' = online \cup {p}
  /\ UNCHANGED <<inv, purse, bank, ground, etc, earned, trade, obj, lost, eaten>>

-----------------------------------------------------------------------------
(* What else moves items and mesos while windows are open *)

\* An item comes off the map: into a free slot, used at once, or, with no slot free, to the
\* overflow store.
PickedUp(p, i) ==
  /\ p \in online /\ i \in ground
  /\ ground' = ground \ {i}
  /\ \/ /\ Free(p) > 0 /\ i \notin Consumed
        /\ inv' = [inv EXCEPT ![p] = @ \cup {i}]
        /\ UNCHANGED <<etc, eaten>>
     \/ /\ Free(p) > 0 /\ i \in Consumed
        /\ eaten' = eaten \cup {i}
        /\ UNCHANGED <<inv, etc>>
     \/ /\ Free(p) = 0 /\ i \in EtcDrops
        /\ etc' = etc \cup {i}
        /\ UNCHANGED <<inv, eaten>>
  /\ UNCHANGED <<purse, bank, online, earned, trade, obj, lost>>

\* (slip) a pickup that does not ask for an open trade.
PickUpTrading(p, i) == PickedUp(p, i)

\* Pickup_Player: hasBlockedInventory refuses a character in a trade.
PickUp(p, i) == trade[p] = None /\ PickedUp(p, i)

\* ItemMove with dst = 0 refuses a character in a trade, too.  Items of most kinds disappear
\* as they are dropped, and so does any of which the packet names more than there are.
DropItem(p, i) ==
  /\ p \in online /\ trade[p] = None /\ i \in inv[p]
  /\ inv' = [inv EXCEPT ![p] = @ \ {i}]
  /\ \/ /\ i \in Lasting
        /\ ground' = ground \cup {i}
        /\ UNCHANGED eaten
     \/ /\ eaten' = eaten \cup {i}
        /\ UNCHANGED ground
  /\ UNCHANGED <<purse, bank, etc, online, earned, trade, obj, lost>>

\* (slip) the looted drop stays on the map.
PetLootLeaves(p, i) ==
  /\ p \in online /\ i \in ground \cap Drops /\ Free(p) > 0
  /\ inv' = [inv EXCEPT ![p] = @ \cup {i}]
  /\ UNCHANGED <<purse, bank, world, trade, obj, lost, eaten>>

\* itemLoot, from a pet on the move: no trade refuses it.  A drop that finds no
\* slot, or whose owner collects such drops, goes to the overflow store if it is
\* of the kind ETC or USE; it is off the map before storeDropEtc refuses a
\* character in a trade.
PetLoot(p, i) ==
  /\ p \in online /\ i \in ground \cap Drops
  /\ ground' = ground \ {i}
  /\ \/ /\ Free(p) > 0
        /\ inv' = [inv EXCEPT ![p] = @ \cup {i}]
        /\ UNCHANGED <<etc, lost>>
     \/ /\ i \in EtcDrops \cup Consumed
        /\ IF trade[p] = None
           THEN etc' = etc \cup {i} /\ UNCHANGED lost
           ELSE lost' = lost \cup {i} /\ UNCHANGED etc
        /\ UNCHANGED inv
  /\ UNCHANGED <<purse, bank, online, earned, trade, obj, eaten>>

PetLootMeso(p) ==
  /\ p \in online /\ earned < MaxEarned
  /\ earned' = earned + 1
  /\ purse' = [purse EXCEPT ![p] = PurseAfter(p, 1)]
  /\ bank' = [bank EXCEPT ![p] = BankAfter(p, 1)]
  /\ UNCHANGED <<inv, ground, etc, online, trade, obj, lost, eaten>>

Next ==
  \/ \E p \in Players :
       \/ StartTrade(p) \/ VisitTrade(p) \/ DeclineTrade(p)
       \/ Confirm(p) \/ Exit(p) \/ Disconnect(p) \/ Login(p)
       \/ \E q \in Players : InviteTrade(p, q)
       \/ \E i \in Items : SetItems(p, i) \/ PickUp(p, i) \/ DropItem(p, i) \/ PetLoot(p, i)
       \/ PetLootMeso(p)
       \/ \E m \in Meso : SetMeso(p, m)

Spec == Init /\ [][Next]_vars
-----------------------------------------------------------------------------
(* Properties *)

Offer(p) == IF trade[p] = None THEN {} ELSE obj[trade[p]].items
OfferedMeso(p) == IF trade[p] = None THEN 0 ELSE obj[trade[p]].meso
Locked(p) == trade[p] # None /\ obj[trade[p]].locked

\* The places an item can be in.
Places == {<<"inv", p>> : p \in Players} \cup {<<"offer", p>> : p \in Players}
            \cup {<<"ground">>, <<"etc">>, <<"lost">>, <<"eaten">>}
Contents(place) == CASE place[1] = "inv"    -> inv[place[2]]
                     [] place[1] = "offer"  -> Offer(place[2])
                     [] place[1] = "ground" -> ground
                     [] place[1] = "etc"    -> etc
                     [] place[1] = "lost"   -> lost
                     [] place[1] = "eaten"  -> eaten

\* With one pair of traders no item is ever in two places: neither setItems,
\* completeTrade, cancelTrade nor declineTrade copies one, whatever the order
\* of confirmations, cancellations, lost sessions and looting pets.
NoDuplicate ==
  \A a, b \in Places : a # b => Contents(a) \cap Contents(b) = {}

\* And, where no pet loots for a trader, no item vanishes:
\* what cancel() gives back always finds the slot it came from, because every
\* other way to fill the inventory is refused during a trade.
NothingLost ==
  /\ \A i \in Items : \E a \in Places : i \in Contents(a)
  /\ lost = {}

\* Even with pets, cancel() loses goods in one way only: an item it could not
\* give back belongs to a trader whose inventory is full and whose pet looted.
LossStep ==
  \A p \in Players : Offer(p) \cap (lost' \ lost) # {} =>
    /\ Cardinality(inv'[p]) = Slots
    /\ (Offer(p) \cup inv[p]) \cap Drops # {}
LossNeedsLoot == [][LossStep]_vars

\* The two sides of a window agree that they trade with each other.
LinksAgree ==
  \A p \in Players : trade[p] # None /\ obj[trade[p]].partner # None =>
    LET u == obj[trade[p]].partner IN
      trade[obj[u].chr] = u /\ obj[u].partner = trade[p]

\* What a side will receive is what its partner accepted: while the partner is
\* locked, the copy completeTrade made is the partner's offer, item for item
\* and meso for meso, and the two sides are never left both locked.
AcceptedOffer ==
  \A p \in Players : trade[p] # None /\ obj[trade[p]].partner # None =>
    LET t == trade[p]
        u == obj[t].partner IN
      obj[u].locked => /\ obj[t].xItems = obj[u].items
                       /\ obj[t].xMeso = obj[u].meso
                       /\ ~obj[t].locked

\* An offer its owner has confirmed does not change before the window closes.
FrozenStep ==
  \A p \in Players : Locked(p) /\ trade'[p] = trade[p] =>
    Offer(p)' = Offer(p) /\ OfferedMeso(p)' = OfferedMeso(p)
OfferFrozen == [][FrozenStep]_vars

\* A trade is all or nothing: if anything q offered reaches p, q had confirmed
\* or confirms now, everything p offered reaches q (but timed items, which
\* completing discards), and each is paid the other's mesos.
ExchangeStep ==
  \A p, q \in Players : p # q /\ Offer(q) \cap inv'[p] # {} =>
    /\ Locked(p) \/ Locked(q)
    /\ Offer(p) \ Buffs \subseteq inv'[q]
    /\ Offer(q) \ Buffs \subseteq inv'[p]
    /\ purse'[p] = purse[p] + OfferedMeso(q)
    /\ purse'[q] = purse[q] + OfferedMeso(p)
AllOrNothing == [][ExchangeStep]_vars

\* Only loot makes mesos and nothing destroys them, with the bank counted in: not
\* an offer, an exchange, a refund that overflows the purse, or a lost session.
\* A step changes the wealth of one character by what was looted, or that of two
\* whose losses and gains cancel out.
Wealth(p) == purse[p] + bank[p] + OfferedMeso(p)
BalanceStep ==
  \E p, q \in Players :
    /\ \A r \in Players \ {p, q} : Wealth(r)' = Wealth(r)
    /\ IF p = q THEN Wealth(p)' - Wealth(p) = earned' - earned
       ELSE Wealth(p)' + Wealth(q)' - (Wealth(p) + Wealth(q)) = earned' - earned
MesoConserved == [][BalanceStep]_vars
=============================================================================
