# Verification of the KaoticV111 game server

The repository is a Java game server (a fork of a MapleStory emulator): `src/`
holds about 146,000 lines of Java, `scripts/` about 254,000 lines of JavaScript
run by an embedded engine, and the rest is data. This directory models, in
TLA+, the parts of the server where several players' sessions act on shared
state, and the content that the server's own state depends on: its event scripts
and the conversations with its NPCs. It checks them with TLC and proves theorems
about them with TLAPS. Java paths below are relative to `src/src/`.

## 1. Inventory

### How the server runs

One process holds a login server and channel servers. A MINA acceptor per
server hands each packet to `handling/MapleServerHandler.messageReceived`,
which calls one static handler per opcode. The packets of **one** session are
handled in order; **different sessions run on different threads**, and almost
nothing they share is locked. `TimerManager` and the workers of `server/` (buff,
event, ranking, vote) add further threads. An exception that leaves a handler
is caught in `messageReceived`, which kicks the player; a closed socket ends in
`MapleClient.disconnect` -> `unloadChar`. Characters are kept in memory and
written to MySQL when they log off, at some handlers and at shutdown.

| Component | State it keeps | Operations | Talks to | What makes it correct | Module |
|---|---|---|---|---|---|
| Trade window (`server/MapleTrade`, `PlayerInteractionHandler`) | one `MapleTrade` per side: partner, items, mesos, lock, and the copy it will receive | start, invite, visit, decline, set items, set mesos, confirm, cancel | inventory, meso purse and bank, map (leaving cancels) | goods are neither copied nor lost; what changes hands is what was accepted; both sides or none | `Trade` |
| Pick-up and pet loot (`InventoryHandler.Pickup_Player`, `MapleMap.itemLoot`) | items on the ground, overflow store | pick up, drop, loot | inventory, trade | an item is picked up once; loot does not disturb a trade | part of `Trade` |
| Party (`handling/world/World.Party`, `MapleParty`, `PartyHandler`) | registry, member lists, leader ids, a pointer in every character | create, join, allow, leave, expel, change leader, disband, refresh | sessions (kick, unload), raids, event instances | lists and pointers agree; nobody is in two parties; size; a party has a leader | `Party`, `PartySpec` |
| Sessions and accounts (`client/MapleClient`, `CharLoginHandler`, `InterServerHandler`, `PlayerStorage`, `World.Find`) | `accounts.loggedin`, account lock, login tickets, players registered per channel | log in, choose a character, migrate, log on, disconnect, kick, time out | everything a character holds | one session plays an account; a character is loaded once; a closed session frees its account | `Session` |
| Raid (`handling/world/MapleRaid`) | member list, leader, registry | create, invite, leave, disband | party, event instances | list and pointers agree | not modelled |
| Expedition and listings (`handling/world/exped`, `PartyHandler`) | parties of an expedition, searches | create, join, kick, move, disband | party | sizes, no member in two parties | not modelled |
| Event instances (`scripting/EventInstanceManager`, `EventManager`, `scripts/event`) | players, monsters that are dying, scheduled functions, clocks of an instance | register, kill, exit, time out, win, lose, dispose | party, map, scripts | an event can be won, pays once, stays over, ends; everybody is let out | `EventFight`, `EventPeople` |
| Conversations (`scripting/NPCScriptManager`, `NPCConversationManager`, `handling/channel/handler/NPCHandler`, `scripts/npc`) | the script a client talks to, its flags, an open shop or storage | click, answer, close, shop, storage, dispose | maps, commands, shops, inventory | a player can always answer, and talk again; what is sold is paid, what is paid is given | `NpcTalk` |
| Storage (`server/MapleStorage`), player shops (`server/shops`) | stored items, shop bundles, visitors | store, take, buy, close | inventory, mesos | conservation of goods | not modelled |
| Guild, alliance, family, buddies, messenger (`handling/world`) | lists with ranks | join, leave, rank | database | limits, mutual buddies | not modelled |
| Monsters, spawns, combat, buffs, skills (`server/life`, `server/maps`, `MapleStatEffect`) | hit points, timers | attack, spawn, expire | map | a kill is rewarded once | not modelled |
| Shutdown (`server/ShutdownServer`) | shutdown mode | two-phase shutdown | sessions, database | all characters are saved | not modelled |
| Locks audit (`net/server/audit`) | wrappers of `java.util.concurrent` locks | | | | not modelled: thin wrappers |
| Packets, ciphers (`tools`, `handling/mina`), game data (`provider`), constants | none that is shared | format, parse | | | not modelled: pure conversion and I/O |
| Scripts of portals, reactors, maps, quests (`scripts/`) | none | | | | not modelled: they act at once and keep nothing |
| Cash shop, MTS (`handling/cashshop`) | carts, notes | | | | not modelled: `EnterMTS` and the cash shop only warp to a map in this fork |

### What is hard to test here

* Two sessions between check and act: both traders confirm, two joins see the
  last free place, an expel races a leave (`World.updateParty` has no lock).
* An exception in the middle of a handler: `updateParty` mutates the list and
  then dereferences `getLeader()`, so a leader who expels himself leaves a party
  behind that makes every member's later `unloadChar` throw before it saves.
* A character disappears (socket, kick, server transfer) in the middle of a
  trade, a party request or a login.
* A flag in the database (`accounts.loggedin`) that mirrors what sessions do,
  written by timers, by sessions that are already replaced, and read with a
  20-second timeout.
* Inventory space checked when a trade is confirmed and used later.
* An event hears of a monster's death when its animation is over, on another
  thread; by then other monsters have died, the clock has rung, or the event is
  over. Each of 260 scripts answers in its own way.
* A conversation is a script's call that ends, a window, and the next call: what
  ends it has to be said by the script, on every path, and everything the player
  has may change while the window is open. There are more than a thousand.

`PROJECT.json` lists each hazard with its line and the properties that cover it.

## 2. Plan

The order was: the parts in which sessions act on each other (`Trade`, `Party`
with `PartySpec`, `Session`), then the content that runs on every session
(`EventFight` and `EventPeople`, then `NpcTalk`), each first checked and then
proved about. The content is written down as data: a module of tables per group
of scripts, and one module for the engine that runs them, so that theorems are
about the engine with any table and the runs about the tables of the repository.

What a continuation would take, in this order: the steps inside `completeTrade`
and `cancelTrade`, between which a second session runs; two characters that pick
up one drop (`itemLock` is taken by one path and commented out in the other);
raids and expeditions, composed with `Party`; player shops; an abstract
specification of a trade, as `PartySpec` is one of parties.

## 3. The modules

### Trade

A `MapleTrade` object is one side of a window; `trade[p]` is
`MapleCharacter.trade`, `obj[t]` the object with `chr`, `partner`, `items`,
`meso`, the copies `xItems`, `xMeso` (`exchangeItems`, `exchangeMeso`), `locked`
and `inTrade`. What a player offers leaves `inv`/`purse` at once. One action is
one handler, run to its end. `CompleteTrade` and `RejectTrade` are the two ends
of the second confirmation, chosen by `check()` on both sides (slots, meso
ceiling, untradeable marks); `CancelTrade` is every way a window closes without
one: `Exit`, `Disconnect` (`removalTask` -> `map.removePlayer`), a decline, a
rejected confirmation. `PickUp`, `DropItem`, `PetLoot` are there because they
compete for inventory slots and because pets loot while a trade is open. What a
character drops is destroyed, but for a kind (SETUP, `Lasting`) that `isAllowed`
leaves on the map. What is picked up goes into a slot, is used at once
(`Consumed`), or goes to the overflow store when there is no room (`EtcDrops`);
a drop of the last two kinds that a pet loots is lost if its owner trades.

Abstractions: an item is one slot's worth of goods (no stacking, so
`setItems`' split of a stack is the whole stack, and the quantities of a packet,
of which `PlayerInteractionHandler`:430 looks at the upper bound only, are left
out: a conserved item says nothing about a count); the four inventories are one;
guards that only prevent a trade from starting (storage open, shop open, NPC,
event, blocked map) are left out, since they remove behaviours and nothing a
trade relies on; chat and packets are left out. Objects are recycled when
nothing refers to them (`Unused`).

### Party, PartySpec

A request runs in three steps on its player's thread: the handler's checks
(`Accept`, `Allow`, `Leave`, `Expel`, `ChangeLeader`, `SilentUpdate`, `Unload`),
`updateParty`'s change of list, leader and registry (`Join`, `Disband`,
`PassLead`, `Refresh`, `RemoveMember`, `NoParty`), and its loop over the members
(`Notify`), after which the caller finishes. `task[p]` holds the step a session
is at. `Concurrent` says whether other sessions run in between. `RemoveMember`
keeps the null dereference: the exception ends the handler (`Kick`) or, in
`unloadChar`, the unload itself, and the character is `"stuck"`: in the
channel's storage, without a session, unsaved.

Abstractions: `MapleParty` objects are named by their ids and stay after they
are disbanded, as a character may still point at one; a character's saved
`party` column is the pointer it had when it was unloaded. The level that
decides who gets the lead is any. A request to join (`case 7`) leaves the own
party, which is `Leave`, and otherwise only sends packets. Invitations are not
stored by the code, so `Accept` may name any party. Raids, expeditions and
listings are left out: `expeditionLink` is -1 throughout. `Create` is one step
and `Allow` reads its leader's party once, where the code re-reads it.

`PartySpec` is what the party system promises: bounded, disjoint groups. `Party`
is shown to implement it (`ImplementsGroups`) when requests take turns, with
`group` mapped to the member sets of registered parties.

### Session

One account, its row in `accounts` (`loggedin`, `templogin`), the tickets of
`LoginServer.loginAuth`, the channel's `storage`, and a set of connections. A
`MapleClient` is `role`, `at` (the step its handler is at), `accId` (is it
known?), `loggedIn` and `player`; `timers` are the tasks that were scheduled with
it and outlive its connection. `Login`/`FinishLogin` are `CharLoginHandler.login`
up to and after the checks; `Select` leaves a ticket and starts the transition;
`Load`, `CheckConnected`, `AddPlayer` are the three parts of
`InterServerHandler.Loggedin` (read the ticket and load, ask whether the account
is in the game, enter it), `LoadRefused` is the same without a ticket. `Close`
ends a connection without a character. `SaveToDB` and `RemovePlayer` are
`disconnect` -> `unloadChar` of one that plays, on a closed socket or a kick;
`UnloadThrows` is the exception that `Party` shows. `LoginTimeout` (10 minutes),
`SelectTimeout` (5 seconds) and `DisconnectTimeout` (5 seconds) are the tasks;
`Restart` is a dead process, after which `Start` resets both columns.

Abstractions: time (a task fires, and a transition becomes 20 seconds old, at
any moment); a client has one pending task of each kind, a second one set
meanwhile counts as the first; all connections come from one address; a wrong
password does to a logged-out account what leaving it alone does; bans,
registration, shutdown, the admin-only mode, failures of the second password and
vending characters (`setShopClose`) are left out. `FinishLogin`, `Select` and the
release of state and lock (`FreeAccount`) are one step each even when handlers
interleave. A connection logs on once.

### EventScript, EventBosses, EventFields, EventQuests, EventFight, EventRules

An event is an instance of a script with monsters. `EventScript` says how a
script is written down: what its functions do when the event begins, a monster
dies, all are dead, a player arrives, the clock rings, or a function that was
scheduled comes, each as a set of outcomes (`Do`: monsters spawned, functions
scheduled, and effects such as `"win"`, `"lose"`, `"clock"`, `"dispose"`), before
the event is over and after (`Turns`: the Java code marks the event as ending,
and most scripts ask). `EventBosses`, `EventFields` and `EventQuests` are the
scripts of `scripts/event`. `EventFight` is `EventInstanceManager` and the part
of `MapleMap` and `MapleMonster` that tells it of deaths: `Kill` takes a monster
off the map and lets its death wait; `Callback` is what `monsterKilled` and, if
nothing is left, `allMonstersDead` of the script do when the animation is over;
`MPvictory` is the parks' own way of winning, from the thread of the kill;
`Schedule`, `Arrival` and `AfterChangedMap` are the functions that come by
themselves. `Ring` puts the expiry of a clock on a thread and `EventTimer` is its
body, which looks at the field `timer` and cannot tell which clock it belongs to;
`ShortTimer` is the body of `createEventTimer`. `Abandon` and `Dispose` end it.

Abstractions: how many monsters of a kind there are is "one" or "many"; a script
that counts does so in the set of its outcomes; hit points, maps, positions,
rewards other than that of a victory, and moving the players are left out
(`EventPeople` has them). At most `MaxDying` deaths wait at a time.

`EventRules` states what one reads in a script when one asks whether its event
keeps its clock, pays once, stays over and can be won. A rule is about the records
of one script and says nothing about the order in which things happen; section 5
shows that the rules are enough. `MCEvent` has TLC look them up in all 240 scripts.

### EventPeople

Who is in an event. `chars` are the players registered and `pointing` the
characters whose `eventInstance` it is. `Register` is `registerPlayer` for one of
a group that was collected before; `Walk` is `changeMapInternal` with the call of
`changedMap` before it, `Arrive` its end on the client; `Revive`, `LogOff`,
`LeaveParty`, `DisbandParty` and `Expel` are the callers of the script's
functions; `Timeout` is the clock. What a script does with a player is one of a
few manners (let one out, let all out, unregister only, nothing), and `MCPeople`
takes from the tables the combinations that occur. That nobody is left is seen in
one step (`LooksEmpty`, `EmptyTick`) and acted upon in another (`Dispose`), since
`unregisterPlayer` and the task of `timer` hold no lock in between; `Clear` and
`Forget` are the tasks of 5 and 10 seconds later.

Abstractions: one group, one field; a raid is a party; deaths are the tombstone's
button only.

### NpcScript, the tables Npcs*, NpcTalk

A conversation is a series of calls into a script. `NpcScript` says how one is
written down: a script is a sequence of pages, one per call that can be told
apart by the script's own variables (`status`, `sel`, ...) and by the window it
answers; a page is the set of outcomes of the call: it shows a window and waits
for page k (`To(k)`), shows a last window (`Ok`), disposes or warps (`Bye`), opens
a shop or the storage, leaves it to a timer (`Later`), or does nothing of the kind
(`Silence`). An outcome also says whether it takes items or mesos, after a look in
the same call that the player has them or without one, and whether it gives items,
after a look at the room for them or without. `NpcsMaple`, `NpcsVictoria`,
`NpcsOssyria`, `NpcsMinar`, `NpcsArcane`, `NpcsService`, `NpcsTowns` and `NpcsZones`
are 1085 scripts of `scripts/npc`.

`NpcTalk` is the engine and one client: `Talk`, `TalkShop` (`NPCTalk`), `Answer`,
`Leave` (`NPCMoreTalk`), `CutIn` and `Ask` (commands and items that call `start`,
or `startNPC`, which asks first whether there is a conversation), `Arrive` (a map's
script), `Reward` (`delayRewardNPC`), `CloseShop`, `CloseStorage`, `Warp`
(`changeMapInternal` and `leaveMap`), `Fix` (the command). `chat`, `busy`, `shop`
and `storage` are what is left on the server, and every one of them is a reason
for some handler to refuse the player. `fresh` and `cool` are the 100 ms after a
click and the 500 ms after a dispose. `deal` records the last unfair exchange.

Abstractions: what a script asks of the game (level, quest, items, dice) is any
answer, the same question in one call having one answer; windows differ only by
being answered or closed; only items and mesos are prices (not NX, votes or
`removeAll`); the lock of all NPCs, pal battles, the move of a player who is
already in transit, and a click that answers an old window are left out.

## 4. The runs

| Run | Expect | Question and bounds |
|---|---|---|
| `trade_pair` | pass | two characters, three items of which one is timed, two slots, one offer slot, meso ceiling 1: a window is opened, filled, confirmed, rejected for want of room or meso overflow, cancelled, left by a lost connection, and opened again |
| `trade_loot` | pass | one slot each and pets that loot three drops: one of them bound for the overflow store, one that is used as it is picked up |
| `trade_third_party` | violation | three characters, four trade objects: `inviteTrade` by a side that already has a partner |
| `party_turns` | pass | four characters, party size three, two party ids, requests in turn |
| `party_sessions` | pass | two characters, size two, two ids, all interleavings of the steps |
| `party_lead` | violation | the comments "pass on lead" and "no members left, plz disband" |
| `session_turns` | pass | three connections, two characters, handlers in turn, timers at any moment: one login, one that migrates and one that was left over |
| `session_freed` | pass | two connections, all interleavings, with fairness: a closed account becomes free |
| `session_again` | violation | the comment "already loggedin": a second login on a logged-in connection locks the account until a restart |
| `event_scripts` | pass | every event script, up to three deaths that wait at once: it can still be won (`NoDeadEnd`), pays once (`PaidOnce`), brings no monster back when it is over (`Quiet`), keeps its clock (`ClockKept`) and ends when the time is up (`TimesUp`) |
| `event_people` | pass | two players and every combination of manners the scripts have: nobody points at an event that is gone (`NobodyLeftBehind`), nobody is dropped on its field (`FieldCleared`), it goes when the clock rings (`EventEnds`) |
| `npc_talk` | pass | every conversation, with clicks, commands, maps, shops and the storage in between: something to answer (`Listening`), nobody taken for talking who does not (`StrandedOnly`), prices paid (`NoFreeGift`), goods received (`NothingLost`), closing ends it (`Freed`) |

The bounds are the smallest at which each branch is taken: a party that can be
full, outgrown and left leaderless, and a second one to be in at the same time;
a trade whose goods do not fit; a session that starts while the timers of two
others are pending. Two players are a leader and another, one of whom is caught at each point of the
other's way out; three deaths that wait are one more than any script tells apart
by itself. `npc_talk` needs no bound: a script has finitely many pages. TLC
reports that every action is taken.

**Exceptions.** The content breaks these rules in places, and the modules that
instantiate it name every script that does; a script not named keeps the rule.
`MCEvent`: no goal (3 scripts), paid twice (6), monsters after the end (5), lost
clocks (16), no end by the clock (these and 4 more). `MCNpc`: `MuteScripts` (304
can leave a player with nothing to answer, most where a `dispose` was taken out),
`BlindScripts` (30 take what they have not looked for in that call),
`CarelessScripts` (146 sell without a look at the room). The exceptions are what
TLC finds when the sets are smaller.

Not checked because they do not hold: with `Concurrent = TRUE`,
`MembershipAgrees` and `ImplementsGroups` fail (two joins of the same character,
a notification loop that sets back the pointer of a member who has just left),
`OnlySelfExpelLosesLead` fails (a leader leaves while the lead is passed on to him),
and so does `OneCharacter` (two tickets redeemed between check and entry).
Without a second password `PlayingIsMarked` fails: a client that logged in
earlier starts a transition while another plays. Deadlock is not checked for
`Party`: once every character is stuck the system stops.

**Fairness.** In `session_freed` and `session_again`: a handler that
has begun goes on (`WF(Serve(c))`; MINA's threads run it to its end), and a task
that was scheduled runs (`WF(Timeout(c))`; `TimerManager` and `PingTimer` are
`ScheduledThreadPoolExecutor`s). Nothing is assumed of players: no login, close
or kick need ever happen. In `event_scripts` and `event_people`: what is scheduled
with `TimerManager` or `EventScriptScheduler` comes, a look that found nobody is
followed by its `dispose`, and the loop of `registerGroup` goes on; nobody has to
fight, walk or leave. In `npc_talk`: the timer of a reward comes, and a player who
can close the window, the shop or the storage again and again does so at last
(strong fairness, since a map change may come in between); nobody has to answer.
`AccountFreed` excludes the account whose last client
was made to forget it, which `session_again` shows to stay locked, and accounts
whose character was left in the storage by an unload that threw.

## 5. What is proved

Every safety property that a passing run checks is also a theorem, for any number
of characters, items, connections, players or scripts. What a theorem assumes
beyond the constants' types is one of three things: that handlers take turns
(`~Concurrent`), that one pair of characters trades (`Pair`), or that the scripts
keep a rule (below).

### Trade

`TradeProofs` holds for any number of characters, items, slots and any meso
ceiling, under `TradeAssumption` (the sets are finite, the bounds are naturals):

* `TypeCorrect`: `Spec => []TypeOK`. The inductive invariant is `TypeOK` itself;
  besides types it says that a trade's owner and partner are what they must be
  for `CompletedOffers` (below) to be well-typed: a trade a character points at
  is his, and a trade that has a partner has an owner. Without them the goods of
  an ownerless object would be credited to nobody.
* `OfferStaysFrozen`: `Spec => OfferFrozen`, no step changes the goods of a
  locked trade except the one that closes it, so what a partner saw when he
  accepted is what was there.

The steps go through lemmas on nested updates (`Update`, `Fields`), on giving
goods back (`RefundLemma`) and on closing a window (`LeaveTypeOK`,
`CancelTypeOK`, `CompleteTypeOK`).

`TradePairProofs` is about where the goods are. It starts from `Linked`: the
partner of an open window has another owner, who has it open and is linked back.
A third character breaks it, by being invited by one who has a partner already
(`trade_third_party`), and with it every property below; so the theorems come in
two forms. One is for a `Pair` of characters, any number of items, slots, mesos and
window objects. The other is for any number of characters, in behaviours whose
windows stay `Orderly` (`TypeOK`, `Linked` and `AcceptedOffer`): it says that the
broken link is the only cause.

* `LinksStayAgreed` and `PairLinks`: with a pair, `Linked` is inductive. That the
  objects are recycled is what makes it delicate: `Opened` shows that a new window
  takes no object a live window refers to.
* `LinkedAreAccepted`, `PairReceivesWhatWasAccepted`: `AcceptedOffer`. What one
  side copied is the other's offer as long as that one is locked, and two locks at
  a time are impossible, as the second confirmation closes both windows.
* `OrderlyTradesDuplicateNothing`, `PairDuplicatesNothing`: `NoDuplicate`.
  `NextGoods` reduces every step to one of five kinds (`Goods`: items stay, one is
  put into a window, windows give back, two are exchanged, an item meets the
  ground), each of which keeps places apart (`Separate`).
* `OrderlyLossNeedsLoot`, `PairLossNeedsLoot`: `LossNeedsLoot`, and
  `OrderlyLosesNothing`, `PairLosesNothing`: `NothingLost` where there are no drops
  for pets. The invariant `Roomy` counts: what a trader holds and what he offered
  fit together, unless a pet has looted for him; it needs `Separate`, since goods
  in two places would be counted once.
* `OrderlyTradesAreFair`, `PairTradesAreFair`: `AllOrNothing`, from `Separate`: an
  item that reaches another can only come by an exchange.
* `OrderlyMesosConserved`, `PairMesosConserved`: `MesoConserved`. A step changes
  nobody's wealth, or that of a looter by the loot, or that of two who exchange,
  whose gains cancel out; a refund pays into the purse or the bank (`Paid`).

### Party

`PartyProofs` holds for any number of characters, parties and steps in between:

* `PartyTypes`: `Spec => []TypeOK`, with what a request under way may refer to.
* `BoundedOvershoot`: `Spec => []Overshoot`. A party has `PartySize` members and
  those that the sessions on their way to join may still add; the invariant
  `Room` counts members and these sessions together.
* `LeadersAct`: `Spec => OnlyLeaderActs`. The check that a session leads its party
  is stale when `updateParty` runs, but (`Acting`) nobody else can have passed the
  lead on in the meantime.

`PartyTurnProofs` assumes that requests take turns (`~Concurrent`); otherwise all
three are false, and TLC shows it:

* `ListsAgree`: `Spec => []MembershipAgrees`, in every state and not only when no
  request is under way. `InTurn` adds what the handler's check and the half-done
  update leave true for the next step (`DoingAs`, `TellingAs`).
* `LeadLost`: `Spec => OnlySelfExpelLosesLead`: the finding of `party_lead` is the
  only way for a party to lose its leader.
* `PartiesAreGroups`: `Spec => ImplementsGroups`, the refinement: the initial state
  maps to one of `PartySpec`, and each step to a step or a stutter.

### Session

`SessionProofs` holds for any number of connections and characters of an account,
under `SessionAssumption` (`None` is neither a connection nor a character):

* `TypeCorrect`: `Spec => []TypeOK`, in turns or interleaved. `TypeOK` also says
  that a client has a character exactly while it plays or one of its handlers
  needs it; without that, `RemovePlayer` could name no character.
* `OneCharacterCorrect`: if handlers take turns (`~Concurrent`), then
  `Spec => []OneCharacter`. The property is not inductive: that a client which
  enters the game finds nobody there was checked a step earlier. `Exclusion`
  adds what carries the check over: one handler is under way at a time
  (`OneHandler`), what it has checked still holds (`CheckHolds`), and a character
  that is played or being unloaded is in the storage under its client
  (`InStorage`), which is what the check looks at. It is the lemma `StepAlone`
  (the other clients rest while one takes a step) that makes it inductive, and
  it is false when handlers interleave, as is the property.
* `PlayingIsMarkedCorrect`: if also `HasPic`, then `Spec => []PlayingIsMarked`,
  by `Exclusion`: while a client plays the storage is not empty, so no login
  resets the state, no selection is let through, and no timer finds the account
  logged in, in transition or abandoned.

### Events

`EventFightProofs` holds for any table of scripts, under `ScriptAssumption` (they
spawn and schedule only what they name) and `BoundAssumption`. Its theorems have
the form "if the scripts keep a rule of `EventRules`, the events keep the
property", and `MCEvent` assumes the rules of the 240 scripts of the server, so
that TLC looks them up when it runs `event_scripts`. Together that is more than the
run shows: the deaths that wait at a time are no longer three.

* `FightTypes`: `Spec => []TypeOK`.
* `ClockIsKept`: `ClockRule` gives `[]ClockKept`: no script but the exceptions starts
  a short clock, and the timeout disposes of the event. The invariant `Running` adds
  which body of a clock can wait while which clock runs.
* `RewardsOnce`: `PaidRule` gives `[]PaidOnce`. A script pays once for one of two
  reasons. Either it pays only together with what ends the event, and looks at
  `finished` first (`Paid`). Or its thread to the reward is single: of the monsters
  and functions that lead to the reward, at most one is alive, dying, scheduled or
  yet to come (`OnThread`); it brings at most one other, and the reward brings none.
* `OverIsOver`: `QuietRule` gives `Quiet`. What can still happen after the end looks
  at `finished` before it spawns, except the thread that led to the end, of which
  nothing is left (`OnThread` again, with the end as its goal), and the function
  `start`, during which nothing else has happened (`Opening`, `Empties`).
* `AlwaysAWay`: `GoalRule` gives `[]NoDeadEnd`. On a sure way every outcome of what
  is ahead leads further (`Ahead`); where single deaths do not, the last one does:
  in `allMonstersDead`, on a park's map, or because nothing else is ever alive
  (`Standing`). `Going` is the invariant.

Why rules, and not the tables: a theorem cannot evaluate 240 records, but TLC can,
in a second; and the rules are what the author of a new script has to keep.

`EventPeopleProofs` holds for any number of players and any manners:

* `PeopleTypes`: `Spec => []TypeOK`; it includes that nobody who has logged off is
  between two maps, which `Exit` could break.
* `NobodyIsLeftBehind`: `Spec => []NobodyLeftBehind`. The property is about events
  that are over; the invariant is about open ones: `chars` and `pointing` agree
  (`Known`), and when a thread is about to dispose, nobody is registered or
  somebody was caught (`Watched`).
* `FieldIsCleared`: `Spec => FieldCleared`, if no script only unregisters a player
  about the party (`SeenOff`, which `MCPeople` looks up).

### Conversations

`NpcTalkProofs` holds for any table of scripts, under `TalkAssumption` and
`PagesAssumption` (an answer a script waits for is one of its calls); `MCNpc`
looks the rules up in its 1085 scripts:

* `TalkTypes`: `Spec => []TypeOK`.
* `NobodyStranded`: `Spec => StrandedOnly`. The invariant is `Rested`: without a
  conversation, a click of the last 100 ms is followed by a dispose of the last
  500. It is why `NPCTalk` never meets a `start` that refuses.
* `AlwaysListening`: if the scripts outside `Mute` have no silent call
  (`Outspoken`), then `Spec => []Listening`, whatever opens, closes or moves.
* `GiftsArePaid`: if the scripts outside `Blind` take only what the same call has
  looked for (`LooksFirst`), then `Spec => []NoFreeGift`; `SalesFit`: if those
  outside `Careless` look at the room when they sell (`MakesRoom`), then
  `Spec => []NothingLost`. An unfair deal is blamed on the call that made it
  (`DealBlame`).

### Only model-checked

Liveness: `AccountFreed`, `TimesUp`, `EventEnds` and `Freed` rest on fairness, and
so on ENABLED, which the provers do not have. `NothingLost` of trades is proved
without drops for pets and `NoDuplicate` and the others for a pair, as said above:
more would be false. That the scripts keep the rules is TLC's evaluation of
`ASSUME Rules` in `MCEvent`, `MCPeople` and `MCNpc`.

## 6. What was found

* A leader who expels himself (`party_lead`): `updateParty` throws after it
  removed him, the lead is not passed on, an empty party stays, and the remaining
  members can no longer be unloaded and saved.
* A trade that invites a second partner (`trade_third_party`) is linked from two
  sides and the copy a side will receive is no longer what its partner accepted.
* The comment of `completeTrade` that a full inventory loses the item is outdated:
  both sides are refunded.
* A second login on a logged-in connection (`session_again`).

In the event scripts (exceptions of `event_scripts`, and what was met on the way):

* Fifteen scripts start a clock with `createEventTimer` and schedule `start`, which
  starts the event's own clock, for the same moment (`Boss_Grove.js`:38, 59, 85). If
  the body of the first comes second it dismisses the event's clock, and the event
  has none (`EventInstanceManager.java`:426).
* `boss_kaling` and `boss_lotus_art` give the prize in `monsterKilled` before they
  call `victory`, which alone asks whether the event is over: a boss that is dying
  while a scheduled function calls `defeat` is paid all the same
  (`boss_kaling.js`:66, 79, 155).
* `Comm_will`'s timers and deaths ask whether `stage` is 1, which only the death of
  2600800 changes; `allMonstersDead` wins without it (`Comm_will.js`:72, 81, 179),
  and the bombs, servants and barriers that were scheduled still come.
* The parks' `MPvictory` is called by the thread of the kill that finds nobody left;
  two kills may both find it, and the reward comes before `victory` looks at `ending`.
* `scar`: the second boss (9420542) has no death that brings another, or the end.
* `Kaotic_Dojo`: `var mob` hides the parameter, so that the death of 9305338 wins
  and 9305339 is never fought.
* The scripts that set `start` with `setIntProperty` never win through `MPvictory`,
  which reads `getValue("start")`.
* A player registered while a thread is about to dispose points at a dead event,
  which answers none of his calls; `dispose`'s own loop over the players sees
  nobody, as `getPlayers` is empty once the event is disposed of.

In the conversations (exceptions of `npc_talk`):

* About 300 scripts end a call with neither a window nor a `dispose` on some path,
  among them `1032002.js`:28, where the body of an `else` is gone and the `if`
  below took its place. The player can talk to nobody until the map changes.
* `2081100.js`:80 and 29 others take an item in a later call than the one that
  looked for it; 146 give items for a price without a look at the room.
* `leaveMap` clears the shop of a player who is moved while it is open, but not the
  flag `chat`: nobody talks to him until he uses the command `fix`.
* `safeDispose` only sets `pendingDisposal`, which nothing reads; `openNpc` inside a
  conversation does nothing, as `startNPC` refuses (`1033200.js`, `9270035.js`).

## 7. Not modelled

See the table in section 1 and the notes in `PROJECT.json`. In particular:

* Scripts nothing loads: `scripts/npc_v4`, `scripts/autoevent`, `scripts/oldevents`,
  and copies (`*_old.js`, `*Copy*`). They are a good part of the JavaScript.
* NPC scripts that start with `importPackage` or `importClass` or do not parse (the
  engine refuses them), that use pal battles, rock-paper-scissors, pendants or
  repair windows, and a few whose paths are too many to tell apart
  (`1500.js`, `job.js`, `shop.js`, `skin.js`, `random_job.js`, `9400845.js`).
* Event scripts that are no instance fights: `AreaBoss`, `GoldenPig`, `ZakumPQ` and
  the ships and trains; three that start with `importPackage`.
* Exceptions out of a script: `action` catches two kinds only, and a conversation
  whose script throws another hangs. Whether one is thrown depends on game data.
* What is on disk: a crash between the saves of two characters.
* Liveness for trade and party: nothing in the code makes a player answer.
* Cash shop, guilds, buddies, combat and the packets' formats.
