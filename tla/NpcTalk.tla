------------------------------ MODULE NpcTalk ------------------------------
(***************************************************************************)
(* A player's conversations (NPCHandler.java, NPCScriptManager.java,       *)
(* NPCConversationManager.java): how one is started, answered and ended,   *)
(* and what is left of it on the server when the player's map changes, a   *)
(* shop or the storage opens, or a script forgets to say anything.         *)
(*                                                                         *)
(* One client. A request of the client and the script call it makes are    *)
(* one step; a call takes no time that counts against the 100 ms of a      *)
(* click or the 500 ms of a dispose.                                       *)
(***************************************************************************)
EXTENDS NpcScript, Sequences

CONSTANTS Npc,      \* the scripts, by their file's name
          Pages,    \* the calls each of them can make: see NpcScript
          Nobody,   \* no script
          Clicked,  \* the scripts of the NPCs on the maps
          Started,  \* the scripts that commands and items start
          Asked,    \* those that they start only if there is no conversation
          Greeting, \* the scripts that maps start when a player arrives
          Mute,     \* scripts that may end a call without a window and without dispose
          Blind,    \* scripts that take what no check of the same call has found
          Careless  \* scripts that sell without a look at the room for what they give

ASSUME TalkAssumption ==
  /\ Nobody \notin Npc /\ Clicked \cup Started \cup Asked \cup Greeting \subseteq Npc
  /\ Pages \in [Npc -> Seq(SUBSET Outcome)]
  /\ \A n \in Npc : Pages[n] # <<>>

\* Every answer a script waits for is one of its calls.
ASSUME PagesAssumption ==
  \A n \in Npc : \A k \in DOMAIN Pages[n] : \A o \in Pages[n][k] :
    o.go = "page" => o.page \in DOMAIN Pages[n]

VARIABLES npc,      \* cms: the script of the conversation, or Nobody
          page,     \* the call the next answer makes
          window,   \* what the client shows: "none", "ask", "ok", or "wait" for a timer's window
          chat,     \* chat: the client is taken to be talking
          busy,     \* conversation > 0
          shop,     \* the character's shop is set
          storage,  \* StorageOpened
          fresh,    \* lastNpcClick is less than 100 ms ago
          cool,     \* npcCoolDown, 500 ms from the last dispose, is not over
          deal      \* the deal of the step: who made an unfair one, and how it was unfair

vars == <<npc, page, window, chat, busy, shop, storage, fresh, cool, deal>>
talk == <<npc, page, window>>
open == <<shop, storage>>

Talking == npc # Nobody
Occupied == Talking \/ shop
Fair == [by |-> Nobody, was |-> "fair"]

Init ==
  /\ npc = Nobody /\ page = 0 /\ window = "none"
  /\ chat = FALSE /\ busy = FALSE /\ shop = FALSE /\ storage = FALSE
  /\ fresh = FALSE /\ cool = FALSE
  /\ deal = Fair

----------------------------------------------------------------------------
\* NPCScriptManager.dispose.
Lingering == npc' = Nobody /\ page' = 0 /\ busy' = FALSE /\ cool' = TRUE
             /\ UNCHANGED window                                                 \* (slip)
Ended == npc' = Nobody /\ page' = 0 /\ window' = "none" /\ busy' = FALSE /\ cool' = TRUE
Hot == npc' = Nobody /\ page' = 0 /\ window' = "none" /\ busy' = FALSE /\ chat' = FALSE
       /\ UNCHANGED cool                                                        \* (slip)
Dispose == Ended /\ chat' = FALSE

\* A call of the script n ends with the window w, and the conversation goes on.
Deaf(n, w, k, c) ==                                                             \* (slip)
  /\ npc' = n /\ page' = k /\ window' = IF w = "ok" THEN "none" ELSE w
  /\ chat' = TRUE /\ busy' = TRUE /\ cool' = c
Shows(n, w, k, c) ==
  /\ npc' = n /\ page' = k /\ window' = w
  /\ chat' = TRUE /\ busy' = TRUE /\ cool' = c

\* What a call takes and gives. What it has checked the player has; what it has not is taken only
\* if the player has it (gainItem, gainMeso), and what does not fit is gone. Nothing is known of the
\* player's things when a call begins: they change between the calls.
Sure(o, has, room) == TRUE                                                      \* (slip)
Known(o, has, room) == (o.takes = "checked" => has) /\ (o.gives = "asked" => room)
Trades(n, o) ==
  \E has, room \in BOOLEAN :
    /\ Known(o, has, room)
    /\ deal' = CASE o.takes # "none" /\ ~has -> [by |-> n, was |-> "unpaid"]
                 [] o.takes # "none" /\ has /\ o.gives # "none" /\ ~room -> [by |-> n, was |-> "lost"]
                 [] OTHER -> Fair

\* A change of maps shuts the shop (leaveMap) and the storage (changeMapInternal).
Shut == shop' = FALSE /\ storage' = FALSE

\* A call of the script n with the outcome o; c is cool.
Ends(n, o, c) ==
  /\ Trades(n, o)
  /\ fresh' = TRUE
  /\ \/ o.go = "page" /\ Shows(n, "ask", o.page, c) /\ UNCHANGED open
     \/ o.go = "ok" /\ Shows(n, "ok", 0, c) /\ UNCHANGED open
     \/ o.go = "later" /\ Shows(n, "wait", 0, c) /\ UNCHANGED open
     \/ o.go = "silence" /\ Shows(n, "none", 0, c) /\ UNCHANGED open
     \/ o.go = "storage" /\ Shows(n, "none", 0, c) /\ storage' = TRUE /\ UNCHANGED shop
     \/ o.go = "bye" /\ Dispose /\ (UNCHANGED open \/ Shut)
     \/ o.go = "shop" /\ ~shop /\ ~storage /\ Ended /\ chat' = TRUE /\ shop' = TRUE
        /\ UNCHANGED storage
     \/ o.go = "shop" /\ (shop \/ storage) /\ Shows(n, "none", 0, c) /\ UNCHANGED open

\* NPCScriptManager.start. Within 100 ms of a click it does no more than setChat(true).
Begin(n) == \E o \in Pages[n][1] : Ends(n, o, cool)
Start(n) ==
  \/ fresh /\ chat' = TRUE /\ deal' = Fair /\ UNCHANGED <<talk, busy, open, fresh, cool>>
  \/ ~fresh /\ Begin(n)

\* NPCTalk.
MayTalk == ~cool /\ ~Talking /\ ~chat /\ ~storage
Talk(n) == MayTalk /\ Start(n)
TalkShop ==
  /\ MayTalk
  /\ busy' = TRUE
  /\ shop' = TRUE /\ chat' = ~shop
  /\ deal' = Fair /\ UNCHANGED <<talk, storage, fresh, cool>>

\* A command or an item that starts a script, whatever else goes on; and startNPC.
CutIn(n) == Start(n)
Ask(n) == ~Talking /\ Start(n)

\* A map whose script starts one when the player arrives: dispose, removeClickedNPC, start.
Arrive(n) ==
  /\ ~shop /\ ~storage
  /\ \E o \in Pages[n][1] : Ends(n, o, TRUE)

\* NPCMoreTalk and NPCScriptManager.action: the answer to a window.
Answer ==
  /\ Talking /\ window = "ask"
  /\ \/ (shop \/ storage) /\ Dispose /\ deal' = Fair /\ UNCHANGED <<open, fresh>>
     \/ ~shop /\ ~storage /\ chat /\ \E o \in Pages[npc][page] : Ends(npc, o, cool)

\* The window is closed, a question is declined, or an Ok window is answered.
Ignored ==                                                                      \* (slip)
  /\ Talking /\ window \in {"ask", "ok"}
  /\ window' = "none" /\ deal' = Fair /\ UNCHANGED <<npc, page, chat, busy, open, fresh, cool>>
Leave ==
  /\ Talking /\ window \in {"ask", "ok"}
  /\ Dispose /\ deal' = Fair /\ UNCHANGED <<open, fresh>>

\* The timer of delayRewardNPC.
Reward == window = "wait" /\ window' = "ok" /\ deal' = Fair
          /\ UNCHANGED <<npc, page, chat, busy, open, fresh, cool>>

\* NPCShop, the client closes the shop; Storage, mode 8.
Quits == IF Talking THEN Dispose
         ELSE busy' = FALSE /\ chat' = FALSE /\ UNCHANGED <<talk, cool>>
CloseShop == shop /\ shop' = FALSE /\ Quits /\ deal' = Fair /\ UNCHANGED <<storage, fresh>>
CloseStorage == storage /\ storage' = FALSE /\ Quits /\ deal' = Fair /\ UNCHANGED <<shop, fresh>>

\* changeMapInternal: an event, a portal, a party's leader or a command moves the player.
Warp ==
  /\ Shut
  /\ IF Talking THEN Dispose ELSE UNCHANGED <<talk, chat, busy, cool>>
  /\ deal' = Fair /\ UNCHANGED fresh

\* The command fix.
Fix == Dispose /\ storage' = FALSE /\ fresh' = FALSE /\ deal' = Fair /\ UNCHANGED shop

\* 100 ms after the last click and 500 ms after the last dispose: a dispose follows the click
\* it answers.
Calm == fresh /\ fresh' = FALSE /\ deal' = Fair /\ UNCHANGED <<talk, chat, busy, open, cool>>
Cold == cool /\ (fresh => Talking) /\ cool' = FALSE /\ deal' = Fair
        /\ UNCHANGED <<talk, chat, busy, open, fresh>>

Next ==
  \/ \E n \in Clicked : Talk(n)
  \/ \E n \in Started : CutIn(n)
  \/ \E n \in Asked : Ask(n)
  \/ \E n \in Greeting : Arrive(n)
  \/ TalkShop \/ Answer \/ Leave \/ Reward
  \/ CloseShop \/ CloseStorage \/ Warp \/ Fix \/ Calm \/ Cold

\* The timer comes; a player who can close a window again and again does so once.
Fairness == WF_vars(Reward) /\ SF_vars(Leave) /\ SF_vars(CloseShop) /\ SF_vars(CloseStorage)

Spec == Init /\ [][Next]_vars /\ Fairness
----------------------------------------------------------------------------
TypeOK ==
  /\ npc \in Npc \cup {Nobody}
  /\ page \in Nat /\ (window = "ask" => Talking /\ page \in DOMAIN Pages[npc])
  /\ window \in {"none", "ask", "ok", "wait"}
  /\ chat \in BOOLEAN /\ busy \in BOOLEAN
  /\ shop \in BOOLEAN /\ storage \in BOOLEAN
  /\ fresh \in BOOLEAN /\ cool \in BOOLEAN
  /\ deal \in [by : Npc \cup {Nobody}, was : {"fair", "unpaid", "lost"}]

\* While a conversation is on, the player has something to answer or to close, or a timer will
\* show it: nobody has to walk to another map to be able to talk again. NPCTalk refuses a client
\* with a conversation. The scripts in Mute fail it: they leave a call with neither.
Listening == Talking /\ npc \notin Mute => window # "none" \/ shop \/ storage

\* Taken to be talking or busy, with nothing on the client that would end it: no NPC answers any
\* more, and no item can be moved.
Stranded == (chat \/ busy) /\ ~Talking /\ ~shop

\* NPCTalk strands nobody, nor does an answer, a window closed or a timer: the cooldown after a
\* dispose is longer than the one after a click, so that start never refuses a click let through.
\* A change of maps under an open shop does, and a command within 100 ms of a click, at a time
\* when NPCTalk would have refused it.
CommandTooSoon ==
  fresh /\ cool /\ (\/ \E n \in Started : CutIn(n)
                    \/ \E n \in Asked : Ask(n))
StrandedOnly == [][~Stranded /\ Stranded' => (shop /\ Warp) \/ CommandTooSoon]_vars

\* No call hands its goods over for a price the player could not pay: what it takes it has looked
\* for in the same call, as the player's things change while a window is open.
NoFreeGift == deal.was = "unpaid" => deal.by \in Blind

\* No call takes a price for what the player has no room for.
NothingLost == deal.was = "lost" => deal.by \in Careless

\* A player who closes the windows he is shown is sooner or later neither in a conversation nor in
\* a shop, unless a script falls silent.
Freed == [](Occupied /\ npc \notin Mute => <>(~Occupied \/ npc \in Mute))
----------------------------------------------------------------------------
\* Rules that a script can be seen to keep by reading its calls, whatever the order they come in.

\* A call shows a window or disposes of the conversation.
Outspoken(n) ==
  \A k \in DOMAIN Pages[n] : \A o \in Pages[n][k] : o.go # "silence"

\* A call takes only what it has looked for.
LooksFirst(n) ==
  \A k \in DOMAIN Pages[n] : \A o \in Pages[n][k] : o.takes # "blind"

\* A call that takes something looks at the room for what it gives.
MakesRoom(n) ==
  \A k \in DOMAIN Pages[n] : \A o \in Pages[n][k] : o.takes # "none" => o.gives # "blind"
=============================================================================
