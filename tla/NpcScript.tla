----------------------------- MODULE NpcScript -----------------------------
(***************************************************************************)
(* How the NPC scripts (scripts/npc) are written down. A script is a       *)
(* sequence of pages; page 1 is the call of start (or of the first         *)
(* action), each other page a call of action that an answer can make, told *)
(* apart by what the script's variables and the window answered make of    *)
(* it. A page is the set of outcomes the call can have: which one depends  *)
(* on the player, the selection, the time and the dice.                    *)
(***************************************************************************)
EXTENDS Naturals

Outcome == [go : {"page", "ok", "later", "silence", "storage", "bye", "shop"}, page : Nat,
            takes : {"none", "checked", "blind"}, gives : {"none", "asked", "blind"}]

Going(go) == [go |-> go, page |-> 0, takes |-> "none", gives |-> "none"]

\* The window the call shows is one to answer, and the answer is the call k.
To(k) == [Going("page") EXCEPT !.page = k]
\* sendOk, after which any answer ends the conversation.
Ok == Going("ok")
\* The conversation is disposed of: dispose, or a warp, which does it. A script error does it too.
Bye == Going("bye")
\* The call shows no window and does not dispose.
Silence == Going("silence")
\* openShop, sendStorage.
Shop == Going("shop")
Storage == Going("storage")
\* delayRewardNPC: a timer shows the window.
Later == Going("later")

\* The call takes items of the inventory or mesos of the purse, by gainItem, gainMeso, removeItem,
\* completeQuest and the like, and has looked for them: haveItem, itemQuantity, getMeso. To take all
\* there may be (removeAll) is no price; nor are the bank, NX, stamina and points.
Charges(o) == [o EXCEPT !.takes = "checked"]
\* It has looked for none of them, or in an earlier call only.
ChargesBlind(o) == [o EXCEPT !.takes = "blind"]
\* The call gives items into the inventory, after a look at the room for them: canHold, getNumFreeSlot.
Gives(o) == [o EXCEPT !.gives = "asked"]
\* It gives them without.
GivesBlind(o) == [o EXCEPT !.gives = "blind"]
=============================================================================
