--------------------------- MODULE NpcTalkProofs ---------------------------
(***************************************************************************)
(* For every table of scripts: the variables keep their kinds, nobody is   *)
(* stranded but in the two ways StrandedOnly names, a conversation whose   *)
(* script never falls silent has a window, and a script that looks before  *)
(* it takes makes fair deals, in whatever order its calls come.            *)
(***************************************************************************)
EXTENDS NpcTalk, TLAPS

\* A call that the server can make: page 1, or the page that an answer makes.
LEMMA PageLegal ==
  ASSUME NEW n \in Npc, NEW k \in DOMAIN Pages[n], NEW o \in Pages[n][k]
  PROVE  o \in Outcome /\ (o.go = "page" => o.page \in DOMAIN Pages[n])
<1>1. Pages[n] \in Seq(SUBSET Outcome)
  BY TalkAssumption
<1>2. Pages[n][k] \in SUBSET Outcome
  BY <1>1
<1> QED BY <1>2, PagesAssumption

LEMMA FirstPage == ASSUME NEW n \in Npc PROVE 1 \in DOMAIN Pages[n]
<1>1. Pages[n] \in Seq(SUBSET Outcome) /\ Pages[n] # <<>>
  BY TalkAssumption
<1> QED BY <1>1

\* The deals are well-formed.
LEMMA DealKind ==
  ASSUME NEW n \in Npc, NEW o \in Outcome, Trades(n, o)
  PROVE  deal' \in [by : Npc \cup {Nobody}, was : {"fair", "unpaid", "lost"}]
<1>1. PICK has \in BOOLEAN, room \in BOOLEAN :
        deal' = CASE o.takes # "none" /\ ~has -> [by |-> n, was |-> "unpaid"]
                  [] o.takes # "none" /\ has /\ o.gives # "none" /\ ~room -> [by |-> n, was |-> "lost"]
                  [] OTHER -> Fair
  BY DEF Trades
<1>2. deal' \in {[by |-> n, was |-> "unpaid"], [by |-> n, was |-> "lost"], Fair}
  BY <1>1
<1> QED BY <1>2 DEF Fair

LEMMA FairKind == Fair \in [by : Npc \cup {Nobody}, was : {"fair", "unpaid", "lost"}]
BY DEF Fair

-----------------------------------------------------------------------------
(* Kinds.                                                                   *)

\* A step that disposes of the conversation, and one that leaves it alone.
LEMMA DisposeTypes ==
  ASSUME Dispose, shop' \in BOOLEAN, storage' \in BOOLEAN, fresh' \in BOOLEAN,
         deal' \in [by : Npc \cup {Nobody}, was : {"fair", "unpaid", "lost"}]
  PROVE  TypeOK'
<1>1. npc' = Nobody /\ page' = 0 /\ window' = "none"
  BY DEF Dispose, Ended
<1>2. chat' = FALSE /\ busy' = FALSE /\ cool' = TRUE
  BY DEF Dispose, Ended
<1>3. (window = "ask" => Talking /\ page \in DOMAIN Pages[npc])'
  BY <1>1
<1> QED BY <1>1, <1>2, <1>3 DEF TypeOK

LEMMA AloneTypes ==
  ASSUME TypeOK, UNCHANGED talk, chat' \in BOOLEAN, busy' \in BOOLEAN, cool' \in BOOLEAN,
         shop' \in BOOLEAN, storage' \in BOOLEAN, fresh' \in BOOLEAN, deal' = Fair
  PROVE  TypeOK'
<1>1. npc' = npc /\ page' = page /\ window' = window
  BY DEF talk
<1>2. (window = "ask" => Talking /\ page \in DOMAIN Pages[npc])'
  BY <1>1 DEF TypeOK, Talking
<1> QED BY <1>1, <1>2, FairKind DEF TypeOK

LEMMA EndsTypes ==
  ASSUME TypeOK, NEW n \in Npc, NEW k \in DOMAIN Pages[n], NEW o \in Pages[n][k],
         NEW c \in BOOLEAN, Ends(n, o, c)
  PROVE  TypeOK'
<1>1. o \in Outcome /\ (o.go = "page" => o.page \in DOMAIN Pages[n])
  BY PageLegal
<1>2. o.page \in Nat
  BY <1>1 DEF Outcome
<1>3. deal' \in [by : Npc \cup {Nobody}, was : {"fair", "unpaid", "lost"}]
  BY <1>1, DealKind DEF Ends
<1>4. n # Nobody
  BY TalkAssumption
<1>5. CASE Dispose /\ (UNCHANGED open \/ Shut)
  <2>1. shop' \in BOOLEAN /\ storage' \in BOOLEAN
    BY <1>5 DEF TypeOK, open, Shut
  <2> QED BY <1>3, <1>5, <2>1, DisposeTypes DEF Ends
<1>6. ASSUME NEW w, NEW p, Shows(n, w, p, c), w \in {"none", "ask", "ok", "wait"}, p \in Nat,
             w = "ask" => p \in DOMAIN Pages[n], shop' \in BOOLEAN, storage' \in BOOLEAN
      PROVE  TypeOK'
  <2>1. npc' = n /\ page' = p /\ window' = w /\ chat' = TRUE /\ busy' = TRUE /\ cool' = c
    BY <1>6 DEF Shows
  <2>2. (window = "ask" => Talking /\ page \in DOMAIN Pages[npc])'
    BY <1>4, <1>6, <2>1 DEF Talking
  <2>3. fresh' = TRUE
    BY DEF Ends
  <2> QED BY <1>3, <1>6, <2>1, <2>2, <2>3 DEF TypeOK
<1>7. CASE Ended /\ chat' = TRUE /\ shop' = TRUE /\ UNCHANGED storage
  <2>1. npc' = Nobody /\ page' = 0 /\ window' = "none" /\ busy' = FALSE /\ cool' = TRUE
    BY <1>7 DEF Ended
  <2>2. (window = "ask" => Talking /\ page \in DOMAIN Pages[npc])'
    BY <2>1
  <2>3. fresh' = TRUE
    BY DEF Ends
  <2> QED BY <1>3, <1>7, <2>1, <2>2, <2>3 DEF TypeOK
<1>8. shop \in BOOLEAN /\ storage \in BOOLEAN
  BY DEF TypeOK
<1>9. \/ o.go = "page" /\ Shows(n, "ask", o.page, c) /\ UNCHANGED open
      \/ \E w \in {"ok", "wait", "none"} :
           Shows(n, w, 0, c) /\ UNCHANGED shop /\ storage' \in {storage, TRUE}
      \/ Dispose /\ (UNCHANGED open \/ Shut)
      \/ Ended /\ chat' = TRUE /\ shop' = TRUE /\ UNCHANGED storage
  BY DEF Ends, open
<1>10. CASE o.go = "page" /\ Shows(n, "ask", o.page, c) /\ UNCHANGED open
  BY <1>1, <1>2, <1>6, <1>8, <1>10 DEF open
<1>11. CASE \E w \in {"ok", "wait", "none"} :
              Shows(n, w, 0, c) /\ UNCHANGED shop /\ storage' \in {storage, TRUE}
  BY <1>6, <1>8, <1>11
<1> QED BY <1>5, <1>7, <1>9, <1>10, <1>11

LEMMA StartTypes ==
  ASSUME TypeOK, NEW n \in Npc, Start(n)
  PROVE  TypeOK'
<1>1. CASE fresh /\ chat' = TRUE /\ deal' = Fair /\ UNCHANGED <<talk, busy, open, fresh, cool>>
  BY <1>1, AloneTypes DEF TypeOK, open
<1>2. CASE Begin(n)
  <2>1. PICK o \in Pages[n][1] : Ends(n, o, cool)
    BY <1>2 DEF Begin
  <2> QED BY <2>1, EndsTypes, FirstPage DEF TypeOK
<1> QED BY <1>1, <1>2 DEF Start

LEMMA NextTypes == TypeOK /\ [Next]_vars => TypeOK'
<1> SUFFICES ASSUME TypeOK, [Next]_vars PROVE TypeOK'
  OBVIOUS
<1>0. /\ npc \in Npc \cup {Nobody} /\ chat \in BOOLEAN /\ busy \in BOOLEAN /\ shop \in BOOLEAN
      /\ storage \in BOOLEAN /\ fresh \in BOOLEAN /\ cool \in BOOLEAN
  BY DEF TypeOK
<1>1. ASSUME NEW n \in Clicked, Talk(n) PROVE TypeOK'
  BY <1>1, StartTypes, TalkAssumption DEF Talk
<1>2. ASSUME NEW n \in Started \cup Asked, Start(n) PROVE TypeOK'
  BY <1>2, StartTypes, TalkAssumption
<1>3. ASSUME NEW n \in Greeting, Arrive(n) PROVE TypeOK'
  <2>1. n \in Npc
    BY TalkAssumption
  <2>2. PICK o \in Pages[n][1] : Ends(n, o, TRUE)
    BY <1>3 DEF Arrive
  <2> QED BY <2>1, <2>2, EndsTypes, FirstPage
<1>4. CASE TalkShop
  <2>1. UNCHANGED talk /\ chat' = ~shop /\ busy' = TRUE /\ shop' = TRUE /\ deal' = Fair
    BY <1>4 DEF TalkShop
  <2>2. UNCHANGED <<storage, fresh, cool>>
    BY <1>4 DEF TalkShop
  <2> QED BY <1>0, <2>1, <2>2, AloneTypes
<1>5. CASE Answer
  <2>1. CASE Dispose /\ deal' = Fair /\ UNCHANGED <<open, fresh>>
    BY <1>0, <2>1, DisposeTypes, FairKind DEF open
  <2>2. CASE \E o \in Pages[npc][page] : Ends(npc, o, cool)
    <3>1. npc \in Npc /\ page \in DOMAIN Pages[npc]
      BY <1>5 DEF Answer, TypeOK, Talking
    <3>2. PICK o \in Pages[npc][page] : Ends(npc, o, cool)
      BY <2>2
    <3> QED BY <1>0, <3>1, <3>2, EndsTypes
  <2> QED BY <1>5, <2>1, <2>2 DEF Answer
<1>6. CASE Leave
  BY <1>0, <1>6, DisposeTypes, FairKind DEF Leave, open
<1>7. CASE Reward
  <2>1. window' = "ok" /\ deal' = Fair
    BY <1>7 DEF Reward
  <2>2. UNCHANGED <<npc, page, chat, busy, open, fresh, cool>>
    BY <1>7 DEF Reward
  <2> QED BY <2>1, <2>2, FairKind DEF TypeOK, open
<1>8. ASSUME Quits, deal' = Fair, shop' \in BOOLEAN, storage' \in BOOLEAN, UNCHANGED fresh
      PROVE  TypeOK'
  <2>1. CASE Talking
    <3>1. Dispose
      BY <1>8, <2>1 DEF Quits
    <3> QED BY <1>0, <1>8, <3>1, DisposeTypes, FairKind
  <2>2. CASE ~Talking
    <3>1. busy' = FALSE /\ chat' = FALSE /\ UNCHANGED talk /\ UNCHANGED cool
      BY <1>8, <2>2 DEF Quits
    <3> QED BY <1>0, <1>8, <3>1, AloneTypes
  <2> QED BY <2>1, <2>2
<1>9. CASE CloseShop \/ CloseStorage
  BY <1>0, <1>8, <1>9 DEF CloseShop, CloseStorage
<1>10. CASE Warp
  <2>1. shop' \in BOOLEAN /\ storage' \in BOOLEAN /\ deal' = Fair /\ UNCHANGED fresh
    BY <1>10 DEF Warp, Shut
  <2>2. CASE Dispose
    BY <1>0, <2>1, <2>2, DisposeTypes, FairKind
  <2>3. CASE UNCHANGED <<talk, chat, busy, cool>>
    BY <1>0, <2>1, <2>3, AloneTypes
  <2> QED BY <1>10, <2>2, <2>3 DEF Warp
<1>11. CASE Fix
  BY <1>0, <1>11, DisposeTypes, FairKind DEF Fix
<1>12. CASE Calm
  BY <1>0, <1>12, AloneTypes DEF Calm, open
<1>13. CASE Cold
  BY <1>0, <1>13, AloneTypes DEF Cold, open
<1>14. CASE UNCHANGED vars
  BY <1>14 DEF vars, TypeOK, Talking
<1> QED
  BY <1>1, <1>2, <1>3, <1>4, <1>5, <1>6, <1>7, <1>8, <1>9, <1>10, <1>11, <1>12, <1>13, <1>14
  DEF Next, CutIn, Ask

\* The variables keep their kinds, and the window to answer belongs to a page of the script.
THEOREM TalkTypes == Spec => []TypeOK
<1>1. ASSUME Init PROVE TypeOK
  <2>1. chat = FALSE /\ busy = FALSE /\ shop = FALSE /\ storage = FALSE /\ fresh = FALSE /\ cool = FALSE
    BY <1>1 DEF Init
  <2>2. npc = Nobody /\ page = 0 /\ window = "none" /\ deal = Fair
    BY <1>1 DEF Init
  <2>3. window = "ask" => Talking /\ page \in DOMAIN Pages[npc]
    BY <2>2
  <2> QED BY <2>1, <2>2, <2>3, FairKind DEF TypeOK
<1> QED BY <1>1, NextTypes, PTL DEF Spec
----------------------------------------------------------------------------
\* The cooldown after a dispose outlasts the one after a click: without a conversation, a click
\* of the last 100 ms is followed by a dispose of the last 500.
Rested == fresh /\ ~Talking => cool

\* What a step must not do, and what it must keep.
Kept == Rested' /\ (Stranded' => Stranded)

LEMMA DisposeKeeps == ASSUME Dispose PROVE Kept
  BY DEF Dispose, Ended, Kept, Rested, Stranded

\* Whatever its outcome, a call of a script leaves a conversation, a shop, or a dispose.
LEMMA EndsKeeps ==
  ASSUME NEW n \in Npc, NEW o, NEW c, Ends(n, o, c)
  PROVE  Kept
<1>1. n # Nobody
  BY TalkAssumption
<1>2. ASSUME NEW w, NEW k, Shows(n, w, k, c) PROVE Kept
  BY <1>1, <1>2 DEF Shows, Kept, Rested, Stranded, Talking
<1>3. CASE Ended /\ shop' = TRUE
  BY <1>3 DEF Ended, Kept, Rested, Stranded
<1> QED BY <1>2, <1>3, DisposeKeeps DEF Ends

\* What leaves the conversation, the flags and the cooldown alone keeps both.
LEMMA AloneKeeps ==
  ASSUME Rested, UNCHANGED <<talk, chat, busy, cool>>, fresh' => fresh, shop' = shop
  PROVE  Kept
  BY DEF talk, Kept, Rested, Stranded, Talking

LEMMA StartKeeps ==
  ASSUME Rested, NEW n \in Npc, ~fresh, Start(n)
  PROVE  Kept
<1>1. PICK o \in Pages[n][1] : Ends(n, o, cool)
  BY DEF Start, Begin
<1> QED BY <1>1, EndsKeeps

\* Every step keeps Rested, and strands the player only in the two ways.
LEMMA NextKeeps ==
  ASSUME TypeOK, Rested, [Next]_vars
  PROVE  /\ Rested'
         /\ ~Stranded /\ Stranded' => (shop /\ Warp) \/ CommandTooSoon
<1>1. ASSUME NEW n \in Clicked, Talk(n) PROVE Kept
  <2>1. ~fresh
    BY <1>1 DEF Talk, MayTalk, Rested
  <2> QED BY <1>1, <2>1, StartKeeps, TalkAssumption DEF Talk
<1>2. ASSUME NEW n \in Started \cup Asked, Start(n) PROVE Rested' /\ (Kept \/ (Stranded' => fresh /\ cool))
  <2>1. n \in Npc
    BY TalkAssumption
  <2>2. CASE fresh
    <3>1. CASE UNCHANGED <<talk, fresh, cool>>
      BY <2>2, <3>1 DEF Rested, Stranded, talk, Talking
    <3>2. CASE ~fresh
      BY <2>2, <3>2
    <3> QED BY <1>2, <3>1, <3>2 DEF Start
  <2>3. CASE ~fresh
    BY <1>2, <2>1, <2>3, StartKeeps DEF Kept
  <2> QED BY <2>2, <2>3
<1>3. ASSUME NEW n \in Greeting, Arrive(n) PROVE Kept
  <2>1. n \in Npc
    BY TalkAssumption
  <2>2. PICK o \in Pages[n][1] : Ends(n, o, TRUE)
    BY <1>3 DEF Arrive
  <2> QED BY <2>1, <2>2, EndsKeeps
<1>4. ASSUME TalkShop PROVE Kept
  BY <1>4 DEF TalkShop, Kept, Rested, Stranded, talk, Talking
<1>5. ASSUME Answer PROVE Kept
  <2>1. npc \in Npc
    BY <1>5 DEF Answer, TypeOK, Talking
  <2>2. CASE \E o \in Pages[npc][page] : Ends(npc, o, cool)
    BY <2>1, <2>2, EndsKeeps
  <2> QED BY <1>5, <2>2, DisposeKeeps DEF Answer
<1>6. ASSUME Leave \/ Fix PROVE Kept
  BY <1>6, DisposeKeeps DEF Leave, Fix
<1>7. ASSUME Reward PROVE Kept
  <2>1. UNCHANGED <<npc, chat, busy, shop, fresh, cool>>
    BY <1>7 DEF Reward, open
  <2> QED BY <2>1 DEF Kept, Rested, Stranded, Talking
<1>8. ASSUME Quits, UNCHANGED fresh PROVE Kept
  <2>1. CASE Talking
    BY <1>8, <2>1, DisposeKeeps DEF Quits
  <2>2. CASE ~Talking
    BY <1>8, <2>2 DEF Quits, Kept, Rested, Stranded, talk, Talking
  <2> QED BY <2>1, <2>2
<1>9. ASSUME CloseShop \/ CloseStorage PROVE Kept
  BY <1>8, <1>9 DEF CloseShop, CloseStorage
<1>10. ASSUME Warp PROVE Rested' /\ (Kept \/ shop)
  <2>1. CASE Talking
    BY <1>10, <2>1, DisposeKeeps DEF Warp, Kept
  <2>2. CASE ~Talking
    <3>1. UNCHANGED <<talk, chat, busy, cool>> /\ UNCHANGED fresh /\ shop' = FALSE
      BY <1>10, <2>2 DEF Warp, Shut
    <3> QED BY <3>1 DEF Kept, Rested, Stranded, talk, Talking
  <2> QED BY <2>1, <2>2
<1>11. ASSUME Calm \/ Cold PROVE Kept
  <2>1. UNCHANGED <<talk, chat, busy, shop>>
    BY <1>11 DEF Calm, Cold, open
  <2>2. Rested'
    BY <1>11, <2>1 DEF Calm, Cold, Rested, talk, Talking
  <2> QED BY <2>1, <2>2 DEF Kept, Stranded, talk, Talking
<1>12. ASSUME UNCHANGED vars PROVE Kept
  BY <1>12 DEF vars, Kept, Rested, Stranded, Talking
<1> QED
  BY <1>1, <1>2, <1>3, <1>4, <1>5, <1>6, <1>7, <1>9, <1>10, <1>11, <1>12 DEF Next, CutIn, Ask, Kept, CommandTooSoon, Stranded

\* A conversation that ends leaves nothing behind but in two cases: the map changes under an open
\* shop, or a command comes within 100 ms of a click.
THEOREM NobodyStranded == Spec => StrandedOnly
<1>1. ASSUME Init PROVE Rested
  BY <1>1 DEF Init, Rested
<1>2. TypeOK /\ Rested /\ [Next]_vars => Rested'
  BY NextKeeps
<1>3. TypeOK /\ Rested /\ [Next]_vars
      => [~Stranded /\ Stranded' => (shop /\ Warp) \/ CommandTooSoon]_vars
  BY NextKeeps
<1> QED BY <1>1, <1>2, <1>3, TalkTypes, PTL DEF Spec, StrandedOnly
----------------------------------------------------------------------------
(* Windows. No script but those in Mute falls silent.                       *)

LEMMA EndsListening ==
  ASSUME \A m \in Npc \ Mute : Outspoken(m),
         NEW n \in Npc, NEW k \in DOMAIN Pages[n], NEW o \in Pages[n][k], NEW c,
         Ends(n, o, c)
  PROVE  Listening'
<1>1. o.go = "silence" => n \in Mute
  BY DEF Outspoken
<1>2. CASE Dispose \/ Ended
  BY <1>2 DEF Dispose, Ended, Listening, Talking
<1>3. ASSUME NEW w, NEW m, Shows(n, w, m, c), w # "none" \/ n \in Mute \/ shop' \/ storage'
      PROVE  Listening'
  BY <1>3 DEF Shows, Listening
<1> QED BY <1>1, <1>2, <1>3 DEF Ends, open

\* A conversation and its window left alone, nothing is lost if the shop and the storage stay.
LEMMA AloneListening ==
  ASSUME Listening, UNCHANGED talk, ~Talking \/ ((shop => shop') /\ (storage => storage'))
  PROVE  Listening'
  BY DEF Listening, Talking, talk

LEMMA DisposeListening == ASSUME Dispose PROVE Listening'
  BY DEF Dispose, Ended, Listening, Talking

LEMMA StartListening ==
  ASSUME \A m \in Npc \ Mute : Outspoken(m), Listening, NEW n \in Npc, Start(n)
  PROVE  Listening'
<1>1. CASE UNCHANGED <<talk, open>>
  BY <1>1, AloneListening DEF open
<1>2. CASE Begin(n)
  <2>1. 1 \in DOMAIN Pages[n]
    BY FirstPage
  <2>2. PICK o \in Pages[n][1] : Ends(n, o, cool)
    BY <1>2 DEF Begin
  <2> QED BY <2>1, <2>2, EndsListening
<1> QED BY <1>1, <1>2 DEF Start

LEMMA NextListening ==
  ASSUME \A m \in Npc \ Mute : Outspoken(m), TypeOK, Listening, [Next]_vars
  PROVE  Listening'
<1>1. ASSUME NEW n \in Clicked, Talk(n) PROVE Listening'
  BY <1>1, StartListening, TalkAssumption DEF Talk
<1>2. ASSUME NEW n \in Started \cup Asked, Start(n) PROVE Listening'
  BY <1>2, StartListening, TalkAssumption
<1>3. ASSUME NEW n \in Greeting, Arrive(n) PROVE Listening'
  <2>1. n \in Npc /\ 1 \in DOMAIN Pages[n]
    BY TalkAssumption, FirstPage
  <2>2. PICK o \in Pages[n][1] : Ends(n, o, TRUE)
    BY <1>3 DEF Arrive
  <2> QED BY <2>1, <2>2, EndsListening
<1>4. CASE TalkShop
  BY <1>4, AloneListening DEF TalkShop
<1>5. CASE Answer
  <2>1. CASE Dispose
    BY <2>1, DisposeListening
  <2>2. CASE \E o \in Pages[npc][page] : Ends(npc, o, cool)
    <3>1. npc \in Npc /\ page \in DOMAIN Pages[npc]
      BY <1>5 DEF Answer, TypeOK, Talking
    <3> QED BY <2>2, <3>1, EndsListening
  <2> QED BY <1>5, <2>1, <2>2 DEF Answer
<1>6. CASE Leave \/ Fix
  BY <1>6, DisposeListening DEF Leave, Fix
<1>7. CASE Reward
  BY <1>7 DEF Reward, Listening
<1>8. ASSUME Dispose \/ (~Talking /\ UNCHANGED talk) PROVE Listening'
  BY <1>8, DisposeListening, AloneListening
<1>9. CASE CloseShop \/ CloseStorage \/ Warp
  BY <1>8, <1>9 DEF CloseShop, CloseStorage, Warp, Quits
<1>10. CASE Calm \/ Cold
  <2>1. UNCHANGED <<talk, open>>
    BY <1>10 DEF Calm, Cold
  <2> QED BY <2>1, AloneListening DEF open
<1>11. CASE UNCHANGED vars
  BY <1>11, AloneListening DEF vars, talk
<1> QED
  BY <1>1, <1>2, <1>3, <1>4, <1>5, <1>6, <1>7, <1>9, <1>10, <1>11 DEF Next, CutIn, Ask

\* A conversation has something to answer, to close or to wait for, whatever else opens, closes
\* or moves, if every script outside Mute shows a window or disposes on every path.
THEOREM AlwaysListening ==
  ASSUME \A n \in Npc \ Mute : Outspoken(n)
  PROVE  Spec => []Listening
<1>1. Init => Listening
  BY DEF Init, Listening, Talking
<1>2. TypeOK /\ Listening /\ [Next]_vars => Listening'
  BY NextListening
<1> QED BY <1>1, <1>2, TalkTypes, PTL DEF Spec
----------------------------------------------------------------------------
(* Deals. Who made an unfair one is a script that breaks a rule.            *)

Honest == (\A n \in Npc \ Blind : LooksFirst(n)) => NoFreeGift
Roomy == (\A n \in Npc \ Careless : MakesRoom(n)) => NothingLost

\* An unfair deal is made by a call that took without a look, or gave without one.
LEMMA DealBlame ==
  ASSUME NEW n \in Npc, NEW k \in DOMAIN Pages[n], NEW o \in Pages[n][k], Trades(n, o)
  PROVE  Honest' /\ Roomy'
<1>1. o.takes \in {"none", "checked", "blind"} /\ o.gives \in {"none", "asked", "blind"}
  BY PageLegal DEF Outcome
<1>2. PICK has \in BOOLEAN, room \in BOOLEAN :
        /\ Known(o, has, room)
        /\ deal' = CASE o.takes # "none" /\ ~has -> [by |-> n, was |-> "unpaid"]
                     [] o.takes # "none" /\ has /\ o.gives # "none" /\ ~room -> [by |-> n, was |-> "lost"]
                     [] OTHER -> Fair
  BY DEF Trades
<1>3. CASE o.takes # "none" /\ ~has
  <2>1. deal' = [by |-> n, was |-> "unpaid"]
    BY <1>2, <1>3
  <2>2. o.takes = "blind"
    BY <1>1, <1>2, <1>3 DEF Known
  <2>3. (\A m \in Npc \ Blind : LooksFirst(m)) => n \in Blind
    BY <2>2 DEF LooksFirst
  <2> QED BY <2>1, <2>3 DEF Honest, Roomy, NoFreeGift, NothingLost
<1>4. CASE o.takes # "none" /\ has /\ o.gives # "none" /\ ~room
  <2>1. deal' = [by |-> n, was |-> "lost"]
    BY <1>2, <1>4
  <2>2. o.gives = "blind"
    BY <1>1, <1>2, <1>4 DEF Known
  <2>3. (\A m \in Npc \ Careless : MakesRoom(m)) => n \in Careless
    BY <1>4, <2>2 DEF MakesRoom
  <2> QED BY <2>1, <2>3 DEF Honest, Roomy, NoFreeGift, NothingLost
<1>5. CASE deal' = Fair
  BY <1>5 DEF Fair, Honest, Roomy, NoFreeGift, NothingLost
<1> QED BY <1>2, <1>3, <1>4, <1>5

LEMMA FairBlame == ASSUME deal' = Fair PROVE Honest' /\ Roomy'
BY DEF Fair, Honest, Roomy, NoFreeGift, NothingLost

LEMMA StartBlame == ASSUME NEW n \in Npc, Start(n) PROVE Honest' /\ Roomy'
<1>1. CASE Begin(n)
  <2>1. PICK o \in Pages[n][1] : Ends(n, o, cool)
    BY <1>1 DEF Begin
  <2> QED BY <2>1, FirstPage, DealBlame DEF Ends
<1> QED BY <1>1, FairBlame DEF Start

LEMMA NextBlame ==
  ASSUME TypeOK, Honest, Roomy, [Next]_vars
  PROVE  Honest' /\ Roomy'
<1>1. ASSUME NEW n \in Clicked \cup Started \cup Asked, Start(n) PROVE Honest' /\ Roomy'
  BY <1>1, StartBlame, TalkAssumption
<1>2. ASSUME NEW n \in Greeting, Arrive(n) PROVE Honest' /\ Roomy'
  <2>1. n \in Npc
    BY TalkAssumption
  <2>2. PICK o \in Pages[n][1] : Ends(n, o, TRUE)
    BY <1>2 DEF Arrive
  <2> QED BY <2>1, <2>2, FirstPage, DealBlame DEF Ends
<1>3. CASE Answer
  <2>1. npc \in Npc /\ page \in DOMAIN Pages[npc]
    BY <1>3 DEF Answer, TypeOK, Talking
  <2>2. CASE \E o \in Pages[npc][page] : Ends(npc, o, cool)
    <3>1. PICK o \in Pages[npc][page] : Ends(npc, o, cool)
      BY <2>2
    <3> QED BY <2>1, <3>1, DealBlame DEF Ends
  <2> QED BY <1>3, <2>2, FairBlame DEF Answer
<1>4. CASE \/ TalkShop \/ Leave \/ Reward \/ CloseShop \/ CloseStorage
           \/ Warp \/ Fix \/ Calm \/ Cold
  BY <1>4, FairBlame
     DEF TalkShop, Leave, Reward, CloseShop, CloseStorage, Warp, Fix, Calm, Cold
<1>5. CASE UNCHANGED vars
  BY <1>5 DEF vars, Honest, Roomy, NoFreeGift, NothingLost
<1> QED BY <1>1, <1>2, <1>3, <1>4, <1>5 DEF Next, Talk, CutIn, Ask

LEMMA Blamed == Spec => [](Honest /\ Roomy)
<1>1. Init => Honest /\ Roomy
  BY DEF Init, Fair, Honest, Roomy, NoFreeGift, NothingLost
<1>2. TypeOK /\ Honest /\ Roomy /\ [Next]_vars => Honest' /\ Roomy'
  BY NextBlame
<1> QED BY <1>1, <1>2, TalkTypes, PTL DEF Spec

\* Goods change hands against a price that was not there only in the scripts of Blind, if all
\* others look in the call that takes: what another call has seen is not enough, as the player's
\* things change between the calls.
THEOREM GiftsArePaid ==
  ASSUME \A n \in Npc \ Blind : LooksFirst(n)
  PROVE  Spec => []NoFreeGift
<1>1. Honest => NoFreeGift
  BY DEF Honest
<1> QED BY <1>1, Blamed, PTL

\* A price is taken for what the player has no room for only in the scripts of Careless, if all
\* others look at the room in the call that sells.
THEOREM SalesFit ==
  ASSUME \A n \in Npc \ Careless : MakesRoom(n)
  PROVE  Spec => []NothingLost
<1>1. Roomy => NothingLost
  BY DEF Roomy
<1> QED BY <1>1, Blamed, PTL
=============================================================================
