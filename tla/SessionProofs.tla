---------------------------- MODULE SessionProofs ----------------------------
(* Proofs about Session, for any sets of connections and characters.        *)
EXTENDS Session, TLAPS

USE SessionAssumption DEF NOTLOGGEDIN, SERVER_TRANSITION, LOGGEDIN, POST_LOGGIN

------------------------------------------------------------------------------
(* Types. *)

Kinds == {"login", "select", "closed", "kicked"}

(* A client's pending tasks may be replaced by any.                         *)
LEMMA TimersType ==
  ASSUME TypeOK, NEW c \in Clients, NEW S \in SUBSET Kinds
  PROVE  [timers EXCEPT ![c] = S] \in [Clients -> SUBSET Kinds]
BY DEF TypeOK, Kinds

(* A client without a connection has a well-typed state.                    *)
LEMMA GoneType ==
  ASSUME TypeOK, NEW c \in Clients, Gone(c)
  PROVE  /\ role' \in [Clients -> {"none", "login", "channel"}]
         /\ at' \in [Clients -> {"idle", "playing", "admitted", "loaded", "entering",
                                "closed", "kicked"}]
         /\ loggedIn' \in [Clients -> BOOLEAN]
         /\ player' \in [Clients -> Characters \cup {None}]
         /\ \A d \in Clients : /\ player'[d] = None <=> at'[d] \in {"idle", "admitted"}
                               /\ player'[d] # None => role'[d] = "channel"
<1>1. /\ at' = [at EXCEPT ![c] = "idle"] /\ player' = [player EXCEPT ![c] = None]
      /\ role' = [role EXCEPT ![c] = "none"]
  BY DEF Gone
<1>2. ASSUME NEW d \in Clients
      PROVE  /\ player'[d] = None <=> at'[d] \in {"idle", "admitted"}
             /\ player'[d] # None => role'[d] = "channel"
  <2>1. CASE d = c
    <3>1. player'[c] = None /\ at'[c] = "idle"
      BY <1>1 DEF TypeOK
    <3> QED BY <2>1, <3>1
  <2>2. CASE d # c
    <3>1. player'[d] = player[d] /\ at'[d] = at[d] /\ role'[d] = role[d]
      BY <1>1, <2>2 DEF TypeOK
    <3> QED BY <3>1 DEF TypeOK
  <2> QED BY <2>1, <2>2
<1>3. /\ role' \in [Clients -> {"none", "login", "channel"}]
      /\ loggedIn' \in [Clients -> BOOLEAN]
  BY DEF Gone, TypeOK
<1>4. /\ at' \in [Clients -> {"idle", "playing", "admitted", "loaded", "entering",
                             "closed", "kicked"}]
      /\ player' \in [Clients -> Characters \cup {None}]
  BY <1>1 DEF TypeOK
<1> QED BY <1>2, <1>3, <1>4

(* Reading the login state, scheduling the disconnect timer and losing the  *)
(* connection keep the types.                                               *)
LEMMA HangupTypeOK ==
  ASSUME TypeOK, NEW c \in Clients, Hangup(c), accId' \in [Clients -> BOOLEAN],
         loginAuth' = loginAuth
  PROVE  TypeOK'
<1>1. /\ Gone(c) /\ UNCHANGED <<templogin, tempID, storage>>
      /\ loggedin' \in {NOTLOGGEDIN, SERVER_TRANSITION, LOGGEDIN, POST_LOGGIN}
      /\ timers' = timers \/ timers' = [timers EXCEPT ![c] = @ \cup {"closed"}]
  BY DEF Hangup, LoginStates, Scheduled, TypeOK
<1>2. timers[c] \cup {"closed"} \in SUBSET Kinds
  BY DEF TypeOK, Kinds
<1>3. timers' \in [Clients -> SUBSET Kinds]
  BY <1>1, <1>2, TimersType DEF TypeOK, Kinds
<1> QED BY <1>1, <1>3, GoneType DEF TypeOK, Kinds

(* A timer of CharLoginHandler that frees the account keeps the types.      *)
LEMMA FreeAndCloseTypeOK ==
  ASSUME TypeOK, NEW c \in Clients, NEW why \in {"login", "select"}, FreeAndClose(c, why),
         UNCHANGED <<tempID, loginAuth, storage>>
  PROVE  TypeOK'
<1>1. CASE role[c] = "none"
  BY <1>1 DEF TypeOK, FreeAndClose, FreeAccount, client
<1>2. CASE role[c] # "none"
  <2>1. Gone(c) /\ UNCHANGED accId /\ FreeAccount
    BY <1>2 DEF FreeAndClose
  <2>2. timers' = [timers EXCEPT ![c] = (timers[c] \ {why}) \cup {"closed"}]
    BY <1>2 DEF FreeAndClose
  <2>3. (timers[c] \ {why}) \cup {"closed"} \in SUBSET Kinds
    BY DEF TypeOK, Kinds
  <2>4. timers' \in [Clients -> SUBSET Kinds]
    BY <2>2, <2>3, TimersType
  <2> QED BY <2>1, <2>4, GoneType DEF TypeOK, FreeAccount, Kinds
<1> QED BY <1>1, <1>2

(* So does a timer that comes to nothing.                                   *)
LEMMA IgnoredTypeOK ==
  ASSUME TypeOK, NEW c \in Clients, NEW why, Ignored(c, why),
         loggedin' \in LoginStates \cup {NOTLOGGEDIN}, UNCHANGED <<tempID, loginAuth, storage>>
  PROVE  TypeOK'
BY DEF TypeOK, Ignored, client, LoginStates

LEMMA TypeStep == TypeOK /\ [Next]_vars => TypeOK'
<1> SUFFICES ASSUME TypeOK, [Next]_vars PROVE TypeOK'
  OBVIOUS
<1>1. CASE UNCHANGED vars
  BY <1>1 DEF TypeOK, vars, account, client
<1>2. CASE Restart
  BY <1>2 DEF TypeOK, Restart
<1>3. ASSUME NEW c \in Clients, Close(c) PROVE TypeOK'
  <2>1. CASE accId[c]
    BY <1>3, <2>1, HangupTypeOK DEF Close, TypeOK
  <2>2. CASE ~accId[c]
    BY <1>3, <2>2, GoneType DEF Close, TypeOK, account
  <2> QED BY <2>1, <2>2
<1>4. ASSUME NEW c \in Clients, UnloadThrows(c) PROVE TypeOK'
  BY <1>4, GoneType DEF TypeOK, UnloadThrows, account
<1>5. ASSUME NEW c \in Clients, Login(c) PROVE TypeOK'
  <2>1. /\ loggedin' \in {NOTLOGGEDIN, SERVER_TRANSITION, LOGGEDIN, POST_LOGGIN}
        /\ UNCHANGED <<templogin, tempID, loginAuth, storage, role, player, timers>>
        /\ at[c] \in Resting
        /\ at' = at \/ (at' = [at EXCEPT ![c] = "admitted"] /\ role[c] = "login")
    BY <1>5 DEF Login, LoginStates, TypeOK, Turn
  <2>2. accId' \in [Clients -> BOOLEAN] /\ loggedIn' \in [Clients -> BOOLEAN]
    BY <1>5 DEF Login, Forget, TypeOK
  <2> QED BY <2>1, <2>2 DEF TypeOK, Resting
<1>6. ASSUME NEW c \in Clients, NEW why \in {"closed", "kicked"}, SaveToDB(c, why)
      PROVE TypeOK'
  BY <1>6 DEF TypeOK, SaveToDB
<1>7. ASSUME NEW c \in Clients, NEW server \in {"login", "channel"}, Connect(c, server)
      PROVE TypeOK'
  BY <1>7 DEF TypeOK, Connect
<1>8. ASSUME NEW c \in Clients, NEW ch \in Characters, Select(c, ch) PROVE TypeOK'
  BY <1>8 DEF TypeOK, Select
<1>9. ASSUME NEW c \in Clients, NEW ch \in Characters, Load(c, ch) PROVE TypeOK'
  BY <1>9 DEF TypeOK, Load
<1>10. ASSUME NEW c \in Clients, NEW ch \in Characters, LoadRefused(c, ch) PROVE TypeOK'
  BY <1>10, HangupTypeOK DEF TypeOK, LoadRefused
<1>11. ASSUME NEW c \in Clients, RemovePlayer(c) PROVE TypeOK'
  <2>1. /\ at[c] \in {"closed", "kicked"}
        /\ loggedin' \in {NOTLOGGEDIN, SERVER_TRANSITION, LOGGEDIN, POST_LOGGIN}
        /\ storage' = [storage EXCEPT ![player[c]] = None]
        /\ timers' = timers \/ timers' = [timers EXCEPT ![c] = @ \cup {at[c]}]
        /\ UNCHANGED <<templogin, tempID, loginAuth, accId>>
    BY <1>11 DEF RemovePlayer, Scheduled, LoginStates, TypeOK
  <2>2. timers[c] \cup {at[c]} \in SUBSET Kinds
    BY <2>1 DEF TypeOK, Kinds
  <2>3. timers' \in [Clients -> SUBSET Kinds]
    BY <2>1, <2>2, TimersType DEF TypeOK, Kinds
  <2>4. storage' \in [Characters -> Clients \cup {None}]
    BY <2>1 DEF TypeOK
  <2>5. CASE Gone(c)
    BY <2>1, <2>3, <2>4, <2>5, GoneType DEF TypeOK, Kinds
  <2>6. CASE /\ at' = [at EXCEPT ![c] = "idle"]
             /\ player' = [player EXCEPT ![c] = None]
             /\ UNCHANGED <<role, loggedIn>>
    BY <2>1, <2>3, <2>4, <2>6 DEF TypeOK, Kinds
  <2> QED BY <1>11, <2>5, <2>6 DEF RemovePlayer
<1>12. ASSUME NEW c \in Clients, FinishLogin(c) PROVE TypeOK'
  BY <1>12 DEF TypeOK, FinishLogin
<1>13. ASSUME NEW c \in Clients, CheckConnected(c) PROVE TypeOK'
  <2>1. CASE Hangup(c) /\ UNCHANGED <<loginAuth, accId>>
    BY <2>1, HangupTypeOK DEF TypeOK
  <2>2. CASE ~(Hangup(c) /\ UNCHANGED <<loginAuth, accId>>)
    BY <1>13, <2>2 DEF TypeOK, CheckConnected, account
  <2> QED BY <2>1, <2>2
<1>14. ASSUME NEW c \in Clients, AddPlayer(c) PROVE TypeOK'
  BY <1>14 DEF TypeOK, AddPlayer
<1>15. ASSUME NEW c \in Clients, LoginTimeout(c) PROVE TypeOK'
  BY <1>15, FreeAndCloseTypeOK, IgnoredTypeOK DEF LoginTimeout, LoginStates, TypeOK
<1>16. ASSUME NEW c \in Clients, SelectTimeout(c) PROVE TypeOK'
  BY <1>16, FreeAndCloseTypeOK, IgnoredTypeOK DEF SelectTimeout, LoginStates, TypeOK
<1>17. ASSUME NEW c \in Clients, NEW why \in {"closed", "kicked"}, DisconnectTimeout(c, why)
       PROVE TypeOK'
  BY <1>17 DEF TypeOK, DisconnectTimeout, FreeAccount, Ignored, client, LoginStates
<1> QED
  BY <1>1, <1>2, <1>3, <1>4, <1>5, <1>6, <1>7, <1>8, <1>9, <1>10, <1>11, <1>12, <1>13, <1>14,
     <1>15, <1>16, <1>17 DEF Next, Ask, Serve, Timeout

(* The variables of Session keep their types, and a client holds a          *)
(* character exactly while one of its handlers or its player needs it.      *)
THEOREM TypeCorrect == Spec => []TypeOK
<1>1. Init => TypeOK
  BY DEF Init, TypeOK
<1> QED BY <1>1, TypeStep, PTL DEF Spec
------------------------------------------------------------------------------
(* Exclusion, when handlers take turns.                                     *)

\* One handler is under way at a time.
OneHandler ==
  \A c, d \in Clients : c # d => at[c] \in Resting \/ at[d] \in Resting

\* What a handler has checked still holds when it acts.
CheckHolds ==
  \A c \in Clients : /\ at[c] \in {"admitted", "entering"} => NobodyPlays
                     /\ at[c] = "entering" => templogin = 1

\* A character that is played or unloaded is in the storage.
InStorage ==
  \A c \in Clients : at[c] \in {"playing", "closed", "kicked"} => storage[player[c]] = c

Exclusion == TypeOK /\ OneHandler /\ CheckHolds /\ InStorage /\ OneCharacter

(* The step of one client, by what it does to the sessions of the others:   *)
(* none of them is in a handler, and they keep their places and characters. *)
Alone(c) == \A d \in Clients \ {c} : /\ at[d] \in Resting
                                     /\ at'[d] = at[d] /\ player'[d] = player[d]

Step(c) == Ask(c) \/ Serve(c) \/ Timeout(c)

LEMMA StepAlone ==
  ASSUME ~Concurrent, TypeOK, OneHandler, NEW c \in Clients, Step(c)
  PROVE  Alone(c)
<1>1. ASSUME at[c] \notin Resting \/ \A d \in Clients : at[d] \in Resting
      PROVE  \A d \in Clients \ {c} : at[d] \in Resting
  BY <1>1 DEF OneHandler
<1>2. ASSUME NEW d \in Clients \ {c}, Gone(c) PROVE at'[d] = at[d] /\ player'[d] = player[d]
  BY <1>2 DEF Gone, TypeOK
<1>3. CASE Ask(c)
  <2>1. \A d \in Clients : at[d] \in Resting
    BY <1>3 DEF Ask, Close, UnloadThrows, Login, SaveToDB, Connect, Select, Load, LoadRefused,
                Turn
  <2>2. CASE Close(c) \/ UnloadThrows(c) \/ \E ch \in Characters : LoadRefused(c, ch)
    BY <1>2, <2>1, <2>2 DEF Close, UnloadThrows, LoadRefused, Hangup, Alone
  <2>3. CASE Login(c) \/ (\E why \in {"closed", "kicked"} : SaveToDB(c, why))
             \/ (\E server \in {"login", "channel"} : Connect(c, server))
             \/ (\E ch \in Characters : Select(c, ch) \/ Load(c, ch))
    BY <2>1, <2>3 DEF Login, Forget, SaveToDB, Connect, Select, Load, Alone, TypeOK
  <2> QED BY <1>3, <2>2, <2>3 DEF Ask
<1>4. CASE Serve(c)
  <2>1. at[c] \notin Resting
    BY <1>4 DEF Serve, RemovePlayer, FinishLogin, CheckConnected, AddPlayer, Resting
  <2>2. ASSUME NEW d \in Clients \ {c} PROVE at'[d] = at[d] /\ player'[d] = player[d]
    <3>1. CASE RemovePlayer(c)
      BY <1>2, <3>1 DEF RemovePlayer, TypeOK
    <3>2. CASE CheckConnected(c)
      BY <1>2, <3>2 DEF CheckConnected, Hangup, TypeOK
    <3>3. CASE FinishLogin(c) \/ AddPlayer(c)
      BY <3>3 DEF FinishLogin, AddPlayer, TypeOK
    <3> QED BY <1>4, <3>1, <3>2, <3>3 DEF Serve
  <2> QED BY <1>1, <2>1, <2>2 DEF Alone
<1>5. CASE Timeout(c)
  <2>1. \A d \in Clients : at[d] \in Resting
    BY <1>5 DEF Timeout, LoginTimeout, SelectTimeout, DisconnectTimeout, Fired
  <2>2. Gone(c) \/ UNCHANGED client
    BY <1>5 DEF Timeout, LoginTimeout, SelectTimeout, DisconnectTimeout, FreeAndClose, Ignored
  <2> QED BY <1>2, <2>1, <2>2 DEF Alone, client
<1> QED BY <1>3, <1>4, <1>5 DEF Step

(* Only AddPlayer and RemovePlayer change the storage.                      *)
LEMMA StorageChanges ==
  ASSUME NEW c \in Clients, Step(c)
  PROVE  UNCHANGED storage \/ AddPlayer(c) \/ RemovePlayer(c)
<1>1. CASE Ask(c)
  BY <1>1 DEF Ask, Close, UnloadThrows, Login, SaveToDB, Connect, Select, Load, LoadRefused,
              Hangup, account
<1>2. CASE Serve(c)
  BY <1>2 DEF Serve, FinishLogin, CheckConnected, Hangup, account
<1>3. CASE Timeout(c)
  BY <1>3 DEF Timeout, LoginTimeout, SelectTimeout, DisconnectTimeout
<1> QED BY <1>1, <1>2, <1>3 DEF Step

(* A client comes to one of these places only from where its handler was,   *)
(* and with what that handler has checked.                                  *)
LEMMA Places ==
  ASSUME TypeOK, NEW c \in Clients, Step(c)
  PROVE  /\ at'[c] = "admitted" =>
              NobodyPlays /\ UNCHANGED storage
         /\ at'[c] = "entering" =>
              NobodyPlays /\ UNCHANGED storage /\ templogin' = 1
         /\ at'[c] \in {"playing", "closed", "kicked"} =>
              \/ AddPlayer(c)
              \/ at[c] = "playing" /\ player'[c] = player[c] /\ UNCHANGED storage
<1>1. CASE Gone(c)
  BY <1>1 DEF Gone, TypeOK
<1>2. CASE Ask(c) /\ ~Gone(c)
  <2>1. CASE Login(c)
    BY <2>1 DEF Login, Forget, Refused, TypeOK, Turn, Resting
  <2>2. ASSUME NEW why \in {"closed", "kicked"}, SaveToDB(c, why)
        PROVE at'[c] = why /\ at[c] = "playing" /\ UNCHANGED <<player, storage>>
    BY <2>2 DEF SaveToDB, TypeOK
  <2>3. ASSUME NEW server \in {"login", "channel"}, Connect(c, server)
        PROVE UNCHANGED <<at, player, storage>> /\ at[c] \in Resting
    BY <2>3 DEF Connect, Turn
  <2>4. ASSUME NEW ch \in Characters, Select(c, ch)
        PROVE UNCHANGED <<at, player, storage>> /\ at[c] \in Resting
    BY <2>4 DEF Select, Turn
  <2>5. ASSUME NEW ch \in Characters, Load(c, ch) PROVE at'[c] = "loaded"
    BY <2>5 DEF Load, TypeOK
  <2>6. ~Close(c) /\ ~UnloadThrows(c) /\ \A ch \in Characters : ~LoadRefused(c, ch)
    BY <1>2 DEF Close, UnloadThrows, LoadRefused, Hangup
  <2> QED BY <1>2, <2>1, <2>2, <2>3, <2>4, <2>5, <2>6 DEF Ask, Resting
<1>3. CASE Serve(c) /\ ~Gone(c)
  <2>1. CASE RemovePlayer(c) \/ FinishLogin(c)
    BY <1>3, <2>1 DEF RemovePlayer, FinishLogin, TypeOK
  <2>2. CASE CheckConnected(c)
    BY <1>3, <2>2 DEF CheckConnected, Hangup, account, TypeOK
  <2>3. CASE AddPlayer(c)
    BY <2>3 DEF AddPlayer, TypeOK
  <2> QED BY <1>3, <2>1, <2>2, <2>3 DEF Serve
<1>4. CASE Timeout(c) /\ ~Gone(c)
  BY <1>4 DEF Timeout, LoginTimeout, SelectTimeout, DisconnectTimeout, Fired, FreeAndClose,
              Ignored, client
<1> QED BY <1>1, <1>2, <1>3, <1>4 DEF Step

LEMMA ExclusionStep ==
  ASSUME ~Concurrent, Exclusion, [Next]_vars
  PROVE  Exclusion'
<1>1. TypeOK'
  BY TypeStep DEF Exclusion
<1>2. CASE UNCHANGED vars
  BY <1>1, <1>2 DEF Exclusion, OneHandler, CheckHolds, InStorage, OneCharacter, NobodyPlays,
                    vars, account, client
<1>3. CASE Restart
  BY <1>1, <1>3 DEF Exclusion, OneHandler, CheckHolds, InStorage, OneCharacter, Restart, Resting
<1>4. ASSUME NEW c \in Clients, Step(c) PROVE Exclusion'
  <2>1. Alone(c)
    BY <1>4, StepAlone DEF Exclusion
  <2>2. OneHandler'
    BY <2>1 DEF Alone, OneHandler
  <2>3. AddPlayer(c) => /\ NobodyPlays /\ storage' = [storage EXCEPT ![player[c]] = c]
                       /\ player[c] \in Characters /\ at'[c] = "playing"
                       /\ player'[c] = player[c]
    BY DEF AddPlayer, Exclusion, CheckHolds, TypeOK
  <2>4. RemovePlayer(c) => /\ storage' = [storage EXCEPT ![player[c]] = None]
                          /\ player[c] \in Characters /\ storage[player[c]] = c
                          /\ at'[c] = "idle"
    BY DEF RemovePlayer, Gone, Exclusion, InStorage, TypeOK
  <2>5. CheckHolds'
    <3>1. ASSUME NEW d \in Clients, at'[d] \in {"admitted", "entering"} PROVE d = c
      BY <2>1, <3>1 DEF Alone, Resting
    <3> QED BY <1>4, <3>1, Places DEF CheckHolds, Exclusion, NobodyPlays
  <2>6. InStorage'
    <3> SUFFICES ASSUME NEW d \in Clients, at'[d] \in {"playing", "closed", "kicked"}
                 PROVE  storage'[player'[d]] = d
      BY DEF InStorage
    <3>1. CASE d = c
      <4>1. CASE AddPlayer(c)
        BY <2>3, <3>1, <4>1 DEF Exclusion, TypeOK
      <4>2. CASE ~AddPlayer(c)
        BY <1>4, <3>1, <4>2, Places DEF Exclusion, InStorage
      <4> QED BY <4>1, <4>2
    <3>2. CASE d # c
      <4>1. /\ at[d] = "playing" /\ player'[d] = player[d] /\ storage[player[d]] = d
            /\ player[d] \in Characters
        BY <2>1, <3>2 DEF Alone, Resting, Exclusion, InStorage, TypeOK
      <4>2. ~AddPlayer(c)
        BY <2>3, <4>1 DEF NobodyPlays
      <4>3. RemovePlayer(c) => storage'[player[d]] = storage[player[d]]
        BY <2>4, <3>2, <4>1 DEF Exclusion, TypeOK
      <4> QED BY <1>4, <4>1, <4>2, <4>3, StorageChanges
    <3> QED BY <3>1, <3>2
  <2>7. OneCharacter'
    <3>1. CASE AddPlayer(c)
      BY <2>3, <3>1 DEF OneCharacter, NobodyPlays, Exclusion, TypeOK
    <3>2. CASE RemovePlayer(c)
      BY <2>4, <3>2 DEF OneCharacter, Exclusion, TypeOK
    <3>3. CASE UNCHANGED storage
      BY <3>3 DEF OneCharacter, Exclusion
    <3> QED BY <1>4, <3>1, <3>2, <3>3, StorageChanges
  <2> QED BY <1>1, <2>2, <2>5, <2>6, <2>7 DEF Exclusion
<1> QED BY <1>2, <1>3, <1>4 DEF Next, Step

LEMMA ExclusionInit == Init => Exclusion
BY DEF Init, TypeOK, Exclusion, OneHandler, CheckHolds, InStorage, OneCharacter, Resting

(* When handlers and timers take turns, no two characters of an account are *)
(* ever in the game together, with or without a second password.            *)
THEOREM OneCharacterCorrect ==
  ASSUME ~Concurrent
  PROVE  Spec => []OneCharacter
<1>1. Exclusion => OneCharacter
  BY DEF Exclusion
<1>2. Exclusion /\ [Next]_vars => Exclusion'
  BY ExclusionStep
<1> QED BY <1>1, <1>2, ExclusionInit, PTL DEF Spec
------------------------------------------------------------------------------
(* The mark on an account whose character is played.                        *)

Marked == loggedin = POST_LOGGIN /\ templogin = 1

LEMMA MarkedStep ==
  ASSUME ~Concurrent, HasPic, Exclusion, PlayingIsMarked, [Next]_vars
  PROVE  PlayingIsMarked'
<1>1. CASE UNCHANGED vars
  BY <1>1 DEF PlayingIsMarked, vars, account, client
<1>2. CASE Restart
  BY <1>2 DEF PlayingIsMarked, Restart
<1>3. ASSUME NEW c \in Clients, Step(c), NEW d \in Clients, at'[d] = "playing" PROVE Marked'
  <2>1. CASE AddPlayer(c)
    BY <2>1 DEF AddPlayer, Marked, Exclusion, CheckHolds, TypeOK
  <2>2. CASE ~AddPlayer(c)
    <3>1. at[d] = "playing"
      <4>1. CASE d = c
        BY <1>3, <2>2, <4>1, Places DEF Exclusion
      <4>2. CASE d # c
        BY <1>3, <4>2, StepAlone DEF Alone, Exclusion
      <4> QED BY <4>1, <4>2
    <3>2. Marked /\ ~NobodyPlays
      BY <3>1 DEF PlayingIsMarked, Marked, Exclusion, InStorage, NobodyPlays, TypeOK
    <3>3. LoginStates = {POST_LOGGIN}
      BY <3>2 DEF LoginStates, Marked
    <3>4. CASE Ask(c)
      BY <3>2, <3>3, <3>4 DEF Ask, Close, UnloadThrows, Login, SaveToDB, Connect, Select, Load,
                              LoadRefused, Hangup, CanLogin, Marked, account
    <3>5. CASE Serve(c)
      BY <2>2, <3>2, <3>3, <3>5 DEF Serve, RemovePlayer, FinishLogin, CheckConnected, Hangup,
                                    Exclusion, CheckHolds, Marked, account
    <3>6. CASE Timeout(c)
      BY <3>2, <3>3, <3>6 DEF Timeout, LoginTimeout, SelectTimeout, DisconnectTimeout, Ignored,
                              Abandoned, Marked
    <3> QED BY <1>3, <3>4, <3>5, <3>6 DEF Step
  <2> QED BY <2>1, <2>2
<1> QED BY <1>1, <1>2, <1>3 DEF Next, Step, PlayingIsMarked, Marked

(* With a second password, and when handlers and timers take turns, the     *)
(* account of a client that plays is marked and locked, whatever timers its *)
(* earlier connections have left.                                           *)
THEOREM PlayingIsMarkedCorrect ==
  ASSUME ~Concurrent, HasPic
  PROVE  Spec => []PlayingIsMarked
<1>1. Init => PlayingIsMarked
  BY DEF Init, PlayingIsMarked
<1>2. Exclusion /\ [Next]_vars => Exclusion'
  BY ExclusionStep
<1>3. Exclusion /\ PlayingIsMarked /\ [Next]_vars => PlayingIsMarked'
  BY MarkedStep
<1> QED BY <1>1, <1>2, <1>3, ExclusionInit, PTL DEF Spec
=============================================================================
