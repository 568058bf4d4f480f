------------------------------- MODULE Session -------------------------------
(***************************************************************************)
(* The sessions of one account: login server, channel server, and the two  *)
(* columns of its row in `accounts', loggedin and templogin, which are all *)
(* that keeps two sessions apart (MapleClient, CharLoginHandler,           *)
(* InterServerHandler.Loggedin, PlayerStorage).                            *)
(*                                                                         *)
(* A connection logs in, selects a character, which leaves a ticket in     *)
(* LoginServer.loginAuth, and a second connection, to a channel, redeems   *)
(* it.  Timers that were set by connections long gone act on the account.  *)
(* With Concurrent FALSE a handler runs to its end before anything else.   *)
(*                                                                         *)
(* Time is abstract: a timer fires, and a transition expires, at any time. *)
(* All connections come from one address, so the checks of addresses pass. *)
(* Definitions marked (slip) are mutations; no action uses them.           *)
(***************************************************************************)
EXTENDS Naturals, FiniteSets

CONSTANTS Clients,     \* connections
          Characters,  \* the characters of the account
          HasPic,      \* has the account a second password?
          Concurrent,  \* may handlers and timers interleave?
          None         \* null

ASSUME SessionAssumption ==
  /\ HasPic \in BOOLEAN /\ Concurrent \in BOOLEAN
  /\ None \notin Clients \cup Characters

VARIABLES loggedin,   \* accounts.loggedin
          templogin,  \* accounts.templogin, the account's lock
          tempID,     \* the client that was given the account's current tempID
          loginAuth,  \* characters that have a ticket
          storage,    \* PlayerStorage: the client that plays each character
          role,       \* the server each connection is to
          at,         \* where the handler of each client is
          accId,      \* does the client know its account?
          loggedIn,   \* MapleClient.loggedIn
          player,     \* the character a client has loaded
          timers      \* tasks that are scheduled for each client

account == <<loggedin, templogin, tempID, loginAuth, storage>>
client == <<role, at, accId, loggedIn, player>>
vars == <<account, client, timers>>

NOTLOGGEDIN == 0
SERVER_TRANSITION == 1
LOGGEDIN == 2
POST_LOGGIN == 4

\* No handler of this client is under way.
Resting == {"idle", "playing"}

\* It is c's turn: its last handler has ended, and so have the others, unless Concurrent.
Turn(c) == /\ at[c] \in Resting
           /\ Concurrent \/ \A d \in Clients : at[d] \in Resting

\* scanChar, isCharacterListConnected: no character of the account is in the game.
NobodyPlays == \A ch \in Characters : storage[ch] = None

(* What getLoginState may return.  A transition that is 20 seconds old      *)
(* counts as not logged in, and is written back as such.                    *)
LoginStates == IF loggedin = SERVER_TRANSITION THEN {SERVER_TRANSITION, NOTLOGGEDIN}
               ELSE {loggedin}

\* clearInformation: the client no longer knows its account.
Forget(c) == /\ accId' = [accId EXCEPT ![c] = FALSE]
             /\ loggedIn' = [loggedIn EXCEPT ![c] = FALSE]
------------------------------------------------------------------------------
(* Leaving. *)

\* disconnect, once the character is unloaded: in 5 seconds the account is looked at again.
Scheduled(c, why, state) ==
  timers' = IF state # SERVER_TRANSITION THEN [timers EXCEPT ![c] = @ \cup {why}] ELSE timers

\* (slip) a session that ends keeps its character.
GoneWithPlayer(c) == /\ role' = [role EXCEPT ![c] = "none"]
                     /\ at' = [at EXCEPT ![c] = "idle"]
                     /\ loggedIn' = [loggedIn EXCEPT ![c] = FALSE]
                     /\ UNCHANGED player

\* The connection is gone.  Its timers keep the client, and its accId, alive.
Gone(c) == /\ role' = [role EXCEPT ![c] = "none"]
           /\ at' = [at EXCEPT ![c] = "idle"]
           /\ loggedIn' = [loggedIn EXCEPT ![c] = FALSE]
           /\ player' = [player EXCEPT ![c] = None]

\* disconnect of a client that knows its account and has no character.
Hangup(c) ==
  \E state \in LoginStates :
    /\ loggedin' = state /\ Scheduled(c, "closed", state) /\ Gone(c)
    /\ UNCHANGED <<templogin, tempID, storage>>

\* A connection without a character closes.
Close(c) == /\ role[c] # "none" /\ Turn(c) /\ at[c] = "idle"
            /\ IF accId[c] THEN Hangup(c) ELSE Gone(c) /\ UNCHANGED <<account, timers>>
            /\ UNCHANGED <<loginAuth, accId>>

\* disconnect of a client that plays, because its session is closed or it is
\* kicked: unloadChar saves the character.
SaveToDB(c, why) ==
  /\ Turn(c) /\ at[c] = "playing"
  /\ at' = [at EXCEPT ![c] = why]
  /\ loginAuth' = loginAuth \ {player[c]}
  /\ UNCHANGED <<loggedin, templogin, tempID, storage, role, accId, loggedIn, player, timers>>

\* unloadChar takes the character out of the storage; a connection that was
\* kicked stays open until it closes.
RemovePlayer(c) ==
  \E state \in LoginStates :
    /\ at[c] \in {"closed", "kicked"}
    /\ loggedin' = state /\ Scheduled(c, at[c], state)
    /\ storage' = [storage EXCEPT ![player[c]] = None]
    /\ IF at[c] = "closed" THEN Gone(c)
       ELSE /\ at' = [at EXCEPT ![c] = "idle"]
            /\ player' = [player EXCEPT ![c] = None]
            /\ UNCHANGED <<role, loggedIn>>
    /\ UNCHANGED <<templogin, tempID, loginAuth, accId>>

\* unloadChar throws before it saves (see Party): the session closes, no timer
\* is set, and the character stays in the game.
UnloadThrows(c) == /\ Turn(c) /\ at[c] = "playing" /\ Gone(c)
                   /\ UNCHANGED <<account, accId, timers>>
------------------------------------------------------------------------------
(* Logging in. *)

\* A new MapleClient, which takes the place of one that nothing refers to.
Connect(c, server) ==
  /\ role[c] = "none" /\ timers[c] = {} /\ Turn(c)
  /\ role' = [role EXCEPT ![c] = server]
  /\ accId' = [accId EXCEPT ![c] = FALSE]
  /\ tempID' = IF tempID = c THEN None ELSE tempID
  /\ UNCHANGED <<loggedin, templogin, loginAuth, storage, at, loggedIn, player, timers>>

\* A right password is refused when a character is in the game, or by the login state.
Refused(state) == ~NobodyPlays \/ state # NOTLOGGEDIN

\* If nobody plays or holds the lock, a login that is refused resets the state,
\* so that the next one succeeds.
Login(c) ==
  \E state \in LoginStates :
    /\ role[c] = "login" /\ Turn(c)
    /\ loggedin' = IF NobodyPlays /\ templogin = 0 THEN NOTLOGGEDIN ELSE state
    /\ IF Refused(state) THEN Forget(c) /\ UNCHANGED at
       ELSE /\ accId' = [accId EXCEPT ![c] = TRUE]
            /\ at' = [at EXCEPT ![c] = "admitted"]
            /\ UNCHANGED loggedIn
    /\ UNCHANGED <<templogin, tempID, loginAuth, storage, role, player, timers>>

\* lockAccount, a new tempID, registerClient, and the timeout of 10 minutes.
FinishLogin(c) ==
  /\ at[c] = "admitted"
  /\ templogin' = 1 /\ tempID' = c /\ loggedin' = LOGGEDIN
  /\ at' = [at EXCEPT ![c] = "idle"]
  /\ loggedIn' = [loggedIn EXCEPT ![c] = TRUE]
  /\ timers' = [timers EXCEPT ![c] = @ \cup {"login"}]
  /\ UNCHANGED <<loginAuth, storage, role, accId, player>>

\* (slip) what an account without a second password is asked.
SaysLoggedIn(c) == loggedIn[c]

CanLogin(c) == accId[c] /\ tempID = c /\ loggedin = LOGGEDIN /\ NobodyPlays

\* Character_WithSecondPassword, and Character_WithoutSecondPassword, which does
\* not call canLogin and sets no timer.
Select(c, ch) ==
  /\ role[c] = "login" /\ Turn(c)
  /\ IF HasPic THEN CanLogin(c) ELSE loggedIn[c]
  /\ loginAuth' = loginAuth \cup {ch}
  /\ loggedin' = SERVER_TRANSITION
  /\ loggedIn' = [loggedIn EXCEPT ![c] = FALSE]
  /\ timers' = IF HasPic THEN [timers EXCEPT ![c] = @ \cup {"select"}] ELSE timers
  /\ UNCHANGED <<templogin, tempID, storage, role, at, accId, player>>

\* Loggedin: take the ticket and load the character.
Load(c, ch) ==
  /\ role[c] = "channel" /\ Turn(c) /\ ~accId[c] /\ ch \in loginAuth
  /\ loginAuth' = loginAuth \ {ch}
  /\ accId' = [accId EXCEPT ![c] = TRUE]
  /\ player' = [player EXCEPT ![c] = ch]
  /\ at' = [at EXCEPT ![c] = "loaded"]
  /\ UNCHANGED <<loggedin, templogin, tempID, storage, role, loggedIn, timers>>

\* Loggedin without a ticket: the character is loaded, and with it the account
\* is known, before the connection is refused.
LoadRefused(c, ch) ==
  /\ role[c] = "channel" /\ Turn(c) /\ ~accId[c] /\ ch \notin loginAuth
  /\ accId' = [accId EXCEPT ![c] = TRUE]
  /\ Hangup(c) /\ UNCHANGED loginAuth

\* (slip) whoever has a ticket may play.
EnterUnchecked(c) ==
  /\ at[c] = "loaded"
  /\ at' = [at EXCEPT ![c] = "entering"]
  /\ UNCHANGED <<account, role, accId, loggedIn, player, timers>>

\* Loggedin: nobody else plays.  Without the lock the connection is left as it is.
CheckConnected(c) ==
  /\ at[c] = "loaded"
  /\ \/ /\ templogin = 1 /\ NobodyPlays
        /\ at' = [at EXCEPT ![c] = "entering"]
        /\ UNCHANGED <<account, role, accId, loggedIn, player, timers>>
     \/ templogin = 1 /\ ~NobodyPlays /\ Hangup(c) /\ UNCHANGED <<loginAuth, accId>>
     \/ /\ templogin = 0
        /\ at' = [at EXCEPT ![c] = "idle"]
        /\ player' = [player EXCEPT ![c] = None]
        /\ UNCHANGED <<account, role, accId, loggedIn, timers>>

\* Loggedin: the character is in the game.
AddPlayer(c) ==
  /\ at[c] = "entering"
  /\ storage' = [storage EXCEPT ![player[c]] = c]
  /\ loggedin' = POST_LOGGIN
  /\ loggedIn' = [loggedIn EXCEPT ![c] = TRUE]
  /\ at' = [at EXCEPT ![c] = "playing"]
  /\ UNCHANGED <<templogin, tempID, loginAuth, role, accId, player, timers>>
------------------------------------------------------------------------------
(* Timers.  They act on the account that their client knows when they fire, *)
(* which another client may be using by then.                               *)

Fired(c, why) == /\ why \in timers[c] /\ at[c] = "idle"
                 /\ Concurrent \/ \A d \in Clients : at[d] \in Resting

\* The task ends without effect.
Ignored(c, why) == timers' = [timers EXCEPT ![c] = @ \ {why}] /\ UNCHANGED <<client, templogin>>

FreeAccount == loggedin' = NOTLOGGEDIN /\ templogin' = 0

\* The tasks of CharLoginHandler free the account and close their session.
FreeAndClose(c, why) ==
  /\ FreeAccount
  /\ IF role[c] = "none" THEN timers' = [timers EXCEPT ![c] = @ \ {why}] /\ UNCHANGED client
     ELSE /\ timers' = [timers EXCEPT ![c] = (@ \ {why}) \cup {"closed"}]
          /\ Gone(c) /\ UNCHANGED accId

\* 10 minutes after a login the account is freed if it is logged in.
LoginTimeout(c) ==
  /\ Fired(c, "login")
  /\ IF accId[c] /\ templogin = 1 /\ loggedin = LOGGEDIN THEN FreeAndClose(c, "login")
     ELSE /\ loggedin' \in IF accId[c] /\ templogin = 1 THEN LoginStates ELSE {loggedin}
          /\ Ignored(c, "login")
  /\ UNCHANGED <<tempID, loginAuth, storage>>

\* 5 seconds after a character was selected the account is freed if it is in transition.
SelectTimeout(c) ==
  /\ Fired(c, "select")
  /\ \/ accId[c] /\ loggedin = SERVER_TRANSITION /\ FreeAndClose(c, "select")
     \/ accId[c] /\ loggedin' \in LoginStates \ {SERVER_TRANSITION} /\ Ignored(c, "select")
     \/ ~accId[c] /\ UNCHANGED loggedin /\ Ignored(c, "select")
  /\ UNCHANGED <<tempID, loginAuth, storage>>

\* (slip) the account of a session that played is not looked at.
Leftover(state) == state \in {SERVER_TRANSITION, LOGGEDIN}

\* No session stands behind this login state any more.
Abandoned(state) == \/ state \in {SERVER_TRANSITION, LOGGEDIN}
                    \/ state = POST_LOGGIN /\ NobodyPlays

\* 5 seconds after a disconnect the account is freed unless a character is in the game.
DisconnectTimeout(c, why) ==
  /\ why \in {"closed", "kicked"} /\ Fired(c, why)
  /\ \E state \in IF accId[c] THEN LoginStates ELSE {loggedin} :
       IF accId[c] /\ templogin = 1 /\ Abandoned(state)
       THEN /\ FreeAccount
            /\ timers' = [timers EXCEPT ![c] = @ \ {why}] /\ UNCHANGED client
       ELSE loggedin' = state /\ Ignored(c, why)
  /\ UNCHANGED <<tempID, loginAuth, storage>>
------------------------------------------------------------------------------
Init ==
  /\ loggedin = NOTLOGGEDIN /\ templogin = 0 /\ tempID = None /\ loginAuth = {}
  /\ storage = [ch \in Characters |-> None]
  /\ role = [c \in Clients |-> "none"]
  /\ at = [c \in Clients |-> "idle"]
  /\ accId = [c \in Clients |-> FALSE]
  /\ loggedIn = [c \in Clients |-> FALSE]
  /\ player = [c \in Clients |-> None]
  /\ timers = [c \in Clients |-> {}]

\* The process dies and starts again; Start resets both columns.
Restart ==
  /\ loggedin' = NOTLOGGEDIN /\ templogin' = 0 /\ tempID' = None /\ loginAuth' = {}
  /\ storage' = [ch \in Characters |-> None]
  /\ role' = [c \in Clients |-> "none"]
  /\ at' = [c \in Clients |-> "idle"]
  /\ accId' = [c \in Clients |-> FALSE]
  /\ loggedIn' = [c \in Clients |-> FALSE]
  /\ player' = [c \in Clients |-> None]
  /\ timers' = [c \in Clients |-> {}]

\* What clients do.
Ask(c) ==
  \/ Close(c) \/ UnloadThrows(c) \/ Login(c)
  \/ \E why \in {"closed", "kicked"} : SaveToDB(c, why)
  \/ \E server \in {"login", "channel"} : Connect(c, server)
  \/ \E ch \in Characters : Select(c, ch) \/ Load(c, ch) \/ LoadRefused(c, ch)

\* What the server does by itself: a handler that has begun goes on, a timer fires.
Serve(c) == RemovePlayer(c) \/ FinishLogin(c) \/ CheckConnected(c) \/ AddPlayer(c)

Timeout(c) == \/ LoginTimeout(c) \/ SelectTimeout(c)
              \/ \E why \in {"closed", "kicked"} : DisconnectTimeout(c, why)

Next == Restart \/ \E c \in Clients : Ask(c) \/ Serve(c) \/ Timeout(c)

Spec == Init /\ [][Next]_vars

(* Handlers go on, and the tasks of TimerManager and PingTimer run. *)
Fairness == \A c \in Clients : WF_vars(Serve(c)) /\ WF_vars(Timeout(c))

FairSpec == Spec /\ Fairness
------------------------------------------------------------------------------
(* Properties. *)

TypeOK ==
  /\ loggedin \in {NOTLOGGEDIN, SERVER_TRANSITION, LOGGEDIN, POST_LOGGIN}
  /\ templogin \in {0, 1}
  /\ tempID \in Clients \cup {None}
  /\ loginAuth \subseteq Characters
  /\ storage \in [Characters -> Clients \cup {None}]
  /\ role \in [Clients -> {"none", "login", "channel"}]
  /\ at \in [Clients -> {"idle", "playing", "admitted", "loaded", "entering", "closed", "kicked"}]
  /\ accId \in [Clients -> BOOLEAN] /\ loggedIn \in [Clients -> BOOLEAN]
  /\ player \in [Clients -> Characters \cup {None}]
  /\ timers \in [Clients -> SUBSET {"login", "select", "closed", "kicked"}]
  /\ \A c \in Clients : /\ player[c] = None <=> at[c] \in {"idle", "admitted"}
                        /\ player[c] # None => role[c] = "channel"

(* One character of an account is in the game at a time, though tickets     *)
(* outlive the login that made them.                                        *)
OneCharacter ==
  \A ch, other \in Characters :
    storage[ch] # None /\ storage[other] # None => ch = other

(* While a client plays, the account says so and stays locked, whatever     *)
(* timers its earlier connections have left behind.                         *)
PlayingIsMarked ==
  \A c \in Clients : at[c] = "playing" => loggedin = POST_LOGGIN /\ templogin = 1

AllGone == \A c \in Clients : role[c] = "none"

(* An account is not left behind logged in and locked: when all connections *)
(* are gone and none of its characters is in the game, a login is possible  *)
(* again, at once or at the second attempt, as long as the client that      *)
(* logged in last has not forgotten the account it logged into.             *)
AccountFreed ==
  AllGone /\ NobodyPlays /\ (loggedin = LOGGEDIN => tempID # None /\ accId[tempID])
    ~> ~AllGone \/ loggedin \in {NOTLOGGEDIN, SERVER_TRANSITION} \/ templogin = 0

(* The comment "already loggedin" in CharLoginHandler.login: an account     *)
(* that refuses every login does so because somebody is logged in, and not  *)
(* for ever after the last connection has closed.                           *)
RefusedForAReason ==
  AllGone /\ NobodyPlays
    ~> ~AllGone \/ loggedin \in {NOTLOGGEDIN, SERVER_TRANSITION} \/ templogin = 0
=============================================================================
