---------------------------- MODULE LobbySession ----------------------------
(***************************************************************************)
(* The session of the application: what LobbyClient (lobby_client.ts)      *)
(* holds of it, the screens LobbyFlow (lobby_flow.ts) moves through, and   *)
(* the battle connection SpellKardApp (app.ts) opens when a match starts.  *)
(*                                                                         *)
(* Operations await the lobby one call at a time, and a push, another      *)
(* answer, a result or a click may come in between.  The state is that of  *)
(* the one program, a record, and a handler maps it to the state it leaves  *)
(* with all that its listeners do.                                         *)
(*                                                                         *)
(* Abstractions.  A session is its number, in the order the lobby issues   *)
(* them.  A call is answered, refused, or refused because its session is   *)
(* over (401 or session_replaced); it may have been answered just before.  *)
(* Creating and joining a room are one operation, as are signing in and    *)
(* registering; the allocation ready() fetches on the way, the queue, the  *)
(* panels and the host's reconfiguration are left out.  The battle client  *)
(* is what connect, whose datagram channel opens, and the result make of   *)
(* it.  The session store works.                                           *)
(***************************************************************************)
EXTENDS Integers, Sequences, SequencesExt

CONSTANTS
  Deployments,  \* the lobby transports to consider
  MaxLogins,    \* bound: sessions the lobby issues
  LastMatch,    \* bound: matches it starts
  MaxCalls      \* bound: calls in flight when an operation or a push begins

\* WsLobbyTransport with its HTTP fallback, or HttpLobbyTransport alone.
ASSUME DeploymentAssumption == Deployments \subseteq {"ws", "http"}
ASSUME BoundAssumption == MaxLogins \in Nat /\ LastMatch \in Nat /\ MaxCalls \in Nat

None  == 0
Ghost == -1   \* a session without a token, as bootstrap makes when there is none
Tokens  == 1 .. MaxLogins
Matches == 1 .. LastMatch

VARIABLES
  deployment,  \* the transport of this deployment
  app,         \* the program's state
  logins,      \* sessions issued so far
  over,        \* sessions the lobby no longer accepts
  started,     \* matches started so far
  playing      \* the last of them is not settled

lobbyVars == <<logins, over, started, playing>>
vars == <<deployment, app, lobbyVars>>

\* A call in flight: the operation's stage, the session it was sent with and the
\* match it is about; "dropped" once the WebSocket it waits on is abandoned.
Plain   == {"auth", "bootstrap", "room", "refresh", "leave"}
OfMatch == {"ready", "ticket", "connect"}
Call == [at : Plain, session : Tokens \cup {None, Ghost}, match : {None}, dropped : BOOLEAN]
          \cup [at : OfMatch, session : Tokens \cup {None, Ghost},
                match : Matches, dropped : BOOLEAN]
\* The operations LOBBY_WS_ROUTES carries; the others take the HTTP fallback.
OverWs(c) == deployment = "ws" /\ c.at \in {"bootstrap", "room", "leave"}

Battle == [state : {"idle", "running", "finished"},
           match : Matches \cup {None}, ticket : Matches \cup {None}]
Idle == [state |-> "idle", match |-> None, ticket |-> None]

App == [session : Tokens \cup {None, Ghost},   \* session.sessionToken
        token   : Tokens \cup {None},          \* the transport's session token
        store   : Tokens \cup {None, Ghost},   \* what sessionStore holds
        room    : BOOLEAN,                     \* room # null
        ticket  : Matches \cup {None},         \* the match of ticket
        screen  : {"login", "lobby", "room", "matching", "battle", "result"},
        match   : Matches \cup {None},         \* match.matchId
        lost    : BOOLEAN,                     \* sessionLost
        calls   : Seq(Call),
        battle  : Battle,                      \* battleClient
        told    : BOOLEAN,                     \* the scene's matchEnded
        opening : SUBSET Matches]              \* matches enterBattlePerformance ran for

\* Mutant: what the store holds is not checked.
FreshUnchecked(stored) ==
  [session |-> stored, token |-> stored, store |-> stored, room |-> FALSE, ticket |-> None,
   screen |-> "login", match |-> None, lost |-> FALSE, calls |-> <<>>,
   battle |-> Idle, told |-> FALSE, opening |-> {}]

\* The program when it starts; restoreSession rejects a session without a token.
Fresh(stored) ==
  LET s == IF stored = Ghost THEN None ELSE stored IN
  [session |-> s, token |-> s, store |-> s, room |-> FALSE, ticket |-> None,
   screen |-> "login", match |-> None, lost |-> FALSE, calls |-> <<>>,
   battle |-> Idle, told |-> FALSE, opening |-> {}]

Init ==
  /\ deployment \in Deployments
  /\ app = Fresh(None)
  /\ logins = 0
  /\ over = {}
  /\ started = 0
  /\ playing = FALSE

-----------------------------------------------------------------------------
(* Pieces of handlers *)

Send(a, at, m) ==
  [a EXCEPT !.calls = Append(@, [at |-> at, session |-> a.session,
                                 match |-> m, dropped |-> FALSE])]

\* Mutant: the transport and the store are left as they are.
SignedOutKeepsToken(a) ==
  [a EXCEPT !.session = None, !.room = FALSE, !.ticket = None,
            !.screen = "login", !.match = None, !.lost = FALSE]

\* Mutant: the match is left as it is.
SignedOutKeepsMatch(a) ==
  [a EXCEPT !.session = None, !.token = None, !.store = None, !.room = FALSE,
            !.ticket = None, !.screen = "login", !.lost = FALSE]

\* setSessionToken('') abandons the connection, if it had a token.
Abandoned(a) ==
  [i \in DOMAIN a.calls |->
     [a.calls[i] EXCEPT !.dropped = @ \/ (a.token # None /\ OverWs(a.calls[i]))]]

\* signOut with logout.
SignedOut(a) ==
  [a EXCEPT !.session = None, !.token = None, !.store = None,
            !.room = FALSE, !.ticket = None,
            !.screen = "login", !.match = None, !.lost = FALSE,
            !.calls = Abandoned(a)]

\* handleSessionLost
SessionLost(a) == IF a.lost THEN a ELSE [SignedOut(a) EXCEPT !.lost = TRUE]

\* BattleClient.connect does nothing while running.
Connected(b, m, ticket) ==
  IF b.state = "running" THEN b ELSE [state |-> "running", match |-> m, ticket |-> ticket]

\* Mutant: a client that has had a match is taken to have joined this one.
EnsureConnectedOnce(a) ==
  IF a.battle.match # None THEN a
  ELSE IF a.ticket # None
    THEN [a EXCEPT !.battle = Connected(@, a.match, a.ticket)]
    ELSE Send(a, "connect", a.match)

\* ensureBattleConnected
EnsureConnected(a) ==
  IF a.battle.match = a.match THEN a
  ELSE IF a.ticket # None
    THEN [a EXCEPT !.battle = Connected(@, a.match, a.ticket)]
    ELSE Send(a, "connect", a.match)

\* notify with onFlowChange: on the battle screen it connects and opens the scene.
Notified(a) ==
  IF a.screen = "battle" /\ a.match # None
    THEN EnsureConnected([a EXCEPT !.opening = @ \cup {a.match}])
    ELSE a

\* setScreen; entering the battle scene resets matchEnded.
Shown(a, screen) ==
  LET entered == screen = "battle" /\ a.screen # "battle" IN
  Notified([a EXCEPT !.screen = screen, !.told = IF entered THEN FALSE ELSE @])

\* The room_state event.
RoomState(a) ==
  LET b == [a EXCEPT !.room = TRUE] IN
  IF b.screen \in {"lobby", "matching"} THEN Shown(b, "room") ELSE Notified(b)

\* backToLobby
BackToLobby(a) == [a EXCEPT !.screen = "lobby", !.match = None]

-----------------------------------------------------------------------------
(* How an operation goes on when its call is answered *)

\* Mutant: the session is read before the call.
BootstrappedOver(a, c) ==
  IF c.session \in Tokens
    THEN [a EXCEPT !.session = c.session, !.token = c.session, !.store = c.session]
    ELSE a

\* bootstrap's answer is merged into the session there is now, or into an empty one.
Bootstrapped(a, c) ==
  IF a.session \in Tokens THEN a
  ELSE [a EXCEPT !.session = Ghost, !.token = None, !.store = Ghost]

\* signInWithAccount and registerAccount after bootstrap, whatever it answered.
SignInEnds(a) ==
  IF a.lost THEN a ELSE [a EXCEPT !.screen = "lobby"]

\* The call c, no longer in a.calls, is answered with ok.
Continue(a, c, ok) ==
  CASE c.at = "auth"      -> Notified(a)
    [] c.at = "bootstrap" -> SignInEnds(IF ok THEN Bootstrapped(a, c) ELSE a)
    [] c.at = "room"      -> IF ok THEN Send(RoomState(a), "refresh", None) ELSE Notified(a)
    [] c.at = "refresh"   -> Shown(IF ok THEN RoomState(a) ELSE a, "room")
    [] c.at = "leave"     -> Shown([a EXCEPT !.room = @ /\ ~ok], "lobby")
    [] c.at = "ready"     -> IF ok THEN Send(a, "ticket", c.match) ELSE Notified(a)
    [] c.at = "ticket"    -> Notified(IF ok THEN [a EXCEPT !.ticket = c.match] ELSE a)
    [] c.at = "connect"   ->
         LET t == IF ok THEN c.match ELSE None
             b == IF ok THEN [a EXCEPT !.ticket = c.match] ELSE a
         IN  [b EXCEPT !.battle = Connected(@, c.match, t)]

\* Sent on a live connection in a session: the lobby may accept it.
MayAccept(c) == c.at # "auth" /\ c.session \in Tokens /\ ~c.dropped
\* Its session is over, or it is a sign-in with a wrong password (401) that was sent
\* while there was a session.
MayReportLoss(c) ==
  /\ c.session # None /\ ~c.dropped
  /\ c.at = "auth" \/ c.session \in over \cup {Ghost}

\* The i-th call is answered.
Answer(i) ==
  LET c == app.calls[i]
      a == [app EXCEPT !.calls = RemoveAt(@, i)]
  IN  /\ \/ MayAccept(c) /\ app' = Continue(a, c, TRUE)
         \/ app' = Continue(a, c, FALSE)
         \/ MayReportLoss(c) /\ app' = Continue(SessionLost(a), c, FALSE)
      /\ UNCHANGED <<deployment, lobbyVars>>

\* auth.login or auth.register is answered with a session: sessionFromPayload.
SignedIn(i) ==
  /\ app.calls[i].at = "auth"
  /\ logins < MaxLogins
  /\ logins' = logins + 1
  /\ LET a == [app EXCEPT !.calls = RemoveAt(@, i), !.session = logins',
                          !.token = logins', !.store = logins']
     IN  app' = Send(Notified(a), "bootstrap", None)
  /\ UNCHANGED <<deployment, over, started, playing>>

-----------------------------------------------------------------------------
(* What the player does *)

InFlight(stages) == \E i \in DOMAIN app.calls : app.calls[i].at \in stages

Begin(screens, next) ==
  /\ app.screen \in screens
  /\ Len(app.calls) < MaxCalls
  /\ app' \in next
  /\ UNCHANGED <<deployment, lobbyVars>>

\* The submit shortcut does not look at the busy lock.
Submit == Begin({"login"}, {Send(app, "auth", None)})

\* The login.back shortcut.
LoginBack == app.session # None /\ Begin({"login"}, {BackToLobby(app)})

\* toggleMode with setAuthMode.
ToggleMode == app.lost /\ Begin({"login"}, {[app EXCEPT !.lost = FALSE]})

LobbyFree == ~InFlight({"room", "refresh"})

SignOut == /\ app.session # None /\ LobbyFree
           /\ Begin({"lobby"}, {SignedOut(app)})

ShowLogin == /\ app.session = None /\ LobbyFree
             /\ Begin({"lobby"}, {[app EXCEPT !.screen = "login", !.lost = FALSE]})

EnterRoom == /\ app.session # None /\ LobbyFree
             /\ Begin({"lobby"}, {Send(app, "room", None)})

\* The leave shortcut does not look at the busy lock either.
LeaveRoom == Begin({"room", "matching"}, {Send(app, "leave", None)})

\* The match ready() knows of: the one that started, or the one the room may name.
KnownMatches ==
  IF app.match # None THEN {app.match}
  ELSE {None} \cup (IF app.room /\ playing THEN {started} ELSE {})

\* ready(); without a match it only shows that it waits.
Ready ==
  /\ ~InFlight({"ready", "ticket", "leave"})
  /\ LET a == [app EXCEPT !.screen = "matching"] IN
     Begin({"room", "matching"},
           {IF m # None THEN Send(a, "ready", m) ELSE a : m \in KnownMatches})

LeaveResult == Begin({"result"}, {BackToLobby(app)})

-----------------------------------------------------------------------------
(* What the lobby and the battle server do *)

\* The lobby ends session t: a sign-in elsewhere, an expiry or a restart.
LobbyEnds(t) ==
  /\ t \in 1 .. logins \ over
  /\ over' = over \cup {t}
  /\ UNCHANGED <<deployment, app, logins, started, playing>>

\* It is reported: session_replaced is pushed, or any other call the screens made in
\* the session is answered 401.
LossReported ==
  /\ over # {}
  /\ app' = SessionLost(app)
  /\ UNCHANGED <<deployment, lobbyVars>>

\* The connection is bound to a session the lobby accepts.
Bound == deployment = "ws" /\ app.token \in Tokens \ over

RoomPush ==
  /\ Bound
  /\ Len(app.calls) < MaxCalls
  /\ app' = RoomState(app)
  /\ UNCHANGED <<deployment, lobbyVars>>

\* match_start
MatchStart ==
  /\ Bound
  /\ ~playing
  /\ started < LastMatch
  /\ Len(app.calls) < MaxCalls
  /\ started' = started + 1
  /\ playing' = TRUE
  /\ app' = Shown([app EXCEPT !.match = started'], "battle")
  /\ UNCHANGED <<deployment, logins, over>>

\* The lobby settles the match; match_result is pushed to a bound connection.
MatchSettled ==
  /\ playing
  /\ playing' = FALSE
  /\ app' = IF Bound THEN Shown(app, "result") ELSE app
  /\ UNCHANGED <<deployment, logins, over, started>>

\* The battle server's result frame, with onResult and applyResult.
BattleResult ==
  /\ app.battle.state = "running"
  /\ app' = Shown([app EXCEPT !.battle.state = "finished"], "result")
  /\ UNCHANGED <<deployment, lobbyVars>>

\* A snapshot names a winner: onMatchEnd, once for each time the scene is entered.
WinnerSnapshot ==
  /\ app.battle.state = "running"
  /\ ~app.told
  /\ app' = Shown([app EXCEPT !.told = TRUE], "result")
  /\ UNCHANGED <<deployment, lobbyVars>>

\* enterBattlePerformance fetches the ticket of a match it ran for.
OpeningTicket(m) ==
  /\ m \in app.opening
  /\ app' = [app EXCEPT !.ticket = m]
  /\ UNCHANGED <<deployment, lobbyVars>>

\* The application is closed and started again.
Restart ==
  /\ app' = Fresh(app.store)
  /\ UNCHANGED <<deployment, lobbyVars>>

AnswerSome == \E i \in DOMAIN app.calls : Answer(i) \/ SignedIn(i)
Player == \/ Submit \/ LoginBack \/ ToggleMode \/ SignOut \/ ShowLogin
          \/ EnterRoom \/ LeaveRoom \/ Ready \/ LeaveResult
Lobby == \/ \E t \in Tokens : LobbyEnds(t)
         \/ LossReported \/ RoomPush \/ MatchStart \/ MatchSettled
Server == \/ BattleResult \/ WinnerSnapshot
          \/ \E m \in Matches : OpeningTicket(m)
Next == AnswerSome \/ Player \/ Lobby \/ Server \/ Restart

Spec == Init /\ [][Next]_vars
=============================================================================
