------------------------ MODULE LobbySession_proofs -------------------------
(***************************************************************************)
(* Proofs about LobbySession.  The type invariant and TokenFollowsSession  *)
(* are inductive by themselves; MatchNeedsSession needs the second, since  *)
(* a match starts on a connection that has a token, and BattleIsJoined     *)
(* rests on what notify establishes on the battle screen.                  *)
(***************************************************************************)
EXTENDS LobbySessionProperties, TLAPS, SequenceTheorems

USE DeploymentAssumption, BoundAssumption DEF None, Ghost

-----------------------------------------------------------------------------
(* Pieces of handlers *)

\* A sent call joins the calls in flight.
LEMMA SendType ==
  ASSUME NEW a \in App, NEW at, NEW m,
         \/ at \in Plain /\ m = None
         \/ at \in OfMatch /\ m \in Matches
  PROVE  Send(a, at, m) \in App
<1> DEFINE c == [at |-> at, session |-> a.session, match |-> m, dropped |-> FALSE]
<1>1. c \in Call
  BY DEF Call, App
<1>2. Append(a.calls, c) \in Seq(Call)
  BY <1>1 DEF App
<1> QED
  BY <1>2 DEF Send, App

LEMMA AbandonedType ==
  ASSUME NEW a \in App
  PROVE  Abandoned(a) \in Seq(Call)
<1>1. a.calls \in Seq(Call)
  BY DEF App
<1>2. ASSUME NEW c \in Call, NEW p \in BOOLEAN
      PROVE  [c EXCEPT !.dropped = c.dropped \/ p] \in Call
  BY DEF Call
<1> DEFINE p(i) == a.token # None /\ OverWs(a.calls[i])
           f(i) == [a.calls[i] EXCEPT !.dropped = @ \/ p(i)]
<1>3. ASSUME NEW i \in 1 .. Len(a.calls)
      PROVE  f(i) \in Call
  <2>1. p(i) \in BOOLEAN
    BY DEF OverWs
  <2>2. a.calls[i] \in Call
    BY <1>1
  <2> HIDE DEF p
  <2> QED
    BY <1>2, <2>1, <2>2
<1>4. Abandoned(a) = [i \in 1 .. Len(a.calls) |-> f(i)]
  BY <1>1 DEF Abandoned
<1> HIDE DEF f
<1> QED
  BY <1>1, <1>3, <1>4

LEMMA SignedOutType ==
  ASSUME NEW a \in App
  PROVE  SignedOut(a) \in App
BY AbandonedType DEF SignedOut, App

LEMMA SessionLostType ==
  ASSUME NEW a \in App
  PROVE  SessionLost(a) \in App
<1> DEFINE out == SignedOut(a)
<1>1. out \in App
  BY SignedOutType
<1>2. SessionLost(a) = IF a.lost THEN a ELSE [out EXCEPT !.lost = TRUE]
  BY DEF SessionLost
<1> HIDE DEF out
<1>3. [out EXCEPT !.lost = TRUE] \in App
  BY <1>1 DEF App
<1> QED
  BY <1>2, <1>3

LEMMA ConnectedType ==
  ASSUME NEW b \in Battle, NEW m \in Matches, NEW t \in Matches \cup {None}
  PROVE  Connected(b, m, t) \in Battle
BY DEF Connected, Battle

LEMMA NotifiedType ==
  ASSUME NEW a \in App
  PROVE  Notified(a) \in App
<1> DEFINE b == [a EXCEPT !.opening = @ \cup {a.match}]
<1>1. CASE ~(a.screen = "battle" /\ a.match # None)
  BY <1>1 DEF Notified
<1>2. CASE a.screen = "battle" /\ a.match # None
  <2>1. b \in App /\ b.match \in Matches /\ b.match = a.match
    BY <1>2 DEF App
  <2> HIDE DEF b
  <2>2. Send(b, "connect", b.match) \in App
    BY <2>1, SendType DEF Plain, OfMatch
  <2>3. Connected(b.battle, b.match, b.ticket) \in Battle
    BY <2>1, ConnectedType DEF App
  <2>4. [b EXCEPT !.battle = Connected(b.battle, b.match, b.ticket)] \in App
    BY <2>1, <2>3 DEF App
  <2>5. EnsureConnected(b) \in App
    BY <2>1, <2>2, <2>4 DEF EnsureConnected
  <2> QED
    BY <1>2, <2>5 DEF Notified, b
<1> QED
  BY <1>1, <1>2

Screens == {"login", "lobby", "room", "matching", "battle", "result"}

LEMMA ShownType ==
  ASSUME NEW a \in App, NEW s \in Screens
  PROVE  Shown(a, s) \in App
<1> DEFINE entered == s = "battle" /\ a.screen # "battle"
           b == [a EXCEPT !.screen = s, !.told = IF entered THEN FALSE ELSE @]
<1>1. b = IF entered THEN [a EXCEPT !.screen = s, !.told = FALSE]
                     ELSE [a EXCEPT !.screen = s]
  BY DEF App
<1>2. /\ [a EXCEPT !.screen = s, !.told = FALSE] \in App
      /\ [a EXCEPT !.screen = s] \in App
  <2>1. [a EXCEPT !.screen = s] \in App
    BY DEF App, Screens
  <2>2. ASSUME NEW b1 \in App PROVE [b1 EXCEPT !.told = FALSE] \in App
    BY DEF App
  <2>3. [a EXCEPT !.screen = s, !.told = FALSE] = [[a EXCEPT !.screen = s] EXCEPT !.told = FALSE]
    BY DEF App
  <2> QED
    BY <2>1, <2>2, <2>3
<1>3. b \in App
  BY <1>1, <1>2
<1> QED
  BY <1>3, NotifiedType DEF Shown

LEMMA RoomStateType ==
  ASSUME NEW a \in App
  PROVE  RoomState(a) \in App
<1>1. [a EXCEPT !.room = TRUE] \in App
  BY DEF App
<1> QED
  BY <1>1, ShownType, NotifiedType DEF RoomState, Screens
-----------------------------------------------------------------------------
(* The type invariant *)

LEMMA RemoveAtType ==
  ASSUME NEW a \in App, NEW i \in DOMAIN a.calls
  PROVE  [a EXCEPT !.calls = RemoveAt(@, i)] \in App
<1>1. a.calls \in Seq(Call) /\ i \in 1 .. Len(a.calls)
  BY DEF App
<1>2. SubSeq(a.calls, 1, i - 1) \in Seq(Call) /\ SubSeq(a.calls, i + 1, Len(a.calls)) \in Seq(Call)
  BY <1>1
<1>3. RemoveAt(a.calls, i) \in Seq(Call)
  BY <1>2 DEF RemoveAt
<1> QED
  BY <1>3 DEF App

\* Whatever a call is answered with, the operation leaves a state of the program.
LEMMA ContinueType ==
  ASSUME NEW a \in App, NEW c \in Call, NEW ok \in BOOLEAN
  PROVE  Continue(a, c, ok) \in App
<1> c.at \in OfMatch => c.match \in Matches
  BY DEF Call, Plain, OfMatch
<1>1. CASE c.at = "auth"
  BY <1>1, NotifiedType DEF Continue
<1>2. CASE c.at = "bootstrap"
  <2>1. Bootstrapped(a, c) \in App
    BY ZenonT(40) DEF Bootstrapped, App
  <2>2. ASSUME NEW b \in App PROVE SignInEnds(b) \in App
    BY DEF SignInEnds, App
  <2>3. Continue(a, c, ok) = SignInEnds(IF ok THEN Bootstrapped(a, c) ELSE a)
    BY <1>2 DEF Continue
  <2> QED
    BY <2>1, <2>2, <2>3
<1>3. CASE c.at = "room"
  <2>1. Continue(a, c, ok) = IF ok THEN Send(RoomState(a), "refresh", None) ELSE Notified(a)
    BY <1>3 DEF Continue
  <2> QED
    BY <2>1, RoomStateType, NotifiedType, SendType DEF Plain, OfMatch
<1>4. CASE c.at = "refresh"
  <2>1. Continue(a, c, ok) = Shown(IF ok THEN RoomState(a) ELSE a, "room")
    BY <1>4 DEF Continue
  <2> QED
    BY <2>1, RoomStateType, ShownType DEF Screens
<1>5. CASE c.at = "leave"
  <2>1. Continue(a, c, ok) = Shown([a EXCEPT !.room = @ /\ ~ok], "lobby")
    BY <1>5 DEF Continue
  <2>2. [a EXCEPT !.room = @ /\ ~ok] \in App
    BY ZenonT(40) DEF App
  <2> QED
    BY <2>1, <2>2, ShownType DEF Screens
<1>6. CASE c.at = "ready"
  <2>1. Continue(a, c, ok) = IF ok THEN Send(a, "ticket", c.match) ELSE Notified(a)
    BY <1>6 DEF Continue
  <2> QED
    BY <1>6, <2>1, NotifiedType, SendType DEF Plain, OfMatch
<1>7. CASE c.at = "ticket"
  <2>1. Continue(a, c, ok) = Notified(IF ok THEN [a EXCEPT !.ticket = c.match] ELSE a)
    BY <1>7 DEF Continue
  <2>2. [a EXCEPT !.ticket = c.match] \in App
    BY <1>7 DEF App, OfMatch
  <2> QED
    BY <2>1, <2>2, NotifiedType
<1>8. CASE c.at = "connect"
  <2> DEFINE t == IF ok THEN c.match ELSE None
             b == IF ok THEN [a EXCEPT !.ticket = c.match] ELSE a
  <2>1. Continue(a, c, ok) = [b EXCEPT !.battle = Connected(b.battle, c.match, t)]
    BY <1>8 DEF Continue
  <2>2. b \in App /\ t \in Matches \cup {None}
    BY <1>8 DEF App, OfMatch
  <2> HIDE DEF t, b
  <2>3. Connected(b.battle, c.match, t) \in Battle
    BY <1>8, <2>2, ConnectedType DEF App, OfMatch
  <2>4. ASSUME NEW battle \in Battle PROVE [b EXCEPT !.battle = battle] \in App
    BY <2>2 DEF App
  <2> QED
    BY <2>1, <2>3, <2>4
<1> QED
  BY <1>1, <1>2, <1>3, <1>4, <1>5, <1>6, <1>7, <1>8 DEF Call, Plain, OfMatch

\* The type invariant holds of every behaviour, whatever the bounds.
THEOREM TypeCorrect == Spec => []TypeOK
<1>1. Init => TypeOK
  <2>1. Fresh(None) \in App
    <3>1. <<>> \in Seq(Call)
      OBVIOUS
    <3> QED
      BY <3>1 DEF Fresh, App, Battle, Idle
  <2> SUFFICES ASSUME Init PROVE TypeOK
    OBVIOUS
  <2>2. app \in App
    BY <2>1 DEF Init
  <2>3. /\ deployment \in Deployments
        /\ logins \in 0 .. MaxLogins
        /\ over \subseteq 1 .. logins
        /\ started \in 0 .. LastMatch
    BY DEF Init
  <2>4. playing \in BOOLEAN
    BY DEF Init
  <2> QED
    BY <2>2, <2>3, <2>4 DEF TypeOK
<1>2. TypeOK /\ [Next]_vars => TypeOK'
  <2> SUFFICES ASSUME TypeOK, [Next]_vars PROVE TypeOK'
    OBVIOUS
  <2> USE DEF TypeOK, Tokens, Matches
  <2>1. ASSUME NEW i \in DOMAIN app.calls, Answer(i) PROVE TypeOK'
    <3> DEFINE c == app.calls[i]
               a == [app EXCEPT !.calls = RemoveAt(@, i)]
    <3>1. c \in Call /\ a \in App
      <4>1. app.calls \in Seq(Call)
        BY DEF App
      <4>2. c \in Call
        BY <4>1
      <4>3. app \in App
        OBVIOUS
      <4>4. a \in App
        <5> HIDE DEF TypeOK
        <5> QED
          BY <4>3, RemoveAtType
      <4> QED
        BY <4>2, <4>4
    <3>2. SessionLost(a) \in App
      BY <3>1, SessionLostType
    <3>3. app' \in App
      <4> HIDE DEF c, a
      <4>1. \/ app' = Continue(a, c, TRUE)
            \/ app' = Continue(a, c, FALSE)
            \/ app' = Continue(SessionLost(a), c, FALSE)
        BY <2>1 DEF Answer, c, a
      <4> QED
        BY <3>1, <3>2, <4>1, ContinueType
    <3> QED
      BY <2>1, <3>3 DEF Answer, lobbyVars
  <2>2. ASSUME NEW i \in DOMAIN app.calls, SignedIn(i) PROVE TypeOK'
    <3> DEFINE r == [app EXCEPT !.calls = RemoveAt(@, i)]
               a == [r EXCEPT !.session = logins', !.token = logins', !.store = logins']
    <3>1. r \in App
      BY RemoveAtType
    <3>2. logins' \in Tokens /\ logins' = logins + 1
      BY <2>2 DEF SignedIn
    <3>3. a \in App
      <4> HIDE DEF r
      <4> QED
        BY <3>1, <3>2, ZenonT(40) DEF App
    <3>4. app' = Send(Notified(a), "bootstrap", None)
      BY <2>2 DEF SignedIn, App
    <3>5. app' \in App
      <4> HIDE DEF a
      <4> QED
        BY <3>3, <3>4, NotifiedType, SendType DEF Plain
    <3> QED
      BY <2>2, <3>2, <3>5 DEF SignedIn
  <2>3. ASSUME NEW S, NEW N, Begin(S, N), N \subseteq App PROVE TypeOK'
    BY <2>3 DEF Begin, lobbyVars
  <2>4. CASE Player
    <3>1. CASE Submit
      BY <2>3, <3>1, SendType DEF Submit, Plain
    <3>2. CASE LoginBack
      <4>1. BackToLobby(app) \in App
        BY DEF BackToLobby, App
      <4> QED
        BY <2>3, <3>2, <4>1 DEF LoginBack
    <3>3. CASE ToggleMode
      <4>1. [app EXCEPT !.lost = FALSE] \in App
        BY DEF App
      <4> QED
        <5>1. Begin({"login"}, {[app EXCEPT !.lost = FALSE]})
          BY <3>3 DEF ToggleMode
        <5>2. {[app EXCEPT !.lost = FALSE]} \subseteq App
          BY <4>1
        <5> QED
          BY <2>3, <5>1, <5>2, ZenonT(40)
    <3>4. CASE SignOut
      BY <2>3, <3>4, SignedOutType DEF SignOut
    <3>5. CASE ShowLogin
      <4>1. [app EXCEPT !.screen = "login", !.lost = FALSE] \in App
        BY DEF App
      <4> QED
        BY <2>3, <3>5, <4>1 DEF ShowLogin
    <3>6. CASE EnterRoom
      BY <2>3, <3>6, SendType DEF EnterRoom, Plain
    <3>7. CASE LeaveRoom
      BY <2>3, <3>7, SendType DEF LeaveRoom, Plain
    <3>8. CASE Ready
      <4> DEFINE a == [app EXCEPT !.screen = "matching"]
                 N == {IF m # None THEN Send(a, "ready", m) ELSE a : m \in KnownMatches}
      <4>1. a \in App
        BY DEF App
      <4>2. ASSUME NEW m \in KnownMatches, m # None PROVE m \in Matches
        <5>1. CASE app.match # None
          BY <4>2, <5>1 DEF KnownMatches, App
        <5>2. CASE app.match = None
          BY <4>2, <5>2 DEF KnownMatches
        <5> QED
          BY <5>1, <5>2
      <4>3. N \subseteq App
        <5> HIDE DEF a
        <5> QED
          BY <4>1, <4>2, SendType DEF OfMatch
      <4> HIDE DEF N
      <4>4. Begin({"room", "matching"}, N)
        BY <3>8 DEF Ready, N
      <4> QED
        BY <2>3, <4>3, <4>4
    <3>9. CASE LeaveResult
      <4>1. BackToLobby(app) \in App
        BY DEF BackToLobby, App
      <4> QED
        BY <2>3, <3>9, <4>1 DEF LeaveResult
    <3> QED
      BY <2>4, <3>1, <3>2, <3>3, <3>4, <3>5, <3>6, <3>7, <3>8, <3>9 DEF Player
  <2>5. CASE Lobby
    <3>1. ASSUME NEW t \in Tokens, LobbyEnds(t) PROVE TypeOK'
      BY <3>1 DEF LobbyEnds
    <3>2. CASE LossReported
      BY <3>2, SessionLostType DEF LossReported, lobbyVars
    <3>3. CASE RoomPush
      BY <3>3, RoomStateType DEF RoomPush, lobbyVars
    <3>4. CASE MatchStart
      <4>1. started' \in Matches
        BY <3>4 DEF MatchStart
      <4>2. [app EXCEPT !.match = started'] \in App
        BY <4>1 DEF App
      <4> QED
        BY <3>4, <4>1, <4>2, ShownType DEF MatchStart, Screens
    <3>5. CASE MatchSettled
      BY <3>5, ShownType DEF MatchSettled, Screens
    <3> QED
      BY <2>5, <3>1, <3>2, <3>3, <3>4, <3>5 DEF Lobby
  <2>6. CASE Server
    <3>1. CASE BattleResult
      <4>1. [app EXCEPT !.battle.state = "finished"] \in App
        BY DEF App, Battle
      <4> QED
        BY <3>1, <4>1, ShownType DEF BattleResult, lobbyVars, Screens
    <3>2. CASE WinnerSnapshot
      <4>1. [app EXCEPT !.told = TRUE] \in App
        BY DEF App
      <4> QED
        BY <3>2, <4>1, ShownType DEF WinnerSnapshot, lobbyVars, Screens
    <3>3. ASSUME NEW m \in Matches, OpeningTicket(m) PROVE TypeOK'
      <4>1. [app EXCEPT !.ticket = m] \in App
        BY DEF App
      <4> QED
        BY <3>3, <4>1 DEF OpeningTicket, lobbyVars
    <3> QED
      BY <2>6, <3>1, <3>2, <3>3 DEF Server
  <2>7. CASE Restart
    <3>1. app.store \in Tokens \cup {None, Ghost}
      BY DEF App
    <3>2. Fresh(app.store) \in App
      BY <3>1 DEF Fresh, App, Battle, Idle
    <3> QED
      BY <2>7, <3>2 DEF Restart, lobbyVars
  <2>8. CASE UNCHANGED vars
    BY <2>8 DEF vars, lobbyVars
  <2> QED
    BY <2>1, <2>2, <2>4, <2>5, <2>6, <2>7, <2>8 DEF Next, AnswerSome
<1> QED
  BY <1>1, <1>2, PTL DEF Spec
-----------------------------------------------------------------------------
(* The session, the match and the battle, of a state of the program *)

Follows(a) == /\ a.token = IF a.session = Ghost THEN None ELSE a.session
              /\ a.store = a.session
Needs(a)   == a.match # None => a.session # None
HasMatch(a) == a.screen = "battle" => a.match # None
Joined(a) ==
  a.screen = "battle" =>
    /\ a.match # None
    /\ \/ a.battle.match = a.match
       \/ a.battle.state = "running"
       \/ \E i \in DOMAIN a.calls :
            a.calls[i].at = "connect" /\ a.calls[i].match = a.match

\* What the handlers that only show something leave alone.
Same(a, b) == /\ b.session = a.session /\ b.token = a.token
              /\ b.store = a.store /\ b.match = a.match

LEMMA SendKeeps ==
  ASSUME NEW a \in App, NEW at, NEW m
  PROVE  /\ Same(a, Send(a, at, m))
         /\ Send(a, at, m).screen = a.screen
         /\ Joined(a) => Joined(Send(a, at, m))
         /\ at = "connect" /\ m = a.match /\ m # None => Joined(Send(a, at, m))
<1> DEFINE c == [at |-> at, session |-> a.session, match |-> m, dropped |-> FALSE]
           b == Send(a, at, m)
<1>1. b = [a EXCEPT !.calls = Append(a.calls, c)]
  BY DEF Send
<1>2. /\ b.calls = Append(a.calls, c)
      /\ b.session = a.session /\ b.token = a.token /\ b.store = a.store
      /\ b.match = a.match /\ b.screen = a.screen /\ b.battle = a.battle
  BY <1>1 DEF App
<1>3. a.calls \in Seq(Call)
  BY DEF App
<1>4. /\ \A i \in DOMAIN a.calls : i \in DOMAIN b.calls /\ b.calls[i] = a.calls[i]
      /\ \E i \in DOMAIN b.calls : b.calls[i] = c
  <2>1. DOMAIN b.calls = 1 .. Len(a.calls) + 1 /\ Len(a.calls) \in Nat
    BY <1>2, <1>3
  <2>2. b.calls[Len(a.calls) + 1] = c
    BY <1>2, <1>3
  <2>3. \A i \in 1 .. Len(a.calls) : b.calls[i] = a.calls[i]
    BY <1>2, <1>3
  <2>4. DOMAIN a.calls = 1 .. Len(a.calls)
    BY <1>3
  <2> HIDE DEF b, c
  <2> QED
    BY <2>1, <2>2, <2>3, <2>4
<1>5. c.at = at /\ c.match = m
  OBVIOUS
<1> HIDE DEF b, c
<1>6. Joined(a) => Joined(b)
  BY <1>2, <1>4 DEF Joined
<1>7. at = "connect" /\ m = a.match /\ m # None => Joined(b)
  BY <1>2, <1>4, <1>5 DEF Joined
<1> QED
  BY <1>2, <1>6, <1>7 DEF Same, b

LEMMA ConnectedRuns ==
  ASSUME NEW b \in Battle, NEW m \in Matches, NEW t
  PROVE  Connected(b, m, t).state = "running"
BY DEF Connected, Battle

\* On the battle screen, notify leaves a match that is joined, about to be, or kept out.
LEMMA NotifiedKeeps ==
  ASSUME NEW a \in App
  PROVE  /\ Same(a, Notified(a))
         /\ Notified(a).screen = a.screen
         /\ HasMatch(a) => Joined(Notified(a))
<1> DEFINE b == [a EXCEPT !.opening = @ \cup {a.match}]
<1>1. CASE ~(a.screen = "battle" /\ a.match # None)
  BY <1>1 DEF Notified, Same, HasMatch, Joined
<1>2. CASE a.screen = "battle" /\ a.match # None
  <2>1. /\ b \in App /\ b.match \in Matches /\ b.match = a.match /\ b.match # None
        /\ Same(a, b) /\ b.screen = a.screen
    BY <1>2 DEF App, Same
  <2>2. Notified(a) = EnsureConnected(b)
    BY <1>2 DEF Notified
  <2> HIDE DEF b
  <2>3. CASE b.battle.match = b.match
    BY <2>1, <2>2, <2>3 DEF EnsureConnected, Joined
  <2>4. CASE b.battle.match # b.match /\ b.ticket # None
    <3> DEFINE d == [b EXCEPT !.battle = Connected(b.battle, b.match, b.ticket)]
    <3>1. Notified(a) = d
      BY <2>2, <2>4 DEF EnsureConnected
    <3>2. /\ d.battle.state = "running" /\ d.match = b.match /\ d.screen = b.screen
          /\ Same(b, d)
      BY <2>1, ConnectedRuns DEF App, Same
    <3> HIDE DEF d
    <3> QED
      BY <2>1, <3>1, <3>2 DEF Same, Joined
  <2>5. CASE b.battle.match # b.match /\ b.ticket = None
    <3>1. Notified(a) = Send(b, "connect", b.match)
      BY <2>2, <2>5 DEF EnsureConnected
    <3> QED
      BY <2>1, <3>1, SendKeeps DEF Same
  <2> QED
    BY <2>3, <2>4, <2>5
<1> QED
  BY <1>1, <1>2

LEMMA ShownKeeps ==
  ASSUME NEW a \in App, NEW s \in Screens
  PROVE  /\ Same(a, Shown(a, s))
         /\ s # "battle" \/ a.match # None => Joined(Shown(a, s))
<1> DEFINE entered == s = "battle" /\ a.screen # "battle"
           b == [a EXCEPT !.screen = s, !.told = IF entered THEN FALSE ELSE @]
<1>1. b \in App /\ Same(a, b) /\ b.screen = s
  <2>1. Same(a, b) /\ b.screen = s
    BY DEF App, Same
  <2>2. [a EXCEPT !.screen = s] \in App
    BY DEF App, Screens
  <2>3. b = IF entered THEN [[a EXCEPT !.screen = s] EXCEPT !.told = FALSE]
                       ELSE [a EXCEPT !.screen = s]
    BY DEF App
  <2>4. ASSUME NEW b1 \in App PROVE [b1 EXCEPT !.told = FALSE] \in App
    BY DEF App
  <2>5. b \in App
    <3> HIDE DEF b
    <3> QED
      BY <2>2, <2>3, <2>4
  <2> QED
    BY <2>1, <2>5
<1>2. Shown(a, s) = Notified(b)
  BY DEF Shown
<1> HIDE DEF b
<1> QED
  BY <1>1, <1>2, NotifiedKeeps DEF Same, HasMatch

LEMMA RoomStateKeeps ==
  ASSUME NEW a \in App
  PROVE  /\ Same(a, RoomState(a))
         /\ HasMatch(a) => Joined(RoomState(a))
<1> DEFINE b == [a EXCEPT !.room = TRUE]
<1>1. b \in App /\ Same(a, b) /\ b.screen = a.screen
  BY DEF App, Same
<1>2. RoomState(a) = IF b.screen \in {"lobby", "matching"} THEN Shown(b, "room") ELSE Notified(b)
  BY DEF RoomState
<1> HIDE DEF b
<1> QED
  BY <1>1, <1>2, ShownKeeps, NotifiedKeeps DEF Same, HasMatch, Screens

LEMMA SessionLostKeeps ==
  ASSUME NEW a \in App
  PROVE  /\ SessionLost(a).session \in {a.session, None}
         /\ Follows(a) => Follows(SessionLost(a))
         /\ Needs(a) => Needs(SessionLost(a))
         /\ HasMatch(a) => HasMatch(SessionLost(a))
         /\ Joined(a) => Joined(SessionLost(a))
<1> DEFINE b == [SignedOut(a) EXCEPT !.lost = TRUE]
<1>1. /\ b.session = None /\ b.token = None /\ b.store = None
      /\ b.match = None /\ b.screen = "login"
  BY DEF SignedOut, App
<1>2. SessionLost(a) = IF a.lost THEN a ELSE b
  BY DEF SessionLost
<1> HIDE DEF b
<1> QED
  BY <1>1, <1>2 DEF Follows, Needs, HasMatch, Joined
\* The program without the call that was answered.
LEMMA RemovedKeeps ==
  ASSUME NEW a \in App, NEW i \in DOMAIN a.calls
  PROVE  LET b == [a EXCEPT !.calls = RemoveAt(@, i)] IN
         /\ Same(a, b) /\ b.screen = a.screen
         /\ Joined(a) /\ a.calls[i].at # "connect" => Joined(b)
<1> DEFINE b == [a EXCEPT !.calls = RemoveAt(@, i)]
<1>1. /\ Same(a, b) /\ b.screen = a.screen /\ b.battle = a.battle /\ b.match = a.match
      /\ b.calls = RemoveAt(a.calls, i)
  BY DEF App, Same
<1>2. a.calls \in Seq(Call) /\ i \in 1 .. Len(a.calls)
  BY DEF App
<1>3. ASSUME NEW j \in DOMAIN a.calls, j # i
      PROVE  \E k \in DOMAIN b.calls : b.calls[k] = a.calls[j]
  <2> DEFINE l == SubSeq(a.calls, 1, i - 1)
             r == SubSeq(a.calls, i + 1, Len(a.calls))
  <2>1. /\ l \in Seq(Call) /\ Len(l) = i - 1 /\ \A k \in 1 .. i - 1 : l[k] = a.calls[k]
    BY <1>2
  <2>2. /\ r \in Seq(Call) /\ Len(r) = Len(a.calls) - i
        /\ \A k \in 1 .. Len(a.calls) - i : r[k] = a.calls[k + i]
    BY <1>2, SMTT(40)
  <2>3. b.calls = l \o r
    BY <1>1 DEF RemoveAt
  <2> HIDE DEF b, l, r
  <2>4. DOMAIN b.calls = 1 .. Len(a.calls) - 1
    BY <1>2, <2>1, <2>2, <2>3, SMTT(40)
  <2>5. CASE j < i
    <3>1. j \in DOMAIN b.calls /\ b.calls[j] = a.calls[j]
      BY <1>2, <1>3, <2>1, <2>2, <2>3, <2>4, <2>5, SMTT(40)
    <3> QED
      BY <3>1
  <2>6. CASE j > i
    <3>1. j - 1 \in DOMAIN b.calls /\ j - i \in 1 .. Len(a.calls) - i
      BY <1>2, <1>3, <2>4, <2>6
    <3>2. r[j - i] = a.calls[j]
      <4>1. (j - i) + i = j
        BY <1>2, <1>3
      <4> QED
        BY <2>2, <3>1, <4>1
    <3>3. (l \o r)[j - 1] = r[(j - 1) - Len(l)]
      <4>1. /\ Len(l) \in Nat /\ Len(r) \in Nat
            /\ j - 1 \in 1 .. Len(l) + Len(r) /\ ~(j - 1 <= Len(l))
        BY <1>2, <1>3, <2>1, <2>2, <2>6, SMTT(40)
      <4> QED
        BY <2>1, <2>2, <4>1, ConcatProperties
    <3>4. (j - 1) - Len(l) = j - i
      BY <1>2, <1>3, <2>1
    <3>5. b.calls[j - 1] = a.calls[j]
      BY <2>3, <3>2, <3>3, <3>4
    <3> QED
      BY <3>1, <3>5
  <2> QED
    BY <1>2, <1>3, <2>5, <2>6
<1> HIDE DEF b
<1>4. Joined(a) /\ a.calls[i].at # "connect" => Joined(b)
  BY <1>1, <1>3 DEF Joined
<1> QED
  BY <1>1, <1>4 DEF b

LEMMA ContinueKeeps ==
  ASSUME NEW a \in App, NEW c \in Call, NEW ok \in BOOLEAN,
         Follows(a), Needs(a), HasMatch(a), c.at # "connect" => Joined(a)
  PROVE  /\ Continue(a, c, ok).session \in {a.session, Ghost}
         /\ Follows(Continue(a, c, ok))
         /\ Needs(Continue(a, c, ok))
         /\ Joined(Continue(a, c, ok))
<1> DEFINE d == Continue(a, c, ok)
<1>0. ASSUME Same(a, d), Joined(d)
      PROVE  /\ d.session \in {a.session, Ghost}
             /\ Follows(d) /\ Needs(d) /\ Joined(d)
  BY <1>0 DEF Same, Follows, Needs
<1> c.at \in OfMatch => c.match \in Matches
  BY DEF Call, Plain, OfMatch
<1>1. CASE c.at = "auth"
  <2>1. d = Notified(a)
    BY <1>1 DEF Continue
  <2> HIDE DEF d
  <2> QED
    BY <1>0, <2>1, NotifiedKeeps DEF d
<1>2. CASE c.at = "bootstrap"
  <2> DEFINE b == IF ok THEN Bootstrapped(a, c) ELSE a
  <2>1. d = SignInEnds(b)
    BY <1>2 DEF Continue
  <2>2. /\ b \in App /\ b.session \in {a.session, Ghost} /\ Follows(b) /\ Needs(b)
        /\ Joined(b)
    <3> DEFINE e == [a EXCEPT !.session = Ghost, !.token = None, !.store = Ghost]
    <3>1. b = a \/ b = e
      BY DEF Bootstrapped
    <3>2. e \in App
      BY DEF App
    <3>3. /\ e.session = Ghost /\ e.token = None /\ e.store = Ghost
          /\ e.match = a.match /\ e.screen = a.screen /\ e.calls = a.calls
          /\ e.battle = a.battle
      BY DEF App
    <3>4. Ghost # None
      BY DEF Ghost, None
    <3>5. Joined(a)
      BY <1>2
    <3> HIDE DEF e, b
    <3>6. Follows(e) /\ Needs(e) /\ Joined(e)
      BY <3>3, <3>4, <3>5 DEF Follows, Needs, Joined
    <3> QED
      BY <3>1, <3>2, <3>3, <3>5, <3>6
  <2> HIDE DEF b
  <2>3. /\ d.session = b.session /\ d.token = b.token /\ d.store = b.store
        /\ d.match = b.match
        /\ (d = b \/ d.screen = "lobby")
    BY <2>1, <2>2 DEF SignInEnds, App
  <2> HIDE DEF d
  <2>4. Joined(d)
    BY <2>2, <2>3 DEF Joined
  <2> QED
    BY <2>2, <2>3, <2>4 DEF Follows, Needs, d
<1>3. CASE c.at = "room"
  <2>1. d = IF ok THEN Send(RoomState(a), "refresh", None) ELSE Notified(a)
    BY <1>3 DEF Continue
  <2> HIDE DEF d
  <2>2. CASE ok
    BY <1>0, <2>1, <2>2, RoomStateKeeps, RoomStateType, SendKeeps DEF Same, d
  <2>3. CASE ~ok
    BY <1>0, <2>1, <2>3, NotifiedKeeps DEF d
  <2> QED
    BY <2>2, <2>3
<1>4. CASE c.at = "refresh"
  <2>1. d = Shown(IF ok THEN RoomState(a) ELSE a, "room")
    BY <1>4 DEF Continue
  <2> HIDE DEF d
  <2>2. Same(a, d) /\ Joined(d)
    BY <2>1, RoomStateKeeps, RoomStateType, ShownKeeps DEF Same, Screens
  <2> QED
    BY <1>0, <2>2 DEF d
<1>5. CASE c.at = "leave"
  <2> DEFINE b == [a EXCEPT !.room = @ /\ ~ok]
  <2>1. d = Shown(b, "lobby")
    BY <1>5 DEF Continue
  <2>2. b \in App /\ Same(a, b)
    BY ZenonT(40) DEF App, Same
  <2> HIDE DEF d, b
  <2>3. Same(a, d) /\ Joined(d)
    BY <2>1, <2>2, ShownKeeps DEF Same, Screens
  <2> QED
    BY <1>0, <2>3 DEF d
<1>6. CASE c.at = "ready"
  <2>1. d = IF ok THEN Send(a, "ticket", c.match) ELSE Notified(a)
    BY <1>6 DEF Continue
  <2> HIDE DEF d
  <2>2. Same(a, d) /\ Joined(d)
    BY <1>6, <2>1, NotifiedKeeps, SendKeeps
  <2> QED
    BY <1>0, <2>2 DEF d
<1>7. CASE c.at = "ticket"
  <2> DEFINE b == IF ok THEN [a EXCEPT !.ticket = c.match] ELSE a
  <2>1. d = Notified(b)
    BY <1>7 DEF Continue
  <2>2. b \in App /\ Same(a, b) /\ HasMatch(b)
    BY <1>7 DEF App, Same, HasMatch, OfMatch
  <2> HIDE DEF d, b
  <2>3. Same(a, d) /\ Joined(d)
    BY <2>1, <2>2, NotifiedKeeps DEF Same
  <2> QED
    BY <1>0, <2>3 DEF d
<1>8. CASE c.at = "connect"
  <2> DEFINE t == IF ok THEN c.match ELSE None
             b == IF ok THEN [a EXCEPT !.ticket = c.match] ELSE a
  <2>1. d = [b EXCEPT !.battle = Connected(b.battle, c.match, t)]
    BY <1>8 DEF Continue
  <2>2. b \in App /\ Same(a, b) /\ b.screen = a.screen
    BY <1>8 DEF App, Same, OfMatch
  <2> HIDE DEF t, b
  <2>3. Connected(b.battle, c.match, t).state = "running"
    BY <1>8, <2>2, ConnectedRuns DEF App, OfMatch
  <2>4. Same(a, d) /\ d.screen = a.screen /\ d.battle.state = "running"
    BY <2>1, <2>2, <2>3 DEF App, Same
  <2> HIDE DEF d
  <2>5. Joined(d)
    BY <2>4 DEF Joined, HasMatch, Same
  <2> QED
    BY <1>0, <2>4, <2>5 DEF d
<1> QED
  BY <1>1, <1>2, <1>3, <1>4, <1>5, <1>6, <1>7, <1>8 DEF Call, Plain, OfMatch

-----------------------------------------------------------------------------
(* The invariants *)

\* What a step makes of the program's state.
Kept(b) == /\ Follows(b) /\ Needs(b) /\ Joined(b)
           /\ b.session \in {app.session, None, Ghost} \cup ({logins'} \ {logins})

LEMMA StepKeeps ==
  ASSUME TypeOK, Follows(app), Needs(app), Joined(app), [Next]_vars
  PROVE  Kept(app')
<1> app \in App
  BY DEF TypeOK
<1>0. ASSUME NEW b, Same(app, b), Joined(b) PROVE Kept(b)
  BY <1>0 DEF Same, Kept, Follows, Needs
<1>1. ASSUME NEW i \in DOMAIN app.calls, Answer(i) PROVE Kept(app')
  <2> DEFINE c == app.calls[i]
             a == [app EXCEPT !.calls = RemoveAt(@, i)]
             l == SessionLost(a)
  <2>1. /\ a \in App /\ Same(app, a) /\ a.screen = app.screen
        /\ (c.at # "connect" => Joined(a))
    BY RemovedKeeps, RemoveAtType
  <2>2. c \in Call
    BY DEF App
  <2>3. \/ app' = Continue(a, c, TRUE)
        \/ app' = Continue(a, c, FALSE)
        \/ app' = Continue(l, c, FALSE)
    BY <1>1 DEF Answer
  <2> HIDE DEF a, c, l
  <2>4. Follows(a) /\ Needs(a) /\ HasMatch(a)
    BY <2>1 DEF Same, Follows, Needs, Joined, HasMatch
  <2>5. /\ l \in App /\ l.session \in {a.session, None}
        /\ Follows(l) /\ Needs(l) /\ HasMatch(l)
        /\ (Joined(a) => Joined(l))
    BY <2>1, <2>4, SessionLostKeeps, SessionLostType DEF l
  <2>6. a.session = app.session
    BY <2>1 DEF Same
  <2>7. ASSUME NEW ok \in BOOLEAN PROVE Kept(Continue(a, c, ok))
    BY <2>1, <2>2, <2>4, <2>6, ContinueKeeps DEF Kept
  <2>8. Kept(Continue(l, c, FALSE))
    BY <2>1, <2>2, <2>5, <2>6, ContinueKeeps DEF Kept
  <2> QED
    BY <2>3, <2>7, <2>8
<1>2. ASSUME NEW i \in DOMAIN app.calls, SignedIn(i) PROVE Kept(app')
  <2> DEFINE r == [app EXCEPT !.calls = RemoveAt(@, i)]
             a == [r EXCEPT !.session = logins', !.token = logins', !.store = logins']
             n == Notified(a)
  <2>1. /\ r \in App /\ Same(app, r) /\ r.screen = app.screen
    BY RemovedKeeps, RemoveAtType
  <2>2. /\ logins' \in Tokens /\ logins' # logins
        /\ logins' # None /\ logins' # Ghost
    BY <1>2 DEF SignedIn, TypeOK, Tokens
  <2>3. app' = Send(n, "bootstrap", None)
    BY <1>2 DEF SignedIn, App
  <2>4. /\ a \in App /\ a.session = logins' /\ a.token = logins' /\ a.store = logins'
        /\ a.match = r.match /\ a.screen = r.screen
    BY <2>1, <2>2 DEF App
  <2> HIDE DEF a, r, n
  <2>5. HasMatch(a)
    BY <2>1, <2>4 DEF Joined, HasMatch, Same
  <2>6. n \in App /\ Same(a, n) /\ Joined(n)
    BY <2>4, <2>5, NotifiedKeeps, NotifiedType DEF n
  <2>7. Same(n, app') /\ Joined(app')
    BY <2>3, <2>6, SendKeeps
  <2> QED
    BY <2>2, <2>4, <2>6, <2>7 DEF Kept, Same, Follows, Needs
<1>3. ASSUME NEW S, NEW N, Begin(S, N), \A b \in N : Kept(b) PROVE Kept(app')
  BY <1>3 DEF Begin
<1>4. ASSUME NEW at, NEW m PROVE Kept(Send(app, at, m))
  BY <1>0, SendKeeps
<1>5. CASE Player
  <2>1. CASE Submit
    BY <1>3, <1>4, <2>1 DEF Submit
  <2>2. Kept(BackToLobby(app))
    <3> DEFINE b == BackToLobby(app)
    <3>1. /\ b.session = app.session /\ b.token = app.token /\ b.store = app.store
          /\ b.match = None /\ b.screen = "lobby"
      BY DEF BackToLobby, App
    <3> HIDE DEF b
    <3>2. Kept(b)
      BY <3>1 DEF Kept, Follows, Needs, Joined
    <3> QED
      BY <3>2 DEF b
  <2>3. CASE LoginBack
    BY <1>3, <2>2, <2>3 DEF LoginBack
  <2>4. CASE ToggleMode
    <3> DEFINE b == [app EXCEPT !.lost = FALSE]
    <3>1. /\ Same(app, b) /\ b.screen = app.screen
          /\ b.calls = app.calls /\ b.battle = app.battle
      BY DEF Same, App
    <3>2. Begin({"login"}, {b})
      BY <2>4 DEF ToggleMode
    <3> HIDE DEF b
    <3>3. Kept(b)
      BY <1>0, <3>1 DEF Joined, Same
    <3> QED
      BY <1>3, <3>2, <3>3
  <2>5. CASE SignOut
    <3> DEFINE b == SignedOut(app)
    <3>1. /\ b.session = None /\ b.token = None /\ b.store = None
          /\ b.match = None /\ b.screen = "login"
      BY DEF SignedOut, App
    <3>2. Begin({"lobby"}, {b})
      BY <2>5 DEF SignOut
    <3> HIDE DEF b
    <3>3. Kept(b)
      BY <3>1 DEF Kept, Follows, Needs, Joined
    <3> QED
      BY <1>3, <3>2, <3>3
  <2>6. CASE ShowLogin
    <3> DEFINE b == [app EXCEPT !.screen = "login", !.lost = FALSE]
    <3>1. Same(app, b) /\ b.screen = "login"
      BY DEF Same, App
    <3>2. Begin({"lobby"}, {b})
      BY <2>6 DEF ShowLogin
    <3> HIDE DEF b
    <3>3. Kept(b)
      BY <1>0, <3>1 DEF Joined
    <3> QED
      BY <1>3, <3>2, <3>3
  <2>7. CASE EnterRoom
    BY <1>3, <1>4, <2>7 DEF EnterRoom
  <2>8. CASE LeaveRoom
    BY <1>3, <1>4, <2>8 DEF LeaveRoom
  <2>9. CASE Ready
    <3> DEFINE a == [app EXCEPT !.screen = "matching"]
               N == {IF m # None THEN Send(a, "ready", m) ELSE a : m \in KnownMatches}
    <3>1. a \in App /\ Same(app, a) /\ a.screen = "matching"
      BY DEF App, Same
    <3>2. Begin({"room", "matching"}, N)
      BY <2>9 DEF Ready
    <3>3. \A b \in N : Kept(b)
      <4> SUFFICES ASSUME NEW b \in N PROVE Kept(b)
        OBVIOUS
      <4>1. PICK m \in KnownMatches : b = IF m # None THEN Send(a, "ready", m) ELSE a
        OBVIOUS
      <4> HIDE DEF a, N
      <4>2. Same(app, b) /\ b.screen = "matching"
        BY <3>1, <4>1, SendKeeps DEF Same
      <4> QED
        BY <1>0, <4>2 DEF Joined
    <3> HIDE DEF N
    <3> QED
      BY <1>3, <3>2, <3>3
  <2>10. CASE LeaveResult
    BY <1>3, <2>2, <2>10 DEF LeaveResult
  <2> QED
    BY <1>5, <2>1, <2>3, <2>4, <2>5, <2>6, <2>7, <2>8, <2>9, <2>10 DEF Player
<1>6. Kept(app)
  BY <1>0 DEF Same
<1>7. CASE Lobby
  <2>1. ASSUME NEW t \in Tokens, LobbyEnds(t) PROVE Kept(app')
    BY <1>6, <2>1 DEF LobbyEnds
  <2>2. CASE LossReported
    <3>1. app' = SessionLost(app)
      BY <2>2 DEF LossReported
    <3> QED
      BY <3>1, SessionLostKeeps DEF Kept
  <2>3. CASE RoomPush
    <3>1. app' = RoomState(app)
      BY <2>3 DEF RoomPush
    <3> QED
      BY <1>0, <3>1, RoomStateKeeps DEF Joined, HasMatch
  <2>4. CASE MatchStart
    <3> DEFINE a == [app EXCEPT !.match = started']
    <3>1. started' \in Matches /\ started' # None
      BY <2>4 DEF MatchStart, TypeOK, Matches
    <3>2. app.session = app.token /\ app.session # None /\ app.session # Ghost
      BY <2>4 DEF MatchStart, Bound, Tokens, Follows
    <3>3. /\ a \in App /\ a.match # None /\ a.session = app.session
          /\ a.token = app.token /\ a.store = app.store
      BY <3>1 DEF App
    <3>4. app' = Shown(a, "battle")
      BY <2>4 DEF MatchStart
    <3> HIDE DEF a
    <3>5. Same(a, app') /\ Joined(app')
      BY <3>3, <3>4, ShownKeeps DEF Screens
    <3> QED
      BY <3>2, <3>3, <3>5 DEF Kept, Same, Follows, Needs
  <2>5. CASE MatchSettled
    <3>1. app' = Shown(app, "result") \/ app' = app
      BY <2>5 DEF MatchSettled
    <3> QED
      BY <1>0, <1>6, <3>1, ShownKeeps DEF Screens
  <2> QED
    BY <1>7, <2>1, <2>2, <2>3, <2>4, <2>5 DEF Lobby
<1>8. CASE Server
  <2>1. ASSUME NEW a \in App, Same(app, a), app' = Shown(a, "result") PROVE Kept(app')
    <3>1. Same(a, app') /\ Joined(app')
      BY <2>1, ShownKeeps DEF Screens
    <3> QED
      BY <1>0, <2>1, <3>1 DEF Same
  <2>2. CASE BattleResult
    <3>1. /\ [app EXCEPT !.battle.state = "finished"] \in App
          /\ Same(app, [app EXCEPT !.battle.state = "finished"])
      BY ZenonT(40) DEF App, Battle, Same
    <3> QED
      BY <2>1, <2>2, <3>1 DEF BattleResult
  <2>3. CASE WinnerSnapshot
    <3>1. /\ [app EXCEPT !.told = TRUE] \in App
          /\ Same(app, [app EXCEPT !.told = TRUE])
      BY DEF App, Same
    <3> QED
      BY <2>1, <2>3, <3>1 DEF WinnerSnapshot
  <2>4. ASSUME NEW m \in Matches, OpeningTicket(m) PROVE Kept(app')
    <3> DEFINE b == [app EXCEPT !.ticket = m]
    <3>1. app' = b
      BY <2>4 DEF OpeningTicket
    <3>2. /\ Same(app, b) /\ b.screen = app.screen
          /\ b.calls = app.calls /\ b.battle = app.battle
      BY DEF Same, App
    <3> HIDE DEF b
    <3> QED
      BY <1>0, <3>1, <3>2 DEF Joined, Same
  <2> QED
    BY <1>8, <2>2, <2>3, <2>4 DEF Server
<1>9. CASE Restart
  <2>1. app.store = app.session /\ app.store \in Tokens \cup {None, Ghost}
    BY DEF Follows, App
  <2> DEFINE b == Fresh(app.store)
  <2>2. /\ b.session = IF app.store = Ghost THEN None ELSE app.store
        /\ b.token = b.session /\ b.store = b.session
        /\ b.match = None /\ b.screen = "login"
    BY DEF Fresh
  <2>3. app' = b
    BY <1>9 DEF Restart
  <2> HIDE DEF b
  <2>4. b.session # Ghost
    BY <2>1, <2>2 DEF Tokens
  <2> QED
    BY <2>1, <2>2, <2>3, <2>4 DEF Kept, Follows, Needs, Joined
<1>10. CASE UNCHANGED vars
  BY <1>6, <1>10 DEF vars
<1> QED
  BY <1>1, <1>2, <1>5, <1>7, <1>8, <1>9, <1>10 DEF Next, AnswerSome

\* The inductive invariant.
SInv == TypeOK /\ TokenFollowsSession /\ MatchNeedsSession /\ BattleIsJoined

LEMMA InvariantCorrect == Spec => []SInv
<1> DEFINE I == TokenFollowsSession /\ MatchNeedsSession /\ BattleIsJoined
<1>1. Init => I
  BY DEF Init, Fresh, TokenFollowsSession, MatchNeedsSession, BattleIsJoined
<1>2. I <=> Follows(app) /\ Needs(app) /\ Joined(app)
  BY DEF TokenFollowsSession, MatchNeedsSession, BattleIsJoined, Follows, Needs, Joined
<1>3. I' <=> Follows(app') /\ Needs(app') /\ Joined(app')
  BY DEF TokenFollowsSession, MatchNeedsSession, BattleIsJoined, Follows, Needs, Joined
<1> HIDE DEF I
<1>4. I /\ TypeOK /\ [Next]_vars => I'
  BY <1>2, <1>3, StepKeeps DEF Kept
<1>5. Spec => [](TypeOK /\ I)
  BY <1>1, <1>4, TypeCorrect, PTL DEF Spec
<1>6. TypeOK /\ I => SInv
  BY DEF SInv, I
<1> QED
  BY <1>5, <1>6, PTL

\* The transport and the store follow the session through every sign-in, sign-out, loss,
\* bootstrap and restart.
THEOREM TokenFollows == Spec => []TokenFollowsSession
<1>1. SInv => TokenFollowsSession
  BY DEF SInv
<1> QED
  BY <1>1, InvariantCorrect, PTL

\* No session leaves a match to the next one.
THEOREM MatchNeeds == Spec => []MatchNeedsSession
<1>1. SInv => MatchNeedsSession
  BY DEF SInv
<1> QED
  BY <1>1, InvariantCorrect, PTL

\* The battle screen always has a match that is joined, about to be, or kept out.
THEOREM BattleJoined == Spec => []BattleIsJoined
<1>1. SInv => BattleIsJoined
  BY DEF SInv
<1> QED
  BY <1>1, InvariantCorrect, PTL

\* No answer, however late, brings a session back.
THEOREM SessionsEnd == Spec => SessionsNeverReturn
<1>1. SInv /\ [Next]_vars
        => [app'.session \in {app.session, None, Ghost} \cup ({logins'} \ {logins})]_vars
  <2> SUFFICES ASSUME SInv, [Next]_vars
               PROVE  app'.session \in {app.session, None, Ghost} \cup ({logins'} \ {logins})
    OBVIOUS
  <2>1. Follows(app) /\ Needs(app) /\ Joined(app)
    BY DEF SInv, TokenFollowsSession, MatchNeedsSession, BattleIsJoined,
           Follows, Needs, Joined
  <2>2. Kept(app')
    BY <2>1, StepKeeps DEF SInv
  <2> QED
    BY <2>2 DEF Kept
<1> QED
  BY <1>1, InvariantCorrect, PTL DEF Spec, SessionsNeverReturn
=============================================================================
