----------------------- MODULE LobbySessionProperties -----------------------
(***************************************************************************)
(* What must hold of LobbySession.                                         *)
(***************************************************************************)
EXTENDS LobbySession

\* The type invariant.
TypeOK ==
  /\ deployment \in Deployments
  /\ app \in App
  /\ logins \in 0 .. MaxLogins
  /\ over \subseteq 1 .. logins
  /\ started \in 0 .. LastMatch
  /\ playing \in BOOLEAN

\* The transport authenticates, and the store keeps, exactly the session there is,
\* after every sign-in, bootstrap, sign-out, loss and restart: a player who signed out
\* or was kicked is not signed in again by the next start.
TokenFollowsSession ==
  /\ app.token = IF app.session = Ghost THEN None ELSE app.session
  /\ app.store = app.session

\* A match is never left behind by the session it was started in: no path that ends a
\* session leaves a match that the next player would be connected to.
MatchNeedsSession == app.match # None => app.session # None

\* Whoever is on the battle screen has a match, and it is joined, about to be, or kept
\* out by a battle that has not ended: no interleaving of ticket fetches, notifications
\* and old connections leaves the player there with nothing under way.
BattleIsJoined ==
  app.screen = "battle" =>
    /\ app.match # None
    /\ \/ app.battle.match = app.match
       \/ app.battle.state = "running"
       \/ \E i \in DOMAIN app.calls :
            app.calls[i].at = "connect" /\ app.calls[i].match = app.match

\* A session that was dropped never comes back, whatever answers late: the session
\* changes only to none, to one without a token, or to the one just issued.
SessionsNeverReturn ==
  [][app'.session \in {app.session, None, Ghost} \cup ({logins'} \ {logins})]_vars

\* The bootstrap calls of sign-ins in flight.
Bootstraps(a) == SelectSeq(a.calls, LAMBDA c : c.at = "bootstrap")

\* "The session ended while the profile was loading - stay on the login screen"
\* (lobby_flow.ts): a sign-in whose session is still there when its bootstrap is
\* answered leaves the login screen.
SignInLands ==
  [][ (/\ app' # Fresh(app.store)   \* not a restart
       /\ Len(Bootstraps(app')) < Len(Bootstraps(app))
       /\ app'.session = app.session /\ app.session \in Tokens)
        => app'.screen # "login" ]_vars
=============================================================================
