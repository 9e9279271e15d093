--------------------------- MODULE LobbyTransport ---------------------------
(***************************************************************************)
(* WsLobbyTransport (lobby_client.ts): remote calls over one WebSocket,    *)
(* answered by message type, with one shared reconnect and sockets that    *)
(* are abandoned while their handlers stay bound to the transport.         *)
(*                                                                         *)
(* A handler runs with the microtasks it wakes before the next event, so   *)
(* the calls that awaited a reconnect continue in the step that settles    *)
(* it.  Everything else may come between two steps: a socket opens, fails  *)
(* or closes, the server answers or pushes, the application calls.         *)
(*                                                                         *)
(* Abstractions.  A frame is the call it carries and the type that answers *)
(* it; the calls of the fallback transport are left out.  The sockets are  *)
(* LayaSockets over browser WebSockets: a send throws while connecting and *)
(* after close(), a closed one still reports its close.  The server        *)
(* answers the frames of a connection in order and registers one           *)
(* connection per account, as the comments of setSessionToken tell.        *)
(***************************************************************************)
EXTENDS Integers, Sequences, SequencesExt

CONSTANTS
  Calls,       \* bound: the calls the application makes, each once
  MaxSockets,  \* bound: sockets built, the first one included
  MaxTokens,   \* bound: setSessionToken calls
  MaxPushes    \* bound: frames the server sends unasked

ASSUME CallsAssumption == Calls \subseteq Nat \ {0}
ASSUME BoundAssumption == /\ MaxSockets \in Nat \ {0}
                          /\ MaxTokens \in Nat /\ MaxPushes \in Nat

None    == 0
Sockets == 1 .. MaxSockets
\* LOBBY_WS_ROUTES by the type that answers: AuthResponse, one that only its own
\* request causes (bootstrap, room create, room join), RoomState for a leave.
Types   == {"auth", "own", "room"}

VARIABLES
  socket,    \* this.socket
  made,      \* sockets built so far
  phase,     \* of each socket; "failing": an error reported, its close to come;
             \* "closing": closed by us, its close to come
  closed,    \* closed
  disposed,  \* disposed
  token,     \* sessionToken # ''
  resolver,  \* the socket whose attempt openResolver settles, None when null
  waiting,   \* the frames of the calls awaiting a reconnect, by its socket
  pending,   \* pending, with the socket each frame was sent on
  wire,      \* frames on their way to the server, by socket
  status,    \* what has become of each call
  bound,     \* the connection the server holds for the account
  kicked,    \* session_replaced of each connection: none, queued, delivered
  tokens,    \* setSessionToken calls so far
  pushes     \* frames sent unasked so far

clientVars == <<socket, made, closed, disposed, token, resolver>>
callVars   == <<waiting, pending, wire, status>>
serverVars == <<bound, kicked>>
boundVars  == <<tokens, pushes>>
vars == <<clientVars, phase, callVars, serverVars, boundVars>>

\* The transport's own auth request is the frame of call None.
Frame   == [call : Calls \cup {None}, type : Types]
Pending == [frame : Frame, on : Sockets]
\* "failed": answered by the transport itself, "answered": by the server's answer to
\* it, "mistaken": by any other frame, "threw": the promise of call() was rejected.
Status  == {"unused", "waiting", "sent", "failed", "answered", "mistaken", "threw"}

AuthFrame == [call |-> None, type |-> "auth"]

Init ==
  /\ socket   = 1
  /\ made     = 1
  /\ phase    = [s \in Sockets |-> IF s = 1 THEN "connecting" ELSE "none"]
  /\ closed   = FALSE
  /\ disposed = FALSE
  /\ token    = FALSE
  /\ resolver = None
  /\ waiting  = [s \in Sockets |-> <<>>]
  /\ pending  = <<>>
  /\ wire     = [s \in Sockets |-> <<>>]
  /\ status   = [c \in Calls |-> "unused"]
  /\ bound    = None
  /\ kicked   = [s \in Sockets |-> "no"]
  /\ tokens   = 0
  /\ pushes   = 0

Connected(s) == phase[s] = "open"
\* LayaSocket.send, when s is in phase p.
SendThrows(p) == p \in {"connecting", "closing"}

-----------------------------------------------------------------------------
(* Sending and settling *)

\* Mutant: the frame is pushed without what resolves it.
PostUnresolvable(frames, p) ==
  /\ pending' = pending \o frames
  /\ wire' = IF p = "open" THEN [wire EXCEPT ![socket] = @ \o frames] ELSE wire

\* Each frame is pushed on pending and sent on the current socket, in phase p.
Post(frames, p) ==
  /\ pending' = pending \o [i \in DOMAIN frames |-> [frame |-> frames[i], on |-> socket]]
  /\ wire' = IF p = "open" THEN [wire EXCEPT ![socket] = @ \o frames] ELSE wire

\* The calls of cs, as they stand in st, become to.
Becomes(st, cs, to) == [c \in Calls |-> IF c \in cs THEN to ELSE st[c]]

\* The frames of the calls that await the attempt openResolver settles, their calls,
\* and the others.
Woken == IF resolver = None THEN <<>> ELSE waiting[resolver]
WokenCalls == {Woken[i].call : i \in DOMAIN Woken}
Asleep == [s \in Sockets |-> IF s = resolver THEN <<>> ELSE waiting[s]]

\* openResolver(false): the calls that awaited it answer lobby_ws_not_connected.
FailWaiters(st) ==
  /\ resolver' = None
  /\ waiting' = Asleep
  /\ status' = Becomes(st, WokenCalls, "failed")

\* The sent calls of pending, which rejectAll answers.
SentCalls == {c \in Calls : status[c] = "sent"}

\* The pending entry i is resolved by a frame that answers the call answers.
Resolve(i, answers) ==
  LET c == pending[i].frame.call IN
  /\ pending' = RemoveAt(pending, i)
  /\ status' = IF c \in Calls /\ status[c] = "sent"
                 THEN [status EXCEPT ![c] = IF c = answers THEN "answered" ELSE "mistaken"]
                 ELSE status

\* Mutant: the latest one is taken.
LastOf(type) ==
  {i \in DOMAIN pending : /\ pending[i].frame.type = type
                          /\ \A j \in i + 1 .. Len(pending) : pending[j].frame.type # type}

\* The first pending call that waits for type, if any does.
FirstOf(type) ==
  {i \in DOMAIN pending : /\ pending[i].frame.type = type
                          /\ \A j \in 1 .. i - 1 : pending[j].frame.type # type}

ResolveByType(type, answers) ==
  \/ \E i \in FirstOf(type) : Resolve(i, answers)
  \/ FirstOf(type) = {} /\ UNCHANGED <<pending, status>>

\* An Error frame: the oldest pending call, whatever its type.
ResolveOldest(answers) ==
  IF pending = <<>> THEN UNCHANGED <<pending, status>> ELSE Resolve(1, answers)

-----------------------------------------------------------------------------
(* The application's calls *)

\* Mutant: every call builds a socket of its own.
ReconnectUnshared(f) ==
  \/ /\ made < MaxSockets
     /\ made' = made + 1
     /\ socket' = made'
     /\ phase' = [phase EXCEPT ![made'] = "connecting"]
     /\ resolver' = made'
     /\ waiting' = [waiting EXCEPT ![made'] = Append(@, f)]
     /\ status' = [status EXCEPT ![f.call] = "waiting"]
  \/ /\ status' = [status EXCEPT ![f.call] = "failed"]
     /\ UNCHANGED <<made, socket, phase, resolver, waiting>>

\* reconnectSocket for the call of f: the attempt in flight is shared, else the
\* factory builds a socket or throws.
Reconnect(f) ==
  \/ /\ resolver # None
     /\ waiting' = [waiting EXCEPT ![resolver] = Append(@, f)]
     /\ status' = [status EXCEPT ![f.call] = "waiting"]
     /\ UNCHANGED <<made, socket, phase, resolver>>
  \/ /\ resolver = None
     /\ made < MaxSockets
     /\ made' = made + 1
     /\ socket' = made'
     /\ phase' = [phase EXCEPT ![made'] = "connecting"]
     /\ resolver' = made'
     /\ waiting' = [waiting EXCEPT ![made'] = Append(@, f)]
     /\ status' = [status EXCEPT ![f.call] = "waiting"]
  \/ /\ resolver = None
     /\ status' = [status EXCEPT ![f.call] = "failed"]
     /\ UNCHANGED <<made, socket, phase, resolver, waiting>>

\* call, for a routed operation.
CallOf(f) ==
  /\ status[f.call] = "unused"
  /\ \/ /\ disposed
        /\ status' = [status EXCEPT ![f.call] = "failed"]
        /\ UNCHANGED <<made, socket, phase, resolver, waiting, pending, wire>>
     \/ /\ ~disposed /\ (closed \/ ~Connected(socket))
        /\ Reconnect(f)
        /\ UNCHANGED <<pending, wire>>
     \/ /\ ~disposed /\ ~closed /\ Connected(socket)
        /\ Post(<<f>>, "open")
        /\ status' = [status EXCEPT ![f.call] = "sent"]
        /\ UNCHANGED <<made, socket, phase, resolver, waiting>>
  /\ UNCHANGED <<closed, disposed, token, serverVars, boundVars>>

\* socket.close(): nothing is received any more, the close is reported later.
ClosedByUs(s) == IF phase[s] \in {"connecting", "open", "failing"} THEN "closing" ELSE phase[s]

\* Mutant: the socket is left open.
DisposeKeepsSocket ==
  /\ disposed' = TRUE
  /\ closed' = TRUE
  /\ status' = Becomes(status, SentCalls, "failed")
  /\ pending' = <<>>
  /\ UNCHANGED <<phase, wire, socket, made, token, resolver, waiting, serverVars, boundVars>>

\* close.
Dispose ==
  /\ disposed' = TRUE
  /\ closed' = TRUE
  /\ phase' = [phase EXCEPT ![socket] = ClosedByUs(socket)]
  /\ wire' = [wire EXCEPT ![socket] = <<>>]
  /\ status' = Becomes(status, SentCalls, "failed")
  /\ pending' = <<>>
  /\ UNCHANGED <<socket, made, token, resolver, waiting, serverVars, boundVars>>

\* setSessionToken with a session: the connection is bound to it when it is up.
SetToken ==
  /\ tokens < MaxTokens
  /\ tokens' = tokens + 1
  /\ token' = TRUE
  /\ IF ~disposed /\ ~closed /\ Connected(socket)
       THEN Post(<<AuthFrame>>, "open")
       ELSE UNCHANGED <<pending, wire>>
  /\ UNCHANGED <<socket, made, closed, disposed, resolver, phase, waiting, status,
                 serverVars, pushes>>

\* setSessionToken(''): the connection is abandoned, its calls stay pending.
ClearToken ==
  /\ token
  /\ token' = FALSE
  /\ IF disposed
       THEN UNCHANGED <<closed, phase, wire>>
       ELSE /\ closed' = TRUE
            /\ phase' = [phase EXCEPT ![socket] = ClosedByUs(socket)]
            /\ wire' = [wire EXCEPT ![socket] = <<>>]
  /\ UNCHANGED <<socket, made, disposed, resolver, waiting, pending, status,
                 serverVars, boundVars>>

-----------------------------------------------------------------------------
(* The sockets *)

\* handleOpen, of any socket: the current one is authenticated, then the calls that
\* awaited a reconnect are sent on the current one, which need not be s.
Open(s) ==
  LET auth == IF token /\ ~disposed THEN <<AuthFrame>> ELSE <<>>
  IN
  /\ phase[s] = "connecting"
  /\ phase' = [phase EXCEPT ![s] = "open"]
  /\ closed' = (closed /\ disposed)
  /\ resolver' = None
  /\ waiting' = Asleep
  /\ Post(auth \o Woken, phase'[socket])
  /\ status' = Becomes(status, WokenCalls,
                       IF SendThrows(phase'[socket]) THEN "threw" ELSE "sent")
  /\ UNCHANGED <<socket, made, disposed, token, serverVars, boundVars>>

\* handleError: a socket that fails before or after it opens.
SocketError(s) ==
  /\ phase[s] \in {"connecting", "open"}
  /\ phase' = [phase EXCEPT ![s] = "failing"]
  /\ wire' = [wire EXCEPT ![s] = <<>>]
  /\ FailWaiters(status)
  /\ UNCHANGED <<socket, made, closed, disposed, token, pending, serverVars, boundVars>>

\* Mutant: the pending calls are kept.
SocketCloseKeepsCalls(s) ==
  /\ phase[s] \in {"open", "failing", "closing"}
  /\ phase' = [phase EXCEPT ![s] = "closed"]
  /\ wire' = [wire EXCEPT ![s] = <<>>]
  /\ closed' = TRUE
  /\ FailWaiters(status)
  /\ bound' = IF bound = s THEN None ELSE bound
  /\ UNCHANGED <<socket, made, disposed, token, pending, kicked, boundVars>>

\* Mutant: the attempt is not settled.
SocketCloseKeepsWaiters(s) ==
  /\ phase[s] \in {"open", "failing", "closing"}
  /\ phase' = [phase EXCEPT ![s] = "closed"]
  /\ wire' = [wire EXCEPT ![s] = <<>>]
  /\ closed' = TRUE
  /\ status' = Becomes(status, SentCalls, "failed")
  /\ pending' = <<>>
  /\ bound' = IF bound = s THEN None ELSE bound
  /\ UNCHANGED <<socket, made, disposed, token, resolver, waiting, kicked, boundVars>>

\* handleClose, of any socket: rejectAll answers every pending call.
SocketClose(s) ==
  /\ phase[s] \in {"open", "failing", "closing"}
  /\ phase' = [phase EXCEPT ![s] = "closed"]
  /\ wire' = [wire EXCEPT ![s] = <<>>]
  /\ closed' = TRUE
  /\ FailWaiters(Becomes(status, SentCalls, "failed"))
  /\ pending' = <<>>
  /\ bound' = IF bound = s THEN None ELSE bound
  /\ UNCHANGED <<socket, made, disposed, token, kicked, boundVars>>

-----------------------------------------------------------------------------
(* The server *)

\* An authenticated connection supersedes the one the server holds for the account.
Registers(s, f) ==
  IF f.type = "auth"
    THEN /\ bound' = s
         /\ kicked' = IF bound \notin {None, s} /\ Connected(bound) /\ kicked[bound] = "no"
                        THEN [kicked EXCEPT ![bound] = "queued"] ELSE kicked
    ELSE UNCHANGED <<bound, kicked>>

\* handleMessage: the answer to the oldest frame of a connection, with the type of
\* its route (its payload may be an error), or an Error frame.
Answer(s) ==
  LET f == Head(wire[s]) IN
  /\ Connected(s) /\ kicked[s] = "no" /\ wire[s] # <<>>
  /\ wire' = [wire EXCEPT ![s] = Tail(@)]
  /\ \/ /\ ResolveByType(f.type, f.call)
        /\ Registers(s, f)
     \/ /\ ResolveOldest(f.call)
        /\ UNCHANGED <<bound, kicked>>
  /\ UNCHANGED <<clientVars, phase, waiting, boundVars>>

\* A RoomState nobody asked for: another player joined, left or got ready.
RoomPush(s) ==
  /\ Connected(s) /\ kicked[s] = "no" /\ bound = s
  /\ pushes < MaxPushes
  /\ pushes' = pushes + 1
  /\ ResolveByType("room", None)
  /\ UNCHANGED <<clientVars, phase, waiting, wire, serverVars, tokens>>

\* The Error frame session_replaced of a connection that is superseded, by a
\* connection of this client or by another device.
Replaced(s) ==
  /\ Connected(s)
  /\ \/ kicked[s] = "queued" /\ UNCHANGED pushes
     \/ /\ kicked[s] = "no" /\ bound = s
        /\ pushes < MaxPushes
        /\ pushes' = pushes + 1
  /\ kicked' = [kicked EXCEPT ![s] = "delivered"]
  /\ ResolveOldest(None)
  /\ UNCHANGED <<clientVars, phase, waiting, wire, bound, tokens>>

Next ==
  \/ \E c \in Calls, t \in Types : CallOf([call |-> c, type |-> t])
  \/ Dispose
  \/ SetToken
  \/ ClearToken
  \/ \E s \in Sockets : \/ Open(s) \/ SocketError(s) \/ SocketClose(s)
                        \/ Answer(s) \/ RoomPush(s) \/ Replaced(s)

Spec == Init /\ [][Next]_vars

\* A browser reports the end of every connection attempt, and a close of every
\* socket that failed or was closed.
Fairness ==
  \A s \in Sockets :
    /\ WF_vars(phase[s] = "connecting" /\ (Open(s) \/ SocketError(s)))
    /\ WF_vars(phase[s] # "open" /\ SocketClose(s))

FairSpec == Spec /\ Fairness
=============================================================================
