---------------------- MODULE LobbyTransportProperties ----------------------
(***************************************************************************)
(* What the lobby transport guarantees about the calls made on it.         *)
(***************************************************************************)
EXTENDS LobbyTransport

\* Every variable stays in its set, and the sockets in use have been built.
TypeOK ==
  /\ made \in Sockets
  /\ socket \in 1 .. made
  /\ phase \in [Sockets -> {"none", "connecting", "open", "failing", "closing", "closed"}]
  /\ closed \in BOOLEAN /\ disposed \in BOOLEAN /\ token \in BOOLEAN
  /\ resolver \in 0 .. made
  /\ waiting \in [Sockets -> Seq(Frame)]
  /\ pending \in Seq(Pending)
  /\ wire \in [Sockets -> Seq(Frame)]
  /\ status \in [Calls -> Status]
  /\ bound \in 0 .. made
  /\ kicked \in [Sockets -> {"no", "queued", "delivered"}]
  /\ tokens \in Nat /\ pushes \in Nat

\* Every call that awaits a reconnect awaits the attempt whose resolver is kept, and
\* that attempt's socket is the current one, still to report how it ended: no other
\* attempt has overwritten the resolver ("two call()s that race a drop do not each
\* build a socket ... and hang it", reconnectPromise).
NoWaiterForgotten ==
  \A s \in Sockets : waiting[s] # <<>> =>
    /\ s = resolver
    /\ s = socket
    /\ phase[s] \in {"connecting", "closing"}

\* A call that was sent and has no answer is still pending, on a connection that has
\* not closed: no close, error, abandoned socket or shutdown loses it.
SentCallsAnswerable ==
  \A c \in Calls : status[c] = "sent" =>
    \E i \in DOMAIN pending : /\ pending[i].frame.call = c
                              /\ phase[pending[i].on] # "closed"

\* As long as the transport is on its first connection and the server sends nothing
\* unasked, each call gets its own answer, although answers carry no call id and an
\* error goes to the oldest call (handleMessage, with the auth requests the
\* transport sends itself among the calls).
OwnAnswerOnQuietConnection ==
  made = 1 /\ pushes = 0 => \A c \in Calls : status[c] # "mistaken"

\* After close() no socket is built and nothing is sent, whatever was in flight
\* ("A disposed transport never reconnects", disposed).
DisposedIsFinal ==
  [][disposed => made' = made /\ \A s \in Sockets : Len(wire'[s]) <= Len(wire[s])]_vars

\* A call that awaits a reconnect goes on: no interleaving of sockets that open, fail
\* or are abandoned leaves it waiting for ever (reconnectSocket, "No timers:
\* open/error/close are enough").
EveryWaiterWakes == \A c \in Calls : status[c] = "waiting" ~> status[c] # "waiting"
=============================================================================
