---------------------------- MODULE BattleClient ----------------------------
(***************************************************************************)
(* BattleClient (battle_client.ts): the connection to the battle server    *)
(* over a KcpSession, the queue of inputs with its plain and its sealed    *)
(* flush, the handshake, and the result that ends a match.                 *)
(*                                                                         *)
(* Everything runs on one event loop.  The plain flush is synchronous; the *)
(* sealed one awaits the cipher for each input, the handshake awaits the   *)
(* key pair, the server and the derivation, a sealed frame awaits its      *)
(* opening, and any call may come in between.                              *)
(*                                                                         *)
(* Abstractions.  An input is its match and sequence number, a frame the   *)
(* input and the key it is sealed with.  A KcpSession is a number and      *)
(* delivers what it accepts while it is not closed (MessageChannel).       *)
(* Sealing does not fail, the lobby sends an id with each session key, the *)
(* server's result is the last frame of its session, performHandshake is   *)
(* called again only when its last call has returned, and snapshots, the   *)
(* simulation and the listeners are left out.  An accept may select any    *)
(* suite, whatever an earlier one selected: ChaCha20-Poly1305 keys the     *)
(* session, every other one puts it in the clear.                          *)
(***************************************************************************)
EXTENDS Integers, Sequences

CONSTANTS
  LastMatch,      \* bound: the matches of a behaviour are 1 .. LastMatch
  Deployments,    \* the ways of keying a session to consider
  MaxSessions,    \* bound: sessions opened
  MaxInputs,      \* bound: inputs sent
  MaxHandshakes   \* bound: calls of performHandshake

\* No key at all, session keys handed out by the lobby, or a handshake.
ASSUME DeploymentAssumption == Deployments \subseteq {"plain", "lobby", "handshake"}
ASSUME BoundAssumption == /\ LastMatch \in Nat /\ MaxSessions \in Nat
                          /\ MaxInputs \in Nat /\ MaxHandshakes \in Nat

None == 0
Matches    == 1 .. LastMatch
Sessions   == 1 .. MaxSessions
Handshakes == 1 .. MaxHandshakes

VARIABLES
  deployment,  \* how this deployment keys its sessions
  state,       \* state
  match,       \* the match of sessionInfo
  session,     \* the current KcpSession, None when it is null
  key,         \* what aead, cipher and keyId seal outgoing frames with
  seq,         \* seq
  queue,       \* inputQueue
  flush,       \* what flushSealedQueue is sealing, while flushing
  random,      \* the call of performHandshake that clientRandom is from
  handshake,   \* where each call of performHandshake stands
  waiter,      \* the call handshakeWaiter and handshakeTimer belong to
  opening,     \* sessions whose sealed result is being opened
  opened,      \* the match each session was opened for, in the order of connect
  live,        \* sessions that are not closed
  ended,       \* sessions whose result has arrived
  wire         \* history: the frames accepted by each session

clientVars    == <<state, match, session>>
queueVars     == <<queue, flush, wire>>
handshakeVars == <<random, handshake, waiter>>
channelVars   == <<opening, opened, live, ended>>
vars == <<deployment, clientVars, key, seq, queueVars, handshakeVars, channelVars>>

Input == [match : Matches, seq : Nat]
\* A handshake key comes from the server's answer to one call and a client random.
Key   == [kind : {"lobby"}, of : Matches]
           \cup [kind : {"handshake"}, of : Handshakes, random : Handshakes]
Clear == [kind |-> "clear"]
Frame == [input : Input, key : Key \cup {Clear}]

Flushing == [on : Sessions, input : Input, key : Key]
NoFlush  == [on |-> None, input |-> <<>>, key |-> Clear]

\* A call of performHandshake: not made, generating its key pair, its hello sent
\* on a session, deriving the key from the accept and a client random, over without
\* a cipher, or over with the suite of its accept installed.
Call == [stage : {"unused", "keys", "sent", "deriving", "over", "encrypted", "plaintext"},
         on : Sessions \cup {None}, random : Handshakes \cup {None}]

Init ==
  /\ deployment \in Deployments
  /\ state     = "idle"
  /\ match     = None
  /\ session   = None
  /\ key       = Clear
  /\ seq       = 0
  /\ queue     = <<>>
  /\ flush     = NoFlush
  /\ random    = None
  /\ handshake = [h \in Handshakes |-> [stage |-> "unused", on |-> None, random |-> None]]
  /\ waiter    = None
  /\ opening   = {}
  /\ opened    = <<>>
  /\ live      = {}
  /\ ended     = {}
  /\ wire      = [s \in Sessions |-> <<>>]

-----------------------------------------------------------------------------
(* The input queue *)

\* The frames of the inputs in q, sealed with k.
Frames(q, k) == [i \in 1 .. Len(q) |-> [input |-> q[i], key |-> k]]

\* Mutant: the inputs a session refuses are shifted too.
PlainFlushDrops(q, w) ==
  /\ wire' = IF session \in live THEN [w EXCEPT ![session] = @ \o Frames(q, Clear)] ELSE w
  /\ queue' = <<>>

\* flushPlainQueue: all of q goes out on the current session in w, or nothing when
\* that session is closed or null.
PlainFlush(q, w) ==
  \/ /\ session \in live
     /\ wire' = [w EXCEPT ![session] = @ \o Frames(q, Clear)]
     /\ queue' = <<>>
  \/ /\ session \notin live
     /\ wire' = w
     /\ queue' = q

\* Mutant: a null session is not noticed.
SealForNull(q, k) ==
  /\ flush' = IF q = <<>> THEN NoFlush ELSE [on |-> session, input |-> Head(q), key |-> k]
  /\ queue' = q

\* flushSealedQueue starts to seal the head of q for the current session, or ends.
SealNext(q, k) ==
  /\ flush' = IF q = <<>> \/ session = None THEN NoFlush
              ELSE [on |-> session, input |-> Head(q), key |-> k]
  /\ queue' = q

\* flushInputQueue with the queue q and the key k, once no handshake is pending.
FlushInputQueue(q, k) ==
  \/ /\ k = Clear
     /\ PlainFlush(q, wire)
     /\ UNCHANGED flush
  \/ /\ k # Clear
     /\ flush = NoFlush
     /\ SealNext(q, k)
     /\ UNCHANGED wire
  \/ /\ k # Clear
     /\ flush # NoFlush
     /\ queue' = q
     /\ UNCHANGED <<flush, wire>>

\* sendInput: queued, and flushed unless a handshake is pending.
SendInput ==
  /\ state = "running"
  /\ seq < MaxInputs
  /\ seq' = seq + 1
  /\ LET q == Append(queue, [match |-> match, seq |-> seq + 1])
     IN  \/ /\ waiter = None
            /\ FlushInputQueue(q, key)
         \/ /\ waiter # None
            /\ queue' = q
            /\ UNCHANGED <<flush, wire>>
  /\ UNCHANGED <<deployment, clientVars, key, handshakeVars, channelVars>>

\* Mutant: the sealed input is not shifted.
NotShifted(q) == q

\* inputQueue.shift()
Shifted(q) == IF q = <<>> THEN <<>> ELSE Tail(q)

\* The cipher has sealed the head: the session that was current when it was read
\* takes the frame, the queue is shifted whatever its head is by now, and the loop
\* goes on with the current session and key; in the clear it runs to its end.
SealedSent ==
  /\ flush # NoFlush
  /\ flush.on \in live
  /\ LET rest == Shifted(queue)
         w    == [wire EXCEPT ![flush.on] =
                    Append(@, [input |-> flush.input, key |-> flush.key])]
     IN  \/ /\ key = Clear
            /\ PlainFlush(rest, w)
            /\ flush' = NoFlush
         \/ /\ key # Clear
            /\ SealNext(rest, key)
            /\ wire' = w
  /\ UNCHANGED <<deployment, clientVars, key, seq, handshakeVars, channelVars>>

\* The session was closed meanwhile: its send answers false, the input stays.
SealedRefused ==
  /\ flush # NoFlush
  /\ flush.on \notin live
  /\ flush' = NoFlush
  /\ UNCHANGED <<deployment, clientVars, key, seq, queue, wire, handshakeVars, channelVars>>

-----------------------------------------------------------------------------
(* The connection *)

\* Mutant: a client that has a key keeps it.
KeepKey(m) == IF key # Clear THEN key
              ELSE IF deployment = "lobby" THEN [kind |-> "lobby", of |-> m] ELSE Clear

\* The key a session starts with: the lobby's, or none until a handshake.
InitialKey(m) == IF deployment = "lobby" THEN [kind |-> "lobby", of |-> m] ELSE Clear

\* Mutant: a running client connects again.
AlwaysConnect == TRUE

\* connect may open a session: not while one is running.
MayConnect == state # "running"

\* connect: the previous session is neither closed nor is the queue cleared.
Connect(m) ==
  /\ MayConnect
  /\ match' = m
  /\ key' = InitialKey(m)
  /\ \/ /\ Len(opened) < MaxSessions
        /\ state' = "running"
        /\ opened' = Append(opened, m)
        /\ session' = Len(opened')
        /\ live' = live \cup {session'}
     \/ /\ state' = "failed"
        /\ UNCHANGED <<session, opened, live>>
  /\ UNCHANGED <<deployment, seq, queueVars, handshakeVars, opening, ended>>

\* close
Close ==
  /\ waiter' = None
  /\ live' = live \ {session}
  /\ session' = None
  /\ state' = IF state = "failed" THEN "failed" ELSE "closed"
  /\ UNCHANGED <<deployment, match, key, seq, queueVars, random, handshake, opening, opened,
                 ended>>

\* The datagram channel of s closes: its KcpSession closes, and the client is
\* not told.
ChannelCloses(s) ==
  /\ s \in live
  /\ live' = live \ {s}
  /\ UNCHANGED <<deployment, clientVars, key, seq, queueVars, handshakeVars, opening, opened,
                 ended>>

\* The result frame arrives on s.  It is not asked which session it is from.  A
\* server that has answered a handshake may seal it: a client without a key, or
\* with the key of another call, drops it.
Result(s) ==
  /\ s \in live \ ended
  /\ ended' = ended \cup {s}
  /\ \/ /\ key.kind # "handshake"
        /\ state' = "finished"
        /\ UNCHANGED opening
     \/ /\ key.kind = "handshake"
        /\ handshake[key.of].on = s
        /\ opening' = opening \cup {s}
        /\ UNCHANGED state
     \/ /\ deployment = "handshake"
        /\ UNCHANGED <<state, opening>>
  /\ UNCHANGED <<deployment, match, session, key, seq, queueVars, handshakeVars, opened, live>>

\* A sealed result has been opened.
ResultOpened(s) ==
  /\ s \in opening
  /\ opening' = opening \ {s}
  /\ state' = "finished"
  /\ UNCHANGED <<deployment, match, session, key, seq, queueVars, handshakeVars, opened, live,
                 ended>>

-----------------------------------------------------------------------------
(* The handshake *)

\* performHandshake, up to the generation of its key pair.
PerformHandshake(h) ==
  /\ deployment = "handshake"
  /\ session # None
  /\ key = Clear
  /\ waiter = None
  /\ \A g \in Handshakes : handshake[g].stage # "keys"
  /\ handshake[h].stage = "unused"
  /\ \A g \in 1 .. h - 1 : handshake[g].stage # "unused"
  /\ handshake' = [handshake EXCEPT ![h].stage = "keys"]
  /\ UNCHANGED <<deployment, clientVars, key, seq, queueVars, random, waiter, channelVars>>

\* The key pair is there: the hello goes out on the session current by now, and the
\* call waits; with no session it throws.
SendHello(h) ==
  /\ handshake[h].stage = "keys"
  /\ random' = h
  /\ \/ /\ session # None
        /\ handshake' = [handshake EXCEPT ![h].stage = "sent", ![h].on = session]
        /\ waiter' = h
     \/ /\ session = None
        /\ handshake' = [handshake EXCEPT ![h].stage = "over"]
        /\ UNCHANGED waiter
  /\ UNCHANGED <<deployment, clientVars, key, seq, queueVars, channelVars>>

\* The server's accept arrives, in time or not.
Accept(h) ==
  /\ handshake[h].stage = "sent"
  /\ handshake[h].on \in live
  /\ handshake' = [handshake EXCEPT ![h].stage = "deriving", ![h].random = random]
  /\ UNCHANGED <<deployment, clientVars, key, seq, queueVars, random, waiter, channelVars>>

\* The session key is derived and the accept selects ChaCha20-Poly1305: the key
\* replaces whatever key there is, and the queue goes out.
Derived(h) ==
  /\ handshake[h].stage = "deriving"
  /\ handshake' = [handshake EXCEPT ![h].stage = "encrypted"]
  /\ key' = [kind |-> "handshake", of |-> h, random |-> handshake[h].random]
  /\ waiter' = None
  /\ FlushInputQueue(queue, key')
  /\ UNCHANGED <<deployment, clientVars, seq, random, channelVars>>

\* The accept selects another suite, the development plaintext or the XChaCha20 that
\* the hello offers: the plaintext cipher replaces whatever key there is, and the
\* queue goes out in the clear, although an input may be being sealed.
PlaintextSelected(h) ==
  /\ handshake[h].stage = "deriving"
  /\ handshake' = [handshake EXCEPT ![h].stage = "plaintext"]
  /\ key' = Clear
  /\ waiter' = None
  /\ FlushInputQueue(queue, Clear)
  /\ UNCHANGED <<deployment, clientVars, seq, random, channelVars>>

\* Mutant: a failed handshake falls back to plaintext.
FallBackToClear(h) ==
  /\ handshake[h].stage = "deriving"
  /\ handshake' = [handshake EXCEPT ![h].stage = "over"]
  /\ key' = Clear
  /\ waiter' = None
  /\ UNCHANGED <<deployment, clientVars, seq, queueVars, random, channelVars>>

\* The derivation fails, or the platform has no cipher for the key.
NotDerived(h) ==
  /\ handshake[h].stage = "deriving"
  /\ handshake' = [handshake EXCEPT ![h].stage = "over"]
  /\ waiter' = None
  /\ UNCHANGED <<deployment, clientVars, key, seq, queueVars, random, channelVars>>

\* The wait times out; an accept may still come.
HandshakeTimeout ==
  /\ waiter # None
  /\ waiter' = None
  /\ UNCHANGED <<deployment, clientVars, key, seq, queueVars, random, handshake, channelVars>>

Next ==
  \/ \E m \in Matches : Connect(m)
  \/ SendInput
  \/ SealedSent
  \/ SealedRefused
  \/ Close
  \/ \E s \in Sessions : ChannelCloses(s) \/ Result(s) \/ ResultOpened(s)
  \/ \E h \in Handshakes :
       \/ PerformHandshake(h) \/ SendHello(h) \/ Accept(h)
       \/ Derived(h) \/ PlaintextSelected(h) \/ NotDerived(h)
  \/ HandshakeTimeout

Spec == Init /\ [][Next]_vars
=============================================================================
