----------------------- MODULE BattleClientProperties -----------------------
(***************************************************************************)
(* What the battle client guarantees about inputs, keys and results, and a *)
(* statement of the code's comments that it does not keep.                 *)
(***************************************************************************)
EXTENDS BattleClient

\* Every variable stays in its set, and the client only uses sessions it opened.
TypeOK ==
  /\ deployment \in Deployments
  /\ state \in {"idle", "running", "finished", "closed", "failed"}
  /\ match \in Matches \cup {None}
  /\ session \in 0 .. Len(opened)
  /\ key \in Key \cup {Clear}
  /\ seq \in Nat
  /\ queue \in Seq(Input)
  /\ flush \in Flushing \cup {NoFlush}
  /\ random \in Handshakes \cup {None}
  /\ handshake \in [Handshakes -> Call]
  /\ waiter \in Handshakes \cup {None}
  /\ opened \in Seq(Matches) /\ Len(opened) <= MaxSessions
  /\ opening \subseteq Sessions
  /\ live \subseteq 1 .. Len(opened)
  /\ ended \subseteq Sessions
  /\ wire \in [Sessions -> Seq(Frame)]

\* The accepts installed so far agree on whether the session is encrypted.  Two that
\* disagree may have been answered to two calls, one of which timed out.
OneSuite ==
  ~ \E g, h \in Handshakes :
      handshake[g].stage = "encrypted" /\ handshake[h].stage = "plaintext"

\* A session carries each input at most once and in the order of its sequence
\* numbers, although the sealed flush awaits each input, sendInput calls it again
\* meanwhile and a reconnect or an accept changes the session and the key under it
\* ("the server rejects out-of-order seq", flushSealedQueue).  The one exception: an
\* accept that turns to plaintext (completeHandshake) lets the plain flush overtake
\* the input being sealed, so a sealed frame may come late or twice behind frames in
\* the clear; frames in the clear and sealed ones still ascend, each by themselves.
FramesInOrder ==
  \A s \in Sessions : \A i, j \in 1 .. Len(wire[s]) :
    i < j /\ (OneSuite \/ wire[s][i].key # Clear \/ wire[s][j].key = Clear) =>
      wire[s][i].input.seq < wire[s][j].input.seq

OnSomeWire(n) == \E s \in Sessions : \E i \in 1 .. Len(wire[s]) : wire[s][i].input.seq = n

\* No accepted input is lost: without a handshake each one is still queued or was
\* taken by a session, also when a session is closed while one is being sealed for
\* it, or replaced (flushPlainQueue and flushSealedQueue, the shift after a send).
NothingDropped ==
  deployment # "handshake" =>
    \A n \in 1 .. seq : OnSomeWire(n) \/ \E i \in 1 .. Len(queue) : queue[i].seq = n

\* With keys from the lobby, a frame that the current session takes while the
\* client runs is sealed, with the key of the match it was connected for, whatever
\* was being sealed when connect changed the key (connect, sealForWire).
OwnKey ==
  [][deployment = "lobby" /\ state = "running" /\ wire'[session] # wire[session] =>
       wire'[session][Len(wire'[session])].key = [kind |-> "lobby", of |-> opened[session]]]_vars

\* While the client runs, a session that has taken a sealed frame takes no frame in
\* the clear any more (flushInputQueue: one "sent in the clear after" the handshake
\* would be rejected): neither a handshake that fails or times out nor one that is
\* answered late undoes an encrypted one.  Only an accept that selects plaintext
\* after another selected encryption does (completeHandshake).
NeverClearAfterSealed ==
  state = "running" /\ session # None /\ OneSuite =>
    \A i, j \in 1 .. Len(wire[session]) :
      i < j /\ wire[session][j].key = Clear => wire[session][i].key = Clear

\* Without a handshake, a running match ends by the result of its own session: none
\* of an earlier session, which connect leaves open, ends it (handleFrame, connect).
ResultOfOwnMatch ==
  [][deployment # "handshake" /\ state = "running" /\ state' = "finished" =>
       session \in ended' \ ended]_vars

-----------------------------------------------------------------------------
(* A statement of the code's comments that the program does not keep. *)

\* "A broken or offline channel must degrade to a dropped datagram ... Drop the
\* input so the queue cannot grow without bound" (battle_client.ts:528-530): with
\* the session's channel gone, no input stays in the queue.
OfflineDropsInputs == state = "running" /\ session \notin live => queue = <<>>
=============================================================================
