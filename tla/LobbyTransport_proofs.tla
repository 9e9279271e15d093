----------------------- MODULE LobbyTransport_proofs ------------------------
(***************************************************************************)
(* Proofs about LobbyTransport.  No attempt is forgotten because           *)
(* openResolver always belongs to the current socket, whose end is still   *)
(* to be reported (AttemptCurrent); a sent call stays pending because the  *)
(* connection that closes answers all of them; and a disposed transport    *)
(* is silent because its socket is closing or closed (DisposedSocket).  On *)
(* the first connection what is pending and what the server has to answer  *)
(* are the same frames in the same order (InStep), so answers that carry no*)
(* id still find their calls.                                              *)
(***************************************************************************)
EXTENDS LobbyTransportProperties, TLAPS, SequenceTheorems

USE CallsAssumption, BoundAssumption DEF None, Sockets

-----------------------------------------------------------------------------
(* The inductive invariant *)

\* The sockets with a phase are those that were built.
Built == \A s \in Sockets : phase[s] # "none" <=> s <= made

\* An attempt in flight is that of the current socket.
AttemptCurrent ==
  resolver # None => socket = resolver /\ phase[socket] \in {"connecting", "closing"}

\* close() closes the socket, and no other is built.
DisposedSocket == disposed => phase[socket] \in {"closing", "closed"}

TInv == /\ TypeOK /\ Built /\ AttemptCurrent /\ NoWaiterForgotten
        /\ DisposedSocket /\ SentCallsAnswerable

-----------------------------------------------------------------------------
(* Sending and settling *)

LEMMA RemoveAtKeeps ==
  ASSUME NEW S, NEW q \in Seq(S), NEW i \in 1 .. Len(q)
  PROVE  /\ RemoveAt(q, i) \in Seq(S)
         /\ \A j \in 1 .. Len(q) : j # i =>
              \E k \in 1 .. Len(RemoveAt(q, i)) : RemoveAt(q, i)[k] = q[j]
<1> DEFINE l == SubSeq(q, 1, i - 1)
           r == SubSeq(q, i + 1, Len(q))
<1>1. /\ l \in Seq(S) /\ Len(l) = i - 1 /\ \A k \in 1 .. i - 1 : l[k] = q[k]
  OBVIOUS
<1>2. /\ r \in Seq(S) /\ Len(r) = Len(q) - i /\ \A k \in 1 .. Len(q) - i : r[k] = q[k + i]
  OBVIOUS
<1>3. RemoveAt(q, i) = l \o r
  BY DEF RemoveAt
<1> HIDE DEF l, r
<1>4. /\ l \o r \in Seq(S) /\ Len(l \o r) = Len(q) - 1
      /\ \A k \in 1 .. Len(q) - 1 : (l \o r)[k] = IF k <= i - 1 THEN l[k] ELSE r[k - (i - 1)]
  <2>1. /\ l \o r \in Seq(S) /\ Len(l \o r) = Len(l) + Len(r)
        /\ \A k \in 1 .. Len(l) + Len(r) : (l \o r)[k] = IF k <= Len(l) THEN l[k] ELSE r[k - Len(l)]
    BY <1>1, <1>2, ConcatProperties, ZenonT(40)
  <2>2. Len(l) + Len(r) = Len(q) - 1
    BY <1>1, <1>2
  <2> QED
    BY <1>1, <2>1, <2>2
<1>5. ASSUME NEW j \in 1 .. Len(q), j # i
      PROVE  \E k \in 1 .. Len(l \o r) : (l \o r)[k] = q[j]
  <2>1. CASE j < i
    <3>1. j \in 1 .. Len(l \o r) /\ (l \o r)[j] = q[j]
      BY <1>1, <1>4, <2>1
    <3> QED
      BY <3>1
  <2>2. CASE j > i
    <3>1. j - 1 \in 1 .. Len(l \o r) /\ j - i \in 1 .. Len(q) - i
      BY <1>4, <2>2
    <3>2. r[j - i] = q[j]
      BY <1>2, <3>1
    <3>3. (l \o r)[j - 1] = r[j - i]
      <4>1. j - 1 \in 1 .. Len(q) - 1 /\ ~(j - 1 <= i - 1) /\ (j - 1) - (i - 1) = j - i
        BY <2>2
      <4> QED
        BY <1>4, <4>1
    <3> QED
      BY <3>1, <3>2, <3>3
  <2> QED
    BY <1>5, <2>1, <2>2
<1> QED
  BY <1>3, <1>4, <1>5

LEMMA PostKeeps ==
  ASSUME TypeOK, NEW frames \in Seq(Frame), NEW p, Post(frames, p)
  PROVE  /\ pending' \in Seq(Pending)
         /\ wire' \in [Sockets -> Seq(Frame)]
         /\ p # "open" => wire' = wire
         /\ \A i \in DOMAIN pending : \E k \in DOMAIN pending' : pending'[k] = pending[i]
         /\ \A i \in DOMAIN frames :
              \E k \in DOMAIN pending' : pending'[k] = [frame |-> frames[i], on |-> socket]
<1> DEFINE f == [i \in DOMAIN frames |-> [frame |-> frames[i], on |-> socket]]
<1>1. f \in Seq(Pending) /\ Len(f) = Len(frames)
  <2>1. socket \in Sockets /\ DOMAIN frames = 1 .. Len(frames)
    BY DEF TypeOK
  <2>2. \A i \in DOMAIN frames : f[i] \in Pending
    BY <2>1 DEF Pending
  <2> HIDE DEF f
  <2>3. DOMAIN f = 1 .. Len(frames) /\ Len(frames) \in Nat
    BY <2>1 DEF f
  <2>4. f = [i \in 1 .. Len(frames) |-> f[i]]
    BY <2>3 DEF f
  <2> QED
    BY <2>1, <2>2, <2>3, <2>4
<1>2. pending \in Seq(Pending) /\ wire \in [Sockets -> Seq(Frame)] /\ socket \in Sockets
  BY DEF TypeOK
<1>3. pending' = pending \o f
  BY DEF Post
<1>4. \A i \in DOMAIN frames : f[i] = [frame |-> frames[i], on |-> socket]
  OBVIOUS
<1>5. /\ wire' \in [Sockets -> Seq(Frame)]
      /\ (p # "open" => wire' = wire)
  <2>1. wire[socket] \o frames \in Seq(Frame)
    BY <1>2
  <2> QED
    BY <1>2, <2>1 DEF Post
<1> HIDE DEF f
<1>6. /\ pending' \in Seq(Pending)
      /\ Len(pending') = Len(pending) + Len(f)
      /\ \A i \in 1 .. Len(pending) + Len(f) :
           pending'[i] = IF i <= Len(pending) THEN pending[i] ELSE f[i - Len(pending)]
  BY <1>1, <1>2, <1>3, ConcatProperties, ZenonT(40)
<1>7. ASSUME NEW i \in DOMAIN pending
      PROVE  \E k \in DOMAIN pending' : pending'[k] = pending[i]
  <2>1. i \in DOMAIN pending' /\ pending'[i] = pending[i]
    BY <1>1, <1>2, <1>6
  <2> QED
    BY <2>1
<1>8. ASSUME NEW i \in DOMAIN frames
      PROVE  \E k \in DOMAIN pending' : pending'[k] = [frame |-> frames[i], on |-> socket]
  <2> DEFINE k == Len(pending) + i
  <2>1. k \in 1 .. Len(pending) + Len(f) /\ ~(k <= Len(pending)) /\ k - Len(pending) = i
    BY <1>1, <1>2
  <2>2. k \in DOMAIN pending' /\ pending'[k] = f[i]
    BY <1>6, <2>1
  <2> QED
    BY <1>4, <2>2
<1> QED
  BY <1>5, <1>6, <1>7, <1>8

\* The pending entry of c, on a connection that has not closed.
Answerable(c) == \E i \in DOMAIN pending : /\ pending[i].frame.call = c
                                           /\ phase[pending[i].on] # "closed"

\* A received frame answers at most the calls it takes out of pending.
LEMMA ResolveKeeps ==
  ASSUME TypeOK, NEW answers,
         \/ \E i \in DOMAIN pending : Resolve(i, answers)
         \/ UNCHANGED <<pending, status>>
  PROVE  /\ pending' \in Seq(Pending)
         /\ status' \in [Calls -> Status]
         /\ \A c \in Calls : status'[c] = "sent" =>
              /\ status[c] = "sent"
              /\ \A j \in DOMAIN pending : pending[j].frame.call = c =>
                   \E k \in DOMAIN pending' : pending'[k] = pending[j]
<1> pending \in Seq(Pending) /\ status \in [Calls -> Status]
  BY DEF TypeOK
<1>1. ASSUME NEW i \in DOMAIN pending, Resolve(i, answers)
      PROVE  /\ pending' \in Seq(Pending)
             /\ status' \in [Calls -> Status]
             /\ \A c \in Calls : status'[c] = "sent" =>
                  /\ status[c] = "sent"
                  /\ \A j \in DOMAIN pending : pending[j].frame.call = c =>
                       \E k \in DOMAIN pending' : pending'[k] = pending[j]
  <2> DEFINE d == pending[i].frame.call
  <2>1. pending' = RemoveAt(pending, i)
    BY <1>1 DEF Resolve
  <2>2. i \in 1 .. Len(pending)
    OBVIOUS
  <2>3. /\ pending' \in Seq(Pending)
        /\ \A j \in DOMAIN pending : j # i =>
             \E k \in DOMAIN pending' : pending'[k] = pending[j]
    <3>1. /\ pending' \in Seq(Pending)
          /\ \A j \in 1 .. Len(pending) : j # i =>
               \E k \in 1 .. Len(pending') : pending'[k] = pending[j]
      BY <2>1, <2>2, RemoveAtKeeps
    <3> QED
      BY <3>1
  <2>4. status' = IF d \in Calls /\ status[d] = "sent"
                    THEN [status EXCEPT ![d] = IF d = answers THEN "answered" ELSE "mistaken"]
                    ELSE status
    BY <1>1 DEF Resolve
  <2> HIDE DEF d
  <2>5. status' \in [Calls -> Status]
    BY <2>4 DEF Status
  <2>6. ASSUME NEW c \in Calls, status'[c] = "sent" PROVE status[c] = "sent" /\ c # d
    BY <2>4, <2>6
  <2>7. ASSUME NEW c \in Calls, status'[c] = "sent",
               NEW j \in DOMAIN pending, pending[j].frame.call = c
        PROVE  \E k \in DOMAIN pending' : pending'[k] = pending[j]
    <3>1. j # i
      BY <2>6, <2>7 DEF d
    <3> QED
      BY <2>3, <3>1
  <2> QED
    BY <2>3, <2>5, <2>6, <2>7
<1>2. CASE UNCHANGED <<pending, status>>
  BY <1>2
<1> QED
  BY <1>1, <1>2

\* Whoever settles the attempt in flight leaves nobody waiting.
LEMMA WokenAll ==
  ASSUME TInv
  PROVE  /\ Woken \in Seq(Frame)
         /\ Asleep = [s \in Sockets |-> <<>>]
         /\ Woken # <<>> => resolver # None
<1>1. waiting \in [Sockets -> Seq(Frame)] /\ (resolver = None \/ resolver \in Sockets)
  BY DEF TInv, TypeOK
<1>2. Woken \in Seq(Frame)
  <2>1. <<>> \in Seq(Frame)
    OBVIOUS
  <2> QED
    BY <1>1, <2>1 DEF Woken
<1>3. ASSUME NEW s \in Sockets, s # resolver PROVE waiting[s] = <<>>
  BY <1>3 DEF TInv, NoWaiterForgotten
<1>4. Asleep = [s \in Sockets |-> <<>>]
  BY <1>3 DEF Asleep
<1> QED
  BY <1>2, <1>4 DEF Woken

LEMMA BecomesType ==
  ASSUME NEW st \in [Calls -> Status], NEW cs, NEW to \in Status
  PROVE  /\ Becomes(st, cs, to) \in [Calls -> Status]
         /\ \A c \in Calls : Becomes(st, cs, to)[c] = IF c \in cs THEN to ELSE st[c]
  BY DEF Becomes

\* No one waits and no attempt is in flight.
LEMMA NoneWaits ==
  ASSUME waiting' = [s \in Sockets |-> <<>>], resolver' = None
  PROVE  NoWaiterForgotten' /\ AttemptCurrent'
  BY DEF NoWaiterForgotten, AttemptCurrent

\* openResolver(false), whatever becomes of the other calls.
LEMMA FailWaitersKeeps ==
  ASSUME TInv, NEW st \in [Calls -> Status], FailWaiters(st)
  PROVE  /\ waiting' = [s \in Sockets |-> <<>>] /\ resolver' = None
         /\ status' \in [Calls -> Status]
         /\ \A c \in Calls : status'[c] = "sent" => st[c] = "sent"
<1>1. "failed" \in Status
  BY DEF Status
<1>2. status' = Becomes(st, WokenCalls, "failed")
  BY DEF FailWaiters
<1>3. status' \in [Calls -> Status]
      /\ \A c \in Calls : status'[c] = IF c \in WokenCalls THEN "failed" ELSE st[c]
  BY <1>1, <1>2, BecomesType
<1> QED
  BY <1>3, WokenAll DEF FailWaiters

LEMMA ClosedByUsKeeps ==
  ASSUME TInv
  PROVE  LET p == [phase EXCEPT ![socket] = ClosedByUs(socket)] IN
         /\ p \in [Sockets -> {"none", "connecting", "open", "failing", "closing", "closed"}]
         /\ \A s \in Sockets : /\ (phase[s] # "none" <=> p[s] # "none")
                               /\ (phase[s] # "closed" => p[s] # "closed")
         /\ p[socket] \in {"closing", "closed"}
         /\ phase[socket] \in {"connecting", "closing"} => p[socket] = "closing"
<1> DEFINE p == [phase EXCEPT ![socket] = ClosedByUs(socket)]
           P == {"none", "connecting", "open", "failing", "closing", "closed"}
<1>1. /\ phase \in [Sockets -> P] /\ socket \in Sockets /\ phase[socket] # "none"
  BY DEF TInv, TypeOK, Built
<1>2. p[socket] = ClosedByUs(socket) /\ \A s \in Sockets : s # socket => p[s] = phase[s]
  BY <1>1
<1>3. /\ ClosedByUs(socket) \in {"closing", "closed"}
      /\ (phase[socket] # "closed" => ClosedByUs(socket) = "closing")
  BY <1>1 DEF ClosedByUs
<1>4. p \in [Sockets -> P]
  BY <1>1, <1>3
<1> HIDE DEF p
<1> QED
  BY <1>1, <1>2, <1>3, <1>4 DEF p

-----------------------------------------------------------------------------
(* The application's calls *)

LEMMA CallStep ==
  ASSUME TInv, NEW f \in Frame, f.call \in Calls, CallOf(f)
  PROVE  TInv'
<1> USE DEF TInv
<1>0. UNCHANGED <<closed, disposed, token, serverVars, boundVars>>
  BY DEF CallOf
<1>1. CASE /\ disposed
           /\ status' = [status EXCEPT ![f.call] = "failed"]
           /\ UNCHANGED <<made, socket, phase, resolver, waiting, pending, wire>>
  <2>1. status' \in [Calls -> Status]
    BY <1>1 DEF TypeOK, Status
  <2>2. TypeOK'
    BY <1>0, <1>1, <2>1 DEF TypeOK, serverVars, boundVars
  <2>3. \A c \in Calls : status'[c] = "sent" => status[c] = "sent"
    BY <1>1 DEF TypeOK
  <2>4. SentCallsAnswerable'
    BY <1>1, <2>3 DEF SentCallsAnswerable
  <2>5. Built' /\ AttemptCurrent' /\ NoWaiterForgotten' /\ DisposedSocket'
    BY <1>0, <1>1 DEF Built, AttemptCurrent, NoWaiterForgotten, DisposedSocket
  <2> QED
    BY <2>2, <2>4, <2>5
<1>2. CASE /\ ~disposed
           /\ Reconnect(f)
           /\ UNCHANGED <<pending, wire>>
  <2>1. CASE /\ resolver # None
             /\ waiting' = [waiting EXCEPT ![resolver] = Append(@, f)]
             /\ status' = [status EXCEPT ![f.call] = "waiting"]
             /\ UNCHANGED <<made, socket, phase, resolver>>
    <3>1. status' \in [Calls -> Status]
      BY <2>1 DEF TypeOK, Status
    <3>2. waiting' \in [Sockets -> Seq(Frame)]
          /\ \A s \in Sockets : s # resolver => waiting'[s] = waiting[s]
      <4>1. waiting \in [Sockets -> Seq(Frame)] /\ resolver \in Sockets
        BY <2>1 DEF TypeOK
      <4>2. Append(waiting[resolver], f) \in Seq(Frame)
        BY <4>1
      <4> QED
        BY <2>1, <4>1, <4>2
    <3>3. TypeOK'
      BY <1>0, <1>2, <2>1, <3>1, <3>2 DEF TypeOK, serverVars, boundVars
    <3>4. NoWaiterForgotten' /\ AttemptCurrent'
      BY <2>1, <3>2 DEF NoWaiterForgotten, AttemptCurrent
    <3>5. \A c \in Calls : status'[c] = "sent" => status[c] = "sent"
      BY <2>1 DEF TypeOK
    <3>6. SentCallsAnswerable'
      BY <1>2, <2>1, <3>5 DEF SentCallsAnswerable
    <3>7. Built' /\ DisposedSocket'
      BY <1>0, <2>1 DEF Built, DisposedSocket
    <3> QED
      BY <3>3, <3>4, <3>6, <3>7
  <2>2. CASE /\ resolver = None
             /\ made < MaxSockets
             /\ made' = made + 1
             /\ socket' = made'
             /\ phase' = [phase EXCEPT ![made'] = "connecting"]
             /\ resolver' = made'
             /\ waiting' = [waiting EXCEPT ![made'] = Append(@, f)]
             /\ status' = [status EXCEPT ![f.call] = "waiting"]
    <3>1. status' \in [Calls -> Status]
      BY <2>2 DEF TypeOK, Status
    <3>2. made' \in Sockets /\ made' \in 1 .. made' /\ made' # None
      BY <2>2 DEF TypeOK
    <3>3. waiting' \in [Sockets -> Seq(Frame)]
          /\ \A s \in Sockets : s # made' => waiting'[s] = waiting[s]
      <4>1. waiting \in [Sockets -> Seq(Frame)]
        BY DEF TypeOK
      <4>2. Append(waiting[made'], f) \in Seq(Frame)
        BY <3>2, <4>1
      <4> QED
        BY <2>2, <3>2, <4>1, <4>2
    <3>4. \A s \in Sockets : waiting[s] = <<>>
      BY <2>2 DEF NoWaiterForgotten
    <3>5. /\ phase' \in [Sockets -> {"none", "connecting", "open", "failing", "closing", "closed"}]
          /\ phase'[made'] = "connecting"
          /\ \A s \in Sockets : s # made' => phase'[s] = phase[s]
      BY <2>2, <3>2 DEF TypeOK
    <3>6. TypeOK'
      <4>1. bound' \in 0 .. made' /\ resolver' \in 0 .. made' /\ socket' \in 1 .. made'
        BY <1>0, <2>2, <3>2 DEF TypeOK, serverVars
      <4> QED
        BY <1>0, <1>2, <3>1, <3>2, <3>3, <3>5, <4>1 DEF TypeOK, serverVars, boundVars
    <3>7. NoWaiterForgotten' /\ AttemptCurrent'
      BY <2>2, <3>3, <3>4, <3>5 DEF NoWaiterForgotten, AttemptCurrent
    <3>8. ASSUME NEW c \in Calls, status'[c] = "sent"
          PROVE  Answerable(c)'
      <4>1. status[c] = "sent"
        BY <2>2, <3>8 DEF TypeOK
      <4>2. PICK i \in DOMAIN pending : /\ pending[i].frame.call = c
                                        /\ phase[pending[i].on] # "closed"
        BY <4>1 DEF SentCallsAnswerable
      <4>3. pending[i].on \in Sockets
        <5>1. pending \in Seq(Pending)
          BY DEF TypeOK
        <5>2. pending[i] \in Pending
          BY <5>1
        <5> QED
          BY <5>2 DEF Pending
      <4> QED
        BY <1>2, <3>5, <4>2, <4>3 DEF Answerable
    <3>9. SentCallsAnswerable'
      BY <3>8 DEF SentCallsAnswerable, Answerable
    <3>10. Built' /\ DisposedSocket'
      <4>1. \A s \in Sockets : s <= made' <=> s = made' \/ s <= made
        BY <2>2 DEF TypeOK
      <4> QED
        BY <1>0, <1>2, <3>5, <4>1 DEF Built, DisposedSocket, TypeOK
    <3> QED
      BY <3>6, <3>7, <3>9, <3>10
  <2>3. CASE /\ status' = [status EXCEPT ![f.call] = "failed"]
             /\ UNCHANGED <<made, socket, phase, resolver, waiting>>
    <3>1. status' \in [Calls -> Status]
      BY <2>3 DEF TypeOK, Status
    <3>2. TypeOK'
      BY <1>0, <1>2, <2>3, <3>1 DEF TypeOK, serverVars, boundVars
    <3>3. \A c \in Calls : status'[c] = "sent" => status[c] = "sent"
      BY <2>3 DEF TypeOK
    <3>4. SentCallsAnswerable'
      BY <1>2, <2>3, <3>3 DEF SentCallsAnswerable
    <3>5. Built' /\ AttemptCurrent' /\ NoWaiterForgotten' /\ DisposedSocket'
      BY <1>0, <2>3 DEF Built, AttemptCurrent, NoWaiterForgotten, DisposedSocket
    <3> QED
      BY <3>2, <3>4, <3>5
  <2> QED
    BY <1>2, <2>1, <2>2, <2>3 DEF Reconnect
<1>3. CASE /\ Connected(socket)
           /\ Post(<<f>>, "open")
           /\ status' = [status EXCEPT ![f.call] = "sent"]
           /\ UNCHANGED <<made, socket, phase, resolver, waiting>>
  <2>1. /\ <<f>> \in Seq(Frame) /\ 1 \in DOMAIN <<f>> /\ <<f>>[1] = f
    OBVIOUS
  <2>2. /\ pending' \in Seq(Pending)
        /\ wire' \in [Sockets -> Seq(Frame)]
        /\ \A i \in DOMAIN pending : \E k \in DOMAIN pending' : pending'[k] = pending[i]
        /\ \E k \in DOMAIN pending' : pending'[k] = [frame |-> f, on |-> socket]
    <3>1. \A i \in DOMAIN <<f>> :
            \E k \in DOMAIN pending' : pending'[k] = [frame |-> <<f>>[i], on |-> socket]
      BY <1>3, <2>1, PostKeeps
    <3> QED
      BY <1>3, <2>1, <3>1, PostKeeps
  <2>3. status' \in [Calls -> Status]
    BY <1>3 DEF TypeOK, Status
  <2>4. TypeOK'
    BY <1>0, <1>3, <2>2, <2>3 DEF TypeOK, serverVars, boundVars
  <2>5. ASSUME NEW c \in Calls, status'[c] = "sent" PROVE Answerable(c)'
    <3>1. CASE c = f.call
      <4>1. PICK k \in DOMAIN pending' : pending'[k] = [frame |-> f, on |-> socket]
        BY <2>2
      <4> QED
        BY <1>3, <3>1, <4>1 DEF Answerable, Connected
    <3>2. CASE c # f.call
      <4>1. status[c] = "sent"
        BY <1>3, <2>5, <3>2 DEF TypeOK
      <4>2. PICK i \in DOMAIN pending : /\ pending[i].frame.call = c
                                        /\ phase[pending[i].on] # "closed"
        BY <4>1 DEF SentCallsAnswerable
      <4>3. PICK k \in DOMAIN pending' : pending'[k] = pending[i]
        BY <2>2
      <4> QED
        BY <1>3, <4>2, <4>3 DEF Answerable
    <3> QED
      BY <3>1, <3>2
  <2>6. SentCallsAnswerable'
    BY <2>5 DEF SentCallsAnswerable, Answerable
  <2>7. Built' /\ AttemptCurrent' /\ NoWaiterForgotten' /\ DisposedSocket'
    BY <1>0, <1>3 DEF Built, AttemptCurrent, NoWaiterForgotten, DisposedSocket
  <2> QED
    BY <2>4, <2>6, <2>7
<1> QED
  BY <1>1, <1>2, <1>3 DEF CallOf

LEMMA DisposeStep ==
  ASSUME TInv, Dispose
  PROVE  TInv'
<1> USE DEF TInv
<1>1. /\ disposed' = TRUE /\ closed' = TRUE
      /\ phase' = [phase EXCEPT ![socket] = ClosedByUs(socket)]
      /\ status' = Becomes(status, SentCalls, "failed")
      /\ pending' = <<>>
      /\ UNCHANGED <<socket, made, token, resolver, waiting, serverVars, boundVars>>
  BY DEF Dispose
<1>2. status' \in [Calls -> Status] /\ \A c \in Calls : status'[c] # "sent"
  <2>1. "failed" \in Status /\ status \in [Calls -> Status]
    BY DEF Status, TypeOK
  <2>2. \A c \in Calls : status[c] = "sent" => c \in SentCalls
    BY DEF SentCalls
  <2> QED
    BY <1>1, <2>1, <2>2, BecomesType
<1>3. wire' \in [Sockets -> Seq(Frame)]
  BY DEF Dispose, TypeOK
<1>4. <<>> \in Seq(Pending)
  OBVIOUS
<1>5. TypeOK'
  BY <1>1, <1>2, <1>3, <1>4, ClosedByUsKeeps DEF TypeOK, serverVars, boundVars
<1>6. SentCallsAnswerable'
  BY <1>2 DEF SentCallsAnswerable
<1>7. Built' /\ DisposedSocket'
  BY <1>1, ClosedByUsKeeps DEF Built, DisposedSocket, TypeOK
<1>8. AttemptCurrent' /\ NoWaiterForgotten'
  BY <1>1, ClosedByUsKeeps DEF AttemptCurrent, NoWaiterForgotten
<1> QED
  BY <1>5, <1>6, <1>7, <1>8

LEMMA SetTokenStep ==
  ASSUME TInv, SetToken
  PROVE  TInv'
<1> USE DEF TInv
<1>1. /\ token' = TRUE /\ tokens' = tokens + 1
      /\ UNCHANGED <<socket, made, closed, disposed, resolver, phase, waiting, status,
                     serverVars, pushes>>
  BY DEF SetToken
<1>2. /\ pending' \in Seq(Pending) /\ wire' \in [Sockets -> Seq(Frame)]
      /\ \A i \in DOMAIN pending : \E k \in DOMAIN pending' : pending'[k] = pending[i]
  <2>1. <<AuthFrame>> \in Seq(Frame)
    BY DEF AuthFrame, Frame, Types
  <2>2. CASE Post(<<AuthFrame>>, "open")
    BY <2>1, <2>2, PostKeeps
  <2>3. CASE UNCHANGED <<pending, wire>>
    BY <2>3 DEF TypeOK
  <2> QED
    BY <2>2, <2>3 DEF SetToken
<1>3. TypeOK'
  BY <1>1, <1>2 DEF TypeOK, serverVars
<1>4. ASSUME NEW c \in Calls, status'[c] = "sent" PROVE Answerable(c)'
  <2>1. PICK i \in DOMAIN pending : /\ pending[i].frame.call = c
                                    /\ phase[pending[i].on] # "closed"
    BY <1>1, <1>4 DEF SentCallsAnswerable
  <2>2. PICK k \in DOMAIN pending' : pending'[k] = pending[i]
    BY <1>2
  <2> QED
    BY <1>1, <2>1, <2>2 DEF Answerable
<1>5. SentCallsAnswerable'
  BY <1>4 DEF SentCallsAnswerable, Answerable
<1>6. Built' /\ AttemptCurrent' /\ NoWaiterForgotten' /\ DisposedSocket'
  BY <1>1 DEF Built, AttemptCurrent, NoWaiterForgotten, DisposedSocket
<1> QED
  BY <1>3, <1>5, <1>6

\* A phase that only moves on, and not to closed, keeps the sent calls answerable.
LEMMA PhaseKeepsAnswerable ==
  ASSUME TInv, UNCHANGED <<pending, status>>,
         \A s \in Sockets : phase[s] # "closed" => phase'[s] # "closed"
  PROVE  SentCallsAnswerable'
<1> USE DEF TInv
<1>1. ASSUME NEW c \in Calls, status'[c] = "sent" PROVE Answerable(c)'
  <2>1. PICK i \in DOMAIN pending : /\ pending[i].frame.call = c
                                    /\ phase[pending[i].on] # "closed"
    BY <1>1 DEF SentCallsAnswerable
  <2>2. pending[i].on \in Sockets
    <3>1. pending \in Seq(Pending)
      BY DEF TypeOK
    <3>2. pending[i] \in Pending
      BY <3>1
    <3> QED
      BY <3>2 DEF Pending
  <2> QED
    BY <2>1, <2>2 DEF Answerable
<1> QED
  BY <1>1 DEF SentCallsAnswerable, Answerable

LEMMA ClearTokenStep ==
  ASSUME TInv, ClearToken
  PROVE  TInv'
<1> USE DEF TInv
<1>1. /\ token' = FALSE
      /\ UNCHANGED <<socket, made, disposed, resolver, waiting, pending, status,
                     serverVars, boundVars>>
  BY DEF ClearToken
<1>2. CASE disposed /\ UNCHANGED <<closed, phase, wire>>
  <2>1. TypeOK'
    BY <1>1, <1>2 DEF TypeOK, serverVars, boundVars
  <2>2. Built' /\ AttemptCurrent' /\ NoWaiterForgotten' /\ DisposedSocket' /\ SentCallsAnswerable'
    BY <1>1, <1>2 DEF Built, AttemptCurrent, NoWaiterForgotten, DisposedSocket,
                      SentCallsAnswerable
  <2> QED
    BY <2>1, <2>2
<1>3. CASE /\ ~disposed /\ closed' = TRUE
           /\ phase' = [phase EXCEPT ![socket] = ClosedByUs(socket)]
           /\ wire' = [wire EXCEPT ![socket] = <<>>]
  <2>1. wire' \in [Sockets -> Seq(Frame)]
    BY <1>3 DEF TypeOK
  <2>2. TypeOK'
    BY <1>1, <1>3, <2>1, ClosedByUsKeeps DEF TypeOK, serverVars, boundVars
  <2>3. Built' /\ DisposedSocket'
    BY <1>1, <1>3, ClosedByUsKeeps DEF Built, DisposedSocket, TypeOK
  <2>4. AttemptCurrent' /\ NoWaiterForgotten'
    BY <1>1, <1>3, ClosedByUsKeeps DEF AttemptCurrent, NoWaiterForgotten
  <2>5. SentCallsAnswerable'
    BY <1>1, <1>3, ClosedByUsKeeps, PhaseKeepsAnswerable
  <2> QED
    BY <2>2, <2>3, <2>4, <2>5
<1> QED
  BY <1>2, <1>3 DEF ClearToken

-----------------------------------------------------------------------------
(* The sockets *)

LEMMA OpenStep ==
  ASSUME TInv, NEW s \in Sockets, Open(s)
  PROVE  TInv'
<1> USE DEF TInv
<1> DEFINE auth == IF token /\ ~disposed THEN <<AuthFrame>> ELSE <<>>
           frames == auth \o Woken
           to == IF SendThrows(phase'[socket]) THEN "threw" ELSE "sent"
<1>1. /\ phase[s] = "connecting" /\ phase' = [phase EXCEPT ![s] = "open"]
      /\ closed' = (closed /\ disposed)
      /\ resolver' = None /\ waiting' = Asleep
      /\ Post(frames, phase'[socket])
      /\ status' = Becomes(status, WokenCalls, to)
      /\ UNCHANGED <<socket, made, disposed, token, serverVars, boundVars>>
  BY DEF Open
<1>2. frames \in Seq(Frame) /\ auth \in Seq(Frame)
  <2>1. auth \in Seq(Frame)
    <3>1. AuthFrame \in Frame
      BY DEF AuthFrame, Frame, Types
    <3>2. <<AuthFrame>> \in Seq(Frame) /\ <<>> \in Seq(Frame)
      BY <3>1
    <3> QED
      BY <3>2
  <2> QED
    BY <2>1, WokenAll
<1>3. \A i \in DOMAIN Woken : \E j \in DOMAIN frames : frames[j] = Woken[i]
  <2> SUFFICES ASSUME NEW i \in DOMAIN Woken
               PROVE  \E j \in DOMAIN frames : frames[j] = Woken[i]
    OBVIOUS
  <2>1. Woken \in Seq(Frame)
    BY WokenAll
  <2> DEFINE j == Len(auth) + i
  <2> HIDE DEF auth
  <2>2. /\ j \in 1 .. Len(auth) + Len(Woken) /\ ~(j <= Len(auth)) /\ j - Len(auth) = i
    BY <1>2, <2>1
  <2>3. j \in DOMAIN frames /\ frames[j] = Woken[i]
    BY <1>2, <2>1, <2>2, ConcatProperties
  <2> QED
    BY <2>3
<1> HIDE DEF frames, auth, to
<1>4. /\ pending' \in Seq(Pending) /\ wire' \in [Sockets -> Seq(Frame)]
      /\ \A i \in DOMAIN pending : \E k \in DOMAIN pending' : pending'[k] = pending[i]
      /\ \A i \in DOMAIN frames :
           \E k \in DOMAIN pending' : pending'[k] = [frame |-> frames[i], on |-> socket]
  BY <1>1, <1>2, PostKeeps
<1>5. /\ phase' \in [Sockets -> {"none", "connecting", "open", "failing", "closing", "closed"}]
      /\ phase'[s] = "open" /\ \A t \in Sockets : t # s => phase'[t] = phase[t]
  BY <1>1 DEF TypeOK
<1>6. to \in {"threw", "sent"} /\ to \in Status
  BY DEF to, Status
<1>7. status' \in [Calls -> Status]
      /\ \A c \in Calls : status'[c] = IF c \in WokenCalls THEN to ELSE status[c]
  <2>1. status \in [Calls -> Status]
    BY DEF TypeOK
  <2> QED
    BY <1>1, <1>6, <2>1, BecomesType
<1>8. waiting' = [t \in Sockets |-> <<>>]
  BY <1>1, WokenAll
<1>9. TypeOK'
  <2>1. closed' \in BOOLEAN
    BY <1>1
  <2>2. waiting' \in [Sockets -> Seq(Frame)]
    BY <1>8
  <2>3. resolver' \in 0 .. made'
    BY <1>1 DEF TypeOK
  <2> QED
    BY <1>1, <1>4, <1>5, <1>7, <2>1, <2>2, <2>3 DEF TypeOK, serverVars, boundVars
<1>10. ASSUME NEW c \in Calls, status'[c] = "sent" PROVE Answerable(c)'
  <2>1. CASE c \in WokenCalls
    <3>1. PICK i \in DOMAIN Woken : Woken[i].call = c
      BY <2>1 DEF WokenCalls
    <3>2. PICK j \in DOMAIN frames : frames[j] = Woken[i]
      BY <1>3
    <3>3. PICK k \in DOMAIN pending' : pending'[k] = [frame |-> frames[j], on |-> socket]
      BY <1>4
    <3>4. resolver # None
      BY <3>1, WokenAll
    <3>5. phase'[socket] # "closed"
      BY <1>5, <3>4 DEF AttemptCurrent, TypeOK
    <3> QED
      BY <3>1, <3>2, <3>3, <3>5 DEF Answerable
  <2>2. CASE c \notin WokenCalls
    <3>1. status[c] = "sent"
      BY <1>7, <1>10, <2>2
    <3>2. PICK i \in DOMAIN pending : /\ pending[i].frame.call = c
                                      /\ phase[pending[i].on] # "closed"
      BY <3>1 DEF SentCallsAnswerable
    <3>3. PICK k \in DOMAIN pending' : pending'[k] = pending[i]
      BY <1>4
    <3>4. pending[i].on \in Sockets
      <4>1. pending \in Seq(Pending)
        BY DEF TypeOK
      <4>2. pending[i] \in Pending
        BY <4>1
      <4> QED
        BY <4>2 DEF Pending
    <3>5. phase'[pending[i].on] # "closed"
      BY <1>5, <3>2, <3>4
    <3> QED
      BY <3>2, <3>3, <3>5 DEF Answerable
  <2> QED
    BY <2>1, <2>2
<1>11. SentCallsAnswerable'
  BY <1>10 DEF SentCallsAnswerable, Answerable
<1>12. Built'
  BY <1>1, <1>5 DEF Built, TypeOK
<1>13. DisposedSocket'
  BY <1>1, <1>5 DEF DisposedSocket, TypeOK
<1> QED
  BY <1>1, <1>8, <1>9, <1>11, <1>12, <1>13, NoneWaits

LEMMA SocketErrorStep ==
  ASSUME TInv, NEW s \in Sockets, SocketError(s)
  PROVE  TInv'
<1> USE DEF TInv
<1>1. /\ phase[s] \in {"connecting", "open"} /\ phase' = [phase EXCEPT ![s] = "failing"]
      /\ wire' = [wire EXCEPT ![s] = <<>>]
      /\ FailWaiters(status)
      /\ UNCHANGED <<socket, made, closed, disposed, token, pending, serverVars, boundVars>>
  BY DEF SocketError
<1>2. /\ phase' \in [Sockets -> {"none", "connecting", "open", "failing", "closing", "closed"}]
      /\ phase'[s] = "failing" /\ \A t \in Sockets : t # s => phase'[t] = phase[t]
  BY <1>1 DEF TypeOK
<1>3. /\ waiting' = [t \in Sockets |-> <<>>] /\ resolver' = None
      /\ status' \in [Calls -> Status]
      /\ \A c \in Calls : status'[c] = "sent" => status[c] = "sent"
  BY <1>1, FailWaitersKeeps DEF TypeOK
<1>4. TypeOK'
  <2>1. wire' \in [Sockets -> Seq(Frame)] /\ waiting' \in [Sockets -> Seq(Frame)]
    BY <1>1, <1>3 DEF TypeOK
  <2>2. resolver' \in 0 .. made'
    BY <1>1, <1>3 DEF TypeOK
  <2> QED
    BY <1>1, <1>2, <1>3, <2>1, <2>2 DEF TypeOK, serverVars, boundVars
<1>5. ASSUME NEW c \in Calls, status'[c] = "sent" PROVE Answerable(c)'
  <2>1. PICK i \in DOMAIN pending : /\ pending[i].frame.call = c
                                    /\ phase[pending[i].on] # "closed"
    BY <1>3, <1>5 DEF SentCallsAnswerable
  <2>2. pending[i].on \in Sockets
    <3>1. pending \in Seq(Pending)
      BY DEF TypeOK
    <3>2. pending[i] \in Pending
      BY <3>1
    <3> QED
      BY <3>2 DEF Pending
  <2> QED
    BY <1>1, <1>2, <2>1, <2>2 DEF Answerable
<1>6. SentCallsAnswerable'
  BY <1>5 DEF SentCallsAnswerable, Answerable
<1>7. Built' /\ DisposedSocket'
  BY <1>1, <1>2 DEF Built, DisposedSocket, TypeOK
<1> QED
  BY <1>3, <1>4, <1>6, <1>7, NoneWaits

LEMMA SocketCloseStep ==
  ASSUME TInv, NEW s \in Sockets, SocketClose(s)
  PROVE  TInv'
<1> USE DEF TInv
<1> DEFINE st == Becomes(status, SentCalls, "failed")
<1>1. /\ phase[s] \in {"open", "failing", "closing"} /\ phase' = [phase EXCEPT ![s] = "closed"]
      /\ wire' = [wire EXCEPT ![s] = <<>>]
      /\ closed' = TRUE
      /\ FailWaiters(st)
      /\ pending' = <<>>
      /\ bound' = IF bound = s THEN None ELSE bound
      /\ UNCHANGED <<socket, made, disposed, token, kicked, boundVars>>
  BY DEF SocketClose
<1>2. /\ phase' \in [Sockets -> {"none", "connecting", "open", "failing", "closing", "closed"}]
      /\ phase'[s] = "closed" /\ \A t \in Sockets : t # s => phase'[t] = phase[t]
  BY <1>1 DEF TypeOK
<1>3. st \in [Calls -> Status] /\ \A c \in Calls : st[c] # "sent"
  <2>1. "failed" \in Status /\ status \in [Calls -> Status]
    BY DEF Status, TypeOK
  <2>2. \A c \in Calls : status[c] = "sent" => c \in SentCalls
    BY DEF SentCalls
  <2> QED
    BY <2>1, <2>2, BecomesType
<1> HIDE DEF st
<1>4. /\ waiting' = [t \in Sockets |-> <<>>] /\ resolver' = None
      /\ status' \in [Calls -> Status]
      /\ \A c \in Calls : status'[c] # "sent"
  BY <1>1, <1>3, FailWaitersKeeps
<1>5. TypeOK'
  <2>1. wire' \in [Sockets -> Seq(Frame)] /\ waiting' \in [Sockets -> Seq(Frame)]
    BY <1>1, <1>4 DEF TypeOK
  <2>2. resolver' \in 0 .. made' /\ bound' \in 0 .. made'
    BY <1>1, <1>4 DEF TypeOK
  <2>3. <<>> \in Seq(Pending)
    OBVIOUS
  <2> QED
    BY <1>1, <1>2, <1>4, <2>1, <2>2, <2>3 DEF TypeOK, boundVars
<1>6. SentCallsAnswerable'
  BY <1>4 DEF SentCallsAnswerable
<1>7. Built' /\ DisposedSocket'
  BY <1>1, <1>2 DEF Built, DisposedSocket, TypeOK
<1> QED
  BY <1>4, <1>5, <1>6, <1>7, NoneWaits

-----------------------------------------------------------------------------
(* The server *)

\* A frame is received: what the server holds changes, and a call may be answered.
LEMMA ReceiveStep ==
  ASSUME TInv, NEW answers,
         \/ \E i \in DOMAIN pending : Resolve(i, answers)
         \/ UNCHANGED <<pending, status>>,
         UNCHANGED <<clientVars, phase, waiting, tokens>>,
         wire' \in [Sockets -> Seq(Frame)], bound' \in 0 .. made, pushes' \in Nat,
         kicked' \in [Sockets -> {"no", "queued", "delivered"}]
  PROVE  TInv'
<1> USE DEF TInv
<1>1. /\ pending' \in Seq(Pending)
      /\ status' \in [Calls -> Status]
      /\ \A c \in Calls : status'[c] = "sent" =>
           /\ status[c] = "sent"
           /\ \A j \in DOMAIN pending : pending[j].frame.call = c =>
                \E k \in DOMAIN pending' : pending'[k] = pending[j]
  BY ResolveKeeps
<1>2. TypeOK'
  BY <1>1 DEF TypeOK, clientVars
<1>3. ASSUME NEW c \in Calls, status'[c] = "sent" PROVE Answerable(c)'
  <2>1. PICK i \in DOMAIN pending : /\ pending[i].frame.call = c
                                    /\ phase[pending[i].on] # "closed"
    BY <1>1, <1>3 DEF SentCallsAnswerable
  <2>2. PICK k \in DOMAIN pending' : pending'[k] = pending[i]
    BY <1>1, <1>3, <2>1
  <2> QED
    BY <2>1, <2>2 DEF Answerable
<1>4. SentCallsAnswerable'
  BY <1>3 DEF SentCallsAnswerable, Answerable
<1>5. Built' /\ AttemptCurrent' /\ NoWaiterForgotten' /\ DisposedSocket'
  BY DEF clientVars, Built, AttemptCurrent, NoWaiterForgotten, DisposedSocket
<1> QED
  BY <1>2, <1>4, <1>5

LEMMA ResolvesSome ==
  ASSUME TypeOK, NEW answers, NEW type,
         ResolveByType(type, answers) \/ ResolveOldest(answers)
  PROVE  \/ \E i \in DOMAIN pending : Resolve(i, answers)
         \/ UNCHANGED <<pending, status>>
<1>1. CASE ResolveByType(type, answers)
  BY <1>1 DEF ResolveByType, FirstOf
<1>2. CASE ResolveOldest(answers)
  <2>1. pending \in Seq(Pending)
    BY DEF TypeOK
  <2>2. pending # <<>> => 1 \in DOMAIN pending
    BY <2>1
  <2> QED
    BY <1>2, <2>2 DEF ResolveOldest
<1> QED
  BY <1>1, <1>2

LEMMA AnswerStep ==
  ASSUME TInv, NEW s \in Sockets, Answer(s)
  PROVE  TInv'
<1> USE DEF TInv
<1> DEFINE f == Head(wire[s])
<1>1. /\ phase[s] = "open" /\ wire[s] # <<>>
      /\ wire' = [wire EXCEPT ![s] = Tail(@)]
      /\ UNCHANGED <<clientVars, phase, waiting, boundVars>>
  BY DEF Answer, Connected
<1>2. wire' \in [Sockets -> Seq(Frame)]
  <2>1. wire[s] \in Seq(Frame)
    BY DEF TypeOK
  <2>2. Tail(wire[s]) \in Seq(Frame)
    BY <1>1, <2>1
  <2> QED
    BY <1>1, <2>2 DEF TypeOK
<1>3. /\ ResolveByType(f.type, f.call) \/ ResolveOldest(f.call)
      /\ Registers(s, f) \/ UNCHANGED <<bound, kicked>>
  BY DEF Answer
<1> HIDE DEF f
<1>4. \/ \E i \in DOMAIN pending : Resolve(i, f.call)
      \/ UNCHANGED <<pending, status>>
  BY <1>3, ResolvesSome
<1>5. s \in 1 .. made
  BY <1>1 DEF Built, TypeOK
<1>6. bound' \in 0 .. made /\ kicked' \in [Sockets -> {"no", "queued", "delivered"}]
  <2>1. bound \in 0 .. made /\ kicked \in [Sockets -> {"no", "queued", "delivered"}]
    BY DEF TypeOK
  <2>2. CASE UNCHANGED <<bound, kicked>>
    BY <2>1, <2>2
  <2>3. CASE Registers(s, f)
    BY <1>5, <2>1, <2>3 DEF Registers
  <2> QED
    BY <1>3, <2>2, <2>3
<1>7. pushes' \in Nat /\ UNCHANGED <<clientVars, phase, waiting, tokens>>
  BY <1>1 DEF boundVars, TypeOK
<1> QED
  BY <1>2, <1>4, <1>6, <1>7, ReceiveStep

LEMMA RoomPushStep ==
  ASSUME TInv, NEW s \in Sockets, RoomPush(s)
  PROVE  TInv'
<1> USE DEF TInv
<1>1. /\ ResolveByType("room", None) /\ pushes' = pushes + 1
      /\ UNCHANGED <<clientVars, phase, waiting, wire, serverVars, tokens>>
  BY DEF RoomPush
<1>2. \/ \E i \in DOMAIN pending : Resolve(i, None)
      \/ UNCHANGED <<pending, status>>
  BY <1>1, ResolvesSome
<1>3. /\ wire' \in [Sockets -> Seq(Frame)] /\ bound' \in 0 .. made /\ pushes' \in Nat
      /\ kicked' \in [Sockets -> {"no", "queued", "delivered"}]
  BY <1>1 DEF TypeOK, serverVars
<1> QED
  BY <1>1, <1>2, <1>3, ReceiveStep

LEMMA ReplacedStep ==
  ASSUME TInv, NEW s \in Sockets, Replaced(s)
  PROVE  TInv'
<1> USE DEF TInv
<1>1. /\ ResolveOldest(None) /\ kicked' = [kicked EXCEPT ![s] = "delivered"]
      /\ pushes' = pushes \/ pushes' = pushes + 1
      /\ UNCHANGED <<clientVars, phase, waiting, wire, bound, tokens>>
  BY DEF Replaced
<1>2. \/ \E i \in DOMAIN pending : Resolve(i, None)
      \/ UNCHANGED <<pending, status>>
  BY <1>1, ResolvesSome
<1>3. /\ wire' \in [Sockets -> Seq(Frame)] /\ bound' \in 0 .. made /\ pushes' \in Nat
      /\ kicked' \in [Sockets -> {"no", "queued", "delivered"}]
  BY <1>1 DEF TypeOK
<1> QED
  BY <1>1, <1>2, <1>3, ReceiveStep

-----------------------------------------------------------------------------
(* Theorems *)

LEMMA Inductive == TInv /\ [Next]_vars => TInv'
<1> SUFFICES ASSUME TInv, [Next]_vars PROVE TInv'
  OBVIOUS
<1>1. CASE UNCHANGED vars
  <2>1. TypeOK'
    BY <1>1 DEF TInv, TypeOK, vars, clientVars, callVars, serverVars, boundVars
  <2>2. Built' /\ AttemptCurrent' /\ NoWaiterForgotten' /\ DisposedSocket'
    BY <1>1 DEF TInv, vars, clientVars, callVars, Built, AttemptCurrent, NoWaiterForgotten,
                DisposedSocket
  <2>3. SentCallsAnswerable'
    BY <1>1 DEF TInv, vars, callVars, SentCallsAnswerable
  <2> QED
    BY <2>1, <2>2, <2>3 DEF TInv
<1>2. ASSUME NEW c \in Calls, NEW t \in Types, CallOf([call |-> c, type |-> t]) PROVE TInv'
  <2> DEFINE f == [call |-> c, type |-> t]
  <2>1. f \in Frame /\ f.call \in Calls
    BY DEF Frame
  <2> QED
    BY <1>2, <2>1, CallStep
<1> QED
  BY <1>1, <1>2, DisposeStep, SetTokenStep, ClearTokenStep, OpenStep, SocketErrorStep,
     SocketCloseStep, AnswerStep, RoomPushStep, ReplacedStep DEF Next

LEMMA InvariantCorrect == Spec => []TInv
<1>1. Init => TInv
  <2> SUFFICES ASSUME Init PROVE TInv
    OBVIOUS
  <2>1. <<>> \in Seq(Pending) /\ <<>> \in Seq(Frame)
    OBVIOUS
  <2>2. waiting \in [Sockets -> Seq(Frame)] /\ wire \in [Sockets -> Seq(Frame)]
    BY <2>1 DEF Init
  <2>3. TypeOK
    <3>1. made = 1 /\ 1 \in Sockets /\ socket \in 1 .. made
      BY DEF Init
    <3>2. phase \in [Sockets -> {"none", "connecting", "open", "failing", "closing", "closed"}]
      BY DEF Init
    <3>3. status \in [Calls -> Status] /\ kicked \in [Sockets -> {"no", "queued", "delivered"}]
      BY DEF Init, Status
    <3>4. closed \in BOOLEAN /\ disposed \in BOOLEAN /\ token \in BOOLEAN
      BY DEF Init
    <3>5. /\ resolver \in 0 .. made /\ bound \in 0 .. made /\ pending \in Seq(Pending)
          /\ tokens \in Nat /\ pushes \in Nat
      BY <2>1, <3>1 DEF Init
    <3> QED
      BY <2>2, <3>1, <3>2, <3>3, <3>4, <3>5 DEF TypeOK
  <2>4. Built /\ AttemptCurrent /\ NoWaiterForgotten /\ DisposedSocket
    BY DEF Init, Built, AttemptCurrent, NoWaiterForgotten, DisposedSocket
  <2>5. SentCallsAnswerable
    BY DEF Init, SentCallsAnswerable
  <2> QED
    BY <2>3, <2>4, <2>5 DEF TInv
<1> QED
  BY <1>1, Inductive, PTL DEF Spec

\* Every variable keeps its type.
THEOREM TypeCorrect == Spec => []TypeOK
<1>1. TInv => TypeOK
  BY DEF TInv
<1> QED
  BY <1>1, InvariantCorrect, PTL

\* No attempt is overwritten while a call awaits it, however many calls race a drop.
THEOREM WaitersKept == Spec => []NoWaiterForgotten
<1>1. TInv => NoWaiterForgotten
  BY DEF TInv
<1> QED
  BY <1>1, InvariantCorrect, PTL

\* No sent call is lost, for any number of calls and sockets.
THEOREM CallsAnswerable == Spec => []SentCallsAnswerable
<1>1. TInv => SentCallsAnswerable
  BY DEF TInv
<1> QED
  BY <1>1, InvariantCorrect, PTL

\* A disposed transport builds no socket and sends nothing.
THEOREM DisposedSilent == Spec => DisposedIsFinal
<1> DEFINE Silent == made' = made /\ \A s \in Sockets : Len(wire'[s]) <= Len(wire[s])
<1>1. TInv /\ [Next]_vars => [disposed => Silent]_vars
  <2> SUFFICES ASSUME TInv, Next, disposed PROVE Silent
    OBVIOUS
  <2> USE DEF TInv
  <2>0. \A s \in Sockets : wire[s] \in Seq(Frame) /\ Len(wire[s]) \in Nat
    BY DEF TypeOK
  <2>1. UNCHANGED <<made, wire>> => Silent
    BY <2>0
  <2>2. ASSUME NEW s \in Sockets, made' = made, wire' = [wire EXCEPT ![s] = <<>>] PROVE Silent
    BY <2>0, <2>2 DEF TypeOK
  <2>3. ASSUME NEW c \in Calls, NEW t \in Types, CallOf([call |-> c, type |-> t]) PROVE Silent
    BY <2>1, <2>3 DEF CallOf
  <2>4. CASE Dispose
    BY <2>2, <2>4 DEF Dispose, TypeOK
  <2>5. CASE SetToken
    BY <2>1, <2>5 DEF SetToken
  <2>6. CASE ClearToken
    BY <2>1, <2>6 DEF ClearToken
  <2>7. ASSUME NEW s \in Sockets, Open(s) PROVE Silent
    <3>1. phase'[socket] # "open"
      BY <2>7 DEF Open, DisposedSocket, TypeOK
    <3> QED
      BY <2>1, <2>7, <3>1 DEF Open, Post
  <2>8. ASSUME NEW s \in Sockets, SocketError(s) PROVE Silent
    BY <2>2, <2>8 DEF SocketError
  <2>9. ASSUME NEW s \in Sockets, SocketClose(s) PROVE Silent
    BY <2>2, <2>9 DEF SocketClose
  <2>10. ASSUME NEW s \in Sockets, Answer(s) PROVE Silent
    <3>1. made' = made /\ wire[s] # <<>> /\ wire' = [wire EXCEPT ![s] = Tail(@)]
      BY <2>10 DEF Answer, clientVars
    <3>2. Len(Tail(wire[s])) <= Len(wire[s])
      BY <2>0, <3>1
    <3> QED
      BY <2>0, <3>1, <3>2 DEF TypeOK
  <2>11. ASSUME NEW s \in Sockets, RoomPush(s) \/ Replaced(s) PROVE Silent
    BY <2>1, <2>11 DEF RoomPush, Replaced, clientVars
  <2> QED
    BY <2>3, <2>4, <2>5, <2>6, <2>7, <2>8, <2>9, <2>10, <2>11 DEF Next
<1> QED
  BY <1>1, InvariantCorrect, PTL DEF Spec, DisposedIsFinal

-----------------------------------------------------------------------------
(* The quiet connection *)

\* What waits for an answer on the first connection is what the server has to answer.
InStep ==
  /\ Len(pending) = Len(wire[1])
  /\ \A i \in 1 .. Len(pending) : pending[i].frame = wire[1][i]

\* The first connection with nothing unasked: no call is answered by another's frame,
\* nothing is sent before it opens, and no other connection can replace it.
Quiet ==
  made = 1 /\ pushes = 0 =>
    /\ \A c \in Calls : status[c] # "mistaken"
    /\ phase[1] \in {"connecting", "open"} => InStep
    /\ phase[1] = "connecting" => pending = <<>>
    /\ kicked[1] # "queued"

\* Only a reconnect makes an attempt that calls await.
NoAttempt == made = 1 => resolver = None

LEMMA NoAttemptStep == TInv /\ NoAttempt /\ [Next]_vars => NoAttempt'
<1> SUFFICES ASSUME TInv, NoAttempt, [Next]_vars, made' = 1 PROVE resolver' = None
  BY DEF NoAttempt
<1>1. made' = made \/ made' = made + 1
  BY DEF Next, vars, clientVars, CallOf, Reconnect, Dispose, SetToken, ClearToken, Open,
         SocketError, SocketClose, Answer, RoomPush, Replaced
<1>2. made \in Nat \ {0} /\ made = 1 /\ resolver = None
  BY <1>1 DEF NoAttempt, TInv, TypeOK, Sockets
<1>3. resolver' = resolver \/ resolver' = None \/ made' = made + 1
  BY DEF Next, vars, clientVars, CallOf, Reconnect, Dispose, SetToken, ClearToken, Open,
         SocketError, SocketClose, Answer, RoomPush, Replaced, FailWaiters
<1> QED
  BY <1>2, <1>3

\* What the first connection is at all.
LEMMA First ==
  ASSUME TInv, made = 1
  PROVE  /\ 1 \in Sockets /\ socket = 1
         /\ \A s \in Sockets : phase[s] # "none" => s = 1
         /\ pending \in Seq(Pending) /\ wire[1] \in Seq(Frame)
         /\ status \in [Calls -> Status]
<1>1. socket = 1 /\ 1 \in Sockets
  BY DEF TInv, TypeOK
<1> QED
  BY <1>1 DEF TInv, TypeOK, Built

\* What is posted on an open connection joins both sides.
LEMMA PostInStep ==
  ASSUME TInv, made = 1, InStep, NEW frames \in Seq(Frame), Post(frames, "open")
  PROVE  InStep'
<1> DEFINE f == [i \in DOMAIN frames |-> [frame |-> frames[i], on |-> socket]]
<1>1. /\ pending \in Seq(Pending) /\ wire[1] \in Seq(Frame) /\ socket = 1 /\ 1 \in Sockets
  BY First
<1>2. f \in Seq(Pending) /\ Len(f) = Len(frames) /\ \A i \in 1 .. Len(frames) : f[i].frame = frames[i]
  <2>1. \A i \in 1 .. Len(frames) : [frame |-> frames[i], on |-> socket] \in Pending
    BY <1>1 DEF Pending
  <2>2. f = [i \in 1 .. Len(frames) |-> [frame |-> frames[i], on |-> socket]]
    OBVIOUS
  <2> HIDE DEF f
  <2> QED
    BY <2>1, <2>2
<1>3. wire'[1] = wire[1] \o frames
  BY <1>1 DEF Post, TInv, TypeOK
<1>4. pending' = pending \o f
  BY DEF Post
<1> HIDE DEF f
<1>5. /\ Len(pending') = Len(pending) + Len(frames)
      /\ \A i \in 1 .. Len(pending) + Len(frames) :
           pending'[i] = IF i <= Len(pending) THEN pending[i] ELSE f[i - Len(pending)]
  <2>1. /\ Len(pending') = Len(pending) + Len(f)
        /\ \A i \in 1 .. Len(pending) + Len(f) :
             pending'[i] = IF i <= Len(pending) THEN pending[i] ELSE f[i - Len(pending)]
    BY <1>1, <1>2, <1>4, ConcatProperties, ZenonT(40)
  <2> QED
    BY <1>2, <2>1
<1>6. /\ Len(wire'[1]) = Len(wire[1]) + Len(frames)
      /\ \A i \in 1 .. Len(wire[1]) + Len(frames) :
           wire'[1][i] = IF i <= Len(wire[1]) THEN wire[1][i] ELSE frames[i - Len(wire[1])]
  BY <1>1, <1>3, ConcatProperties
<1>7. Len(pending) = Len(wire[1]) /\ Len(pending) \in Nat /\ Len(frames) \in Nat
  BY <1>1 DEF InStep
<1>8. ASSUME NEW i \in 1 .. Len(pending) + Len(frames)
      PROVE  pending'[i].frame = wire'[1][i]
  <2>1. CASE i <= Len(pending)
    BY <1>5, <1>6, <1>7, <2>1 DEF InStep
  <2>2. CASE ~(i <= Len(pending))
    <3>1. i - Len(pending) \in 1 .. Len(frames)
      BY <1>7, <2>2
    <3> QED
      BY <1>2, <1>5, <1>6, <1>7, <2>2, <3>1
  <2> QED
    BY <2>1, <2>2
<1> QED
  BY <1>5, <1>6, <1>7, <1>8 DEF InStep

\* The head of the wire answers the call that waits longest, which is its own.
LEMMA AnswerInStep ==
  ASSUME TInv, made = 1, InStep, wire[1] # <<>>,
         \A c \in Calls : status[c] # "mistaken",
         wire' = [wire EXCEPT ![1] = Tail(@)],
         LET f == Head(wire[1]) IN ResolveByType(f.type, f.call) \/ ResolveOldest(f.call)
  PROVE  InStep' /\ \A c \in Calls : status'[c] # "mistaken"
<1> DEFINE f == Head(wire[1])
<1>1. /\ pending \in Seq(Pending) /\ wire[1] \in Seq(Frame) /\ 1 \in Sockets
      /\ status \in [Calls -> Status]
  BY First
<1>2. /\ Len(pending) = Len(wire[1]) /\ Len(pending) \in Nat /\ Len(pending) # 0
      /\ 1 \in 1 .. Len(pending) /\ pending[1].frame = f /\ pending # <<>>
  BY <1>1 DEF InStep
<1>3. Resolve(1, f.call)
  <2>1. CASE ResolveByType(f.type, f.call)
    <3>1. 1 \in FirstOf(f.type)
      BY <1>1, <1>2 DEF FirstOf
    <3>2. ASSUME NEW i \in FirstOf(f.type) PROVE i = 1
      <4>1. /\ i \in 1 .. Len(pending)
            /\ \A j \in 1 .. i - 1 : pending[j].frame.type # f.type
        BY <1>1, <3>2 DEF FirstOf
      <4>2. i > 1 => 1 \in 1 .. i - 1
        BY <4>1
      <4> QED
        BY <1>2, <4>1, <4>2
    <3> QED
      BY <2>1, <3>1, <3>2 DEF ResolveByType
  <2>2. CASE ResolveOldest(f.call)
    BY <1>2, <2>2 DEF ResolveOldest
  <2> QED
    BY <2>1, <2>2
<1>4. \A c \in Calls : status'[c] # "mistaken"
  BY <1>1, <1>2, <1>3 DEF Resolve, Status
<1>5. pending' = RemoveAt(pending, 1)
  BY <1>3 DEF Resolve
<1>6. /\ Len(pending') = Len(pending) - 1
      /\ \A i \in 1 .. Len(pending) - 1 : pending'[i] = pending[i + 1]
  <2> DEFINE l == SubSeq(pending, 1, 0)
             r == SubSeq(pending, 2, Len(pending))
  <2>1. /\ l \in Seq(Pending) /\ Len(l) = 0
        /\ r \in Seq(Pending) /\ Len(r) = Len(pending) - 1
        /\ \A i \in 1 .. Len(pending) - 1 : r[i] = pending[i + 1]
    BY <1>1, <1>2
  <2>2. pending' = l \o r
    BY <1>5 DEF RemoveAt
  <2> HIDE DEF l, r
  <2>3. /\ Len(pending') = Len(l) + Len(r)
        /\ \A i \in 1 .. Len(l) + Len(r) :
             pending'[i] = IF i <= Len(l) THEN l[i] ELSE r[i - Len(l)]
    BY <2>1, <2>2, ConcatProperties
  <2>4. /\ Len(l) + Len(r) = Len(pending) - 1
        /\ \A i \in 1 .. Len(pending) - 1 : ~(i <= Len(l)) /\ i - Len(l) = i
    BY <1>2, <2>1
  <2> QED
    BY <2>1, <2>3, <2>4
<1>7. wire'[1] = Tail(wire[1])
  BY <1>1 DEF TInv, TypeOK
<1>8. /\ Len(Tail(wire[1])) = Len(wire[1]) - 1
      /\ \A i \in 1 .. Len(wire[1]) - 1 : Tail(wire[1])[i] = wire[1][i + 1]
  BY <1>1, <1>2
<1> HIDE DEF f
<1>9. ASSUME NEW i \in 1 .. Len(pending) - 1 PROVE pending'[i].frame = wire'[1][i]
  <2>1. i + 1 \in 1 .. Len(pending)
    BY <1>2
  <2>2. pending[i + 1].frame = wire[1][i + 1]
    BY <2>1 DEF InStep
  <2> QED
    BY <1>2, <1>6, <1>7, <1>8, <2>2
<1> QED
  BY <1>2, <1>4, <1>6, <1>7, <1>8, <1>9 DEF InStep

LEMMA QuietStep == TInv /\ NoAttempt /\ Quiet /\ [Next]_vars => Quiet'
<1> SUFFICES ASSUME TInv, NoAttempt, Quiet, [Next]_vars, made' = 1, pushes' = 0
             PROVE  /\ \A c \in Calls : status'[c] # "mistaken"
                    /\ phase'[1] \in {"connecting", "open"} => InStep'
                    /\ phase'[1] = "connecting" => pending' = <<>>
                    /\ kicked'[1] # "queued"
  BY DEF Quiet
<1>1. made = 1 /\ pushes = 0
  <2>1. made' = made \/ made' = made + 1
    BY DEF Next, vars, clientVars, CallOf, Reconnect, Dispose, SetToken, ClearToken, Open,
           SocketError, SocketClose, Answer, RoomPush, Replaced
  <2>2. pushes' = pushes \/ pushes' = pushes + 1
    BY DEF Next, vars, boundVars, CallOf, Dispose, SetToken, ClearToken, Open,
           SocketError, SocketClose, Answer, RoomPush, Replaced
  <2> QED
    BY <2>1, <2>2 DEF TInv, TypeOK
<1>2. /\ 1 \in Sockets /\ socket = 1 /\ resolver = None /\ Woken = <<>>
      /\ \A s \in Sockets : phase[s] # "none" => s = 1
      /\ status \in [Calls -> Status]
  BY <1>1, First DEF NoAttempt, Woken
<1>3. /\ \A c \in Calls : status[c] # "mistaken"
      /\ phase[1] \in {"connecting", "open"} => InStep
      /\ phase[1] = "connecting" => pending = <<>>
      /\ kicked[1] # "queued"
  BY <1>1 DEF Quiet
<1>4. CASE UNCHANGED vars
  BY <1>3, <1>4 DEF vars, clientVars, callVars, serverVars, InStep
<1>5. ASSUME NEW c \in Calls, NEW t \in Types, NEW f, f = [call |-> c, type |-> t], CallOf(f)
      PROVE  /\ \A d \in Calls : status'[d] # "mistaken"
             /\ phase'[1] \in {"connecting", "open"} => InStep'
             /\ phase'[1] = "connecting" => pending' = <<>>
             /\ kicked'[1] # "queued"
  <2>0. kicked' = kicked
    BY <1>5 DEF CallOf, serverVars
  <2>1. CASE /\ status' = [status EXCEPT ![f.call] = "failed"]
             /\ UNCHANGED <<phase, pending, wire>>
    BY <1>2, <1>3, <2>0, <2>1 DEF InStep
  <2>2. CASE Reconnect(f) /\ UNCHANGED <<pending, wire>>
    <3>1. /\ status' = [status EXCEPT ![f.call] = "failed"]
          /\ UNCHANGED <<phase, pending, wire>>
      BY <1>1, <1>2, <2>2 DEF Reconnect
    <3> QED
      BY <2>1, <3>1
  <2>3. CASE /\ Connected(socket) /\ Post(<<f>>, "open") /\ phase' = phase
             /\ status' = [status EXCEPT ![f.call] = "sent"]
    <3>1. f \in Frame
      BY <1>5 DEF Frame
    <3>2. <<f>> \in Seq(Frame)
      BY <3>1
    <3>3. InStep'
      BY <1>1, <1>2, <1>3, <2>3, <3>2, PostInStep DEF Connected
    <3> QED
      BY <1>2, <1>3, <2>0, <2>3, <3>3 DEF Connected
  <2> QED
    BY <1>5, <2>1, <2>2, <2>3 DEF CallOf
<1>6. CASE Dispose
  <2>1. phase'[1] \notin {"connecting", "open"} /\ kicked' = kicked
    BY <1>2, <1>6, ClosedByUsKeeps DEF Dispose, serverVars
  <2>2. status' = Becomes(status, SentCalls, "failed")
    BY <1>6 DEF Dispose
  <2> QED
    BY <1>2, <1>3, <2>1, <2>2, BecomesType DEF Status
<1>7. CASE SetToken
  <2>1. UNCHANGED <<phase, status, kicked>>
    BY <1>7 DEF SetToken, serverVars
  <2>2. CASE Connected(socket) /\ Post(<<AuthFrame>>, "open")
    <3>1. <<AuthFrame>> \in Seq(Frame)
      BY DEF AuthFrame, Frame, Types
    <3>2. InStep'
      BY <1>1, <1>2, <1>3, <2>2, <3>1, PostInStep DEF Connected
    <3> QED
      BY <1>2, <1>3, <2>1, <2>2, <3>2 DEF Connected
  <2>3. CASE UNCHANGED <<pending, wire>>
    BY <1>3, <2>1, <2>3 DEF InStep
  <2> QED
    BY <1>7, <2>2, <2>3 DEF SetToken
<1>8. CASE ClearToken
  <2>1. UNCHANGED <<pending, status, kicked>>
    BY <1>8 DEF ClearToken, serverVars
  <2>2. CASE UNCHANGED <<phase, wire>>
    BY <1>3, <2>1, <2>2 DEF InStep
  <2>3. CASE phase' = [phase EXCEPT ![socket] = ClosedByUs(socket)]
    BY <1>2, <1>3, <2>1, <2>3, ClosedByUsKeeps
  <2> QED
    BY <1>8, <2>2, <2>3 DEF ClearToken
<1>9. ASSUME NEW s \in Sockets, Open(s)
      PROVE  /\ \A c \in Calls : status'[c] # "mistaken"
             /\ phase'[1] \in {"connecting", "open"} => InStep'
             /\ phase'[1] = "connecting" => pending' = <<>>
             /\ kicked'[1] # "queued"
  <2> DEFINE auth == IF token /\ ~disposed THEN <<AuthFrame>> ELSE <<>>
  <2>1. s = 1 /\ phase[1] = "connecting" /\ phase'[1] = "open" /\ kicked' = kicked
    BY <1>2, <1>9 DEF Open, TInv, TypeOK, serverVars
  <2>2. auth \in Seq(Frame) /\ auth \o Woken = auth
    <3>1. AuthFrame \in Frame
      BY DEF AuthFrame, Frame, Types
    <3>2. <<AuthFrame>> \in Seq(Frame) /\ <<>> \in Seq(Frame)
      BY <3>1
    <3>3. auth \in Seq(Frame)
      BY <3>2
    <3> HIDE DEF auth
    <3> QED
      BY <1>2, <3>3
  <2>3. Post(auth, "open")
    <3>1. Post(auth \o Woken, phase'[socket])
      BY <1>9 DEF Open
    <3> QED
      BY <1>2, <2>1, <2>2, <3>1
  <2>4. InStep'
    BY <1>1, <1>3, <2>1, <2>2, <2>3, PostInStep
  <2>5. \A c \in Calls : status'[c] = status[c]
    <3>1. WokenCalls = {}
      BY <1>2 DEF WokenCalls
    <3> QED
      BY <1>9, <3>1 DEF Open, Becomes
  <2> QED
    BY <1>3, <2>1, <2>4, <2>5
<1>10. ASSUME NEW s \in Sockets, SocketError(s) \/ SocketClose(s)
       PROVE  /\ \A c \in Calls : status'[c] # "mistaken"
              /\ phase'[1] \in {"connecting", "open"} => InStep'
              /\ phase'[1] = "connecting" => pending' = <<>>
              /\ kicked'[1] # "queued"
  <2>1. s = 1
    BY <1>2, <1>10 DEF SocketError, SocketClose
  <2>2. phase'[1] \notin {"connecting", "open"} /\ kicked' = kicked
    BY <1>2, <1>10, <2>1 DEF SocketError, SocketClose, serverVars, TInv, TypeOK
  <2>3. \/ FailWaiters(status)
        \/ FailWaiters(Becomes(status, SentCalls, "failed"))
    BY <1>10 DEF SocketError, SocketClose
  <2>4. \A c \in Calls : status'[c] # "mistaken"
    BY <1>3, <2>3 DEF FailWaiters, Becomes
  <2> QED
    BY <1>3, <2>2, <2>4
<1>11. ASSUME NEW s \in Sockets, Answer(s)
       PROVE  /\ \A c \in Calls : status'[c] # "mistaken"
              /\ phase'[1] \in {"connecting", "open"} => InStep'
              /\ phase'[1] = "connecting" => pending' = <<>>
              /\ kicked'[1] # "queued"
  <2>1. s = 1 /\ phase[1] = "open" /\ phase' = phase /\ wire[1] # <<>>
    BY <1>2, <1>11 DEF Answer, Connected
  <2>2. kicked'[1] # "queued"
    <3>1. bound \in {None, 1}
      BY <1>1 DEF TInv, TypeOK
    <3> QED
      BY <1>3, <1>11, <2>1, <3>1 DEF Answer, Registers
  <2>3. /\ wire' = [wire EXCEPT ![1] = Tail(@)]
        /\ LET f == Head(wire[1]) IN ResolveByType(f.type, f.call) \/ ResolveOldest(f.call)
    BY <1>11, <2>1 DEF Answer
  <2>4. InStep' /\ \A c \in Calls : status'[c] # "mistaken"
    BY <1>1, <1>3, <2>1, <2>3, AnswerInStep
  <2> QED
    BY <2>1, <2>2, <2>4
<1>12. ASSUME NEW s \in Sockets PROVE ~RoomPush(s) /\ ~Replaced(s)
  <2>1. ~RoomPush(s)
    BY <1>1 DEF RoomPush
  <2>2. Replaced(s) => s = 1 /\ kicked[s] = "queued"
    BY <1>1, <1>2 DEF Replaced, Connected
  <2> QED
    BY <1>3, <2>1, <2>2
<1> QED
  BY <1>4, <1>5, <1>6, <1>7, <1>8, <1>9, <1>10, <1>11, <1>12 DEF Next

\* On the first connection, as long as nothing unasked arrives, every answer reaches the
\* call it is for, for any number of calls and types, with errors among the answers.
THEOREM AnswersFindTheirCalls == Spec => []OwnAnswerOnQuietConnection
<1>1. Init => NoAttempt /\ Quiet
  BY DEF Init, NoAttempt, Quiet, InStep
<1>2. Quiet => OwnAnswerOnQuietConnection
  BY DEF Quiet, OwnAnswerOnQuietConnection
<1> QED
  BY <1>1, <1>2, NoAttemptStep, QuietStep, InvariantCorrect, PTL DEF Spec
=============================================================================
