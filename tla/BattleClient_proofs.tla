------------------------ MODULE BattleClient_proofs ------------------------
(***************************************************************************)
(* Proofs of the safety properties of BattleClientProperties, for any      *)
(* number of matches, sessions, inputs and handshakes.                     *)
(***************************************************************************)
EXTENDS BattleClientProperties, TLAPS

-----------------------------------------------------------------------------
(* The order of inputs *)

Ascending(q) == \A i, j \in 1 .. Len(q) : i < j => q[i].seq < q[j].seq

\* The frames of w ascend; unless one suite holds, a sealed frame may be overtaken by
\* frames in the clear.
FramesAscend(w, one) ==
  \A i, j \in 1 .. Len(w) :
    i < j /\ (one \/ w[i].key # Clear \/ w[j].key = Clear) => w[i].input.seq < w[j].input.seq

\* Every frame of w comes before every input of q.
Before(w, q) == \A i \in 1 .. Len(w), j \in 1 .. Len(q) : w[i].input.seq < q[j].seq

\* The inputs in the queue q, on the wires w and in the flush f, numbered up to n,
\* are where the order of each session needs them, under one suite or several.
InOrder(q, w, f, n, one) ==
  /\ Ascending(q)
  /\ \A i \in 1 .. Len(q) : q[i].seq <= n
  /\ \A s \in Sessions : FramesAscend(w[s], one)
  /\ \A s \in Sessions : \A i \in 1 .. Len(w[s]) : w[s][i].input.seq <= n
  /\ session # None => Before(w[session], q)
  /\ f # NoFlush =>
       /\ \A i \in 1 .. Len(w[f.on]) :
            one \/ w[f.on][i].key # Clear => w[f.on][i].input.seq < f.input.seq
       /\ f.input.seq <= n
       /\ f.on = session => \A i \in 1 .. Len(q) : f.input.seq <= q[i].seq

\* A session not opened yet has taken nothing, a call that was answered sent its
\* random first, and under one suite, while the client runs, what is sealed for the
\* current session is not joined by frames in the clear.
Settled ==
  /\ \A s \in Sessions : s > Len(opened) => wire[s] = <<>>
  /\ flush # NoFlush => flush.on <= Len(opened)
  /\ \A h \in Handshakes :
       /\ handshake[h].stage = "sent" => random # None
       /\ handshake[h].stage = "deriving" => handshake[h].random # None
  /\ state = "running" => session # None /\ match # None
  /\ OneSuite /\ state = "running" /\ key = Clear => flush = NoFlush \/ flush.on # session

OrderInv == TypeOK /\ Settled /\ InOrder(queue, wire, flush, seq, OneSuite)

\* Only handshakes are called for, and what is sealed in such a deployment is sealed
\* with the key of an accept that selected encryption.
Suites ==
  /\ \A h \in Handshakes : handshake[h].stage # "unused" => deployment = "handshake"
  /\ deployment = "handshake" /\ (key # Clear \/ flush # NoFlush) =>
       \E h \in Handshakes : handshake[h].stage = "encrypted"

LEMMA LobbyKeys == Clear \notin Key /\ \A m \in Matches : [kind |-> "lobby", of |-> m] # Clear
  BY DEF Clear, Key

LEMMA OneSuiteBoolean == OneSuite \in BOOLEAN
  BY DEF OneSuite

LEMMA SameSuites ==
  ASSUME UNCHANGED handshake
  PROVE  OneSuite' = OneSuite
BY DEF OneSuite

\* Once several suites are installed less order is asked for.
LEMMA InOrderWeakens ==
  ASSUME NEW q, NEW w, NEW f, NEW n, NEW one \in BOOLEAN, NEW two \in BOOLEAN, two => one,
         InOrder(q, w, f, n, one)
  PROVE  InOrder(q, w, f, n, two)
BY DEF InOrder, FramesAscend

Numbered(q, n) == \A i \in 1 .. Len(q) : q[i].seq <= n

\* A new input goes to the end of the queue.
LEMMA AppendAscends ==
  ASSUME NEW q \in Seq(Input), NEW x \in Input, NEW n \in Nat, Ascending(q), Numbered(q, n),
         n < x.seq
  PROVE  Ascending(Append(q, x)) /\ Numbered(Append(q, x), x.seq)
<1>1. \A i \in 1 .. Len(q) : Append(q, x)[i] = q[i]
  OBVIOUS
<1>2. Append(q, x)[Len(q) + 1] = x /\ Len(Append(q, x)) = Len(q) + 1 /\ Len(q) \in Nat
  OBVIOUS
<1>3. \A i \in 1 .. Len(q) : q[i] \in Input
  OBVIOUS
<1>4. x.seq \in Nat /\ \A i \in 1 .. Len(q) : q[i].seq \in Nat
  BY <1>3 DEF Input
<1>5. \A i \in 1 .. Len(q) : q[i].seq < x.seq
  BY <1>4 DEF Numbered
<1>6. \A i \in 1 .. Len(q) + 1 : i <= Len(q) \/ i = Len(q) + 1
  BY <1>2
<1>7. Ascending(Append(q, x))
  BY <1>1, <1>2, <1>5, <1>6 DEF Ascending
<1>8. Numbered(Append(q, x), x.seq)
  BY <1>1, <1>2, <1>4, <1>5, <1>6 DEF Numbered
<1> QED
  BY <1>7, <1>8

\* Without its head a queue is still in order, and the head came before the rest.
LEMMA TailAscends ==
  ASSUME NEW q \in Seq(Input), Ascending(q), q # <<>>
  PROVE  /\ Tail(q) \in Seq(Input)
         /\ Ascending(Tail(q))
         /\ \A j \in 1 .. Len(Tail(q)) : q[1].seq < Tail(q)[j].seq
<1>1. Tail(q) \in Seq(Input) /\ Len(Tail(q)) = Len(q) - 1 /\ Len(q) \in Nat \ {0}
  OBVIOUS
<1>2. \A i \in 1 .. Len(q) - 1 : Tail(q)[i] = q[i + 1]
  OBVIOUS
<1> QED
  BY <1>1, <1>2 DEF Ascending

LEMMA FramesOfQueue ==
  ASSUME NEW q \in Seq(Input), NEW k \in Key \cup {Clear}
  PROVE  /\ Frames(q, k) \in Seq(Frame)
         /\ Len(Frames(q, k)) = Len(q)
         /\ \A i \in 1 .. Len(q) : /\ Frames(q, k)[i].input = q[i]
                                  /\ Frames(q, k)[i].key = k
<1>1. \A i \in 1 .. Len(q) : q[i] \in Input
  OBVIOUS
<1> QED
  BY <1>1 DEF Frames, Frame

\* A queue appended to a wire whose frames come before it.
LEMMA ConcatAscends ==
  ASSUME NEW w \in Seq(Frame), NEW q \in Seq(Input), NEW k \in Key \cup {Clear},
         NEW one \in BOOLEAN, FramesAscend(w, one), Ascending(q), Before(w, q)
  PROVE  FramesAscend(w \o Frames(q, k), one)
<1> DEFINE u == Frames(q, k)
           v == w \o u
<1>1. u \in Seq(Frame) /\ Len(u) = Len(q) /\ \A i \in 1 .. Len(q) : u[i].input = q[i]
  BY FramesOfQueue
<1> HIDE DEF u
<1>2. /\ Len(v) = Len(w) + Len(q) /\ Len(w) \in Nat /\ Len(q) \in Nat
      /\ \A i \in 1 .. Len(w) : v[i] = w[i]
      /\ \A i \in 1 .. Len(v) : i > Len(w) => v[i] = u[i - Len(w)]
  BY <1>1, SMTT(40)
<1> HIDE DEF v
<1>3. SUFFICES ASSUME NEW i \in 1 .. Len(v), NEW j \in 1 .. Len(v), i < j,
                      one \/ v[i].key # Clear \/ v[j].key = Clear
               PROVE  v[i].input.seq < v[j].input.seq
  BY DEF FramesAscend, v, u
<1>4. CASE j <= Len(w)
  BY <1>2, <1>3, <1>4 DEF FramesAscend
<1>5. CASE i <= Len(w) /\ j > Len(w)
  <2>1. j - Len(w) \in 1 .. Len(q) /\ v[j].input = q[j - Len(w)] /\ v[i] = w[i]
    BY <1>1, <1>2, <1>3, <1>5
  <2> QED
    BY <1>2, <1>5, <2>1 DEF Before
<1>6. CASE i > Len(w)
  <2>0. j > Len(w) /\ j - Len(w) \in 1 .. Len(q) /\ i - Len(w) \in 1 .. Len(q)
    BY <1>2, <1>3, <1>6
  <2>1. v[j].input = q[j - Len(w)] /\ v[i].input = q[i - Len(w)]
    BY <1>1, <1>2, <1>6, <2>0
  <2>2. i - Len(w) < j - Len(w)
    BY <1>2, <1>3
  <2> QED
    BY <2>0, <2>1, <2>2 DEF Ascending
<1> QED
  BY <1>2, <1>3, <1>4, <1>5, <1>6

\* A sealed frame appended to a wire whose frames, or sealed frames, come before it.
LEMMA AppendFrameAscends ==
  ASSUME NEW w \in Seq(Frame), NEW f \in Frame, f.key # Clear,
         NEW one \in BOOLEAN, FramesAscend(w, one),
         \A i \in 1 .. Len(w) : one \/ w[i].key # Clear => w[i].input.seq < f.input.seq
  PROVE  FramesAscend(Append(w, f), one)
<1>1. \A i \in 1 .. Len(w) : Append(w, f)[i] = w[i]
  OBVIOUS
<1>2. Append(w, f)[Len(w) + 1] = f /\ Len(Append(w, f)) = Len(w) + 1 /\ Len(w) \in Nat
  OBVIOUS
<1> DEFINE v == Append(w, f)
<1> HIDE DEF v
<1>3. SUFFICES ASSUME NEW i \in 1 .. Len(v), NEW j \in 1 .. Len(v), i < j,
                      one \/ v[i].key # Clear \/ v[j].key = Clear
               PROVE  v[i].input.seq < v[j].input.seq
  BY DEF FramesAscend, v
<1>4. i \in 1 .. Len(w) /\ v[i] = w[i]
  BY <1>1, <1>2, <1>3 DEF v
<1>5. CASE j = Len(w) + 1
  BY <1>2, <1>3, <1>4, <1>5 DEF v
<1>6. CASE j # Len(w) + 1
  <2>1. j \in 1 .. Len(w) /\ v[j] = w[j]
    BY <1>1, <1>2, <1>3, <1>6 DEF v
  <2> QED
    BY <1>3, <1>4, <2>1 DEF FramesAscend
<1> QED
  BY <1>5, <1>6

-----------------------------------------------------------------------------
(* How each part of a step keeps the order *)

Wires == [Sessions -> Seq(Frame)]

\* flushPlainQueue keeps the order, unless there is one suite and the input being
\* sealed is for the current session.
LEMMA PlainFlushOrder ==
  ASSUME NEW q \in Seq(Input), NEW w \in Wires, NEW f \in Flushing \cup {NoFlush}, NEW n \in Nat,
         NEW one \in BOOLEAN, session \in Sessions \cup {None}, live \subseteq Sessions,
         InOrder(q, w, f, n, one), one => f = NoFlush \/ f.on # session, PlainFlush(q, w)
  PROVE  /\ queue' \in Seq(Input) /\ wire' \in Wires
         /\ \A s \in Sessions \ {session} : wire'[s] = w[s]
         /\ InOrder(queue', wire', f, n, one)
<1>1. CASE session \in live /\ wire' = [w EXCEPT ![session] = @ \o Frames(q, Clear)]
           /\ queue' = <<>>
  <2>1. session \in Sessions /\ w[session] \in Seq(Frame) /\ session # None
    BY <1>1 DEF Wires, Sessions, None
  <2>2. /\ Frames(q, Clear) \in Seq(Frame)
        /\ Len(Frames(q, Clear)) = Len(q)
        /\ \A i \in 1 .. Len(q) : /\ Frames(q, Clear)[i].input = q[i]
                                  /\ Frames(q, Clear)[i].key = Clear
    BY FramesOfQueue
  <2> DEFINE u == Frames(q, Clear)
             v == w[session] \o u
  <2> HIDE DEF u
  <2>3. v \in Seq(Frame)
    BY <2>1, <2>2 DEF u
  <2>4. /\ wire' \in Wires
        /\ wire'[session] = v
        /\ \A s \in Sessions \ {session} : wire'[s] = w[s]
    BY <1>1, <2>1, <2>3 DEF Wires, u
  <2>5. FramesAscend(v, one)
    <3>1. Before(w[session], q) /\ Ascending(q) /\ FramesAscend(w[session], one)
      BY <2>1 DEF InOrder
    <3> QED
      BY <2>1, <3>1, ConcatAscends DEF u
  <2>6. \A i \in 1 .. Len(v) : v[i].input.seq <= n
    <3>1. SUFFICES ASSUME NEW i \in 1 .. Len(v) PROVE v[i].input.seq <= n
      OBVIOUS
    <3>2. CASE i <= Len(w[session])
      <4>1. v[i] = w[session][i] /\ i \in 1 .. Len(w[session])
        BY <2>1, <2>2, <3>2 DEF u
      <4> QED
        BY <2>1, <4>1 DEF InOrder
    <3>3. CASE i > Len(w[session])
      <4> DEFINE l == i - Len(w[session])
      <4>1. l \in 1 .. Len(q) /\ v[i] = u[l]
        BY <2>1, <2>2, <3>3 DEF u
      <4>2. v[i].input = q[l]
        BY <2>2, <4>1 DEF u
      <4> QED
        BY <4>1, <4>2 DEF InOrder
    <3> QED
      BY <2>1, <3>2, <3>3
  <2>6a. /\ Len(v) = Len(w[session]) + Len(q) /\ Len(w[session]) \in Nat /\ Len(q) \in Nat
         /\ \A i \in 1 .. Len(w[session]) : v[i] = w[session][i]
         /\ \A i \in 1 .. Len(v) : i > Len(w[session]) => v[i] = u[i - Len(w[session])]
    <3>1. u \in Seq(Frame) /\ Len(u) = Len(q)
      BY <2>2 DEF u
    <3>2. Len(q) \in Nat
      OBVIOUS
    <3> QED
      BY <2>1, <3>1, <3>2, SMTT(40)
  <2>6b. \A i \in 1 .. Len(v) : v[i].key # Clear => i \in 1 .. Len(w[session])
    <3>1. SUFFICES ASSUME NEW i \in 1 .. Len(v), i > Len(w[session]) PROVE v[i].key = Clear
      BY <2>6a
    <3>2. i - Len(w[session]) \in 1 .. Len(q) /\ v[i] = u[i - Len(w[session])]
      BY <2>6a, <3>1
    <3> QED
      BY <2>2, <3>2 DEF u
  <2> HIDE DEF v
  <2>7. queue' \in Seq(Input) /\ Len(queue') = 0
    BY <1>1
  <2>8. Ascending(queue') /\ (\A i \in 1 .. Len(queue') : queue'[i].seq <= n)
        /\ Before(wire'[session], queue')
    BY <2>7 DEF Ascending, Before
  <2>9. f # NoFlush => f.on \in Sessions
    BY DEF Flushing
  <2>10. InOrder(queue', wire', f, n, one)
    <3>1. \A s \in Sessions : FramesAscend(wire'[s], one)
      BY <2>4, <2>5 DEF InOrder
    <3>2. \A s \in Sessions : \A i \in 1 .. Len(wire'[s]) : wire'[s][i].input.seq <= n
      BY <2>4, <2>6 DEF InOrder
    <3>3. ASSUME f # NoFlush, NEW i \in 1 .. Len(wire'[f.on]), one \/ wire'[f.on][i].key # Clear
          PROVE  wire'[f.on][i].input.seq < f.input.seq
      <4>1. CASE f.on # session
        BY <2>4, <2>9, <3>3, <4>1 DEF InOrder
      <4>2. CASE f.on = session
        <5>1. ~ one /\ v[i].key # Clear /\ wire'[f.on] = v
          BY <2>4, <3>3, <4>2
        <5>2. i \in 1 .. Len(w[session]) /\ v[i] = w[session][i]
          BY <2>6a, <2>6b, <3>3, <5>1
        <5> QED
          BY <3>3, <4>2, <5>1, <5>2 DEF InOrder
      <4> QED
        BY <4>1, <4>2
    <3>4. f # NoFlush => f.input.seq <= n /\ \A i \in 1 .. Len(queue') : f.input.seq <= queue'[i].seq
      BY <2>7 DEF InOrder
    <3> QED
      BY <2>8, <3>1, <3>2, <3>3, <3>4 DEF InOrder
  <2> QED
    BY <2>4, <2>7, <2>10
<1>2. CASE session \notin live /\ wire' = w /\ queue' = q
  BY <1>2
<1> QED
  BY <1>1, <1>2 DEF PlainFlush

\* So does starting to seal the head of the queue for the current session.
LEMMA SealNextOrder ==
  ASSUME NEW q \in Seq(Input), NEW w \in Wires, NEW k \in Key, NEW n \in Nat,
         NEW one \in BOOLEAN, session \in Sessions \cup {None},
         InOrder(q, w, NoFlush, n, one), SealNext(q, k)
  PROVE  /\ queue' = q
         /\ flush' \in Flushing \cup {NoFlush}
         /\ flush' # NoFlush => flush'.on = session /\ session # None /\ flush'.key = k
         /\ InOrder(queue', w, flush', n, one)
<1>1. queue' = q
  BY DEF SealNext
<1>2. CASE q = <<>> \/ session = None
  <2>1. flush' = NoFlush
    BY <1>2 DEF SealNext
  <2> QED
    BY <1>1, <2>1
<1>3. CASE q # <<>> /\ session # None
  <2>1. flush' = [on |-> session, input |-> q[1], key |-> k]
    BY <1>3 DEF SealNext
  <2>2. q[1] \in Input /\ Len(q) \in Nat \ {0} /\ session \in Sessions
    BY <1>3
  <2>3. flush' \in Flushing
    BY <2>1, <2>2 DEF Flushing
  <2>4. flush'.on = session /\ flush'.input = q[1] /\ flush'.key = k
    BY <2>1
  <2>5. (\A i \in 1 .. Len(w[session]) : w[session][i].input.seq < q[1].seq) /\ q[1].seq <= n
    BY <1>3, <2>2 DEF InOrder, Before
  <2>6. \A i \in 1 .. Len(q) : q[1].seq <= q[i].seq
    <3>1. \A i \in 1 .. Len(q) : q[i] \in Input /\ (i = 1 \/ 1 < i) /\ 1 \in 1 .. Len(q)
      BY <2>2
    <3> QED
      BY <3>1 DEF InOrder, Ascending, Input
  <2>7. InOrder(queue', w, flush', n, one)
    BY <1>1, <1>3, <2>4, <2>5, <2>6 DEF InOrder
  <2> QED
    BY <1>1, <1>3, <2>3, <2>4, <2>7
<1> QED
  BY <1>2, <1>3

\* And so does flushInputQueue as a whole.
LEMMA FlushOrder ==
  ASSUME NEW q \in Seq(Input), NEW k \in Key \cup {Clear}, NEW n \in Nat,
         wire \in Wires, flush \in Flushing \cup {NoFlush},
         NEW one \in BOOLEAN, session \in Sessions \cup {None}, live \subseteq Sessions,
         InOrder(q, wire, flush, n, one),
         one /\ k = Clear => flush = NoFlush \/ flush.on # session,
         FlushInputQueue(q, k)
  PROVE  /\ queue' \in Seq(Input) /\ wire' \in Wires /\ flush' \in Flushing \cup {NoFlush}
         /\ \A s \in Sessions \ {session} : wire'[s] = wire[s]
         /\ \/ flush' = flush
            \/ flush' # NoFlush /\ k # Clear /\ flush'.on = session /\ session # None /\ flush'.key = k
         /\ InOrder(queue', wire', flush', n, one)
<1>1. CASE k = Clear /\ PlainFlush(q, wire) /\ UNCHANGED flush
  BY <1>1, PlainFlushOrder
<1>2. CASE k # Clear /\ flush = NoFlush /\ SealNext(q, k) /\ UNCHANGED wire
  BY <1>2, SealNextOrder
<1>3. CASE k # Clear /\ flush # NoFlush /\ queue' = q /\ UNCHANGED <<flush, wire>>
  BY <1>3
<1> QED
  BY <1>1, <1>2, <1>3 DEF FlushInputQueue

LEMMA FrameNumbers ==
  ASSUME NEW w \in Wires, NEW s \in Sessions, NEW i \in 1 .. Len(w[s])
  PROVE  w[s][i] \in Frame /\ w[s][i].input.seq \in Nat
<1>1. w[s] \in Seq(Frame)
  BY DEF Wires
<1>2. w[s][i] \in Frame
  BY <1>1
<1> QED
  BY <1>2 DEF Frame, Input

\* A new input keeps the order of everything else.
LEMMA NewInputOrder ==
  ASSUME NEW x \in Input, NEW n \in Nat, NEW one \in BOOLEAN, n < x.seq,
         queue \in Seq(Input), wire \in Wires, flush \in Flushing \cup {NoFlush},
         session \in Sessions \cup {None}, InOrder(queue, wire, flush, n, one)
  PROVE  /\ Append(queue, x) \in Seq(Input)
         /\ InOrder(Append(queue, x), wire, flush, x.seq, one)
<1> DEFINE q == Append(queue, x)
<1>1. /\ q \in Seq(Input) /\ Len(q) = Len(queue) + 1 /\ Len(queue) \in Nat
      /\ \A i \in 1 .. Len(queue) : q[i] = queue[i]
      /\ q[Len(queue) + 1] = x
  OBVIOUS
<1>2. Ascending(q) /\ Numbered(q, x.seq)
  BY AppendAscends DEF InOrder, Numbered
<1> HIDE DEF q
<1>3. x.seq \in Nat
  BY DEF Input
<1>4. \A s \in Sessions : \A i \in 1 .. Len(wire[s]) : wire[s][i].input.seq \in Nat
  BY FrameNumbers
<1>5. \A s \in Sessions : \A i \in 1 .. Len(wire[s]) : wire[s][i].input.seq < x.seq
  BY <1>3, <1>4 DEF InOrder
<1>6. session # None => Before(wire[session], q)
  <2>1. SUFFICES ASSUME session # None, NEW i \in 1 .. Len(wire[session]), NEW j \in 1 .. Len(q)
                 PROVE  wire[session][i].input.seq < q[j].seq
    BY DEF Before
  <2>2. j \in 1 .. Len(queue) \/ j = Len(queue) + 1
    BY <1>1
  <2> QED
    BY <1>1, <1>5, <2>1, <2>2 DEF InOrder, Before
<1>7. flush # NoFlush =>
        /\ flush.input.seq <= x.seq
        /\ flush.on = session => \A i \in 1 .. Len(q) : flush.input.seq <= q[i].seq
  <2>1. flush # NoFlush => flush.input.seq \in Nat
    BY DEF Flushing, Input
  <2>2. \A i \in 1 .. Len(q) : i \in 1 .. Len(queue) \/ i = Len(queue) + 1
    BY <1>1
  <2>3. flush # NoFlush =>
          /\ flush.input.seq < x.seq
          /\ flush.on = session =>
               \A i \in 1 .. Len(queue) : flush.input.seq <= queue[i].seq
    BY <1>3, <2>1, SMTT(40) DEF InOrder
  <2> QED
    BY <1>1, <1>3, <2>1, <2>2, <2>3, SMTT(40)
<1> QED
  <2>1. \A s \in Sessions : \A i \in 1 .. Len(wire[s]) : wire[s][i].input.seq <= x.seq
    <3>1. SUFFICES ASSUME NEW s \in Sessions, NEW i \in 1 .. Len(wire[s])
                   PROVE  wire[s][i].input.seq <= x.seq
      OBVIOUS
    <3>2. wire[s][i].input.seq \in Nat /\ wire[s][i].input.seq < x.seq
      BY <1>4, <1>5, <3>1
    <3> QED
      BY <1>3, <3>2
  <2> QED
    BY <1>1, <1>2, <1>6, <1>7, <2>1 DEF InOrder, Numbered, q

\* The sealed input leaves the queue for the session it was sealed for.
LEMMA SealedOrder ==
  ASSUME NEW n \in Nat, NEW w, NEW one \in BOOLEAN,
         queue \in Seq(Input), wire \in Wires, flush \in Flushing,
         session \in Sessions \cup {None}, InOrder(queue, wire, flush, n, one), flush # NoFlush,
         w = [wire EXCEPT ![flush.on] = Append(@, [input |-> flush.input, key |-> flush.key])]
  PROVE  /\ Shifted(queue) \in Seq(Input) /\ w \in Wires
         /\ InOrder(Shifted(queue), w, NoFlush, n, one)
<1> DEFINE f == [input |-> flush.input, key |-> flush.key]
           q == Shifted(queue)
<1>1. flush.on \in Sessions /\ f \in Frame /\ f.input = flush.input /\ f.key # Clear
  BY LobbyKeys DEF Flushing, Frame
<1>2. wire[flush.on] \in Seq(Frame)
  BY <1>1 DEF Wires
<1>3. /\ w \in Wires
      /\ w[flush.on] = Append(wire[flush.on], f)
      /\ \A s \in Sessions \ {flush.on} : w[s] = wire[s]
  BY <1>1, <1>2 DEF Wires
<1> HIDE DEF f
<1>4. /\ Append(wire[flush.on], f) \in Seq(Frame)
      /\ Len(w[flush.on]) = Len(wire[flush.on]) + 1 /\ Len(wire[flush.on]) \in Nat
      /\ \A i \in 1 .. Len(wire[flush.on]) : w[flush.on][i] = wire[flush.on][i]
      /\ w[flush.on][Len(wire[flush.on]) + 1] = f
  BY <1>1, <1>2, <1>3
<1>5. FramesAscend(w[flush.on], one)
  <2>1. \A i \in 1 .. Len(wire[flush.on]) :
          one \/ wire[flush.on][i].key # Clear => wire[flush.on][i].input.seq < f.input.seq
    BY <1>1 DEF InOrder
  <2>2. FramesAscend(wire[flush.on], one)
    BY <1>1 DEF InOrder
  <2> QED
    BY <1>1, <1>2, <1>3, <2>1, <2>2, AppendFrameAscends
<1>6. \A s \in Sessions : FramesAscend(w[s], one)
  BY <1>3, <1>5 DEF InOrder
<1>7. \A s \in Sessions : \A i \in 1 .. Len(w[s]) : w[s][i].input.seq <= n
  <2>1. \A i \in 1 .. Len(w[flush.on]) : w[flush.on][i].input.seq <= n
    <3>1. SUFFICES ASSUME NEW i \in 1 .. Len(w[flush.on]) PROVE w[flush.on][i].input.seq <= n
      OBVIOUS
    <3>2. i \in 1 .. Len(wire[flush.on]) \/ i = Len(wire[flush.on]) + 1
      BY <1>4
    <3> QED
      BY <1>1, <1>4, <3>2 DEF InOrder
  <2> QED
    BY <1>3, <2>1 DEF InOrder
<1>8. CASE queue = <<>>
  <2>1. q = <<>> /\ Len(q) = 0 /\ q \in Seq(Input)
    BY <1>8 DEF Shifted
  <2>2. Ascending(q) /\ (\A i \in 1 .. Len(q) : q[i].seq <= n)
        /\ (session # None => Before(w[session], q))
    BY <2>1 DEF Ascending, Before
  <2> QED
    BY <1>3, <1>6, <1>7, <2>1, <2>2 DEF InOrder
<1>9. CASE queue # <<>>
  <2>1. q = Tail(queue)
    BY <1>9 DEF Shifted
  <2> HIDE DEF q
  <2>2. Ascending(queue)
    BY DEF InOrder
  <2>3. /\ q \in Seq(Input) /\ Ascending(q)
        /\ \A j \in 1 .. Len(q) : queue[1].seq < q[j].seq
    BY <1>9, <2>1, <2>2, TailAscends
  <2>4. /\ Len(q) = Len(queue) - 1 /\ Len(queue) \in Nat \ {0}
        /\ \A i \in 1 .. Len(q) : q[i] = queue[i + 1]
    BY <1>9, <2>1
  <2>5. \A i \in 1 .. Len(q) : i + 1 \in 1 .. Len(queue)
    BY <2>4
  <2>6. \A i \in 1 .. Len(q) : q[i].seq <= n
    BY <2>4, <2>5 DEF InOrder
  <2>7. session # None => Before(w[session], q)
    <3>1. SUFFICES ASSUME session # None, NEW i \in 1 .. Len(w[session]), NEW j \in 1 .. Len(q)
                   PROVE  w[session][i].input.seq < q[j].seq
      BY DEF Before
    <3>2. CASE session # flush.on \/ i \in 1 .. Len(wire[flush.on])
      <4>1. w[session][i] = wire[session][i] /\ i \in 1 .. Len(wire[session])
        BY <1>3, <1>4, <3>1, <3>2
      <4> QED
        BY <2>4, <2>5, <3>1, <4>1 DEF InOrder, Before
    <3>3. CASE session = flush.on /\ i = Len(wire[flush.on]) + 1
      <4>1. w[session][i].input = flush.input /\ 1 \in 1 .. Len(queue)
        BY <1>1, <1>4, <2>4, <3>3
      <4>2. flush.input.seq <= queue[1].seq
        BY <3>3, <4>1 DEF InOrder
      <4>3. queue[1].seq \in Nat /\ q[j].seq \in Nat /\ flush.input.seq \in Nat
        <5>1. queue[1] \in Input /\ q[j] \in Input /\ flush.input \in Input
          BY <2>3, <3>1, <4>1 DEF Flushing
        <5> QED
          BY <5>1 DEF Input
      <4>4. queue[1].seq < q[j].seq
        BY <2>3
      <4> QED
        <5>1. \A a, b, c \in Nat : a <= b /\ b < c => a < c
          OBVIOUS
        <5>2. flush.input.seq < q[j].seq
          BY <4>2, <4>3, <4>4, <5>1
        <5> QED
          BY <4>1, <5>2
    <3> QED
      BY <1>4, <3>2, <3>3
  <2> QED
    BY <1>3, <1>6, <1>7, <2>1, <2>3, <2>6, <2>7 DEF InOrder, q
<1> QED
  BY <1>8, <1>9

-----------------------------------------------------------------------------
(* The inductive invariant *)

LEMMA Typed ==
  ASSUME TypeOK
  PROVE  /\ Len(opened) \in Nat /\ Len(opened) <= MaxSessions /\ MaxSessions \in Nat
         /\ 1 .. Len(opened) \subseteq Sessions
         /\ session \in Sessions \cup {None} /\ live \subseteq Sessions /\ wire \in Wires
         /\ match \in Matches \cup {None}
<1>1. Len(opened) \in Nat /\ Len(opened) <= MaxSessions /\ MaxSessions \in Nat
  BY BoundAssumption DEF TypeOK
<1>2. 1 .. Len(opened) \subseteq Sessions
  BY <1>1 DEF Sessions
<1>3. session \in Sessions \cup {None}
  <2>1. session \in 0 .. Len(opened)
    BY DEF TypeOK
  <2>2. session = 0 \/ session \in 1 .. Len(opened)
    BY <1>1, <2>1
  <2> QED
    BY <1>2, <2>2 DEF None
<1>4. live \subseteq Sessions /\ wire \in Wires
  BY <1>2 DEF TypeOK, Wires
<1> QED
  BY <1>1, <1>2, <1>3, <1>4 DEF TypeOK

LEMMA OrderInit == Init => OrderInv
<1> SUFFICES ASSUME Init PROVE OrderInv
  OBVIOUS
<1>1. /\ opened = <<>> /\ Len(opened) = 0 /\ queue = <<>> /\ Len(queue) = 0
      /\ opened \in Seq(Matches) /\ queue \in Seq(Input)
      /\ \A s \in Sessions : wire[s] = <<>> /\ Len(wire[s]) = 0
      /\ wire \in [Sessions -> Seq(Frame)]
  BY DEF Init
<1>2. handshake \in [Handshakes -> Call] /\ \A h \in Handshakes : handshake[h].stage = "unused"
  BY DEF Init, Call
<1>3. TypeOK
  BY <1>1, <1>2, BoundAssumption DEF Init, TypeOK, None
<1>4. Settled
  BY <1>1, <1>2 DEF Init, Settled
<1>5. InOrder(queue, wire, flush, seq, OneSuite)
  BY <1>1 DEF Init, InOrder, Ascending, FramesAscend
<1> QED
  BY <1>3, <1>4, <1>5 DEF OrderInv

LEMMA OrderWeakens ==
  ASSUME InOrder(queue, wire, flush, seq, OneSuite), OneSuite' => OneSuite
  PROVE  InOrder(queue, wire, flush, seq, OneSuite')
<1> DEFINE one == OneSuite
           two == OneSuite'
<1>1. one \in BOOLEAN /\ two \in BOOLEAN /\ (two => one) /\ InOrder(queue, wire, flush, seq, one)
  BY DEF OneSuite
<1> HIDE DEF one, two
<1>2. InOrder(queue, wire, flush, seq, two)
  BY <1>1, InOrderWeakens
<1> QED
  BY <1>2 DEF two

\* Actions that leave inputs, wires and the session alone keep the order.
LEMMA OrderUntouched ==
  ASSUME InOrder(queue, wire, flush, seq, OneSuite), OneSuite' => OneSuite,
         UNCHANGED <<session, seq, queueVars>>
  PROVE  InOrder(queue, wire, flush, seq, OneSuite)'
<1>1. InOrder(queue, wire, flush, seq, OneSuite')
  BY OrderWeakens
<1> QED
  BY <1>1 DEF InOrder, queueVars

LEMMA SendInputStep ==
  ASSUME OrderInv, SendInput
  PROVE  OrderInv'
<1> DEFINE x == [match |-> match, seq |-> seq + 1]
           q == Append(queue, x)
<1>1. /\ seq' = seq + 1 /\ state = "running"
      /\ UNCHANGED <<deployment, clientVars, key, handshakeVars, channelVars>>
      /\ \/ FlushInputQueue(q, key)
         \/ queue' = q /\ UNCHANGED <<flush, wire>>
  BY DEF SendInput
<1>2. seq \in Nat /\ seq' \in Nat /\ x.seq = seq' /\ seq < x.seq
  BY <1>1 DEF OrderInv, TypeOK
<1>3. x \in Input
  <2>1. match \in Matches
    BY <1>1 DEF OrderInv, Settled, TypeOK
  <2> QED
    BY <1>1, <1>2, <2>1 DEF Input
<1> HIDE DEF x
<1>4. q \in Seq(Input) /\ InOrder(q, wire, flush, seq', OneSuite)
  BY <1>2, <1>3, Typed, NewInputOrder, OneSuiteBoolean DEF OrderInv, TypeOK
<1> HIDE DEF q
<1>5. /\ queue' \in Seq(Input) /\ wire' \in Wires /\ flush' \in Flushing \cup {NoFlush}
      /\ \A s \in Sessions \ {session} : wire'[s] = wire[s]
      /\ flush' = flush \/ (flush' # NoFlush /\ key # Clear /\ flush'.on = session)
      /\ InOrder(queue', wire', flush', seq', OneSuite)
  <2>1. CASE FlushInputQueue(q, key)
    <3>1. OneSuite /\ key = Clear => flush = NoFlush \/ flush.on # session
      BY <1>1 DEF OrderInv, Settled
    <3>2. key \in Key \cup {Clear} /\ flush \in Flushing \cup {NoFlush}
      BY DEF OrderInv, TypeOK
    <3> QED
      BY <1>2, <1>4, <2>1, <3>1, <3>2, Typed, FlushOrder, OneSuiteBoolean DEF OrderInv
  <2>2. CASE queue' = q /\ UNCHANGED <<flush, wire>>
    BY <1>4, <2>2, Typed DEF OrderInv, TypeOK
  <2> QED
    BY <1>1, <2>1, <2>2
<1>6. session \in 1 .. Len(opened)
  BY <1>1, Typed DEF OrderInv, Settled, TypeOK, None
<1>9. OneSuite' = OneSuite
  BY <1>1, SameSuites DEF handshakeVars
<1>7. TypeOK'
  BY <1>1, <1>2, <1>5 DEF OrderInv, TypeOK, Wires, clientVars, handshakeVars, channelVars
<1>8. Settled'
  <2>1. \A s \in Sessions : s > Len(opened) => wire'[s] = <<>>
    BY <1>5, <1>6, Typed DEF OrderInv, Settled
  <2>2. flush' # NoFlush => flush'.on <= Len(opened)
    BY <1>5, <1>6 DEF OrderInv, Settled
  <2>3. OneSuite /\ key = Clear => flush' = NoFlush \/ flush'.on # session
    BY <1>1, <1>5 DEF OrderInv, Settled
  <2> QED
    BY <1>1, <1>9, <2>1, <2>2, <2>3
       DEF OrderInv, Settled, clientVars, handshakeVars, channelVars
<1> QED
  BY <1>1, <1>5, <1>7, <1>8, <1>9 DEF OrderInv, InOrder, clientVars

LEMMA SealedSentStep ==
  ASSUME OrderInv, SealedSent
  PROVE  OrderInv'
<1> DEFINE q == Shifted(queue)
           w == [wire EXCEPT ![flush.on] =
                   Append(@, [input |-> flush.input, key |-> flush.key])]
<1>1. /\ flush # NoFlush
      /\ UNCHANGED <<deployment, clientVars, key, seq, handshakeVars, channelVars>>
      /\ \/ key = Clear /\ PlainFlush(q, w) /\ flush' = NoFlush
         \/ key # Clear /\ SealNext(q, key) /\ wire' = w
  BY DEF SealedSent
<1>2. flush \in Flushing /\ flush.on \in Sessions /\ flush.on \in 1 .. Len(opened)
  <2>1. flush \in Flushing /\ flush.on \in Sessions
    BY <1>1 DEF OrderInv, TypeOK, Flushing
  <2> QED
    BY <1>1, <2>1, Typed DEF OrderInv, Settled, Sessions
<1>3. q \in Seq(Input) /\ w \in Wires /\ InOrder(q, w, NoFlush, seq, OneSuite)
  BY <1>1, <1>2, Typed, SealedOrder, OneSuiteBoolean DEF OrderInv, TypeOK
<1>4. \A s \in Sessions \ {flush.on} : w[s] = wire[s]
  BY <1>2, Typed DEF OrderInv, Wires
<1> HIDE DEF q, w
<1>5. /\ queue' \in Seq(Input) /\ wire' \in Wires /\ flush' \in Flushing \cup {NoFlush}
      /\ \A s \in Sessions \ {session} : wire'[s] = w[s]
      /\ flush' # NoFlush => key # Clear /\ flush'.on = session /\ session # None
      /\ InOrder(queue', wire', flush', seq, OneSuite)
  <2>1. seq \in Nat /\ (key # Clear => key \in Key)
    BY DEF OrderInv, TypeOK
  <2>2. CASE key = Clear /\ PlainFlush(q, w) /\ flush' = NoFlush
    BY <1>3, <2>1, <2>2, Typed, PlainFlushOrder, OneSuiteBoolean DEF OrderInv
  <2>3. CASE key # Clear /\ SealNext(q, key) /\ wire' = w
    BY <1>3, <2>1, <2>3, Typed, SealNextOrder, OneSuiteBoolean DEF OrderInv
  <2> QED
    BY <1>1, <2>2, <2>3
<1>6. session # None => session \in 1 .. Len(opened)
  BY Typed DEF OrderInv, TypeOK, None
<1>9. OneSuite' = OneSuite
  BY <1>1, SameSuites DEF handshakeVars
<1>7. TypeOK'
  BY <1>1, <1>5 DEF OrderInv, TypeOK, Wires, clientVars, handshakeVars, channelVars
<1>8. Settled'
  <2>1. \A s \in Sessions : s > Len(opened) => wire'[s] = <<>>
    <3>1. SUFFICES ASSUME NEW s \in Sessions, s > Len(opened) PROVE wire'[s] = <<>>
      OBVIOUS
    <3>2. s # flush.on /\ s # session
      BY <1>2, <1>6, <3>1, Typed DEF OrderInv, None, Sessions
    <3> QED
      BY <1>4, <1>5, <3>1, <3>2 DEF OrderInv, Settled
  <2>2. flush' # NoFlush => flush'.on <= Len(opened)
    BY <1>5, <1>6
  <2> QED
    BY <1>1, <1>5, <1>9, <2>1, <2>2 DEF OrderInv, Settled, clientVars, handshakeVars, channelVars
<1> QED
  BY <1>1, <1>5, <1>7, <1>8, <1>9 DEF OrderInv, InOrder, clientVars

\* An accept that is installed leaves no more order to ask for than before.
LEMMA SuiteInstalled ==
  ASSUME NEW h \in Handshakes, NEW stage \in {"encrypted", "plaintext"},
         handshake \in [Handshakes -> Call], handshake[h].stage = "deriving",
         handshake' = [handshake EXCEPT ![h].stage = stage]
  PROVE  /\ handshake' \in [Handshakes -> Call]
         /\ \A g \in Handshakes : g # h => handshake'[g] = handshake[g]
         /\ handshake'[h].stage = stage
         /\ OneSuite' => OneSuite
<1>1. handshake[h] \in Call
  OBVIOUS
<1>2. stage \in {"unused", "keys", "sent", "deriving", "over", "encrypted", "plaintext"}
  OBVIOUS
<1>3. handshake' = [handshake EXCEPT ![h] = [handshake[h] EXCEPT !.stage = stage]]
  OBVIOUS
<1>4. [handshake[h] EXCEPT !.stage = stage] \in Call
  BY <1>1, <1>2 DEF Call
<1>5. handshake' \in [Handshakes -> Call]
  BY <1>3, <1>4
<1>6. \A g \in Handshakes : g # h => handshake'[g] = handshake[g]
  OBVIOUS
<1>7. handshake'[h].stage = stage
  BY <1>1, <1>3 DEF Call
<1>8. OneSuite' => OneSuite
  BY <1>6 DEF OneSuite
<1> QED
  BY <1>5, <1>6, <1>7, <1>8

\* What is left to show once an accept has been installed and the queue flushed.
LEMMA InstalledStep ==
  ASSUME OrderInv, NEW h \in Handshakes, NEW stage \in {"encrypted", "plaintext"},
         handshake[h].stage = "deriving",
         handshake' = [handshake EXCEPT ![h].stage = stage],
         key' \in Key \cup {Clear}, waiter' = None,
         UNCHANGED <<deployment, clientVars, seq, random, channelVars>>,
         queue' \in Seq(Input), wire' \in Wires, flush' \in Flushing \cup {NoFlush},
         \A s \in Sessions \ {session} : wire'[s] = wire[s],
         \/ flush' = flush
         \/ flush' # NoFlush /\ flush'.on = session /\ session # None,
         OneSuite' /\ key' = Clear => flush' = NoFlush,
         InOrder(queue', wire', flush', seq', OneSuite')
  PROVE  OrderInv'
<1>1. /\ handshake' \in [Handshakes -> Call]
      /\ \A g \in Handshakes : g # h => handshake'[g] = handshake[g]
      /\ handshake'[h].stage = stage
  BY SuiteInstalled DEF OrderInv, TypeOK
<1>2. session # None => session \in 1 .. Len(opened)
  BY Typed DEF OrderInv, TypeOK, None
<1>3. TypeOK'
  BY <1>1 DEF OrderInv, TypeOK, Wires, clientVars, channelVars
<1>4. Settled'
  <2>1. \A s \in Sessions : s > Len(opened) => wire'[s] = wire[s]
    <3>1. CASE session = None
      BY <3>1 DEF Sessions, None
    <3>2. CASE session # None
      BY <1>2, <3>2, Typed DEF OrderInv
    <3> QED
      BY <3>1, <3>2
  <2>2. flush' # NoFlush => flush'.on <= Len(opened)
    BY <1>2 DEF OrderInv, Settled
  <2>3. \A g \in Handshakes :
          /\ handshake'[g].stage = "sent" => random # None
          /\ handshake'[g].stage = "deriving" => handshake'[g].random # None
    BY <1>1 DEF OrderInv, Settled
  <2>4. /\ UNCHANGED <<state, match, session, random, opened>>
        /\ state = "running" => session # None /\ match # None
        /\ \A s \in Sessions : s > Len(opened) => wire[s] = <<>>
    BY DEF OrderInv, Settled, clientVars, channelVars
  <2> QED
    BY <2>1, <2>2, <2>3, <2>4 DEF Settled
<1> QED
  BY <1>3, <1>4 DEF OrderInv, InOrder, clientVars

LEMMA DerivedStep ==
  ASSUME OrderInv, NEW h \in Handshakes, Derived(h)
  PROVE  OrderInv'
<1>1. /\ handshake[h].stage = "deriving"
      /\ handshake' = [handshake EXCEPT ![h].stage = "encrypted"]
      /\ key' = [kind |-> "handshake", of |-> h, random |-> handshake[h].random]
      /\ waiter' = None
      /\ FlushInputQueue(queue, key')
      /\ UNCHANGED <<deployment, clientVars, seq, random, channelVars>>
  BY DEF Derived
<1>2. key' \in Key /\ key' # Clear
  <2>1. handshake[h] \in Call /\ handshake[h].random \in Handshakes
    BY <1>1 DEF OrderInv, TypeOK, Settled, Call
  <2> QED
    BY <1>1, <2>1 DEF Key, Clear
<1>3. OneSuite' => OneSuite
  BY <1>1, SuiteInstalled DEF OrderInv, TypeOK
<1>4. InOrder(queue, wire, flush, seq, OneSuite')
  BY <1>3, OrderWeakens DEF OrderInv
<1>5. /\ queue' \in Seq(Input) /\ wire' \in Wires /\ flush' \in Flushing \cup {NoFlush}
      /\ \A s \in Sessions \ {session} : wire'[s] = wire[s]
      /\ flush' = flush \/ (flush' # NoFlush /\ flush'.on = session /\ session # None)
      /\ InOrder(queue', wire', flush', seq, OneSuite')
  <2>1. queue \in Seq(Input) /\ seq \in Nat /\ flush \in Flushing \cup {NoFlush}
    BY DEF OrderInv, TypeOK
  <2>2. wire \in Wires /\ session \in Sessions \cup {None} /\ live \subseteq Sessions
    BY Typed DEF OrderInv
  <2> DEFINE k == key'
             one == OneSuite'
  <2>3. one \in BOOLEAN /\ k \in Key \cup {Clear} /\ k # Clear
    BY <1>2 DEF OneSuite
  <2>4. FlushInputQueue(queue, k) /\ InOrder(queue, wire, flush, seq, one)
    BY <1>1, <1>4
  <2> HIDE DEF k, one
  <2>5. /\ queue' \in Seq(Input) /\ wire' \in Wires /\ flush' \in Flushing \cup {NoFlush}
        /\ \A s \in Sessions \ {session} : wire'[s] = wire[s]
        /\ flush' = flush \/ (flush' # NoFlush /\ flush'.on = session /\ session # None)
        /\ InOrder(queue', wire', flush', seq, one)
    BY <2>1, <2>2, <2>3, <2>4, FlushOrder
  <2> QED
    BY <2>5 DEF one
<1> QED
  BY <1>1, <1>2, <1>5, InstalledStep

\* An accept that selects plaintext: if it is the first suite installed, there is no
\* key and nothing is being sealed.
LEMMA PlaintextSelectedStep ==
  ASSUME OrderInv, Suites, NEW h \in Handshakes, PlaintextSelected(h)
  PROVE  OrderInv'
<1>1. /\ handshake[h].stage = "deriving"
      /\ handshake' = [handshake EXCEPT ![h].stage = "plaintext"]
      /\ key' = Clear
      /\ waiter' = None
      /\ PlainFlush(queue, wire) /\ flush' = flush
      /\ UNCHANGED <<deployment, clientVars, seq, random, channelVars>>
  BY DEF PlaintextSelected, FlushInputQueue
<1>2. /\ \A g \in Handshakes : g # h => handshake'[g] = handshake[g]
      /\ handshake'[h].stage = "plaintext"
      /\ OneSuite' => OneSuite
  BY <1>1, SuiteInstalled DEF OrderInv, TypeOK
<1>3. OneSuite' => flush = NoFlush
  <2>1. SUFFICES ASSUME flush # NoFlush PROVE ~ OneSuite'
    OBVIOUS
  <2>2. deployment = "handshake"
    BY <1>1 DEF Suites
  <2>3. PICK g \in Handshakes : handshake[g].stage = "encrypted"
    BY <2>1, <2>2 DEF Suites
  <2>4. g # h /\ handshake'[g].stage = "encrypted"
    BY <1>1, <1>2, <2>3
  <2> QED
    BY <1>2, <2>4 DEF OneSuite
<1>4. InOrder(queue, wire, flush, seq, OneSuite')
  BY <1>2, OrderWeakens DEF OrderInv
<1>5. /\ queue' \in Seq(Input) /\ wire' \in Wires
      /\ \A s \in Sessions \ {session} : wire'[s] = wire[s]
      /\ InOrder(queue', wire', flush, seq, OneSuite')
  <2>1. queue \in Seq(Input) /\ seq \in Nat /\ flush \in Flushing \cup {NoFlush}
    BY DEF OrderInv, TypeOK
  <2>2. wire \in Wires /\ session \in Sessions \cup {None} /\ live \subseteq Sessions
    BY Typed DEF OrderInv
  <2> DEFINE one == OneSuite'
  <2>3. one \in BOOLEAN /\ (one => flush = NoFlush)
    BY <1>3 DEF OneSuite
  <2>4. InOrder(queue, wire, flush, seq, one)
    BY <1>4
  <2> HIDE DEF one
  <2>5. /\ queue' \in Seq(Input) /\ wire' \in Wires
        /\ \A s \in Sessions \ {session} : wire'[s] = wire[s]
        /\ InOrder(queue', wire', flush, seq, one)
    BY <1>1, <2>1, <2>2, <2>3, <2>4, PlainFlushOrder
  <2> QED
    BY <2>5 DEF one
<1>6. flush' \in Flushing \cup {NoFlush} /\ key' \in Key \cup {Clear}
  BY <1>1 DEF OrderInv, TypeOK
<1> QED
  BY <1>1, <1>3, <1>5, <1>6, InstalledStep

LEMMA ConnectStep ==
  ASSUME OrderInv, NEW m \in Matches, Connect(m)
  PROVE  OrderInv'
<1>1. /\ match' = m /\ key' = InitialKey(m) /\ state # "running"
      /\ UNCHANGED <<deployment, seq, queueVars, handshakeVars, opening, ended>>
      /\ \/ /\ Len(opened) < MaxSessions
            /\ state' = "running"
            /\ opened' = Append(opened, m)
            /\ session' = Len(opened')
            /\ live' = live \cup {session'}
         \/ /\ state' = "failed"
            /\ UNCHANGED <<session, opened, live>>
  BY DEF Connect, MayConnect
<1>2. key' \in Key \cup {Clear}
  BY <1>1 DEF InitialKey, Key
<1>5. OneSuite' = OneSuite
  BY <1>1, SameSuites DEF handshakeVars
<1>3. CASE state' = "failed" /\ UNCHANGED <<session, opened, live>>
  <2>1. TypeOK'
    BY <1>1, <1>2, <1>3 DEF OrderInv, TypeOK, queueVars, handshakeVars
  <2>2. Settled'
    BY <1>1, <1>3 DEF OrderInv, Settled, queueVars, handshakeVars
  <2> QED
    BY <1>1, <1>3, <1>5, <2>1, <2>2, OrderUntouched DEF OrderInv
<1>4. CASE /\ Len(opened) < MaxSessions
           /\ state' = "running"
           /\ opened' = Append(opened, m)
           /\ session' = Len(opened')
           /\ live' = live \cup {session'}
  <2>1. /\ opened' \in Seq(Matches) /\ Len(opened') = Len(opened) + 1
        /\ Len(opened) \in Nat /\ Len(opened') <= MaxSessions
    BY <1>4, Typed DEF OrderInv, TypeOK
  <2>2. session' \in Sessions /\ session' > Len(opened) /\ session' # None
    BY <1>4, <2>1, Typed DEF OrderInv, Sessions, None
  <2>3. live' \subseteq 1 .. Len(opened') /\ session' \in 0 .. Len(opened')
    <3>1. live \subseteq 1 .. Len(opened)
      BY DEF OrderInv, TypeOK
    <3>2. session' \in 1 .. Len(opened') /\ 1 .. Len(opened) \subseteq 1 .. Len(opened')
      BY <1>4, <2>1
    <3>3. live' \subseteq 1 .. Len(opened')
      BY <1>4, <3>1, <3>2
    <3> QED
      BY <3>2, <3>3
  <2>4. TypeOK'
    BY <1>1, <1>2, <1>4, <2>1, <2>3 DEF OrderInv, TypeOK, queueVars, handshakeVars
  <2>5. flush # NoFlush => flush.on <= Len(opened) /\ flush.on \in Sessions
    BY DEF OrderInv, Settled, TypeOK, Flushing
  <2>6. flush # NoFlush => flush.on # session' /\ flush.on <= Len(opened')
    BY <2>1, <2>2, <2>5 DEF Sessions
  <2>7. \A s \in Sessions : s > Len(opened') => wire'[s] = <<>>
    BY <1>1, <2>1 DEF OrderInv, Settled, queueVars, Sessions
  <2>8. Settled'
    BY <1>1, <1>4, <2>2, <2>6, <2>7
       DEF OrderInv, Settled, queueVars, handshakeVars, Matches, None
  <2>9. Before(wire'[session'], queue')
    <3>1. wire'[session'] = <<>>
      BY <1>1, <2>2 DEF OrderInv, Settled, queueVars
    <3> QED
      BY <3>1 DEF Before
  <2>10. InOrder(queue, wire, flush, seq, OneSuite)'
    BY <1>1, <1>5, <2>6, <2>9 DEF OrderInv, InOrder, queueVars
  <2> QED
    BY <2>4, <2>8, <2>10 DEF OrderInv
<1> QED
  BY <1>1, <1>3, <1>4

LEMMA CloseStep ==
  ASSUME OrderInv, Close
  PROVE  OrderInv'
<1>1. /\ session' = None /\ live' = live \ {session} /\ waiter' = None
      /\ state' \in {"failed", "closed"}
      /\ UNCHANGED <<deployment, match, key, seq, queueVars, random, handshake, opening, opened,
                     ended>>
  BY DEF Close
<1>2. TypeOK'
  BY <1>1, Typed DEF OrderInv, TypeOK, queueVars, None
<1>3. Settled'
  BY <1>1 DEF OrderInv, Settled, queueVars
<1>4. InOrder(queue, wire, flush, seq, OneSuite)'
  <2>1. flush # NoFlush => flush.on # None
    BY DEF OrderInv, TypeOK, Flushing, Sessions, None
  <2>2. OneSuite' = OneSuite
    BY <1>1, SameSuites
  <2> QED
    BY <1>1, <2>1, <2>2 DEF OrderInv, InOrder, queueVars
<1> QED
  BY <1>2, <1>3, <1>4 DEF OrderInv

LEMMA SealedRefusedStep ==
  ASSUME OrderInv, SealedRefused
  PROVE  OrderInv'
<1>1. /\ flush' = NoFlush
      /\ UNCHANGED <<deployment, clientVars, key, seq, queue, wire, handshakeVars, channelVars>>
  BY DEF SealedRefused
<1>2. TypeOK'
  BY <1>1 DEF OrderInv, TypeOK, clientVars, handshakeVars, channelVars
<1>3. Settled'
  BY <1>1 DEF OrderInv, Settled, clientVars, handshakeVars, channelVars
<1>4. InOrder(queue, wire, flush, seq, OneSuite)'
  <2>1. OneSuite' = OneSuite
    BY <1>1, SameSuites DEF handshakeVars
  <2> QED
    BY <1>1, <2>1 DEF OrderInv, InOrder, clientVars
<1> QED
  BY <1>2, <1>3, <1>4 DEF OrderInv

\* Only an accept that is installed has a suite.
LEMMA StagesKept ==
  ASSUME NEW h \in Handshakes, handshake \in [Handshakes -> Call],
         PerformHandshake(h) \/ SendHello(h) \/ Accept(h) \/ NotDerived(h)
  PROVE  \A g \in Handshakes :
           /\ handshake'[g].stage = "encrypted" <=> handshake[g].stage = "encrypted"
           /\ handshake'[g].stage = "plaintext" <=> handshake[g].stage = "plaintext"
<1>1. handshake[h] \in Call /\ handshake[h].stage \notin {"encrypted", "plaintext"}
  BY DEF PerformHandshake, SendHello, Accept, NotDerived
<1>2. handshake'[h].stage \notin {"encrypted", "plaintext"}
  <2>1. CASE PerformHandshake(h)
    BY <1>1, <2>1 DEF PerformHandshake, Call
  <2>2. CASE SendHello(h)
    BY <1>1, <2>2 DEF SendHello, Call
  <2>3. CASE Accept(h)
    BY <1>1, <2>3 DEF Accept, Call
  <2>4. CASE NotDerived(h)
    BY <1>1, <2>4 DEF NotDerived, Call
  <2> QED
    BY <2>1, <2>2, <2>3, <2>4
<1>3. \A g \in Handshakes : g # h => handshake'[g] = handshake[g]
  BY DEF PerformHandshake, SendHello, Accept, NotDerived
<1> QED
  BY <1>1, <1>2, <1>3

LEMMA HandshakeStep ==
  ASSUME OrderInv, NEW h \in Handshakes,
         PerformHandshake(h) \/ SendHello(h) \/ Accept(h) \/ NotDerived(h)
  PROVE  OrderInv'
<1>1. /\ UNCHANGED <<deployment, clientVars, key, seq, queueVars, channelVars>>
      /\ waiter' \in Handshakes \cup {None}
  BY DEF PerformHandshake, SendHello, Accept, NotDerived, OrderInv, TypeOK
<1>2. /\ handshake' \in [Handshakes -> Call] /\ random' \in Handshakes \cup {None}
      /\ \A g \in Handshakes :
           /\ handshake'[g].stage = "sent" => random' # None
           /\ handshake'[g].stage = "deriving" => handshake'[g].random # None
  <2>1. h # None
    BY DEF Handshakes, None
  <2>2. session \in Sessions \cup {None}
    BY Typed DEF OrderInv
  <2>3. CASE PerformHandshake(h)
    BY <2>3, ZenonT(40) DEF PerformHandshake, OrderInv, TypeOK, Settled, Call
  <2>4. CASE SendHello(h)
    <3>1. handshake \in [Handshakes -> Call]
      BY DEF OrderInv, TypeOK
    <3>2. random' = h
      BY <2>4 DEF SendHello
    <3>3. CASE handshake' = [handshake EXCEPT ![h].stage = "sent", ![h].on = session]
      <4>1. handshake' \in [Handshakes -> Call]
        BY <2>2, <3>1, <3>3, ZenonT(40) DEF Call
      <4>2. handshake'[h].stage = "sent" /\ \A g \in Handshakes \ {h} : handshake'[g] = handshake[g]
        BY <3>1, <3>3 DEF Call
      <4> QED
        BY <2>1, <3>2, <4>1, <4>2 DEF OrderInv, Settled
    <3>4. CASE handshake' = [handshake EXCEPT ![h].stage = "over"]
      <4>1. handshake' \in [Handshakes -> Call]
        BY <3>1, <3>4 DEF Call
      <4>2. handshake'[h].stage = "over" /\ \A g \in Handshakes \ {h} : handshake'[g] = handshake[g]
        BY <3>1, <3>4 DEF Call
      <4> QED
        BY <2>1, <3>2, <4>1, <4>2 DEF OrderInv, Settled
    <3> QED
      BY <2>4, <3>3, <3>4 DEF SendHello
  <2>5. CASE Accept(h)
    BY <2>5, ZenonT(40) DEF Accept, OrderInv, TypeOK, Settled, Call
  <2>6. CASE NotDerived(h)
    BY <2>6, ZenonT(40) DEF NotDerived, OrderInv, TypeOK, Settled, Call
  <2> QED
    BY <2>3, <2>4, <2>5, <2>6
<1>3. TypeOK'
  BY <1>1, <1>2 DEF OrderInv, TypeOK, clientVars, queueVars, channelVars
<1>4. UNCHANGED <<state, match, session, key, flush, wire, opened>>
  BY <1>1 DEF clientVars, queueVars, channelVars
<1>6. OneSuite' = OneSuite
  <2>1. \A g \in Handshakes :
          /\ handshake'[g].stage = "encrypted" <=> handshake[g].stage = "encrypted"
          /\ handshake'[g].stage = "plaintext" <=> handshake[g].stage = "plaintext"
    BY StagesKept DEF OrderInv, TypeOK
  <2> QED
    BY <2>1 DEF OneSuite
<1>5. Settled'
  BY <1>2, <1>4, <1>6 DEF OrderInv, Settled
<1> QED
  BY <1>1, <1>3, <1>5, <1>6, OrderUntouched DEF OrderInv, clientVars

LEMMA OtherStep ==
  ASSUME OrderInv,
         \/ HandshakeTimeout
         \/ \E s \in Sessions : ChannelCloses(s) \/ Result(s) \/ ResultOpened(s)
  PROVE  OrderInv'
<1>1. /\ UNCHANGED <<deployment, match, session, key, seq, queueVars, random, handshake, opened>>
      /\ waiter' \in Handshakes \cup {None}
      /\ state' = state \/ state' = "finished"
      /\ live' \subseteq live /\ ended' \subseteq Sessions /\ opening' \subseteq Sessions
  <2>1. CASE HandshakeTimeout
    BY <2>1 DEF HandshakeTimeout, OrderInv, TypeOK, clientVars, channelVars
  <2>2. CASE \E s \in Sessions : ChannelCloses(s) \/ Result(s) \/ ResultOpened(s)
    BY <2>2 DEF ChannelCloses, Result, ResultOpened, OrderInv, TypeOK, clientVars, handshakeVars
  <2> QED
    BY <2>1, <2>2
<1>2. TypeOK'
  BY <1>1 DEF OrderInv, TypeOK, queueVars
<1>4. OneSuite' = OneSuite
  BY <1>1, SameSuites
<1>3. Settled'
  BY <1>1, <1>4 DEF OrderInv, Settled, queueVars
<1> QED
  BY <1>1, <1>2, <1>3, <1>4, OrderUntouched DEF OrderInv

\* Only a handshake installs a suite, and what is sealed afterwards has its key.
LEMMA SuitesStep == OrderInv /\ Suites /\ [Next]_vars => Suites'
<1> SUFFICES ASSUME OrderInv, Suites, [Next]_vars PROVE Suites'
  OBVIOUS
<1>1. ASSUME UNCHANGED <<deployment, handshake>>,
             deployment = "handshake" /\ (key' # Clear \/ flush' # NoFlush) =>
               key # Clear \/ flush # NoFlush
      PROVE  Suites'
  BY <1>1 DEF Suites
<1>2. ASSUME NEW m \in Matches, Connect(m) PROVE Suites'
  BY <1>1, <1>2 DEF Connect, InitialKey, queueVars, handshakeVars
<1>3. CASE SendInput
  BY <1>1, <1>3 DEF SendInput, FlushInputQueue, SealNext, handshakeVars
<1>4. CASE SealedSent
  BY <1>1, <1>4 DEF SealedSent, SealNext, handshakeVars
<1>5. CASE SealedRefused \/ Close \/ HandshakeTimeout \/ UNCHANGED vars
  BY <1>1, <1>5 DEF SealedRefused, Close, HandshakeTimeout, vars, queueVars, handshakeVars
<1>6. ASSUME NEW s \in Sessions, ChannelCloses(s) \/ Result(s) \/ ResultOpened(s) PROVE Suites'
  BY <1>1, <1>6 DEF ChannelCloses, Result, ResultOpened, queueVars, handshakeVars
<1>7. ASSUME NEW h \in Handshakes,
             PerformHandshake(h) \/ SendHello(h) \/ Accept(h) \/ NotDerived(h)
      PROVE  Suites'
  <2>1. UNCHANGED <<deployment, key, flush>>
    BY <1>7 DEF PerformHandshake, SendHello, Accept, NotDerived, queueVars
  <2>2. \A g \in Handshakes :
          handshake'[g].stage = "encrypted" <=> handshake[g].stage = "encrypted"
    BY <1>7, StagesKept DEF OrderInv, TypeOK
  <2>3. \A g \in Handshakes : g # h => handshake'[g] = handshake[g]
    BY <1>7 DEF PerformHandshake, SendHello, Accept, NotDerived, OrderInv, TypeOK
  <2>4. deployment = "handshake"
    BY <1>7 DEF PerformHandshake, SendHello, Accept, NotDerived, Suites
  <2> QED
    BY <2>1, <2>2, <2>3, <2>4 DEF Suites
<1>8. ASSUME NEW h \in Handshakes, NEW stage \in {"encrypted", "plaintext"},
             handshake[h].stage = "deriving", deployment' = deployment,
             handshake' = [handshake EXCEPT ![h].stage = stage],
             stage = "encrypted" \/ (key' = Clear /\ flush' = flush)
      PROVE  Suites'
  <2>1. /\ \A g \in Handshakes : g # h => handshake'[g] = handshake[g]
        /\ handshake'[h].stage = stage
    BY <1>8, SuiteInstalled DEF OrderInv, TypeOK
  <2>2. deployment = "handshake"
    BY <1>8 DEF Suites
  <2>3. CASE stage = "encrypted"
    BY <1>8, <2>1, <2>2, <2>3 DEF Suites
  <2>4. CASE key' = Clear /\ flush' = flush
    BY <1>8, <2>1, <2>2, <2>4 DEF Suites
  <2> QED
    BY <1>8, <2>3, <2>4
<1>9. ASSUME NEW h \in Handshakes, Derived(h) \/ PlaintextSelected(h) PROVE Suites'
  <2>1. CASE Derived(h)
    BY <1>8, <2>1 DEF Derived
  <2>2. CASE PlaintextSelected(h)
    BY <1>8, <2>2 DEF PlaintextSelected, FlushInputQueue
  <2> QED
    BY <1>9, <2>1, <2>2
<1> QED
  BY <1>2, <1>3, <1>4, <1>5, <1>6, <1>7, <1>9 DEF Next

LEMMA OrderStep == OrderInv /\ Suites /\ [Next]_vars => OrderInv'
<1> SUFFICES ASSUME OrderInv, Suites, [Next]_vars PROVE OrderInv'
  OBVIOUS
<1>1. ASSUME NEW m \in Matches, Connect(m) PROVE OrderInv'
  BY <1>1, ConnectStep
<1>2. CASE SendInput
  BY <1>2, SendInputStep
<1>3. CASE SealedSent
  BY <1>3, SealedSentStep
<1>4. CASE SealedRefused
  BY <1>4, SealedRefusedStep
<1>5. CASE Close
  BY <1>5, CloseStep
<1>6. CASE HandshakeTimeout \/ \E s \in Sessions : ChannelCloses(s) \/ Result(s) \/ ResultOpened(s)
  BY <1>6, OtherStep
<1>7. ASSUME NEW h \in Handshakes,
             PerformHandshake(h) \/ SendHello(h) \/ Accept(h) \/ NotDerived(h)
      PROVE  OrderInv'
  BY <1>7, HandshakeStep
<1>8. ASSUME NEW h \in Handshakes, Derived(h) PROVE OrderInv'
  BY <1>8, DerivedStep
<1>10. ASSUME NEW h \in Handshakes, PlaintextSelected(h) PROVE OrderInv'
  BY <1>10, PlaintextSelectedStep
<1>9. CASE UNCHANGED vars
  <2>1. UNCHANGED <<deployment, state, match, session, key, seq, queue, flush, wire, random,
                    handshake, waiter, opening, opened, live, ended>>
    BY <1>9 DEF vars, clientVars, queueVars, handshakeVars, channelVars
  <2>3. OneSuite' = OneSuite
    BY <2>1, SameSuites
  <2>2. TypeOK' /\ Settled'
    BY <2>1, <2>3 DEF OrderInv, TypeOK, Settled
  <2> QED
    BY <2>1, <2>2, <2>3, OrderUntouched DEF OrderInv, queueVars
<1> QED
  BY <1>1, <1>2, <1>3, <1>4, <1>5, <1>6, <1>7, <1>8, <1>9, <1>10 DEF Next

LEMMA SuitesInit == Init => Suites
  BY DEF Init, Suites

LEMMA OrderInvariant == Spec => [](OrderInv /\ Suites)
<1>1. Init => OrderInv /\ Suites
  BY OrderInit, SuitesInit
<1>2. OrderInv /\ Suites /\ [Next]_vars => (OrderInv /\ Suites)'
  BY OrderStep, SuitesStep
<1> QED
  BY <1>1, <1>2, PTL DEF Spec

\* Every variable stays in its set, for any number of matches, sessions, inputs and
\* handshakes.
THEOREM TypeCorrect == Spec => []TypeOK
<1>1. OrderInv /\ Suites => TypeOK
  BY DEF OrderInv
<1> QED
  BY <1>1, OrderInvariant, PTL

\* Each session carries each input at most once and in order, however the flushes,
\* the reconnects, the handshakes and their suites interleave, but for a sealed frame
\* that an accept selecting plaintext has overtaken (flushPlainQueue,
\* flushSealedQueue, completeHandshake).
THEOREM FramesInOrderHolds == Spec => []FramesInOrder
<1>1. OrderInv /\ Suites => FramesInOrder
  BY DEF OrderInv, InOrder, FramesAscend, FramesInOrder
<1> QED
  BY <1>1, OrderInvariant, PTL

-----------------------------------------------------------------------------
(* Keys, results and the inputs that are kept *)

\* Frames in the clear do not follow sealed ones.
ClearFirst(w) ==
  \A i, j \in 1 .. Len(w) : i < j /\ w[j].key = Clear => w[i].key = Clear

AllClear(w) == \A i \in 1 .. Len(w) : w[i].key = Clear

Taken(w, n) == \E s \in Sessions : \E i \in 1 .. Len(w[s]) : w[s][i].input.seq = n

\* The inputs up to n are queued in q or taken by a session.
Kept(q, w, n) == \A k \in 1 .. n : Taken(w, k) \/ \E i \in 1 .. Len(q) : q[i].seq = k

\* Without a handshake there is no handshake key, and the sessions whose result is
\* still to come are the current one of a client that runs.
ResultInv ==
  deployment # "handshake" =>
    /\ key.kind # "handshake"
    /\ \A h \in Handshakes : handshake[h].stage = "unused"
    /\ opening = {}
    /\ live \ ended \subseteq (IF state = "running" THEN {session} ELSE {})

\* What is sealed, for the current session and in general.
KeyInv ==
  /\ deployment = "plain" => key = Clear /\ flush = NoFlush
  /\ deployment = "lobby" =>
       /\ key = Clear => flush = NoFlush
       /\ state = "running" =>
            /\ key = [kind |-> "lobby", of |-> opened[session]]
            /\ flush # NoFlush /\ flush.on = session => flush.key = key
  /\ OneSuite /\ state = "running" =>
       /\ ClearFirst(wire[session])
       /\ key = Clear => AllClear(wire[session])

KeptInv ==
  deployment # "handshake" =>
    /\ flush # NoFlush => queue # <<>> /\ queue[1] = flush.input
    /\ Kept(queue, wire, seq)

ClientInv == OrderInv /\ Suites /\ ResultInv /\ KeyInv /\ KeptInv

LEMMA ConcatFrames ==
  ASSUME NEW a \in Seq(Frame), NEW b \in Seq(Frame)
  PROVE  /\ Len(a) \in Nat /\ Len(b) \in Nat /\ Len(a \o b) = Len(a) + Len(b)
         /\ \A i \in 1 .. Len(a) : (a \o b)[i] = a[i]
         /\ \A i \in 1 .. Len(b) : (a \o b)[Len(a) + i] = b[i]
OBVIOUS

\* What flushPlainQueue does to the wires, frame by frame.
LEMMA PlainFlushFrames ==
  ASSUME NEW q \in Seq(Input), NEW w \in Wires, live \subseteq Sessions, PlainFlush(q, w)
  PROVE  \/ queue' = q /\ wire' = w
         \/ /\ queue' = <<>> /\ session \in Sessions
            /\ \A s \in Sessions \ {session} : wire'[s] = w[s]
            /\ Len(w[session]) \in Nat /\ Len(q) \in Nat
            /\ Len(wire'[session]) = Len(w[session]) + Len(q)
            /\ \A i \in 1 .. Len(w[session]) : wire'[session][i] = w[session][i]
            /\ \A i \in 1 .. Len(q) :
                 /\ wire'[session][Len(w[session]) + i].input = q[i]
                 /\ wire'[session][Len(w[session]) + i].key = Clear
<1>1. CASE session \notin live /\ wire' = w /\ queue' = q
  BY <1>1
<1>2. CASE session \in live /\ wire' = [w EXCEPT ![session] = @ \o Frames(q, Clear)]
           /\ queue' = <<>>
  <2> DEFINE u == Frames(q, Clear)
  <2>1. session \in Sessions /\ w[session] \in Seq(Frame)
    BY <1>2 DEF Wires
  <2>2. /\ u \in Seq(Frame) /\ Len(u) = Len(q)
        /\ \A i \in 1 .. Len(q) : u[i].input = q[i] /\ u[i].key = Clear
    BY FramesOfQueue
  <2>3. /\ wire'[session] = w[session] \o u
        /\ \A s \in Sessions \ {session} : wire'[s] = w[s]
    BY <1>2, <2>1 DEF Wires
  <2> HIDE DEF u
  <2>4. /\ Len(w[session]) \in Nat /\ Len(q) \in Nat
        /\ Len(wire'[session]) = Len(w[session]) + Len(q)
        /\ \A i \in 1 .. Len(w[session]) : wire'[session][i] = w[session][i]
        /\ \A i \in 1 .. Len(q) : wire'[session][Len(w[session]) + i] = u[i]
    <3> DEFINE a == w[session]
               c == a \o u
    <3>1. /\ Len(a) \in Nat /\ Len(u) \in Nat /\ Len(c) = Len(a) + Len(u)
          /\ \A i \in 1 .. Len(a) : c[i] = a[i]
          /\ \A i \in 1 .. Len(u) : c[Len(a) + i] = u[i]
      BY <2>1, <2>2, ConcatFrames
    <3>2. wire'[session] = c /\ Len(u) = Len(q)
      BY <2>2, <2>3
    <3> HIDE DEF c
    <3> QED
      BY <3>1, <3>2
  <2> QED
    BY <1>2, <2>1, <2>2, <2>3, <2>4, SMTT(40)
<1> QED
  BY <1>1, <1>2 DEF PlainFlush

\* flushPlainQueue keeps every input.
LEMMA PlainFlushKeeps ==
  ASSUME NEW q \in Seq(Input), NEW w \in Wires, NEW n \in Nat, live \subseteq Sessions,
         Kept(q, w, n), PlainFlush(q, w)
  PROVE  Kept(queue', wire', n)
<1>1. CASE queue' = q /\ wire' = w
  BY <1>1
<1>2. CASE /\ queue' = <<>> /\ session \in Sessions
           /\ \A s \in Sessions \ {session} : wire'[s] = w[s]
           /\ Len(w[session]) \in Nat /\ Len(q) \in Nat
           /\ Len(wire'[session]) = Len(w[session]) + Len(q)
           /\ \A i \in 1 .. Len(w[session]) : wire'[session][i] = w[session][i]
           /\ \A i \in 1 .. Len(q) : wire'[session][Len(w[session]) + i].input = q[i]
  <2>1. SUFFICES ASSUME NEW k \in 1 .. n PROVE Taken(wire', k)
    BY DEF Kept
  <2>2. CASE Taken(w, k)
    <3>1. PICK s \in Sessions : \E i \in 1 .. Len(w[s]) : w[s][i].input.seq = k
      BY <2>2 DEF Taken
    <3>2. PICK i \in 1 .. Len(w[s]) : w[s][i].input.seq = k
      BY <3>1
    <3>3. i \in 1 .. Len(wire'[s]) /\ wire'[s][i] = w[s][i]
      BY <1>2, <3>2, SMTT(40)
    <3> QED
      BY <3>2, <3>3 DEF Taken
  <2>3. CASE \E i \in 1 .. Len(q) : q[i].seq = k
    <3>1. PICK i \in 1 .. Len(q) : q[i].seq = k
      BY <2>3
    <3>2. Len(w[session]) + i \in 1 .. Len(wire'[session])
      BY <1>2, <3>1, SMTT(40)
    <3>3. wire'[session][Len(w[session]) + i].input.seq = k
      BY <1>2, <3>1
    <3> QED
      BY <1>2, <3>2, <3>3 DEF Taken
  <2> QED
    BY <2>2, <2>3 DEF Kept
<1> QED
  <2>1. \/ queue' = q /\ wire' = w
        \/ /\ queue' = <<>> /\ session \in Sessions
           /\ \A s \in Sessions \ {session} : wire'[s] = w[s]
           /\ Len(w[session]) \in Nat /\ Len(q) \in Nat
           /\ Len(wire'[session]) = Len(w[session]) + Len(q)
           /\ \A i \in 1 .. Len(w[session]) : wire'[session][i] = w[session][i]
           /\ \A i \in 1 .. Len(q) : wire'[session][Len(w[session]) + i].input = q[i]
    BY PlainFlushFrames
  <2> QED
    BY <1>1, <1>2, <2>1

\* flushPlainQueue adds frames in the clear only.
LEMMA PlainFlushClear ==
  ASSUME NEW q \in Seq(Input), NEW w \in Wires, live \subseteq Sessions, PlainFlush(q, w),
         session \in Sessions, AllClear(w[session])
  PROVE  AllClear(wire'[session])
<1>1. CASE queue' = q /\ wire' = w
  BY <1>1
<1>2. CASE /\ Len(w[session]) \in Nat /\ Len(q) \in Nat
           /\ Len(wire'[session]) = Len(w[session]) + Len(q)
           /\ \A i \in 1 .. Len(w[session]) : wire'[session][i] = w[session][i]
           /\ \A i \in 1 .. Len(q) : wire'[session][Len(w[session]) + i].key = Clear
  <2>1. SUFFICES ASSUME NEW i \in 1 .. Len(wire'[session]) PROVE wire'[session][i].key = Clear
    BY DEF AllClear
  <2>2. CASE i <= Len(w[session])
    BY <1>2, <2>2 DEF AllClear
  <2>3. CASE i > Len(w[session])
    <3>1. i - Len(w[session]) \in 1 .. Len(q) /\ Len(w[session]) + (i - Len(w[session])) = i
      BY <1>2, <2>3
    <3> QED
      BY <1>2, <3>1
  <2> QED
    BY <1>2, <2>2, <2>3
<1> QED
  BY <1>1, <1>2, PlainFlushFrames

\* The sealed input is taken by its session, and the others stay.
LEMMA SealedKeeps ==
  ASSUME NEW n \in Nat, NEW w \in Wires, NEW f \in Frame, NEW t \in Sessions,
         queue \in Seq(Input), wire \in Wires, queue # <<>>, queue[1] = f.input,
         w = [wire EXCEPT ![t] = Append(@, f)], Kept(queue, wire, n)
  PROVE  Kept(Shifted(queue), w, n)
<1> DEFINE q == Shifted(queue)
<1>1. q = Tail(queue)
  BY DEF Shifted
<1>2. /\ Len(q) = Len(queue) - 1 /\ Len(queue) \in Nat \ {0}
      /\ \A i \in 1 .. Len(q) : q[i] = queue[i + 1]
  BY <1>1
<1>3. wire[t] \in Seq(Frame) /\ w[t] = Append(wire[t], f)
      /\ \A s \in Sessions \ {t} : w[s] = wire[s]
  BY DEF Wires
<1>4. /\ Len(w[t]) = Len(wire[t]) + 1 /\ Len(wire[t]) \in Nat
      /\ \A i \in 1 .. Len(wire[t]) : w[t][i] = wire[t][i]
      /\ w[t][Len(wire[t]) + 1] = f
  BY <1>3
<1> HIDE DEF q
<1>5. SUFFICES ASSUME NEW k \in 1 .. n
               PROVE  Taken(w, k) \/ \E i \in 1 .. Len(q) : q[i].seq = k
  BY DEF Kept, q
<1>6. CASE Taken(wire, k)
  <2>1. PICK s \in Sessions : \E i \in 1 .. Len(wire[s]) : wire[s][i].input.seq = k
    BY <1>6 DEF Taken
  <2>2. PICK i \in 1 .. Len(wire[s]) : wire[s][i].input.seq = k
    BY <2>1
  <2>3. i \in 1 .. Len(w[s]) /\ w[s][i] = wire[s][i]
    BY <1>3, <1>4, <2>2
  <2> QED
    BY <2>2, <2>3 DEF Taken
<1>7. CASE \E i \in 1 .. Len(queue) : queue[i].seq = k
  <2>1. PICK i \in 1 .. Len(queue) : queue[i].seq = k
    BY <1>7
  <2>2. CASE i = 1
    <3>1. Len(wire[t]) + 1 \in 1 .. Len(w[t]) /\ w[t][Len(wire[t]) + 1].input.seq = k
      BY <1>4, <2>1, <2>2
    <3> QED
      BY <3>1 DEF Taken
  <2>3. CASE i # 1
    <3>1. i - 1 \in 1 .. Len(q) /\ (i - 1) + 1 = i
      BY <1>2, <2>1, <2>3
    <3>2. q[i - 1].seq = k
      BY <1>2, <2>1, <3>1
    <3> QED
      BY <3>1, <3>2
  <2> QED
    BY <2>2, <2>3
<1> QED
  BY <1>6, <1>7 DEF Kept

LEMMA ResultStep == OrderInv /\ ResultInv /\ [Next]_vars => ResultInv'
<1> SUFFICES ASSUME OrderInv, ResultInv, [Next]_vars, deployment' # "handshake" PROVE ResultInv'
  BY DEF ResultInv
<1>1. deployment' = deployment
  BY DEF Next, vars, Connect, SendInput, SealedSent, SealedRefused, Close, ChannelCloses, Result,
         ResultOpened, PerformHandshake, SendHello, Accept, Derived, PlaintextSelected, NotDerived,
         HandshakeTimeout
<1>2. /\ key.kind # "handshake"
      /\ \A h \in Handshakes : handshake[h].stage = "unused"
      /\ opening = {}
      /\ live \ ended \subseteq (IF state = "running" THEN {session} ELSE {})
      /\ deployment # "handshake"
  BY <1>1 DEF ResultInv
<1>3. ASSUME NEW m \in Matches, Connect(m) PROVE ResultInv'
  <2>1. key'.kind # "handshake"
    BY <1>3 DEF Connect, InitialKey, Clear
  <2>2. live' \ ended' \subseteq (IF state' = "running" THEN {session'} ELSE {})
    BY <1>2, <1>3 DEF Connect, MayConnect
  <2> QED
    BY <1>2, <1>3, <2>1, <2>2 DEF Connect, ResultInv, handshakeVars
<1>4. CASE SendInput \/ SealedSent \/ SealedRefused \/ HandshakeTimeout
  BY <1>2, <1>4 DEF SendInput, SealedSent, SealedRefused, HandshakeTimeout, ResultInv, clientVars,
                    handshakeVars, channelVars
<1>5. CASE Close
  BY <1>2, <1>5 DEF Close, ResultInv
<1>6. ASSUME NEW s \in Sessions, ChannelCloses(s) \/ Result(s) \/ ResultOpened(s) PROVE ResultInv'
  <2>1. CASE ChannelCloses(s)
    BY <1>2, <2>1 DEF ChannelCloses, ResultInv, clientVars, handshakeVars
  <2>2. CASE Result(s)
    BY <1>2, <2>2 DEF Result, ResultInv, handshakeVars
  <2>3. CASE ResultOpened(s)
    BY <1>2, <2>3 DEF ResultOpened
  <2> QED
    BY <1>6, <2>1, <2>2, <2>3
<1>7. ASSUME NEW h \in Handshakes,
             PerformHandshake(h) \/ SendHello(h) \/ Accept(h) \/ Derived(h)
               \/ PlaintextSelected(h) \/ NotDerived(h)
      PROVE  ResultInv'
  BY <1>2, <1>7 DEF PerformHandshake, SendHello, Accept, Derived, PlaintextSelected, NotDerived
<1>8. CASE UNCHANGED vars
  BY <1>2, <1>8 DEF vars, ResultInv, clientVars, handshakeVars, channelVars
<1> QED
  BY <1>3, <1>4, <1>5, <1>6, <1>7, <1>8 DEF Next

\* Actions that leave the queue, the wires and the numbering alone keep every input.
LEMMA KeptUntouched ==
  ASSUME KeptInv, UNCHANGED <<deployment, seq, queueVars>>
  PROVE  KeptInv'
BY DEF KeptInv, queueVars

LEMMA KeptStep == ClientInv /\ [Next]_vars => KeptInv'
<1> SUFFICES ASSUME ClientInv, [Next]_vars, deployment' # "handshake" PROVE KeptInv'
  BY DEF KeptInv
<1>1. deployment' = deployment /\ deployment \in {"plain", "lobby"}
  BY DeploymentAssumption
     DEF Next, vars, Connect, SendInput, SealedSent, SealedRefused, Close, ChannelCloses, Result,
         ResultOpened, PerformHandshake, SendHello, Accept, Derived, PlaintextSelected, NotDerived,
         HandshakeTimeout,
         ClientInv, OrderInv, TypeOK
<1>2. /\ flush # NoFlush => queue # <<>> /\ queue[1] = flush.input
      /\ Kept(queue, wire, seq)
      /\ key = Clear => flush = NoFlush
      /\ \A h \in Handshakes : handshake[h].stage = "unused"
  BY <1>1 DEF ClientInv, KeptInv, KeyInv, ResultInv
<1>3. /\ wire \in Wires /\ queue \in Seq(Input) /\ seq \in Nat /\ live \subseteq Sessions
      /\ flush \in Flushing \cup {NoFlush} /\ match \in Matches \cup {None}
  BY Typed DEF ClientInv, OrderInv, TypeOK
<1>4. CASE SendInput
  <2> DEFINE x == [match |-> match, seq |-> seq + 1]
             q == Append(queue, x)
  <2>1. /\ seq' = seq + 1 /\ state = "running"
        /\ FlushInputQueue(q, key) \/ (queue' = q /\ UNCHANGED <<flush, wire>>)
    BY <1>4 DEF SendInput
  <2>2. x \in Input /\ x.seq = seq'
    BY <1>3, <2>1 DEF ClientInv, OrderInv, Settled, Input
  <2> HIDE DEF x
  <2>3. /\ q \in Seq(Input) /\ q # <<>> /\ (queue # <<>> => q[1] = queue[1])
        /\ Len(q) = Len(queue) + 1 /\ Len(queue) \in Nat /\ q[Len(queue) + 1] = x
        /\ \A i \in 1 .. Len(queue) : q[i] = queue[i]
    <3>1. /\ q \in Seq(Input)
          /\ Len(q) = Len(queue) + 1 /\ Len(queue) \in Nat /\ q[Len(queue) + 1] = x
          /\ \A i \in 1 .. Len(queue) : q[i] = queue[i]
      BY <1>3, <2>2
    <3> HIDE DEF q
    <3>2. q # <<>>
      BY <3>1
    <3>3. queue # <<>> => 1 \in 1 .. Len(queue)
      BY <1>3, <3>1
    <3> QED
      BY <3>1, <3>2, <3>3
  <2> HIDE DEF q
  <2>4. Kept(q, wire, seq')
    <3>1. SUFFICES ASSUME NEW k \in 1 .. seq'
                   PROVE  Taken(wire, k) \/ \E i \in 1 .. Len(q) : q[i].seq = k
      BY DEF Kept
    <3>2. CASE k = seq'
      <4>1. Len(queue) + 1 \in 1 .. Len(q)
        BY <2>3
      <4> QED
        BY <2>2, <2>3, <3>2, <4>1
    <3>3. CASE k \in 1 .. seq
      <4>1. Taken(wire, k) \/ \E i \in 1 .. Len(queue) : queue[i].seq = k
        BY <1>2, <3>3 DEF Kept
      <4>2. \A i \in 1 .. Len(queue) : i \in 1 .. Len(q)
        BY <2>3
      <4> QED
        BY <2>3, <4>1, <4>2
    <3> QED
      BY <1>3, <2>1, <3>2, <3>3
  <2>5. CASE key = Clear /\ PlainFlush(q, wire) /\ UNCHANGED flush
    <3>1. Kept(queue', wire', seq')
      BY <1>3, <2>1, <2>3, <2>4, <2>5, PlainFlushKeeps
    <3> QED
      BY <1>2, <2>5, <3>1 DEF KeptInv
  <2>6. CASE key # Clear /\ flush = NoFlush /\ SealNext(q, key) /\ UNCHANGED wire
    <3>1. queue' = q /\ (flush' # NoFlush => flush'.input = Head(q))
      BY <2>6 DEF SealNext
    <3>2. Head(q) = q[1]
      BY <2>3
    <3> QED
      BY <2>3, <2>4, <2>6, <3>1, <3>2 DEF KeptInv
  <2>7. CASE queue' = q /\ UNCHANGED <<flush, wire>>
    BY <1>2, <2>3, <2>4, <2>7 DEF KeptInv
  <2> QED
    BY <2>1, <2>5, <2>6, <2>7 DEF FlushInputQueue
<1>5. CASE SealedSent
  <2> DEFINE f == [input |-> flush.input, key |-> flush.key]
             w == [wire EXCEPT ![flush.on] = Append(@, f)]
             q == Shifted(queue)
  <2>1. /\ flush # NoFlush /\ key # Clear /\ SealNext(q, key) /\ wire' = w /\ seq' = seq
    BY <1>2, <1>5 DEF SealedSent
  <2>2. flush.on \in Sessions /\ f \in Frame /\ f.input = flush.input /\ flush \in Flushing
    BY <1>3, <2>1 DEF Flushing, Frame
  <2>3. q \in Seq(Input) /\ w \in Wires
    BY <1>3, <2>1, <2>2, Typed, SealedOrder, OneSuiteBoolean DEF ClientInv, OrderInv
  <2>4. Kept(q, w, seq)
    <3> HIDE DEF f
    <3> QED
      BY <1>2, <1>3, <2>1, <2>2, <2>3, SealedKeeps
  <2> HIDE DEF q, w, f
  <2>5. queue' = q /\ (flush' # NoFlush => q # <<>> /\ flush'.input = Head(q))
    BY <2>1 DEF SealNext
  <2>6. q # <<>> => Head(q) = q[1]
    BY <2>3
  <2> QED
    BY <2>1, <2>4, <2>5, <2>6 DEF KeptInv
<1>6. CASE SealedRefused
  BY <1>2, <1>6 DEF SealedRefused, KeptInv
<1>7. ASSUME NEW h \in Handshakes, Derived(h) \/ PlaintextSelected(h) PROVE KeptInv'
  BY <1>2, <1>7 DEF Derived, PlaintextSelected
<1>8. CASE UNCHANGED <<deployment, seq, queueVars>>
  BY <1>8, KeptUntouched DEF ClientInv
<1> QED
  <2>1. \/ SendInput \/ SealedSent \/ SealedRefused
        \/ \E h \in Handshakes : Derived(h) \/ PlaintextSelected(h)
        \/ UNCHANGED <<deployment, seq, queueVars>>
    BY DEF Next, vars, Connect, Close, ChannelCloses, Result, ResultOpened, PerformHandshake,
           SendHello, Accept, NotDerived, HandshakeTimeout
  <2> QED
    BY <1>4, <1>5, <1>6, <1>7, <1>8, <2>1

\* A sealed frame added to a wire.
LEMMA SealedFrameLast ==
  ASSUME NEW w \in Seq(Frame), NEW f \in Frame, f.key # Clear, ClearFirst(w)
  PROVE  ClearFirst(Append(w, f))
<1>1. /\ Len(Append(w, f)) = Len(w) + 1 /\ Len(w) \in Nat /\ Append(w, f)[Len(w) + 1] = f
      /\ \A i \in 1 .. Len(w) : Append(w, f)[i] = w[i]
  OBVIOUS
<1> QED
  BY <1>1 DEF ClearFirst

LEMMA AllClearFirst ==
  ASSUME NEW w, AllClear(w)
  PROVE  ClearFirst(w)
BY DEF AllClear, ClearFirst

\* Actions that leave keys, flush, wires and the current session alone, and do not
\* start a client.
LEMMA KeyUntouched ==
  ASSUME KeyInv, state' = "running" => state = "running", OneSuite' => OneSuite,
         UNCHANGED <<deployment, session, key, opened, queueVars>>
  PROVE  KeyInv'
BY DEF KeyInv, queueVars

LEMMA KeySendInput ==
  ASSUME ClientInv, SendInput
  PROVE  KeyInv'
<1> DEFINE q == Append(queue, [match |-> match, seq |-> seq + 1])
<1>1. /\ state = "running"
      /\ UNCHANGED <<deployment, clientVars, key, handshakeVars, channelVars>>
      /\ FlushInputQueue(q, key) \/ (queue' = q /\ UNCHANGED <<flush, wire>>)
  BY DEF SendInput
<1>2. /\ q \in Seq(Input) /\ wire \in Wires /\ live \subseteq Sessions /\ session \in Sessions
  <2>1. [match |-> match, seq |-> seq + 1] \in Input
    BY <1>1, Typed DEF ClientInv, OrderInv, TypeOK, Settled, Input
  <2> QED
    BY <1>1, <2>1, Typed DEF ClientInv, OrderInv, TypeOK, Settled
<1> HIDE DEF q
<1>6. OneSuite' = OneSuite
  BY <1>1, SameSuites DEF handshakeVars
<1>3. CASE key = Clear /\ PlainFlush(q, wire) /\ UNCHANGED flush
  <2>1. OneSuite => AllClear(wire'[session])
    BY <1>1, <1>2, <1>3, PlainFlushClear DEF ClientInv, KeyInv
  <2>2. deployment # "lobby"
    <3>1. match \in Matches /\ opened \in Seq(Matches) /\ session \in 1 .. Len(opened)
      BY <1>1, <1>2, Typed DEF ClientInv, OrderInv, TypeOK, Settled, Sessions, None
    <3> QED
      BY <1>1, <1>3, <3>1, LobbyKeys DEF ClientInv, KeyInv
  <2> QED
    BY <1>1, <1>3, <1>6, <2>1, <2>2, AllClearFirst DEF ClientInv, KeyInv, clientVars, channelVars
<1>4. CASE key # Clear /\ flush = NoFlush /\ SealNext(q, key) /\ UNCHANGED wire
  <2>1. flush' # NoFlush => flush'.key = key
    BY <1>4 DEF SealNext
  <2> QED
    BY <1>1, <1>4, <1>6, <2>1 DEF ClientInv, KeyInv, clientVars, channelVars
<1>5. CASE UNCHANGED <<flush, wire>>
  BY <1>1, <1>5, <1>6 DEF ClientInv, KeyInv, clientVars, channelVars
<1> QED
  BY <1>1, <1>3, <1>4, <1>5 DEF FlushInputQueue

LEMMA KeySealedSent ==
  ASSUME ClientInv, SealedSent
  PROVE  KeyInv'
<1> DEFINE f == [input |-> flush.input, key |-> flush.key]
           w == [wire EXCEPT ![flush.on] = Append(@, f)]
           q == Shifted(queue)
<1>1. /\ flush # NoFlush
      /\ UNCHANGED <<deployment, clientVars, key, seq, handshakeVars, channelVars>>
      /\ \/ key = Clear /\ PlainFlush(q, w) /\ flush' = NoFlush
         \/ key # Clear /\ SealNext(q, key) /\ wire' = w
  BY DEF SealedSent
<1>2. /\ flush \in Flushing /\ wire \in Wires /\ live \subseteq Sessions
      /\ q \in Seq(Input) /\ w \in Wires
  BY <1>1, Typed, SealedOrder, OneSuiteBoolean DEF ClientInv, OrderInv, TypeOK
<1>3. /\ flush.on \in Sessions /\ f \in Frame /\ f.key # Clear
  BY <1>2, LobbyKeys DEF Flushing, Frame
<1> HIDE DEF f, q
<1>4. /\ w[flush.on] = Append(wire[flush.on], f) /\ wire[flush.on] \in Seq(Frame)
      /\ \A s \in Sessions \ {flush.on} : w[s] = wire[s]
  BY <1>2, <1>3 DEF Wires
<1> HIDE DEF w
<1>5. state = "running" => session \in Sessions
  BY Typed DEF ClientInv, OrderInv, Settled
<1>8. OneSuite' = OneSuite
  BY <1>1, SameSuites DEF handshakeVars
<1>6. CASE key = Clear /\ PlainFlush(q, w) /\ flush' = NoFlush
  <2>1. deployment # "lobby"
    BY <1>1, <1>6 DEF ClientInv, KeyInv
  <2>2. ASSUME OneSuite, state = "running" PROVE AllClear(wire'[session])
    <3>1. session # flush.on
      BY <1>1, <1>6, <2>2 DEF ClientInv, OrderInv, Settled
    <3>2. AllClear(w[session])
      BY <1>4, <1>5, <1>6, <2>2, <3>1 DEF ClientInv, KeyInv
    <3> QED
      BY <1>2, <1>5, <1>6, <2>2, <3>2, PlainFlushClear
  <2> QED
    BY <1>1, <1>6, <1>8, <2>1, <2>2, AllClearFirst DEF ClientInv, KeyInv, clientVars, channelVars
<1>7. CASE key # Clear /\ SealNext(q, key) /\ wire' = w
  <2>1. flush' # NoFlush => flush'.key = key
    BY <1>7 DEF SealNext
  <2>2. ASSUME OneSuite, state = "running" PROVE ClearFirst(wire'[session])
    <3>1. CASE session = flush.on
      BY <1>3, <1>4, <1>7, <2>2, <3>1, SealedFrameLast DEF ClientInv, KeyInv
    <3>2. CASE session # flush.on
      BY <1>4, <1>5, <1>7, <2>2, <3>2 DEF ClientInv, KeyInv
    <3> QED
      BY <3>1, <3>2
  <2> QED
    BY <1>1, <1>7, <1>8, <2>1, <2>2 DEF ClientInv, KeyInv, clientVars, channelVars
<1> QED
  BY <1>1, <1>6, <1>7

LEMMA KeyConnect ==
  ASSUME ClientInv, NEW m \in Matches, Connect(m)
  PROVE  KeyInv'
<1>1. /\ key' = InitialKey(m) /\ state # "running"
      /\ UNCHANGED <<deployment, queueVars>>
      /\ \/ /\ Len(opened) < MaxSessions
            /\ opened' = Append(opened, m)
            /\ session' = Len(opened')
         \/ state' = "failed"
  BY DEF Connect, MayConnect
<1>2. /\ deployment = "plain" => key' = Clear /\ flush' = NoFlush
      /\ deployment = "lobby" => key' = [kind |-> "lobby", of |-> m] /\ key' # Clear
  BY <1>1, LobbyKeys DEF ClientInv, KeyInv, InitialKey, queueVars
<1>3. CASE state' = "failed"
  BY <1>1, <1>2, <1>3 DEF KeyInv
<1>4. CASE /\ Len(opened) < MaxSessions
           /\ opened' = Append(opened, m)
           /\ session' = Len(opened')
  <2>1. /\ Len(opened') = Len(opened) + 1 /\ Len(opened) \in Nat /\ opened'[session'] = m
        /\ session' \in Sessions /\ session' > Len(opened)
    BY <1>4, Typed DEF ClientInv, OrderInv, TypeOK, Sessions
  <2>2. wire'[session'] = <<>>
    BY <1>1, <2>1 DEF ClientInv, OrderInv, Settled, queueVars
  <2>3. ClearFirst(wire'[session']) /\ AllClear(wire'[session'])
    BY <2>2 DEF ClearFirst, AllClear
  <2>4. flush' # NoFlush => flush'.on # session'
    <3>1. flush # NoFlush => flush.on <= Len(opened) /\ flush.on \in Sessions
      BY DEF ClientInv, OrderInv, Settled, TypeOK, Flushing
    <3> QED
      BY <1>1, <2>1, <3>1 DEF queueVars, Sessions
  <2> QED
    BY <1>1, <1>2, <2>1, <2>3, <2>4 DEF KeyInv
<1> QED
  BY <1>1, <1>3, <1>4

LEMMA KeyDerived ==
  ASSUME ClientInv, NEW h \in Handshakes, Derived(h)
  PROVE  KeyInv'
<1>1. /\ handshake[h].stage = "deriving"
      /\ handshake' = [handshake EXCEPT ![h].stage = "encrypted"]
      /\ key' = [kind |-> "handshake", of |-> h, random |-> handshake[h].random]
      /\ FlushInputQueue(queue, key')
      /\ UNCHANGED <<deployment, clientVars, opened>>
  BY DEF Derived, channelVars
<1>2. deployment = "handshake"
  BY <1>1 DEF ClientInv, Suites
<1>3. key' # Clear
  BY <1>1 DEF Clear
<1>4. wire' = wire
  BY <1>1, <1>3 DEF FlushInputQueue
<1>5. OneSuite' => OneSuite
  BY <1>1, SuiteInstalled DEF ClientInv, OrderInv, TypeOK
<1> QED
  BY <1>1, <1>2, <1>3, <1>4, <1>5 DEF ClientInv, KeyInv, clientVars

\* If plaintext is the first suite installed, the session was in the clear before.
LEMMA KeyPlaintextSelected ==
  ASSUME ClientInv, NEW h \in Handshakes, PlaintextSelected(h)
  PROVE  KeyInv'
<1>1. /\ handshake[h].stage = "deriving"
      /\ handshake' = [handshake EXCEPT ![h].stage = "plaintext"]
      /\ key' = Clear
      /\ PlainFlush(queue, wire)
      /\ UNCHANGED <<deployment, clientVars, opened>>
  BY DEF PlaintextSelected, FlushInputQueue, channelVars
<1>2. deployment = "handshake"
  BY <1>1 DEF ClientInv, Suites
<1>3. /\ \A g \in Handshakes : g # h => handshake'[g] = handshake[g]
      /\ handshake'[h].stage = "plaintext"
      /\ OneSuite' => OneSuite
  BY <1>1, SuiteInstalled DEF ClientInv, OrderInv, TypeOK
<1>4. OneSuite' => key = Clear
  <2>1. SUFFICES ASSUME key # Clear PROVE ~ OneSuite'
    OBVIOUS
  <2>2. PICK g \in Handshakes : handshake[g].stage = "encrypted"
    BY <1>2, <2>1 DEF ClientInv, Suites
  <2>3. handshake'[g].stage = "encrypted"
    BY <1>1, <1>3, <2>2
  <2> QED
    BY <1>3, <2>3 DEF OneSuite
<1>5. ASSUME OneSuite', state = "running" PROVE AllClear(wire'[session])
  <2>1. AllClear(wire[session])
    BY <1>3, <1>4, <1>5 DEF ClientInv, KeyInv
  <2>2. session \in Sessions
    BY <1>5, Typed DEF ClientInv, OrderInv, Settled
  <2>3. queue \in Seq(Input) /\ wire \in Wires /\ live \subseteq Sessions
    BY Typed DEF ClientInv, OrderInv, TypeOK
  <2> QED
    BY <1>1, <2>1, <2>2, <2>3, PlainFlushClear
<1> QED
  BY <1>1, <1>2, <1>5, AllClearFirst DEF KeyInv, clientVars

LEMMA KeyStep == ClientInv /\ [Next]_vars => KeyInv'
<1> SUFFICES ASSUME ClientInv, [Next]_vars PROVE KeyInv'
  OBVIOUS
<1>1. CASE SealedRefused
  <2>1. /\ flush' = NoFlush
        /\ UNCHANGED <<deployment, state, session, key, wire, opened>>
        /\ OneSuite' = OneSuite
    BY <1>1, SameSuites DEF SealedRefused, clientVars, handshakeVars, channelVars
  <2> QED
    BY <2>1 DEF ClientInv, KeyInv
<1>2. CASE /\ state' = "running" => state = "running"
           /\ OneSuite' => OneSuite
           /\ UNCHANGED <<deployment, session, key, opened, queueVars>>
  BY <1>2, KeyUntouched DEF ClientInv
<1>3. CASE Close
  <2>1. state' # "running" /\ UNCHANGED <<deployment, key, queueVars>>
    BY <1>3 DEF Close
  <2> QED
    BY <2>1 DEF ClientInv, KeyInv, queueVars
<1>4. CASE SendInput
  BY <1>4, KeySendInput
<1>5. CASE SealedSent
  BY <1>5, KeySealedSent
<1>6. ASSUME NEW m \in Matches, Connect(m) PROVE KeyInv'
  BY <1>6, KeyConnect
<1>7. ASSUME NEW h \in Handshakes, Derived(h) PROVE KeyInv'
  BY <1>7, KeyDerived
<1>8. ASSUME NEW h \in Handshakes, PlaintextSelected(h) PROVE KeyInv'
  BY <1>8, KeyPlaintextSelected
<1>9. ASSUME NEW h \in Handshakes,
             PerformHandshake(h) \/ SendHello(h) \/ Accept(h) \/ NotDerived(h)
      PROVE  KeyInv'
  <2>1. OneSuite' => OneSuite
    BY <1>9, StagesKept DEF OneSuite, ClientInv, OrderInv, TypeOK
  <2>2. UNCHANGED <<deployment, state, session, key, opened, queueVars>>
    BY <1>9 DEF PerformHandshake, SendHello, Accept, NotDerived, clientVars, channelVars
  <2> QED
    BY <2>1, <2>2, KeyUntouched DEF ClientInv
<1> QED
  <2>2. UNCHANGED handshake => OneSuite' = OneSuite
    BY SameSuites
  <2>1. \/ SendInput \/ SealedSent \/ SealedRefused \/ Close
        \/ \E m \in Matches : Connect(m)
        \/ \E h \in Handshakes : \/ Derived(h) \/ PlaintextSelected(h)
                                  \/ PerformHandshake(h) \/ SendHello(h) \/ Accept(h)
                                  \/ NotDerived(h)
        \/ /\ state' = "running" => state = "running"
           /\ OneSuite' => OneSuite
           /\ UNCHANGED <<deployment, session, key, opened, queueVars>>
    BY <2>2 DEF Next, vars, clientVars, handshakeVars, channelVars, ChannelCloses, Result,
           ResultOpened, HandshakeTimeout
  <2> QED
    BY <1>1, <1>2, <1>3, <1>4, <1>5, <1>6, <1>7, <1>8, <1>9, <2>1

LEMMA ClientInvariant == Spec => []ClientInv
<1>1. Init => ClientInv
  <2> SUFFICES ASSUME Init PROVE ClientInv
    OBVIOUS
  <2>1. OrderInv
    BY OrderInit
  <2>2. ResultInv
    BY DEF Init, ResultInv, Clear
  <2>3. KeyInv
    BY DEF Init, KeyInv
  <2>4. KeptInv
    BY DEF Init, KeptInv, Kept
  <2> QED
    BY <2>1, <2>2, <2>3, <2>4, SuitesInit DEF ClientInv
<1>2. ClientInv /\ [Next]_vars => ClientInv'
  BY OrderStep, SuitesStep, ResultStep, KeyStep, KeptStep DEF ClientInv
<1> QED
  BY <1>1, <1>2, PTL DEF Spec

\* No accepted input is lost: it is queued or a session took it (the shifts of
\* flushPlainQueue and flushSealedQueue).
THEOREM NothingDroppedHolds == Spec => []NothingDropped
<1>1. ClientInv => NothingDropped
  BY DEF ClientInv, KeptInv, Kept, Taken, NothingDropped, OnSomeWire
<1> QED
  BY <1>1, ClientInvariant, PTL

\* A session that took a sealed frame takes none in the clear while the client runs,
\* unless accepts selected both encryption and plaintext (flushInputQueue,
\* completeHandshake).
THEOREM NeverClearAfterSealedHolds == Spec => []NeverClearAfterSealed
<1>1. ClientInv => NeverClearAfterSealed
  BY DEF ClientInv, KeyInv, ClearFirst, NeverClearAfterSealed
<1> QED
  BY <1>1, ClientInvariant, PTL

\* With keys from the lobby, what the current session takes is sealed with the key of
\* its own match (connect, sealForWire).
THEOREM OwnKeyHolds == Spec => OwnKey
<1> DEFINE Own == deployment = "lobby" /\ state = "running" /\ wire'[session] # wire[session] =>
                    wire'[session][Len(wire'[session])].key = [kind |-> "lobby", of |-> opened[session]]
<1>1. ClientInv /\ [Next]_vars => Own
  <2> SUFFICES ASSUME ClientInv, [Next]_vars,
                      deployment = "lobby", state = "running", wire'[session] # wire[session]
               PROVE  wire'[session][Len(wire'[session])].key = [kind |-> "lobby", of |-> opened[session]]
    OBVIOUS
  <2>1. /\ key = [kind |-> "lobby", of |-> opened[session]] /\ key # Clear
        /\ flush # NoFlush /\ flush.on = session => flush.key = key
        /\ \A h \in Handshakes : handshake[h].stage = "unused"
    <3>1. match \in Matches /\ opened \in Seq(Matches) /\ session \in 1 .. Len(opened)
      BY Typed DEF ClientInv, OrderInv, TypeOK, Settled, Sessions, None
    <3> QED
      BY <3>1, LobbyKeys DEF ClientInv, KeyInv, ResultInv
  <2>2. CASE SendInput
    BY <2>1, <2>2 DEF SendInput, FlushInputQueue
  <2>3. CASE SealedSent
    <3> DEFINE f == [input |-> flush.input, key |-> flush.key]
    <3>1. /\ flush # NoFlush /\ wire' = [wire EXCEPT ![flush.on] = Append(@, f)]
      BY <2>1, <2>3 DEF SealedSent
    <3>2. wire \in Wires /\ session \in Sessions /\ flush \in Flushing
      BY <3>1, Typed DEF ClientInv, OrderInv, TypeOK, Settled
    <3>3. f \in Frame /\ f.key = flush.key
      BY <3>2 DEF Flushing, Frame
    <3> HIDE DEF f
    <3>4. flush.on = session /\ wire[session] \in Seq(Frame)
      BY <3>1, <3>2 DEF Wires
    <3>5. wire'[session] = Append(wire[session], f)
      BY <3>1, <3>2, <3>4 DEF Wires
    <3>6. wire'[session][Len(wire'[session])] = f
      BY <3>3, <3>4, <3>5
    <3> QED
      BY <2>1, <3>1, <3>3, <3>4, <3>6
  <2>4. ASSUME NEW h \in Handshakes, Derived(h) \/ PlaintextSelected(h) PROVE FALSE
    BY <2>1, <2>4 DEF Derived, PlaintextSelected
  <2>5. \/ SendInput \/ SealedSent
        \/ \E h \in Handshakes : Derived(h) \/ PlaintextSelected(h)
        \/ UNCHANGED wire
    BY DEF Next, vars, queueVars, Connect, Close, SealedRefused, ChannelCloses, Result, ResultOpened,
           PerformHandshake, SendHello, Accept, NotDerived, HandshakeTimeout
  <2> QED
    BY <2>2, <2>3, <2>4, <2>5
<1> QED
  BY <1>1, ClientInvariant, PTL DEF Spec, OwnKey

\* Without a handshake, only the result of its own session ends a running match
\* (handleFrame, connect).
THEOREM ResultOfOwnMatchHolds == Spec => ResultOfOwnMatch
<1> DEFINE Own == deployment # "handshake" /\ state = "running" /\ state' = "finished" =>
                    session \in ended' \ ended
<1>1. ClientInv /\ [Next]_vars => Own
  <2> SUFFICES ASSUME ClientInv, [Next]_vars,
                      deployment # "handshake", state = "running", state' = "finished"
               PROVE  session \in ended' \ ended
    OBVIOUS
  <2>1. opening = {} /\ live \ ended \subseteq {session}
    BY DEF ClientInv, ResultInv
  <2>2. ASSUME NEW s \in Sessions, Result(s) PROVE session \in ended' \ ended
    BY <2>1, <2>2 DEF Result
  <2>3. \E s \in Sessions : Result(s) \/ ResultOpened(s)
    BY DEF Next, vars, clientVars, Connect, SendInput, SealedSent, SealedRefused, Close, ChannelCloses,
           PerformHandshake, SendHello, Accept, Derived, PlaintextSelected, NotDerived,
           HandshakeTimeout
  <2> QED
    BY <2>1, <2>2, <2>3 DEF ResultOpened
<1> QED
  BY <1>1, ClientInvariant, PTL DEF Spec, ResultOfOwnMatch
=============================================================================
