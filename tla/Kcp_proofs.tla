----------------------------- MODULE Kcp_proofs -----------------------------
(***************************************************************************)
(* Proofs, for every window, payload set and bound, that two sessions over *)
(* a channel that loses, duplicates and reorders deliver in order and      *)
(* forget nothing, stay within their windows and cannot fill a window with *)
(* an incomplete message, and that they implement MessageChannel.          *)
(*                                                                         *)
(* The argument.  Sequence number sn names fragment sn + 1 of the history  *)
(* sent wherever it is found: in the send buffer, in a PUSH in flight, in  *)
(* the receive buffer and, by position, in the receive queue.  Whatever an *)
(* endpoint says it has (una, an ACK) was true when it was said and stays  *)
(* true, because the receiver never gives anything back.  That leaves no   *)
(* standstill with something to deliver, and no number is ever so far from *)
(* another that 32 bits could not tell which of them is later.             *)
(***************************************************************************)
EXTENDS KcpProperties, TLAPS, SequenceTheorems

-----------------------------------------------------------------------------
(* The inductive invariant *)

\* The send queue is the part of the stream without sequence numbers yet.
QueueInv(p) ==
  /\ Len(sent[p]) = sndNxt[p] + Len(sndQueue[p])
  /\ \A i \in 1 .. Len(sndQueue[p]) : sndQueue[p][i] = sent[p][sndNxt[p] + i]

\* The send buffer holds numbered segments of the current window.
BufInv(p) ==
  /\ sndUna[p] <= sndNxt[p]
  /\ sndNxt[p] <= sndUna[p] + SndWnd
  /\ \A sn \in DOMAIN sndBuf[p] :
       sndUna[p] <= sn /\ sn < sndNxt[p] /\ sndBuf[p][sn] = sent[p][sn + 1]

\* Every fragment of s announces how many follow it in its payload.
Announced(s) ==
  \A i \in 1 .. Len(s) :
    LET last == i + s[i].frg
    IN  s[i].frg < WndRcv /\ last <= Len(s) /\ s[last].frg = 0

FragInv(p) == Announced(sent[p])

\* The receive queue continues what the handler was given.
InOrderInv(p) ==
  LET q == Other(p)
  IN  /\ rcvNxt[p] = Len(taken[p]) + Len(rcvQueue[p])
      /\ rcvNxt[p] <= sndNxt[q]
      /\ Len(rcvQueue[p]) <= RcvWnd
      /\ \A i \in 1 .. Len(taken[p]) : taken[p][i] = sent[q][i]
      /\ \A i \in 1 .. Len(rcvQueue[p]) : rcvQueue[p][i] = sent[q][Len(taken[p]) + i]
      /\ taken[p] # <<>> => taken[p][Len(taken[p])].frg = 0

\* The receive buffer holds segments of the receive window.
OutOfOrderInv(p) ==
  \A sn \in DOMAIN rcvBuf[p] :
    /\ rcvNxt[p] <= sn /\ sn < rcvNxt[p] + RcvWnd /\ sn < sndNxt[Other(p)]
    /\ rcvBuf[p][sn] = sent[Other(p)][sn + 1]

\* What p has acknowledged or is about to, it has.
AckInv(p) == \A sn \in acklist[p] : Received(p, sn)

\* What a segment in flight towards p says is true.
NetInv(p) ==
  LET q == Other(p)
  IN \A m \in net[p] :
       /\ m.cmd = "PUSH" => m.sn < sndNxt[q] /\ m.frag = sent[q][m.sn + 1]
       /\ m.cmd = "ACK"  => Received(q, m.sn)
       /\ m.una <= rcvNxt[q]

\* What p numbered is in its send buffer or at the peer.
KeptInv(p) ==
  \A sn \in 0 .. sndNxt[p] - 1 : sn \in DOMAIN sndBuf[p] \/ Received(Other(p), sn)

PeerInv(p) ==
  /\ QueueInv(p) /\ BufInv(p) /\ FragInv(p) /\ InOrderInv(p)
  /\ OutOfOrderInv(p) /\ AckInv(p) /\ NetInv(p) /\ KeptInv(p)

IInv == TypeOK /\ \A p \in Peers : PeerInv(p)

-----------------------------------------------------------------------------
(* Facts used throughout *)

LEMMA OtherPeer ==
  ASSUME NEW p \in Peers
  PROVE  Other(p) \in Peers /\ Other(p) # p /\ Other(Other(p)) = p
BY PeersAssumption DEF Other, Peers

LEMMA TwoPeers ==
  ASSUME NEW p \in Peers, NEW r \in Peers
  PROVE  r = p \/ r = Other(p)
BY DEF Other, Peers

\* Nothing is in flight, numbered or received at first.
LEMMA InitInv == Init => IInv
<1> SUFFICES ASSUME Init PROVE IInv
  OBVIOUS
<1>1. TypeOK
  BY WindowAssumption, FragAssumption DEF Init, TypeOK, Fragment
<1>2. ASSUME NEW p \in Peers PROVE PeerInv(p)
  BY WindowAssumption, OtherPeer
     DEF Init, PeerInv, QueueInv, BufInv, FragInv, Announced, InOrderInv, OutOfOrderInv, AckInv,
         NetInv, KeptInv
<1>3. QED
  BY <1>1, <1>2 DEF IInv

-----------------------------------------------------------------------------
(* The effect of a flush *)

\* The segments a flush of p may emit.
Emitted(p, m) ==
  /\ m \in Segment
  /\ m.una = rcvNxt[p]
  /\ m.cmd = "PUSH" => m.sn \in DOMAIN sndBuf'[p] /\ m.frag = sndBuf'[p][m.sn]
  /\ m.cmd = "ACK"  => m.sn \in acklist[p]

\* k fragments of the queue get a number; what the flush emits is in the send
\* buffer or in the list of acknowledgements.
FlushedBy(p, queue, k) ==
  /\ k = 0 \/ sndNxt[p] + k <= sndUna[p] + SndWnd
  /\ sndQueue' = [sndQueue EXCEPT ![p] = SubSeq(queue, k + 1, Len(queue))]
  /\ sndNxt' = [sndNxt EXCEPT ![p] = @ + k]
  /\ DOMAIN sndBuf' = Peers
  /\ \A r \in Peers : r # p => sndBuf'[r] = sndBuf[r]
  /\ DOMAIN sndBuf'[p] = DOMAIN sndBuf[p] \cup (sndNxt[p] .. sndNxt[p] + k - 1)
  /\ sndBuf'[p] \in [DOMAIN sndBuf'[p] -> Fragment]
  /\ \A sn \in DOMAIN sndBuf'[p] :
       sndBuf'[p][sn] = IF sn >= sndNxt[p] THEN queue[sn - sndNxt[p] + 1] ELSE sndBuf[p][sn]
  /\ net' \in [Peers -> SUBSET Segment]
  /\ net'[p] = net[p]
  /\ \A m \in net'[Other(p)] : m \in net[Other(p)] \/ Emitted(p, m)
  /\ acklist' \in [Peers -> SUBSET Nat]
  /\ \A r \in Peers : acklist'[r] \subseteq acklist[r]
  /\ askTell' \in [Peers -> BOOLEAN]
  /\ UNCHANGED <<sndUna, rmtWnd>>

LEMMA FlushEffect ==
  ASSUME IInv, NEW p \in Peers, NEW queue \in Seq(Fragment), Flush(p, queue)
  PROVE  \E k \in 0 .. Len(queue) : FlushedBy(p, queue, k)
<1> DEFINE k     == Admitted(p, queue)
           fresh == sndNxt[p] .. sndNxt[p] + k - 1
           buf   == [sn \in DOMAIN sndBuf[p] \cup fresh |->
                       IF sn \in fresh THEN queue[sn - sndNxt[p] + 1] ELSE sndBuf[p][sn]]
<1>1. /\ sndUna[p] \in Nat /\ sndNxt[p] \in Nat /\ rmtWnd[p] \in Nat
      /\ DOMAIN sndBuf[p] \subseteq Nat /\ sndBuf[p] \in [DOMAIN sndBuf[p] -> Fragment]
      /\ \A sn \in DOMAIN sndBuf[p] : sn < sndNxt[p]
      /\ rcvNxt[p] \in Nat /\ acklist[p] \subseteq Nat
      /\ WndUnused(p) \in Nat
  BY WindowAssumption DEF IInv, TypeOK, PeerInv, BufInv, InOrderInv, WndUnused
<1>2. /\ k \in 0 .. Len(queue)
      /\ k = 0 \/ sndNxt[p] + k <= sndUna[p] + SndWnd
  <2> DEFINE room == sndUna[p] + Smaller(SndWnd, rmtWnd[p]) - sndNxt[p]
  <2>1. Smaller(SndWnd, rmtWnd[p]) \in Nat /\ Smaller(SndWnd, rmtWnd[p]) <= SndWnd
    BY <1>1, WindowAssumption DEF Smaller
  <2>2. room \in Int /\ sndNxt[p] + room <= sndUna[p] + SndWnd
    BY <1>1, <2>1, WindowAssumption
  <2>3. k = IF room <= 0 THEN 0 ELSE Smaller(room, Len(queue))
    BY DEF Admitted
  <2>4. Len(queue) \in Nat
    OBVIOUS
  <2> HIDE DEF k, room
  <2>5. QED
    BY <1>1, <2>2, <2>3, <2>4, WindowAssumption DEF Smaller
<1>3. buf \in [DOMAIN sndBuf[p] \cup fresh -> Fragment]
  BY <1>1, <1>2
<1>4. /\ sndQueue' = [sndQueue EXCEPT ![p] = SubSeq(queue, k + 1, Len(queue))]
      /\ sndBuf' = [sndBuf EXCEPT ![p] = buf]
      /\ sndNxt' = [sndNxt EXCEPT ![p] = @ + k]
      /\ acklist' = [acklist EXCEPT ![p] = {}]
      /\ askTell' = [askTell EXCEPT ![p] = FALSE]
      /\ UNCHANGED <<sndUna, rmtWnd>>
  BY DEF Flush
<1>5. /\ DOMAIN sndBuf' = Peers
      /\ \A r \in Peers : r # p => sndBuf'[r] = sndBuf[r]
      /\ sndBuf'[p] = buf
  BY <1>4 DEF IInv, TypeOK
<1>6. \A sn \in DOMAIN buf :
        buf[sn] = IF sn >= sndNxt[p] THEN queue[sn - sndNxt[p] + 1] ELSE sndBuf[p][sn]
  BY <1>1, <1>2
<1>7. /\ net' \in [Peers -> SUBSET Segment]
      /\ net'[p] = net[p]
      /\ \A m \in net'[Other(p)] : m \in net[Other(p)] \/ Emitted(p, m)
  <2>1. PICK due \in SUBSET DOMAIN sndBuf[p], probeDue \in ProbeTimer(p) :
          LET acks   == {Seg(p, "ACK", sn, <<>>) : sn \in acklist[p]}
              ask    == IF probeDue THEN {Seg(p, "WASK", 0, <<>>)} ELSE {}
              tell   == IF askTell[p] THEN {Seg(p, "WINS", 0, <<>>)} ELSE {}
              pushes == {Seg(p, "PUSH", sn, buf[sn]) : sn \in fresh \cup due}
          IN  \E kept \in SUBSET (acks \cup ask \cup tell \cup pushes) :
                net' = [net EXCEPT ![Other(p)] = @ \cup kept]
    BY DEF Flush
  <2> DEFINE acks   == {Seg(p, "ACK", sn, <<>>) : sn \in acklist[p]}
             ask    == IF probeDue THEN {Seg(p, "WASK", 0, <<>>)} ELSE {}
             tell   == IF askTell[p] THEN {Seg(p, "WINS", 0, <<>>)} ELSE {}
             pushes == {Seg(p, "PUSH", sn, buf[sn]) : sn \in fresh \cup due}
  <2>2. PICK kept \in SUBSET (acks \cup ask \cup tell \cup pushes) :
          net' = [net EXCEPT ![Other(p)] = @ \cup kept]
    BY <2>1
  <2>3. \A sn \in Nat : Seg(p, "ACK", sn, <<>>) \in Segment
    BY <1>1 DEF Seg, Segment
  <2>4. \A m \in acks : Emitted(p, m)
    BY <1>1, <2>3 DEF Seg, Emitted
  <2>5. \A m \in ask \cup tell : Emitted(p, m)
    BY <1>1 DEF Seg, Segment, Emitted
  <2>6. \A m \in pushes : Emitted(p, m)
    <3>1. \A sn \in fresh \cup due : sn \in Nat /\ sn \in DOMAIN buf /\ buf[sn] \in Fragment
      BY <1>1, <1>2, <1>3
    <3>2. TAKE m \in pushes
    <3>3. PICK sn \in fresh \cup due : m = Seg(p, "PUSH", sn, buf[sn])
      OBVIOUS
    <3>4. m \in Segment
      BY <1>1, <3>1, <3>3 DEF Seg, Segment
    <3>5. m.una = rcvNxt[p] /\ m.cmd = "PUSH" /\ m.sn = sn /\ m.frag = buf[sn]
      BY <3>3 DEF Seg
    <3>6. QED
      BY <1>5, <3>1, <3>4, <3>5 DEF Emitted
  <2>7. \A m \in kept : Emitted(p, m)
    BY <2>4, <2>5, <2>6
  <2>8. kept \subseteq Segment
    BY <2>7 DEF Emitted
  <2>9. net \in [Peers -> SUBSET Segment]
    BY DEF IInv, TypeOK
  <2>10. QED
    BY <2>2, <2>7, <2>8, <2>9, OtherPeer
<1>8. FlushedBy(p, queue, k)
  <2>1. DOMAIN buf = DOMAIN sndBuf[p] \cup fresh
    OBVIOUS
  <2>2. /\ acklist' \in [Peers -> SUBSET Nat]
        /\ \A r \in Peers : acklist'[r] \subseteq acklist[r]
        /\ askTell' \in [Peers -> BOOLEAN]
    BY <1>4 DEF IInv, TypeOK
  <2>3. QED
    BY <1>2, <1>3, <1>4, <1>5, <1>6, <1>7, <2>1, <2>2 DEF FlushedBy
<1>9. QED
  BY <1>2, <1>8

\* The history after queue became p's send queue: it only grew, and queue is its
\* part without numbers.
StreamWith(p, queue) ==
  /\ sent' \in [Peers -> Seq(Fragment)]
  /\ \A r \in Peers : r # p => sent'[r] = sent[r]
  /\ Len(sent'[p]) >= Len(sent[p])
  /\ \A i \in 1 .. Len(sent[p]) : sent'[p][i] = sent[p][i]
  /\ Len(sent'[p]) = sndNxt[p] + Len(queue)
  /\ \A i \in 1 .. Len(queue) : queue[i] = sent'[p][sndNxt[p] + i]
  /\ FragInv(p)'

\* A flush of p keeps every part of the invariant at both ends.
LEMMA FlushStep ==
  ASSUME IInv, NEW p \in Peers, NEW queue \in Seq(Fragment), NEW k \in 0 .. Len(queue),
         FlushedBy(p, queue, k), StreamWith(p, queue), UNCHANGED <<receiverVars, taken>>,
         NEW r \in Peers
  PROVE  PeerInv(r)'
<1>1. PICK q \in Peers : q = Other(p) /\ q # p /\ Other(q) = p /\ (r = p \/ r = q)
  BY OtherPeer, TwoPeers
<1>2. /\ sndNxt[p] \in Nat /\ sndNxt[q] \in Nat /\ sndUna[p] \in Nat /\ sndUna[q] \in Nat
      /\ rcvNxt[p] \in Nat /\ rcvNxt[q] \in Nat
      /\ sndQueue[p] \in Seq(Fragment) /\ sndQueue[q] \in Seq(Fragment)
      /\ sent[p] \in Seq(Fragment) /\ sent[q] \in Seq(Fragment)
      /\ rcvQueue[p] \in Seq(Fragment) /\ rcvQueue[q] \in Seq(Fragment)
      /\ taken[p] \in Seq(Fragment) /\ taken[q] \in Seq(Fragment)
      /\ DOMAIN sndBuf[p] \subseteq Nat /\ DOMAIN sndBuf[q] \subseteq Nat
      /\ DOMAIN rcvBuf[p] \subseteq Nat /\ DOMAIN rcvBuf[q] \subseteq Nat
      /\ net[p] \subseteq Segment /\ net[q] \subseteq Segment
  BY DEF IInv, TypeOK
<1>3. k \in Nat /\ Len(queue) \in Nat /\ k <= Len(queue) /\ sndNxt[p] \in Nat /\ sndUna[p] \in Nat
  BY <1>2
<1>4. /\ rcvNxt \in [Peers -> Nat] /\ rcvQueue \in [Peers -> Seq(Fragment)]
       /\ taken \in [Peers -> Seq(Fragment)]
  BY DEF IInv, TypeOK
<1>5. /\ sndNxt'[p] = sndNxt[p] + k /\ sndNxt'[q] = sndNxt[q]
       /\ sndQueue'[p] = SubSeq(queue, k + 1, Len(queue)) /\ sndQueue'[q] = sndQueue[q]
       /\ acklist'[p] \subseteq acklist[p] /\ acklist'[q] \subseteq acklist[q]
  BY <1>1 DEF FlushedBy, IInv, TypeOK
<1>6. /\ net'[p] = net[p] /\ sndUna' = sndUna /\ sndBuf'[q] = sndBuf[q]
       /\ rcvNxt' = rcvNxt /\ rcvQueue' = rcvQueue /\ rcvBuf' = rcvBuf /\ taken' = taken
  BY <1>1 DEF FlushedBy, receiverVars
<1>7. \A s \in Peers : \A sn : Received(s, sn)' <=> Received(s, sn)
  BY <1>6 DEF Received
<1>8. sent'[q] = sent[q]
  BY <1>1 DEF StreamWith
<1>9. PeerInv(p) /\ PeerInv(q)
  BY <1>1 DEF IInv
<1>10. sndNxt[p] <= Len(sent[p]) /\ Len(sent[p]) \in Nat /\ rcvNxt[q] <= sndNxt[p]
  <2>1. Len(sent[p]) = sndNxt[p] + Len(sndQueue[p]) /\ rcvNxt[q] <= sndNxt[p]
    BY <1>1, <1>9 DEF PeerInv, QueueInv, InOrderInv
  <2>2. Len(sndQueue[p]) \in Nat
    BY <1>2
  <2>3. QED
    BY <1>2, <2>1, <2>2, SMTT(30)
<1>11. QueueInv(r)'
  <2>1. QueueInv(q)'
    BY <1>1, <1>2, <1>5, <1>6, <1>8, <1>9 DEF PeerInv, QueueInv
  <2>2. QueueInv(p)'
    <3>1. Len(sndQueue'[p]) = Len(queue) - k
      BY <1>2, <1>5, <1>6
    <3>2. \A i \in 1 .. Len(queue) - k : sndQueue'[p][i] = queue[k + i]
      BY <1>2, <1>5, <1>6
    <3>3. ASSUME NEW i \in 1 .. Len(queue) - k
          PROVE  sndQueue'[p][i] = sent'[p][sndNxt'[p] + i]
      <4>1. k + i \in 1 .. Len(queue) /\ sndNxt[p] + (k + i) = sndNxt'[p] + i
        BY <1>3, <1>5
      <4>2. QED
        BY <3>2, <4>1 DEF StreamWith
    <3>4. Len(sent'[p]) = sndNxt'[p] + Len(sndQueue'[p])
      BY <1>3, <1>5, <3>1 DEF StreamWith
    <3>5. QED
      BY <3>1, <3>3, <3>4 DEF QueueInv
  <2>3. QED
    BY <1>1, <2>1, <2>2
<1>12. BufInv(p)'
  <2>1. sndUna[p] <= sndNxt'[p] /\ sndNxt'[p] <= sndUna[p] + SndWnd
    BY <1>2, <1>5, <1>6, <1>9, WindowAssumption DEF PeerInv, BufInv, FlushedBy
  <2>2. ASSUME NEW sn \in DOMAIN sndBuf'[p]
        PROVE  sndUna[p] <= sn /\ sn < sndNxt'[p] /\ sndBuf'[p][sn] = sent'[p][sn + 1]
    <3>1. CASE sn \in DOMAIN sndBuf[p]
      <4>1. sndUna[p] <= sn /\ sn < sndNxt[p] /\ sndBuf[p][sn] = sent[p][sn + 1] /\ sn \in Nat
        BY <1>2, <1>5, <1>6, <1>9, <3>1 DEF PeerInv, BufInv
      <4>2. sndBuf'[p][sn] = sndBuf[p][sn]
        BY <1>2, <1>5, <1>6, <4>1 DEF FlushedBy
      <4>3. sn + 1 \in 1 .. Len(sent[p])
        BY <1>2, <1>5, <1>6, <1>9, <4>1, SMTT(30) DEF PeerInv, QueueInv
      <4>4. QED
        BY <1>3, <1>5, <4>1, <4>2, <4>3, SMTT(30) DEF StreamWith
    <3>2. CASE sn \in sndNxt[p] .. sndNxt[p] + k - 1
      <4>1. sndBuf'[p][sn] = queue[sn - sndNxt[p] + 1]
        BY <1>2, <1>5, <1>6, <3>2 DEF FlushedBy
      <4>2. sn - sndNxt[p] + 1 \in 1 .. Len(queue)
        BY <1>3, <3>2
      <4>3. queue[sn - sndNxt[p] + 1] = sent'[p][sndNxt[p] + (sn - sndNxt[p] + 1)]
        BY <4>2 DEF StreamWith
      <4>4. sndNxt[p] + (sn - sndNxt[p] + 1) = sn + 1
        BY <1>2, <1>5, <1>6, <3>2
      <4>5. sndUna[p] <= sndNxt[p]
        BY <1>9 DEF PeerInv, BufInv
      <4>6. sndUna[p] <= sn /\ sn < sndNxt'[p]
        BY <1>3, <1>5, <3>2, <4>5
      <4>7. QED
        BY <4>1, <4>3, <4>4, <4>6
    <3>3. QED
      BY <2>2, <3>1, <3>2 DEF FlushedBy
  <2>3. QED
    BY <1>2, <1>5, <1>6, <2>1, <2>2 DEF BufInv
<1>13. BufInv(r)'
  <2>1. BufInv(q)'
    BY <1>8, <1>9, <1>5, <1>6 DEF PeerInv, BufInv
  <2>2. QED
    BY <1>1, <1>12, <2>1
<1>14. FragInv(r)'
  BY <1>1, <1>8, <1>9 DEF PeerInv, FragInv, Announced, StreamWith
<1>15. InOrderInv(r)'
  <2>1. InOrderInv(p)'
    BY <1>1, <1>2, <1>5, <1>6, <1>8, <1>9, ZenonT(30) DEF PeerInv, InOrderInv
  <2>2. InOrderInv(q)'
    <3>1. \A i \in 1 .. rcvNxt[q] : i \in 1 .. Len(sent[p])
      BY <1>2, <1>10, <1>3
    <3>2. \A i \in 1 .. rcvNxt[q] : sent'[p][i] = sent[p][i]
      BY <3>1 DEF StreamWith
    <3>3. /\ rcvNxt[q] = Len(taken[q]) + Len(rcvQueue[q])
          /\ Len(rcvQueue[q]) <= RcvWnd
          /\ \A i \in 1 .. Len(taken[q]) : taken[q][i] = sent[p][i]
          /\ \A i \in 1 .. Len(rcvQueue[q]) : rcvQueue[q][i] = sent[p][Len(taken[q]) + i]
          /\ taken[q] # <<>> => taken[q][Len(taken[q])].frg = 0
      BY <1>1, <1>9 DEF PeerInv, InOrderInv
    <3>4. /\ \A i \in 1 .. Len(taken[q]) : i \in 1 .. rcvNxt[q]
          /\ \A i \in 1 .. Len(rcvQueue[q]) : Len(taken[q]) + i \in 1 .. rcvNxt[q]
      <4>1. rcvNxt[q] = Len(taken[q]) + Len(rcvQueue[q])
        BY <3>3
      <4>2. QED
        BY <4>1, <1>4
    <3>5. \A i \in 1 .. Len(taken[q]) : taken[q][i] = sent'[p][i]
      BY <3>2, <3>3, <3>4
    <3>6. \A i \in 1 .. Len(rcvQueue[q]) : rcvQueue[q][i] = sent'[p][Len(taken[q]) + i]
      BY <3>2, <3>3, <3>4
    <3>7. rcvNxt[q] <= sndNxt'[p]
      BY <1>3, <1>4, <1>5, <1>10, SMTT(30)
    <3>8. QED
      BY <1>1, <1>6, <3>3, <3>5, <3>6, <3>7, ZenonT(30) DEF InOrderInv
  <2>3. QED
    BY <1>1, <2>1, <2>2
<1>16. OutOfOrderInv(r)'
  <2>1. OutOfOrderInv(p)'
    BY <1>1, <1>2, <1>5, <1>6, <1>8, <1>9 DEF PeerInv, OutOfOrderInv
  <2>2. OutOfOrderInv(q)'
    <3>1. ASSUME NEW sn \in DOMAIN rcvBuf[q]
          PROVE  sn < sndNxt[p] + k /\ rcvBuf[q][sn] = sent'[p][sn + 1]
      <4>1. sn \in Nat /\ sn < sndNxt[p] /\ rcvBuf[q][sn] = sent[p][sn + 1]
        BY <1>1, <1>2, <1>5, <1>6, <1>9 DEF PeerInv, OutOfOrderInv
      <4>2. sn + 1 \in 1 .. Len(sent[p])
        BY <1>10, <1>3, <4>1
      <4>3. sn < sndNxt[p] + k
        BY <1>3, <4>1
      <4>4. QED
        BY <4>1, <4>2, <4>3 DEF StreamWith
    <3>2. QED
      BY <1>1, <1>2, <1>5, <1>6, <1>9, <3>1, SMTT(30) DEF PeerInv, OutOfOrderInv
  <2>3. QED
    BY <1>1, <2>1, <2>2
<1>17. AckInv(r)'
  BY <1>1, <1>2, <1>5, <1>6, <1>7, <1>9 DEF PeerInv, AckInv
<1>18. NetInv(r)'
  <2>1. NetInv(p)'
    BY <1>1, <1>2, <1>5, <1>6, <1>7, <1>8, <1>9 DEF PeerInv, NetInv
  <2>2. NetInv(q)'
    <3>1. ASSUME NEW m \in net'[q]
          PROVE  /\ m.cmd = "PUSH" => m.sn < sndNxt'[p] /\ m.frag = sent'[p][m.sn + 1]
                 /\ m.cmd = "ACK" => Received(p, m.sn)
                 /\ m.una <= rcvNxt[p]
      <4>1. CASE m \in net[q]
        <5>1. /\ m \in Segment
              /\ m.cmd = "PUSH" => m.sn < sndNxt[p] /\ m.frag = sent[p][m.sn + 1]
              /\ m.cmd = "ACK" => Received(p, m.sn)
              /\ m.una <= rcvNxt[p]
          BY <1>1, <1>9, <4>1 DEF PeerInv, NetInv, IInv, TypeOK
        <5>2. m.sn \in Nat
          BY <5>1 DEF Segment
        <5>3. ASSUME m.cmd = "PUSH" PROVE sent'[p][m.sn + 1] = sent[p][m.sn + 1]
          <6>1. m.sn + 1 \in 1 .. Len(sent[p])
            BY <1>10, <1>3, <5>1, <5>2, <5>3
          <6>2. QED
            BY <6>1 DEF StreamWith
        <5>4. QED
          BY <1>2, <1>5, <1>6, <5>1, <5>2, <5>3
      <4>2. CASE Emitted(p, m)
        <5>1. ASSUME m.cmd = "PUSH" PROVE m.sn < sndNxt'[p] /\ m.frag = sent'[p][m.sn + 1]
          <6>1. m.sn \in DOMAIN sndBuf'[p] /\ m.frag = sndBuf'[p][m.sn]
            BY <4>2, <5>1 DEF Emitted
          <6>2. QED
            BY <1>12, <6>1 DEF BufInv
        <5>2. ASSUME m.cmd = "ACK" PROVE Received(p, m.sn)
          BY <1>9, <4>2, <5>2 DEF Emitted, PeerInv, AckInv
        <5>3. m.una <= rcvNxt[p]
          BY <1>2, <1>5, <1>6, <4>2 DEF Emitted
        <5>4. QED
          BY <5>1, <5>2, <5>3
      <4>3. QED
        BY <1>1, <3>1, <4>1, <4>2 DEF FlushedBy
    <3>2. QED
      BY <1>1, <1>2, <1>5, <1>6, <1>7, <3>1 DEF NetInv
  <2>3. QED
    BY <1>1, <2>1, <2>2
<1>19. KeptInv(r)'
  <2>1. KeptInv(q)'
    BY <1>1, <1>2, <1>5, <1>6, <1>7, <1>9 DEF PeerInv, KeptInv
  <2>2. KeptInv(p)'
    <3>1. ASSUME NEW sn \in 0 .. sndNxt[p] + k - 1
          PROVE  sn \in DOMAIN sndBuf'[p] \/ Received(q, sn)
      <4>1. CASE sn \in 0 .. sndNxt[p] - 1
        BY <1>1, <1>9, <4>1 DEF PeerInv, KeptInv, FlushedBy
      <4>2. CASE sn \in sndNxt[p] .. sndNxt[p] + k - 1
        BY <4>2 DEF FlushedBy
      <4>3. QED
        BY <1>2, <1>5, <1>6, <4>1, <4>2
    <3>2. QED
      BY <1>1, <1>2, <1>5, <1>6, <1>7, <3>1 DEF KeptInv
  <2>3. QED
    BY <1>1, <2>1, <2>2
<1>20. QED
  BY <1>11, <1>13, <1>14, <1>15, <1>16, <1>17, <1>18, <1>19 DEF PeerInv

-----------------------------------------------------------------------------
(* The effect of moving segments to the receive queue *)

\* buf and queue are what p has, queue starting after the first base fragments.
HasOnly(p, buf, queue, base) ==
  LET q == Other(p)
  IN  /\ rcvNxt[p] = base + Len(queue)
      /\ Len(queue) <= RcvWnd
      /\ \A i \in 1 .. Len(queue) : queue[i] = sent[q][base + i]
      /\ \A sn \in DOMAIN buf :
           /\ rcvNxt[p] <= sn /\ sn < rcvNxt[p] + RcvWnd /\ sn < sndNxt[q]
           /\ buf[sn] = sent[q][sn + 1]

\* What a move of the head of buf leaves: p has the same segments, the queue has
\* no more than a window, and the other end did nothing.
MoveResult(p, buf, base) ==
  /\ rcvQueue' \in [Peers -> Seq(Fragment)]
  /\ rcvNxt' \in [Peers -> Nat]
  /\ DOMAIN rcvBuf' = Peers
  /\ DOMAIN rcvBuf'[p] \subseteq Nat /\ rcvBuf'[p] \in [DOMAIN rcvBuf'[p] -> Fragment]
  /\ \A r \in Peers : r # p => /\ rcvQueue'[r] = rcvQueue[r] /\ rcvNxt'[r] = rcvNxt[r]
                              /\ rcvBuf'[r] = rcvBuf[r]
  /\ rcvNxt'[p] >= rcvNxt[p]
  /\ \A sn \in DOMAIN buf : sn < rcvNxt'[p] \/ sn \in DOMAIN rcvBuf'[p]
  /\ rcvNxt'[p] = base + Len(rcvQueue'[p])
  /\ Len(rcvQueue'[p]) <= RcvWnd
  /\ rcvNxt'[p] <= sndNxt[Other(p)]
  /\ \A i \in 1 .. Len(rcvQueue'[p]) : rcvQueue'[p][i] = sent[Other(p)][base + i]
  /\ OutOfOrderInv(p)'

LEMMA MoveStep ==
  ASSUME IInv, NEW p \in Peers, NEW buf, DOMAIN buf \subseteq Nat,
         buf \in [DOMAIN buf -> Fragment], NEW queue \in Seq(Fragment), NEW base \in Nat,
         HasOnly(p, buf, queue, base), MoveReady(p, buf, queue), UNCHANGED <<sent, sndNxt>>
  PROVE  MoveResult(p, buf, base)
<1>1. PICK q \in Peers : q = Other(p)
  BY OtherPeer
<1>2. /\ rcvNxt \in [Peers -> Nat] /\ rcvQueue \in [Peers -> Seq(Fragment)]
      /\ sndNxt \in [Peers -> Nat] /\ DOMAIN rcvBuf = Peers
      /\ rcvNxt[p] <= sndNxt[q]
  BY <1>1 DEF IInv, TypeOK, PeerInv, InOrderInv
<1>3. PICK k \in 0 .. RcvWnd - Len(queue) :
        LET moved == rcvNxt[p] .. rcvNxt[p] + k - 1
        IN  /\ moved \subseteq DOMAIN buf
            /\ rcvQueue' = [rcvQueue EXCEPT ![p] =
                              queue \o [i \in 1 .. k |-> buf[rcvNxt[p] + i - 1]]]
            /\ rcvBuf'   = [rcvBuf EXCEPT ![p] = Keep(buf, DOMAIN buf \ moved)]
            /\ rcvNxt'   = [rcvNxt EXCEPT ![p] = @ + k]
  BY DEF MoveReady
<1> DEFINE moved == rcvNxt[p] .. rcvNxt[p] + k - 1
           ready == [i \in 1 .. k |-> buf[rcvNxt[p] + i - 1]]
<1>4. k \in Nat /\ Len(queue) \in Nat /\ rcvNxt[p] \in Nat /\ k + Len(queue) <= RcvWnd
  BY <1>2, WindowAssumption
<1>5. \A i \in 1 .. k : rcvNxt[p] + i - 1 \in moved
  BY <1>4
<1>6. moved \subseteq DOMAIN buf
  BY <1>3
<1>7. ready \in Seq(Fragment) /\ Len(ready) = k
  <2>1. \A i \in 1 .. k : buf[rcvNxt[p] + i - 1] \in Fragment
    BY <1>5, <1>6
  <2>2. ready \in [1 .. k -> Fragment]
    BY <2>1
  <2>3. QED
    BY <1>4, <2>2
<1>8. /\ rcvQueue'[p] = queue \o ready
      /\ rcvQueue' \in [Peers -> Seq(Fragment)]
      /\ Len(rcvQueue'[p]) = Len(queue) + k
  BY <1>2, <1>3, <1>7, SMTT(30)
<1>9. /\ rcvNxt'[p] = rcvNxt[p] + k
      /\ rcvNxt' \in [Peers -> Nat]
  BY <1>2, <1>3, <1>4
<1>10. /\ DOMAIN rcvBuf' = Peers
       /\ rcvBuf'[p] = Keep(buf, DOMAIN buf \ moved)
       /\ \A r \in Peers : r # p => /\ rcvQueue'[r] = rcvQueue[r] /\ rcvNxt'[r] = rcvNxt[r]
                                   /\ rcvBuf'[r] = rcvBuf[r]
  BY <1>2, <1>3
<1>11. /\ DOMAIN rcvBuf'[p] = DOMAIN buf \ moved
       /\ DOMAIN rcvBuf'[p] \subseteq Nat /\ rcvBuf'[p] \in [DOMAIN rcvBuf'[p] -> Fragment]
       /\ \A sn \in DOMAIN rcvBuf'[p] : rcvBuf'[p][sn] = buf[sn]
  BY <1>10 DEF Keep
<1>12. \A sn \in DOMAIN buf : sn \in Nat /\ (sn < rcvNxt'[p] \/ sn \in DOMAIN rcvBuf'[p])
  <2>1. TAKE sn \in DOMAIN buf
  <2>2. CASE sn \in moved
    BY <1>4, <1>9, <2>2
  <2>3. CASE sn \notin moved
    BY <1>11, <2>3
  <2>4. QED
    BY <2>2, <2>3
<1>13. /\ rcvNxt'[p] = base + Len(rcvQueue'[p])
       /\ Len(rcvQueue'[p]) <= RcvWnd
       /\ rcvNxt'[p] >= rcvNxt[p]
  <2>1. rcvNxt[p] = base + Len(queue)
    BY DEF HasOnly
  <2>2. QED
    BY <1>4, <1>8, <1>9, <2>1, WindowAssumption
<1>14. rcvNxt'[p] <= sndNxt[q]
  <2>1. CASE k = 0
    BY <1>2, <1>4, <1>9, <2>1
  <2>2. CASE k > 0
    <3>1. rcvNxt[p] + k - 1 \in DOMAIN buf
      BY <1>4, <1>6, <2>2
    <3>2. rcvNxt[p] + k - 1 < sndNxt[q]
      BY <1>1, <3>1 DEF HasOnly
    <3>3. sndNxt[q] \in Nat
      BY <1>2
    <3>4. QED
      BY <1>4, <1>9, <3>2, <3>3
  <2>3. QED
    BY <1>4, <2>1, <2>2
<1>15. ASSUME NEW i \in 1 .. Len(rcvQueue'[p])
       PROVE  rcvQueue'[p][i] = sent[q][base + i]
  <2>1. CASE i \in 1 .. Len(queue)
    <3>1. rcvQueue'[p][i] = queue[i]
      BY <1>4, <1>7, <1>8, <2>1
    <3>2. QED
      BY <1>1, <2>1, <3>1 DEF HasOnly
  <2>2. CASE i \in Len(queue) + 1 .. Len(queue) + k
    <3>1. i - Len(queue) \in 1 .. k /\ rcvNxt[p] + (i - Len(queue)) - 1 + 1 = base + i
      <4>1. rcvNxt[p] = base + Len(queue)
        BY DEF HasOnly
      <4>2. QED
        BY <1>4, <2>2, <4>1
    <3>2. rcvQueue'[p][i] = ready[i - Len(queue)]
      BY <1>4, <1>7, <1>8, <2>2
    <3>3. ready[i - Len(queue)] = buf[rcvNxt[p] + (i - Len(queue)) - 1]
      BY <3>1
    <3>4. rcvNxt[p] + (i - Len(queue)) - 1 \in DOMAIN buf
      BY <1>5, <1>6, <3>1
    <3>5. QED
      BY <1>1, <3>1, <3>2, <3>3, <3>4 DEF HasOnly
  <2>3. QED
    BY <1>4, <1>8, <2>1, <2>2
<1>16. OutOfOrderInv(p)'
  <2>1. ASSUME NEW sn \in DOMAIN rcvBuf'[p]
        PROVE  /\ rcvNxt'[p] <= sn /\ sn < rcvNxt'[p] + RcvWnd /\ sn < sndNxt[q]
               /\ rcvBuf'[p][sn] = sent[q][sn + 1]
    <3>1. sn \in DOMAIN buf /\ sn \notin moved /\ sn \in Nat /\ rcvBuf'[p][sn] = buf[sn]
      BY <1>11
    <3>2. /\ rcvNxt[p] <= sn /\ sn < rcvNxt[p] + RcvWnd /\ sn < sndNxt[q]
          /\ buf[sn] = sent[q][sn + 1]
      BY <1>1, <3>1 DEF HasOnly
    <3>3. sn >= rcvNxt[p] + k
      BY <1>4, <3>1, <3>2
    <3>4. rcvNxt'[p] <= sn /\ sn < rcvNxt'[p] + RcvWnd
      <4> HIDE DEF moved
      <4>1. RcvWnd \in Nat
        BY WindowAssumption
      <4>2. QED
        BY <1>4, <1>9, <3>1, <3>2, <3>3, <4>1, SMTT(30)
    <3>5. QED
      BY <3>1, <3>2, <3>4
  <2>2. QED
    BY <1>1, <2>1 DEF OutOfOrderInv
<1>17. QED
  BY <1>1, <1>8, <1>9, <1>10, <1>11, <1>12, <1>13, <1>14, <1>15, <1>16 DEF MoveResult

\* The receiver's variables after a move are in their sets.
MoveTypes ==
  /\ rcvQueue' \in [Peers -> Seq(Fragment)]
  /\ rcvNxt' \in [Peers -> Nat]
  /\ DOMAIN rcvBuf' = Peers
  /\ \A r \in Peers : DOMAIN rcvBuf'[r] \subseteq Nat
                      /\ rcvBuf'[r] \in [DOMAIN rcvBuf'[r] -> Fragment]

LEMMA MovedTypes ==
  ASSUME IInv, NEW p \in Peers, NEW buf, NEW base \in Nat, MoveResult(p, buf, base)
  PROVE  MoveTypes
BY DEF IInv, TypeOK, MoveResult, MoveTypes
-----------------------------------------------------------------------------
(* The effect of receiving *)

\* p's receiver gave nothing back, and the other end's did nothing.
Grows(p) ==
  /\ rcvNxt' \in [Peers -> Nat]
  /\ rcvNxt'[p] >= rcvNxt[p]
  /\ \A sn \in DOMAIN rcvBuf[p] : sn < rcvNxt'[p] \/ sn \in DOMAIN rcvBuf'[p]
  /\ \A r \in Peers : r # p => /\ rcvQueue'[r] = rcvQueue[r] /\ rcvNxt'[r] = rcvNxt[r]
                              /\ rcvBuf'[r] = rcvBuf[r]

\* What was received stays received.
LEMMA ReceivedStays ==
  ASSUME IInv, NEW p \in Peers, Grows(p), NEW r \in Peers, NEW sn \in Nat, Received(r, sn)
  PROVE  Received(r, sn)'
<1>1. rcvNxt \in [Peers -> Nat]
  BY DEF IInv, TypeOK
<1>2. CASE r # p
  BY <1>2 DEF Grows, Received
<1>3. CASE r = p /\ sn < rcvNxt[p]
  BY <1>1, <1>3 DEF Grows, Received
<1>4. CASE r = p /\ sn \in DOMAIN rcvBuf[p]
  BY <1>4 DEF Grows, Received
<1>5. QED
  BY <1>2, <1>3, <1>4 DEF Received

\* A step of p's receiver keeps the invariant at both ends if it keeps what is
\* about p's own state.
LEMMA ReceiveStep ==
  ASSUME IInv, NEW p \in Peers, Grows(p), UNCHANGED <<sent, sndQueue, sndNxt>>,
         \A s \in Peers : s # p => /\ sndBuf'[s] = sndBuf[s] /\ sndUna'[s] = sndUna[s]
                                  /\ acklist'[s] = acklist[s] /\ taken'[s] = taken[s]
                                  /\ net'[s] = net[s],
         net'[p] \subseteq net[p],
         BufInv(p)', KeptInv(p)', AckInv(p)', InOrderInv(p)', OutOfOrderInv(p)',
         NEW r \in Peers
  PROVE  PeerInv(r)'
<1>1. PICK q \in Peers : q = Other(p) /\ q # p /\ Other(q) = p /\ (r = p \/ r = q)
  BY OtherPeer, TwoPeers
<1>2. PeerInv(p) /\ PeerInv(q)
  BY DEF IInv
<1>3. /\ rcvQueue'[q] = rcvQueue[q] /\ rcvNxt'[q] = rcvNxt[q] /\ rcvBuf'[q] = rcvBuf[q]
      /\ sndBuf'[q] = sndBuf[q] /\ sndUna'[q] = sndUna[q] /\ acklist'[q] = acklist[q]
      /\ taken'[q] = taken[q] /\ net'[q] = net[q]
      /\ sent' = sent /\ sndQueue' = sndQueue /\ sndNxt' = sndNxt
  BY <1>1 DEF Grows
<1>4. \A sn : Received(q, sn)' <=> Received(q, sn)
  BY <1>3 DEF Received
<1>5. PeerInv(p)'
  <2>1. QueueInv(p)' /\ FragInv(p)'
    BY <1>2, <1>3 DEF PeerInv, QueueInv, FragInv
  <2>2. NetInv(p)'
    BY <1>1, <1>2, <1>3, <1>4 DEF PeerInv, NetInv
  <2>3. QED
    BY <2>1, <2>2 DEF PeerInv
<1>6. PeerInv(q)'
  <2>1. QueueInv(q)' /\ FragInv(q)' /\ BufInv(q)'
    BY <1>2, <1>3 DEF PeerInv, QueueInv, FragInv, BufInv
  <2>2. InOrderInv(q)' /\ OutOfOrderInv(q)'
    <3>1. InOrderInv(q) /\ OutOfOrderInv(q)
      BY <1>2 DEF PeerInv
    <3>2. InOrderInv(q)'
      <4>1. /\ rcvNxt'[q] = Len(taken'[q]) + Len(rcvQueue'[q])
            /\ rcvNxt'[q] <= sndNxt'[p]
            /\ Len(rcvQueue'[q]) <= RcvWnd
            /\ \A i \in 1 .. Len(taken'[q]) : taken'[q][i] = sent'[p][i]
            /\ \A i \in 1 .. Len(rcvQueue'[q]) : rcvQueue'[q][i] = sent'[p][Len(taken'[q]) + i]
            /\ taken'[q] # <<>> => taken'[q][Len(taken'[q])].frg = 0
        <5>1. /\ rcvNxt[q] = Len(taken[q]) + Len(rcvQueue[q])
              /\ rcvNxt[q] <= sndNxt[p]
              /\ Len(rcvQueue[q]) <= RcvWnd
              /\ \A i \in 1 .. Len(taken[q]) : taken[q][i] = sent[p][i]
              /\ \A i \in 1 .. Len(rcvQueue[q]) : rcvQueue[q][i] = sent[p][Len(taken[q]) + i]
              /\ taken[q] # <<>> => taken[q][Len(taken[q])].frg = 0
          BY <1>1, <3>1, ZenonT(30) DEF InOrderInv
        <5>2. QED
          BY <1>3, <5>1
      <4>2. QED
        BY <1>1, <4>1, ZenonT(30) DEF InOrderInv
    <3>3. OutOfOrderInv(q)'
      BY <1>1, <1>3, <3>1 DEF OutOfOrderInv
    <3>4. QED
      BY <3>2, <3>3
  <2>3. AckInv(q)'
    BY <1>2, <1>3, <1>4 DEF PeerInv, AckInv
  <2>4. NetInv(q)'
    <3>1. ASSUME NEW m \in net[q]
          PROVE  /\ m.cmd = "PUSH" => m.sn < sndNxt[p] /\ m.frag = sent[p][m.sn + 1]
                 /\ m.cmd = "ACK" => Received(p, m.sn)'
                 /\ m.una <= rcvNxt'[p]
      <4>1. /\ m.cmd = "PUSH" => m.sn < sndNxt[p] /\ m.frag = sent[p][m.sn + 1]
            /\ m.cmd = "ACK" => Received(p, m.sn)
            /\ m.una <= rcvNxt[p]
        BY <1>1, <1>2, <3>1 DEF PeerInv, NetInv
      <4>2. m.sn \in Nat /\ m.una \in Nat
        <5>1. m \in Segment
          BY <3>1 DEF IInv, TypeOK
        <5>2. QED
          BY <5>1 DEF Segment
      <4>3. m.una <= rcvNxt'[p]
        <5>1. rcvNxt \in [Peers -> Nat]
          BY DEF IInv, TypeOK
        <5>2. QED
          BY <4>1, <4>2, <5>1 DEF Grows
      <4>4. QED
        BY <4>1, <4>2, <4>3, ReceivedStays
    <3>2. QED
      BY <1>1, <1>3, <3>1 DEF NetInv
  <2>5. KeptInv(q)'
    <3>1. ASSUME NEW sn \in 0 .. sndNxt[q] - 1
          PROVE  sn \in DOMAIN sndBuf[q] \/ Received(p, sn)'
      <4>1. sn \in Nat
        OBVIOUS
      <4>2. QED
        BY <1>1, <1>2, <4>1, ReceivedStays DEF PeerInv, KeptInv
    <3>2. QED
      BY <1>1, <1>3, <3>1 DEF KeptInv
  <2>6. QED
    BY <2>1, <2>2, <2>3, <2>4, <2>5 DEF PeerInv
<1>7. QED
  BY <1>1, <1>5, <1>6
-----------------------------------------------------------------------------
(* The steps that flush: Tick and Send *)

\* A flush and a longer history keep every variable in its set.
LEMMA FlushTypes ==
  ASSUME IInv, NEW p \in Peers, NEW queue \in Seq(Fragment), NEW k \in 0 .. Len(queue),
         FlushedBy(p, queue, k), sent' \in [Peers -> Seq(Fragment)],
         UNCHANGED <<receiverVars, closed, taken>>,
         updated' \in [Peers -> BOOLEAN], draining' \in [Peers -> BOOLEAN]
  PROVE  TypeOK'
<1>1. TypeOK /\ k \in Nat
  BY DEF IInv
<1>2. sndQueue' \in [Peers -> Seq(Fragment)]
  <2>1. SubSeq(queue, k + 1, Len(queue)) \in Seq(Fragment)
    BY <1>1
  <2>2. QED
    BY <1>1, <2>1 DEF TypeOK, FlushedBy
<1>3. sndNxt' \in [Peers -> Nat]
  BY <1>1, SMTT(30) DEF TypeOK, FlushedBy
<1>4. /\ DOMAIN sndBuf' = Peers
      /\ \A r \in Peers : DOMAIN sndBuf'[r] \subseteq Nat
                          /\ sndBuf'[r] \in [DOMAIN sndBuf'[r] -> Fragment]
  <2>1. sndNxt[p] \in Nat /\ DOMAIN sndBuf[p] \subseteq Nat
    BY <1>1 DEF TypeOK
  <2>2. DOMAIN sndBuf'[p] \subseteq Nat /\ sndBuf'[p] \in [DOMAIN sndBuf'[p] -> Fragment]
    BY <1>1, <2>1 DEF FlushedBy
  <2>3. QED
    BY <1>1, <2>2 DEF TypeOK, FlushedBy
<1>5. /\ rcvQueue' = rcvQueue /\ rcvBuf' = rcvBuf /\ rcvNxt' = rcvNxt
      /\ closed' = closed /\ taken' = taken /\ sndUna' = sndUna /\ rmtWnd' = rmtWnd
      /\ acklist' \in [Peers -> SUBSET Nat] /\ askTell' \in [Peers -> BOOLEAN]
      /\ net' \in [Peers -> SUBSET Segment]
  BY DEF receiverVars, FlushedBy
<1>6. QED
  BY <1>1, <1>2, <1>3, <1>4, <1>5 DEF TypeOK

LEMMA TickStep ==
  ASSUME IInv, NEW p \in Peers, Tick(p)
  PROVE  IInv'
<1> DEFINE queue == sndQueue[p]
<1>1. queue \in Seq(Fragment) /\ sent \in [Peers -> Seq(Fragment)]
  BY DEF IInv, TypeOK
<1>2. /\ sent' = sent /\ UNCHANGED <<receiverVars, closed, taken>>
      /\ updated' \in [Peers -> BOOLEAN] /\ draining' \in [Peers -> BOOLEAN]
  BY DEF Tick, IInv, TypeOK, Deliverable
<1>3. PICK k \in 0 .. Len(queue) : FlushedBy(p, queue, k)
  BY <1>1, FlushEffect DEF Tick
<1>4. StreamWith(p, queue)
  <2>1. QueueInv(p) /\ FragInv(p)
    BY DEF IInv, PeerInv
  <2>2. Len(sent'[p]) >= Len(sent[p])
    BY <1>1, <1>2
  <2>3. FragInv(p)'
    BY <1>2, <2>1 DEF FragInv
  <2>4. QED
    BY <1>1, <1>2, <2>1, <2>2, <2>3 DEF StreamWith, QueueInv
<1>5. \A r \in Peers : PeerInv(r)'
  BY <1>1, <1>2, <1>3, <1>4, FlushStep
<1>6. TypeOK'
  BY <1>1, <1>2, <1>3, FlushTypes
<1>7. QED
  BY <1>5, <1>6 DEF IInv

LEMMA FragmentsFacts ==
  ASSUME NEW d \in Data, NEW n \in Nat
  PROVE  /\ Fragments(d, n) \in Seq(Fragment)
         /\ Len(Fragments(d, n)) = n
         /\ \A i \in 1 .. n : Fragments(d, n)[i].frg = n - i
<1>1. Fragments(d, n) \in [1 .. n -> Fragment]
  BY DEF Fragments, Fragment
<1>2. Fragments(d, n) \in Seq(Fragment) /\ Len(Fragments(d, n)) = n
  BY <1>1
<1>3. \A i \in 1 .. n : Fragments(d, n)[i].frg = n - i
  BY DEF Fragments
<1>4. QED
  BY <1>2, <1>3

\* The parts of a concatenation, by position.
LEMMA ConcatFacts ==
  ASSUME NEW S, NEW a \in Seq(S), NEW b \in Seq(S)
  PROVE  /\ a \o b \in Seq(S)
         /\ Len(a \o b) = Len(a) + Len(b)
         /\ \A i \in 1 .. Len(a) : (a \o b)[i] = a[i]
         /\ \A i \in 1 .. Len(b) : (a \o b)[Len(a) + i] = b[i]
         /\ Len(a) \in Nat /\ Len(b) \in Nat
OBVIOUS

\* A position of a concatenation is in one of its parts.
LEMMA ConcatSplit ==
  ASSUME NEW S, NEW a \in Seq(S), NEW b \in Seq(S), NEW i \in 1 .. Len(a \o b)
  PROVE  i \in 1 .. Len(a) \/ \E j \in 1 .. Len(b) : i = Len(a) + j
<1>1. Len(a) \in Nat /\ Len(b) \in Nat /\ i \in 1 .. Len(a) + Len(b)
  BY ConcatFacts
<1>2. CASE i \notin 1 .. Len(a)
  <2>1. i - Len(a) \in 1 .. Len(b) /\ i = Len(a) + (i - Len(a))
    BY <1>1, <1>2
  <2>2. QED
    BY <2>1
<1>3. QED
  BY <1>2

\* queue stays the end of a stream when both are extended alike.
LEMMA SuffixExtended ==
  ASSUME NEW old \in Seq(Fragment), NEW queue \in Seq(Fragment), NEW new \in Seq(Fragment),
         NEW nxt \in Nat, Len(old) = nxt + Len(queue),
         \A i \in 1 .. Len(queue) : queue[i] = old[nxt + i]
  PROVE  /\ Len(old \o new) = nxt + Len(queue \o new)
         /\ \A i \in 1 .. Len(queue \o new) : (queue \o new)[i] = (old \o new)[nxt + i]
<1>1. Len(queue) \in Nat /\ Len(new) \in Nat
  OBVIOUS
<1>2. Len(old \o new) = nxt + Len(queue \o new)
  <2>1. Len(old \o new) = Len(old) + Len(new)
    BY ConcatFacts
  <2>2. Len(queue \o new) = Len(queue) + Len(new)
    BY ConcatFacts
  <2>3. QED
    BY <1>1, <2>1, <2>2
<1>3. ASSUME NEW i \in 1 .. Len(queue \o new)
      PROVE  (queue \o new)[i] = (old \o new)[nxt + i]
  <2>1. CASE i \in 1 .. Len(queue)
    <3>1. nxt + i \in 1 .. Len(old)
      BY <1>1, <2>1
    <3>2. (queue \o new)[i] = queue[i] /\ (old \o new)[nxt + i] = old[nxt + i]
      BY <2>1, <3>1, ConcatFacts
    <3>3. QED
      BY <2>1, <3>2
  <2>2. CASE \E j \in 1 .. Len(new) : i = Len(queue) + j
    <3>1. PICK j \in 1 .. Len(new) : i = Len(queue) + j
      BY <2>2
    <3>2. nxt + i = Len(old) + j
      BY <1>1, <3>1
    <3>3. (queue \o new)[Len(queue) + j] = new[j] /\ (old \o new)[Len(old) + j] = new[j]
      BY ConcatFacts
    <3>4. QED
      BY <3>1, <3>2, <3>3
  <2>3. i \in 1 .. Len(queue) \/ \E j \in 1 .. Len(new) : i = Len(queue) + j
    BY ConcatSplit
  <2>4. QED
    BY <2>1, <2>2, <2>3
<1>4. QED
  BY <1>2, <1>3

\* Fragments that announce their payload's length still do after another payload.
LEMMA AnnouncedExtended ==
  ASSUME NEW old \in Seq(Fragment), Announced(old), NEW d \in Data, NEW n \in Nat, n < WndRcv
  PROVE  Announced(old \o Fragments(d, n))
<1> DEFINE new == Fragments(d, n)
           all == old \o new
<1>1. /\ new \in Seq(Fragment) /\ Len(new) = n
      /\ \A i \in 1 .. n : new[i].frg = n - i
  BY FragmentsFacts
<1> HIDE DEF new
<1>2. /\ all \in Seq(Fragment) /\ Len(all) = Len(old) + n
      /\ \A i \in 1 .. Len(old) : all[i] = old[i]
      /\ \A i \in 1 .. n : all[Len(old) + i] = new[i]
      /\ Len(old) \in Nat
  <2>1. new \in Seq(Fragment) /\ Len(new) = n
    BY <1>1
  <2>2. all \in Seq(Fragment) /\ Len(all) = Len(old) + Len(new) /\ Len(old) \in Nat
    BY <2>1
  <2>3. \A i \in 1 .. Len(old) : all[i] = old[i]
    BY <2>1, ConcatFacts
  <2>4. \A i \in 1 .. Len(new) : all[Len(old) + i] = new[i]
    BY <2>1, ConcatFacts
  <2> HIDE DEF all
  <2>5. Len(all) = Len(old) + n /\ \A i \in 1 .. n : all[Len(old) + i] = new[i]
    BY <2>1, <2>2, <2>4
  <2>6. QED
    BY <2>2, <2>3, <2>5
<1>3. \A i \in 1 .. Len(all) : i \in 1 .. Len(old) \/ \E j \in 1 .. n : i = Len(old) + j
  <2>1. /\ new \in Seq(Fragment) /\ Len(new) = n
    BY <1>1
  <2>2. \A i \in 1 .. Len(all) : i \in 1 .. Len(old) \/ \E j \in 1 .. Len(new) : i = Len(old) + j
    BY <2>1, ConcatSplit, ZenonT(30)
  <2>3. QED
    BY <2>1, <2>2
<1>4. WndRcv \in Nat
  BY FragAssumption, WindowAssumption
<1> HIDE DEF all
<1>5. ASSUME NEW i \in 1 .. Len(all)
      PROVE  /\ all[i].frg < WndRcv
             /\ i + all[i].frg <= Len(all)
             /\ all[i + all[i].frg].frg = 0
  <2>1. CASE i \in 1 .. Len(old)
    <3>1. /\ old[i].frg < WndRcv
          /\ i + old[i].frg <= Len(old)
          /\ old[i + old[i].frg].frg = 0
      BY <2>1 DEF Announced
    <3>2. old[i].frg \in Nat
      <4>1. old[i] \in Fragment
        BY <2>1
      <4>2. QED
        BY <4>1 DEF Fragment
    <3>3. i + old[i].frg \in 1 .. Len(old) /\ i + old[i].frg <= Len(all)
      BY <1>1, <1>2, <2>1, <3>1, <3>2
    <3>4. QED
      BY <1>2, <2>1, <3>1, <3>3
  <2>2. CASE \E j \in 1 .. n : i = Len(old) + j
    <3>1. PICK j \in 1 .. n : i = Len(old) + j
      BY <2>2
    <3>2. all[i].frg = n - j
      BY <1>1, <1>2, <3>1
    <3>3. i + all[i].frg = Len(old) + n
      BY <1>2, <3>1, <3>2
    <3>4. n \in 1 .. n /\ n - j < WndRcv
      BY <1>4, <3>1
    <3>5. all[Len(old) + n].frg = 0
      BY <1>1, <1>2, <3>4
    <3>6. Len(old) + n <= Len(all)
      BY <1>2
    <3>7. QED
      BY <3>2, <3>3, <3>4, <3>5, <3>6
  <2>3. QED
    BY <1>3, <2>1, <2>2
<1>6. QED
  BY <1>5 DEF Announced, all, new

\* Accepting a payload extends the history and the send queue alike.
LEMMA SendStream ==
  ASSUME IInv, NEW p \in Peers, NEW d \in Data, NEW n \in Nat, n < WndRcv,
         sent' = [sent EXCEPT ![p] = @ \o Fragments(d, n)]
  PROVE  StreamWith(p, sndQueue[p] \o Fragments(d, n))
<1> DEFINE new == Fragments(d, n)
           old == sent[p]
           queue == sndQueue[p]
           nxt == sndNxt[p]
<1>1. /\ sent \in [Peers -> Seq(Fragment)] /\ old \in Seq(Fragment)
      /\ queue \in Seq(Fragment) /\ nxt \in Nat /\ new \in Seq(Fragment)
  BY FragmentsFacts DEF IInv, TypeOK
<1>2. /\ Len(old) = nxt + Len(queue) /\ \A i \in 1 .. Len(queue) : queue[i] = old[nxt + i]
      /\ Announced(old)
  BY DEF IInv, PeerInv, QueueInv, FragInv
<1>3. /\ sent' = [sent EXCEPT ![p] = old \o new]
      /\ Announced(old \o new)
  BY <1>1, <1>2, AnnouncedExtended
<1> HIDE DEF new, old, queue, nxt
<1>4. old \o new \in Seq(Fragment)
  BY <1>1
<1>5. /\ sent' \in [Peers -> Seq(Fragment)] /\ sent'[p] = old \o new
      /\ \A r \in Peers : r # p => sent'[r] = sent[r]
  BY <1>1, <1>3, <1>4
<1>6. /\ Len(old \o new) >= Len(old)
      /\ \A i \in 1 .. Len(old) : (old \o new)[i] = old[i]
  BY <1>1, ConcatFacts
<1>7. /\ Len(old \o new) = nxt + Len(queue \o new)
      /\ \A i \in 1 .. Len(queue \o new) : (queue \o new)[i] = (old \o new)[nxt + i]
  BY <1>1, <1>2, SuffixExtended, SMTT(30)
<1>8. FragInv(p)'
  BY <1>3, <1>5 DEF FragInv, Announced
<1>9. QED
  BY <1>5, <1>6, <1>7, <1>8 DEF StreamWith, new, old, queue, nxt

LEMMA SendStep ==
  ASSUME IInv, NEW p \in Peers, NEW d \in Data, NEW n \in 1 .. WndRcv, Send(p, d, n)
  PROVE  IInv'
<1> DEFINE queue == sndQueue[p] \o Fragments(d, n)
<1>1. n \in Nat /\ n < WndRcv
  BY FragAssumption DEF Send
<1>2. queue \in Seq(Fragment)
  BY <1>1, FragmentsFacts DEF IInv, TypeOK
<1>3. StreamWith(p, queue)
  BY <1>1, SendStream DEF Send
<1>4. /\ UNCHANGED <<receiverVars, closed, taken>>
      /\ updated' \in [Peers -> BOOLEAN] /\ draining' \in [Peers -> BOOLEAN]
  BY DEF Send, IInv, TypeOK
<1> HIDE DEF queue
<1>5. PICK k \in 0 .. Len(queue) : FlushedBy(p, queue, k)
  <2>1. CASE updated[p] /\ Flush(p, queue)
    BY <1>2, <2>1, FlushEffect
  <2>2. CASE /\ sndQueue' = [sndQueue EXCEPT ![p] = queue]
             /\ UNCHANGED <<sndBuf, sndUna, sndNxt, rmtWnd, acklist, askTell, net>>
    <3>1. /\ sndNxt \in [Peers -> Nat] /\ DOMAIN sndBuf = Peers /\ net \in [Peers -> SUBSET Segment]
          /\ sndBuf[p] \in [DOMAIN sndBuf[p] -> Fragment] /\ DOMAIN sndBuf[p] \subseteq Nat
          /\ acklist \in [Peers -> SUBSET Nat] /\ askTell \in [Peers -> BOOLEAN]
      BY DEF IInv, TypeOK
    <3>2. \A sn \in DOMAIN sndBuf[p] : sn < sndNxt[p]
      BY DEF IInv, PeerInv, BufInv
    <3>3. SubSeq(queue, 0 + 1, Len(queue)) = queue
      BY <1>2
    <3>4. sndNxt' = [sndNxt EXCEPT ![p] = @ + 0]
      BY <2>2, <3>1
    <3>5. sndNxt[p] .. sndNxt[p] + 0 - 1 = {}
      BY <3>1
    <3>6. \A sn \in DOMAIN sndBuf'[p] :
            sndBuf'[p][sn] = IF sn >= sndNxt[p] THEN queue[sn - sndNxt[p] + 1] ELSE sndBuf[p][sn]
      BY <2>2, <3>1, <3>2
    <3>7. \A m \in net'[Other(p)] : m \in net[Other(p)] \/ Emitted(p, m)
      BY <2>2
    <3>8. FlushedBy(p, queue, 0)
      BY <2>2, <3>1, <3>3, <3>4, <3>5, <3>6, <3>7 DEF FlushedBy
    <3>9. 0 \in 0 .. Len(queue)
      BY <1>2
    <3>10. QED
      BY <3>8, <3>9
  <2>3. QED
    BY <2>1, <2>2 DEF Send, queue
<1>6. \A r \in Peers : PeerInv(r)'
  BY <1>2, <1>3, <1>4, <1>5, FlushStep
<1>7. TypeOK'
  BY <1>2, <1>3, <1>4, <1>5, FlushTypes DEF StreamWith
<1>8. QED
  BY <1>6, <1>7 DEF IInv
-----------------------------------------------------------------------------
(* Deliver *)

\* The two parts a queue is cut into.
LEMMA CutFacts ==
  ASSUME NEW S, NEW s \in Seq(S), NEW n \in 1 .. Len(s)
  PROVE  LET first == SubSeq(s, 1, n)
             rest  == SubSeq(s, n + 1, Len(s))
         IN  /\ first \in Seq(S) /\ Len(first) = n /\ n \in Nat
             /\ rest \in Seq(S) /\ Len(rest) = Len(s) - n /\ Len(s) \in Nat
             /\ \A i \in 1 .. n : first[i] = s[i]
             /\ \A i \in 1 .. Len(rest) : rest[i] = s[n + i]
OBVIOUS

LEMMA DeliverStep ==
  ASSUME IInv, NEW p \in Peers, Deliver(p)
  PROVE  IInv'
<1>1. PICK q \in Peers : q = Other(p)
  BY OtherPeer
<1>2. PICK n \in 1 .. Len(rcvQueue[p]) :
        /\ FirstMessage(rcvQueue[p], n)
        /\ taken' = [taken EXCEPT ![p] = @ \o SubSeq(rcvQueue[p], 1, n)]
        /\ MoveReady(p, rcvBuf[p], SubSeq(rcvQueue[p], n + 1, Len(rcvQueue[p])))
  BY DEF Deliver
<1> DEFINE first == SubSeq(rcvQueue[p], 1, n)
           rest  == SubSeq(rcvQueue[p], n + 1, Len(rcvQueue[p]))
           base  == Len(taken[p]) + n
<1>3. /\ rcvQueue[p] \in Seq(Fragment) /\ taken[p] \in Seq(Fragment)
      /\ DOMAIN rcvBuf[p] \subseteq Nat /\ rcvBuf[p] \in [DOMAIN rcvBuf[p] -> Fragment]
      /\ taken \in [Peers -> Seq(Fragment)] /\ rcvNxt \in [Peers -> Nat]
  BY DEF IInv, TypeOK
<1>4. /\ first \in Seq(Fragment) /\ Len(first) = n /\ n \in Nat
      /\ rest \in Seq(Fragment) /\ Len(rest) = Len(rcvQueue[p]) - n
      /\ Len(rcvQueue[p]) \in Nat /\ Len(taken[p]) \in Nat
      /\ \A i \in 1 .. n : first[i] = rcvQueue[p][i]
      /\ \A i \in 1 .. Len(rest) : rest[i] = rcvQueue[p][n + i]
  <2>1. /\ first \in Seq(Fragment) /\ Len(first) = n /\ n \in Nat
        /\ rest \in Seq(Fragment) /\ Len(rest) = Len(rcvQueue[p]) - n
        /\ Len(rcvQueue[p]) \in Nat
    BY <1>3, CutFacts
  <2>2. \A i \in 1 .. n : first[i] = rcvQueue[p][i]
    BY <1>3, CutFacts
  <2>3. \A i \in 1 .. Len(rest) : rest[i] = rcvQueue[p][n + i]
    BY <1>3, CutFacts
  <2>4. Len(taken[p]) \in Nat
    BY <1>3
  <2>5. QED
    BY <2>1, <2>2, <2>3, <2>4
<1>5. /\ UNCHANGED <<senderVars, acklist, updated, closed, net, sent>>
      /\ MoveReady(p, rcvBuf[p], rest)
      /\ first[n].frg = 0
      /\ askTell' \in [Peers -> BOOLEAN] /\ draining' \in [Peers -> BOOLEAN]
  <2>1. first[n].frg = 0
    <3>1. n \in 1 .. n
      BY <1>4
    <3>2. QED
      BY <1>2, <1>4, <3>1 DEF FirstMessage
  <2>2. askTell' \in [Peers -> BOOLEAN] /\ draining' \in [Peers -> BOOLEAN]
    BY DEF Deliver, IInv, TypeOK, Deliverable
  <2>3. QED
    BY <1>2, <2>1, <2>2 DEF Deliver
<1>6. /\ rcvNxt[p] = Len(taken[p]) + Len(rcvQueue[p])
      /\ Len(rcvQueue[p]) <= RcvWnd
      /\ \A i \in 1 .. Len(taken[p]) : taken[p][i] = sent[q][i]
      /\ \A i \in 1 .. Len(rcvQueue[p]) : rcvQueue[p][i] = sent[q][Len(taken[p]) + i]
  BY <1>1 DEF IInv, PeerInv, InOrderInv
<1> HIDE DEF first, rest
<1>7. taken'[p] = taken[p] \o first /\ \A r \in Peers : r # p => taken'[r] = taken[r]
  BY <1>2, <1>3 DEF first
<1>8. HasOnly(p, rcvBuf[p], rest, base)
  <2>1. rcvNxt[p] = base + Len(rest) /\ Len(rest) <= RcvWnd
    <3>1. RcvWnd \in Nat
      BY WindowAssumption
    <3> DEFINE a == Len(taken[p])
               b == Len(rcvQueue[p])
               c == Len(rest)
    <3>2. a \in Nat /\ b \in Nat /\ c = b - n /\ n \in 1 .. b /\ b <= RcvWnd /\ rcvNxt[p] = a + b
      BY <1>4, <1>6
    <3> HIDE DEF a, b, c
    <3>3. rcvNxt[p] = (a + n) + c /\ c <= RcvWnd
      BY <3>1, <3>2
    <3>4. QED
      BY <3>3 DEF a, c
  <2>2. ASSUME NEW i \in 1 .. Len(rest) PROVE rest[i] = sent[q][base + i]
    <3>1. n + i \in 1 .. Len(rcvQueue[p]) /\ Len(taken[p]) + (n + i) = base + i
      BY <1>4
    <3>2. QED
      BY <1>4, <1>6, <3>1
  <2>3. OutOfOrderInv(p)
    BY DEF IInv, PeerInv
  <2>4. QED
    BY <1>1, <2>1, <2>2, <2>3 DEF HasOnly, OutOfOrderInv
<1>9. base \in Nat /\ UNCHANGED <<sent, sndNxt>>
  BY <1>4, <1>5 DEF senderVars
<1> HIDE DEF base
<1>10. MoveResult(p, rcvBuf[p], base)
  BY <1>3, <1>4, <1>5, <1>8, <1>9, MoveStep
<1>11. Grows(p)
  BY <1>10 DEF MoveResult, Grows
<1>12. InOrderInv(p)'
  <2>1. /\ Len(taken'[p]) = base
        /\ \A i \in 1 .. Len(taken[p]) : taken'[p][i] = taken[p][i]
        /\ \A i \in 1 .. n : taken'[p][Len(taken[p]) + i] = first[i]
    BY <1>3, <1>4, <1>7, ConcatFacts, SMTT(30) DEF base
  <2>2. \A i \in 1 .. n : taken'[p][Len(taken[p]) + i] = sent[q][Len(taken[p]) + i]
    <3>1. ASSUME NEW i \in 1 .. n
          PROVE  taken'[p][Len(taken[p]) + i] = sent[q][Len(taken[p]) + i]
      <4>1. i \in 1 .. Len(rcvQueue[p])
        BY <1>4
      <4>2. first[i] = rcvQueue[p][i] /\ taken'[p][Len(taken[p]) + i] = first[i]
        BY <1>4, <2>1
      <4>3. QED
        BY <1>6, <4>1, <4>2
    <3>2. QED
      BY <3>1
  <2>3. ASSUME NEW i \in 1 .. base PROVE taken'[p][i] = sent[q][i]
    <3>1. CASE i \in 1 .. Len(taken[p])
      BY <1>6, <2>1, <3>1
    <3>2. CASE i \notin 1 .. Len(taken[p])
      <4>1. i - Len(taken[p]) \in 1 .. n /\ Len(taken[p]) + (i - Len(taken[p])) = i
        BY <1>4, <3>2 DEF base
      <4>2. QED
        BY <2>2, <4>1
    <3>3. QED
      BY <3>1, <3>2
  <2>4. taken'[p][base].frg = 0
    <3>1. n \in 1 .. n
      BY <1>4
    <3>2. QED
      BY <1>5, <2>1, <3>1 DEF base
  <2>5. /\ rcvNxt'[p] = base + Len(rcvQueue'[p])
        /\ Len(rcvQueue'[p]) <= RcvWnd
        /\ rcvNxt'[p] <= sndNxt[q]
        /\ \A i \in 1 .. Len(rcvQueue'[p]) : rcvQueue'[p][i] = sent[q][base + i]
    BY <1>1, <1>10 DEF MoveResult
  <2>6. QED
    BY <1>1, <1>9, <2>1, <2>3, <2>4, <2>5 DEF InOrderInv
<1>13. AckInv(p)'
  <2>1. acklist' = acklist /\ acklist[p] \subseteq Nat /\ AckInv(p)
    BY <1>5 DEF IInv, TypeOK, PeerInv
  <2>2. QED
    BY <1>11, <2>1, ReceivedStays DEF AckInv
<1>14. BufInv(p)' /\ KeptInv(p)'
  <2>1. PeerInv(p) /\ Other(p) # p
    BY OtherPeer DEF IInv
  <2>2. sndBuf' = sndBuf /\ sndUna' = sndUna /\ sndNxt' = sndNxt /\ sent' = sent
    BY <1>5 DEF senderVars
  <2>3. BufInv(p)'
    BY <2>1, <2>2 DEF PeerInv, BufInv
  <2>4. \A sn : Received(q, sn)' <=> Received(q, sn)
    BY <1>1, <1>11, <2>1 DEF Grows, Received
  <2>5. KeptInv(p)'
    BY <1>1, <2>1, <2>2, <2>4 DEF PeerInv, KeptInv
  <2>6. QED
    BY <2>3, <2>5
<1>15. \A r \in Peers : PeerInv(r)'
  <2>1. OutOfOrderInv(p)'
    BY <1>10 DEF MoveResult
  <2>2. /\ sent' = sent /\ sndQueue' = sndQueue /\ sndNxt' = sndNxt /\ sndBuf' = sndBuf
        /\ sndUna' = sndUna /\ acklist' = acklist /\ net' = net
    BY <1>5 DEF senderVars
  <2>3. QED
    BY <1>7, <1>11, <1>12, <1>13, <1>14, <2>1, <2>2, ReceiveStep
<1>16. TypeOK'
  <2>1. taken' \in [Peers -> Seq(Fragment)]
    <3>1. taken[p] \o first \in Seq(Fragment)
      BY <1>3, <1>4
    <3>2. taken' = [taken EXCEPT ![p] = taken[p] \o first]
      BY <1>2 DEF first
    <3>3. QED
      BY <1>3, <3>1, <3>2
  <2>2. MoveTypes
    BY <1>9, <1>10, MovedTypes
  <2>3. QED
    BY <1>5, <2>1, <2>2 DEF IInv, TypeOK, MoveTypes, senderVars
<1>17. QED
  BY <1>15, <1>16 DEF IInv
-----------------------------------------------------------------------------
(* Input *)

\* Acknowledging what m says keeps the send buffer within the window, and lets
\* go of nothing the peer does not have.
LEMMA AcknowledgeStep ==
  ASSUME IInv, NEW p \in Peers, NEW m \in net[p], Acknowledge(p, m),
         UNCHANGED <<sndNxt, sent>>
  PROVE  /\ sndUna' \in [Peers -> Nat] /\ DOMAIN sndBuf' = Peers
         /\ DOMAIN sndBuf'[p] \subseteq DOMAIN sndBuf[p]
         /\ sndBuf'[p] \in [DOMAIN sndBuf'[p] -> Fragment]
         /\ \A r \in Peers : r # p => sndBuf'[r] = sndBuf[r] /\ sndUna'[r] = sndUna[r]
         /\ BufInv(p)'
         /\ \A sn \in 0 .. sndNxt[p] - 1 : sn \in DOMAIN sndBuf'[p] \/ Received(Other(p), sn)
<1>1. PICK q \in Peers : q = Other(p)
  BY OtherPeer
<1>2. /\ sndUna \in [Peers -> Nat] /\ sndNxt \in [Peers -> Nat] /\ DOMAIN sndBuf = Peers
      /\ DOMAIN sndBuf[p] \subseteq Nat /\ sndBuf[p] \in [DOMAIN sndBuf[p] -> Fragment]
      /\ rcvNxt \in [Peers -> Nat]
  BY DEF IInv, TypeOK
<1>3. m \in Segment
  BY DEF IInv, TypeOK
<1>4. BufInv(p) /\ KeptInv(p) /\ NetInv(p)
  BY DEF IInv, PeerInv
<1> DEFINE left == {sn \in DOMAIN sndBuf[p] : sn >= m.una /\ ~(m.cmd = "ACK" /\ sn = m.sn)}
           unacked == left \cup {sndNxt[p]}
<1>5. PICK una \in unacked :
        /\ \A sn \in unacked : una <= sn
        /\ sndUna' = [sndUna EXCEPT ![p] = una]
  BY DEF Acknowledge
<1>6. sndBuf' = [sndBuf EXCEPT ![p] = Keep(@, left)]
  BY DEF Acknowledge
<1>7. sndBuf'[p] = Keep(sndBuf[p], left)
  BY <1>2, <1>6
<1>8. /\ DOMAIN sndBuf'[p] = left /\ left \subseteq DOMAIN sndBuf[p]
      /\ sndBuf'[p] \in [DOMAIN sndBuf'[p] -> Fragment]
      /\ \A sn \in left : sndBuf'[p][sn] = sndBuf[p][sn]
  BY <1>2, <1>7 DEF Keep
<1>9. /\ DOMAIN sndBuf' = Peers
      /\ \A r \in Peers : r # p => sndBuf'[r] = sndBuf[r] /\ sndUna'[r] = sndUna[r]
  BY <1>2, <1>5, <1>6
<1>10. una \in Nat /\ sndUna[p] <= una /\ una <= sndNxt[p]
  BY <1>2, <1>4, <1>5 DEF BufInv
<1>11. sndUna' \in [Peers -> Nat] /\ sndUna'[p] = una
  BY <1>2, <1>5, <1>10
<1>12. BufInv(p)'
  <2>1. una <= sndNxt[p] /\ sndNxt[p] <= una + SndWnd
    <3>1. sndNxt[p] <= sndUna[p] + SndWnd
      BY <1>4 DEF BufInv
    <3>2. SndWnd \in Nat /\ sndUna[p] \in Nat /\ sndNxt[p] \in Nat
      BY <1>2, WindowAssumption
    <3>3. QED
      BY <1>10, <3>1, <3>2
  <2>2. ASSUME NEW sn \in left
        PROVE  una <= sn /\ sn < sndNxt[p] /\ sndBuf'[p][sn] = sent[p][sn + 1]
    <3>1. una <= sn
      BY <1>5
    <3>2. QED
      BY <1>4, <1>8, <3>1 DEF BufInv
  <2>3. QED
    BY <1>8, <1>11, <2>1, <2>2 DEF BufInv
<1>13. ASSUME NEW sn \in 0 .. sndNxt[p] - 1
       PROVE  sn \in DOMAIN sndBuf'[p] \/ Received(q, sn)
  <2>1. CASE sn \notin DOMAIN sndBuf[p]
    BY <1>1, <1>4, <2>1 DEF KeptInv
  <2>2. CASE sn \in DOMAIN sndBuf[p] /\ sn < m.una
    <3>1. m.una <= rcvNxt[q]
      BY <1>1, <1>4 DEF NetInv
    <3>2. m.una \in Nat /\ rcvNxt[q] \in Nat /\ sn \in Nat
      BY <1>2, <1>3 DEF Segment
    <3>3. sn < rcvNxt[q]
      BY <2>2, <3>1, <3>2
    <3>4. QED
      BY <3>3 DEF Received
  <2>3. CASE m.cmd = "ACK" /\ sn = m.sn
    BY <1>1, <1>4, <2>3 DEF NetInv
  <2>4. CASE sn \in left
    BY <1>8, <2>4
  <2>5. QED
    <3>1. m.una \in Nat /\ sn \in Nat
      BY <1>3 DEF Segment
    <3>2. QED
      BY <3>1, <2>1, <2>2, <2>3, <2>4
<1>14. QED
  BY <1>1, <1>8, <1>9, <1>11, <1>12, <1>13

\* What input does to the receiver: nothing is given back, the queue stays in
\* order, and only what p has gets on the list of acknowledgements.
Heard(p) ==
  /\ MoveTypes /\ Grows(p)
  /\ InOrderInv(p)' /\ OutOfOrderInv(p)' /\ AckInv(p)'
  /\ acklist' \in [Peers -> SUBSET Nat]
  /\ \A r \in Peers : r # p => acklist'[r] = acklist[r]
  /\ askTell' \in [Peers -> BOOLEAN]

LEMMA UnchangedReceiver ==
  ASSUME IInv, NEW p \in Peers, UNCHANGED <<receiverVars, sent, sndNxt, taken>>
  PROVE  MoveTypes /\ Grows(p) /\ InOrderInv(p)' /\ OutOfOrderInv(p)'
<1>1. /\ rcvQueue' = rcvQueue /\ rcvBuf' = rcvBuf /\ rcvNxt' = rcvNxt
      /\ sent' = sent /\ sndNxt' = sndNxt /\ taken' = taken
  BY DEF receiverVars
<1>2. rcvNxt \in [Peers -> Nat]
  BY DEF IInv, TypeOK
<1>3. MoveTypes
  BY <1>1 DEF IInv, TypeOK, MoveTypes
<1>4. Grows(p)
  BY <1>1, <1>2 DEF Grows
<1>5. InOrderInv(p) /\ OutOfOrderInv(p)
  BY DEF IInv, PeerInv
<1>6. InOrderInv(p)'
  BY <1>1, <1>5 DEF InOrderInv
<1>7. OutOfOrderInv(p)'
  BY <1>1, <1>5 DEF OutOfOrderInv
<1>8. QED
  BY <1>3, <1>4, <1>6, <1>7

LEMMA AcceptPushStep ==
  ASSUME IInv, NEW p \in Peers, NEW m \in net[p], m.cmd = "PUSH",
         rcvNxt[p] <= m.sn, m.sn < rcvNxt[p] + RcvWnd, AcceptPush(p, m),
         UNCHANGED <<sent, sndNxt, taken>>
  PROVE  MoveTypes /\ Grows(p) /\ InOrderInv(p)' /\ OutOfOrderInv(p)' /\ Received(p, m.sn)'
<1>1. PICK q \in Peers : q = Other(p)
  BY OtherPeer
<1> DEFINE buf == [sn \in DOMAIN rcvBuf[p] \cup {m.sn} |->
                     IF sn \in DOMAIN rcvBuf[p] THEN rcvBuf[p][sn] ELSE m.frag]
           base == Len(taken[p])
<1>2. /\ rcvQueue[p] \in Seq(Fragment) /\ base \in Nat /\ rcvNxt[p] \in Nat
      /\ DOMAIN rcvBuf[p] \subseteq Nat /\ rcvBuf[p] \in [DOMAIN rcvBuf[p] -> Fragment]
      /\ sent[q] \in Seq(Fragment) /\ sndNxt[q] \in Nat
  BY SMTT(30) DEF IInv, TypeOK
<1>3. m.sn \in Nat /\ m.sn < sndNxt[q] /\ m.frag = sent[q][m.sn + 1]
  <2>1. m \in Segment
    BY DEF IInv, TypeOK
  <2>2. m.sn < sndNxt[q] /\ m.frag = sent[q][m.sn + 1]
    BY <1>1 DEF IInv, PeerInv, NetInv
  <2>3. QED
    BY <2>1, <2>2 DEF Segment
<1>4. m.frag \in Fragment
  <2>1. sndNxt[q] <= Len(sent[q]) /\ Len(sent[q]) \in Nat
    <3>1. QueueInv(q) /\ sndQueue[q] \in Seq(Fragment)
      BY DEF IInv, PeerInv, TypeOK
    <3>2. Len(sndQueue[q]) \in Nat /\ Len(sent[q]) = sndNxt[q] + Len(sndQueue[q])
      BY <3>1 DEF QueueInv
    <3>3. QED
      BY <1>2, <3>2
  <2>2. m.sn + 1 \in 1 .. Len(sent[q])
    BY <1>2, <1>3, <2>1
  <2>3. QED
    BY <1>2, <1>3, <2>2
<1>5. /\ DOMAIN buf = DOMAIN rcvBuf[p] \cup {m.sn} /\ DOMAIN buf \subseteq Nat
      /\ buf \in [DOMAIN buf -> Fragment]
      /\ \A sn \in DOMAIN rcvBuf[p] : buf[sn] = rcvBuf[p][sn]
      /\ m.sn \notin DOMAIN rcvBuf[p] => buf[m.sn] = m.frag
  BY <1>2, <1>3, <1>4
<1>6. MoveReady(p, buf, rcvQueue[p])
  BY DEF AcceptPush
<1> HIDE DEF buf
<1>7. HasOnly(p, buf, rcvQueue[p], base)
  <2>1. InOrderInv(p) /\ OutOfOrderInv(p)
    BY DEF IInv, PeerInv
  <2>2. ASSUME NEW sn \in DOMAIN buf
        PROVE  /\ rcvNxt[p] <= sn /\ sn < rcvNxt[p] + RcvWnd /\ sn < sndNxt[q]
               /\ buf[sn] = sent[q][sn + 1]
    <3>1. CASE sn \in DOMAIN rcvBuf[p]
      BY <1>1, <1>5, <2>1, <3>1 DEF OutOfOrderInv
    <3>2. CASE sn \notin DOMAIN rcvBuf[p]
      BY <1>3, <1>5, <3>2
    <3>3. QED
      BY <3>1, <3>2
  <2>3. QED
    BY <1>1, <2>1, <2>2 DEF HasOnly, InOrderInv
<1>8. MoveResult(p, buf, base)
  <2> HIDE DEF base
  <2>1. QED
    BY <1>2, <1>5, <1>6, <1>7, MoveStep
<1>9. MoveTypes
  BY <1>2, <1>8, MovedTypes
<1>10. Grows(p)
  BY <1>5, <1>8 DEF MoveResult, Grows
<1>11. InOrderInv(p)'
  <2>1. /\ rcvNxt'[p] = base + Len(rcvQueue'[p])
        /\ Len(rcvQueue'[p]) <= RcvWnd
        /\ rcvNxt'[p] <= sndNxt[q]
        /\ \A i \in 1 .. Len(rcvQueue'[p]) : rcvQueue'[p][i] = sent[q][base + i]
    BY <1>1, <1>8 DEF MoveResult
  <2>2. /\ \A i \in 1 .. base : taken[p][i] = sent[q][i]
        /\ taken[p] # <<>> => taken[p][base].frg = 0
    BY <1>1 DEF IInv, PeerInv, InOrderInv
  <2>3. QED
    BY <1>1, <2>1, <2>2 DEF InOrderInv
<1>12. OutOfOrderInv(p)' /\ Received(p, m.sn)'
  BY <1>5, <1>8 DEF MoveResult, Received
<1>13. QED
  BY <1>9, <1>10, <1>11, <1>12

LEMMA HeardStep ==
  ASSUME IInv, NEW p \in Peers, NEW m \in net[p], InputPush(p, m) \/ InputControl(p, m),
         UNCHANGED <<sent, sndNxt, taken>>
  PROVE  Heard(p)
<1>1. /\ acklist \in [Peers -> SUBSET Nat] /\ askTell \in [Peers -> BOOLEAN]
      /\ acklist[p] \subseteq Nat /\ AckInv(p) /\ rcvNxt \in [Peers -> Nat]
  BY DEF IInv, TypeOK, PeerInv
<1>2. m.sn \in Nat
  <2>1. m \in Segment
    BY DEF IInv, TypeOK
  <2>2. QED
    BY <2>1 DEF Segment
<1>3. ASSUME Grows(p), acklist'[p] = acklist[p] \/ acklist'[p] = acklist[p] \cup {m.sn},
             acklist'[p] = acklist[p] \/ Received(p, m.sn)'
      PROVE  AckInv(p)'
  <2>1. \A sn \in acklist[p] : Received(p, sn)'
    BY <1>1, <1>3, ReceivedStays DEF AckInv
  <2>2. QED
    BY <1>3, <2>1 DEF AckInv
<1>4. CASE /\ m.cmd = "PUSH" /\ askTell' = askTell
           /\ acklist' = [acklist EXCEPT ![p] = @ \cup {m.sn}]
           /\ m.sn >= rcvNxt[p] /\ m.sn < rcvNxt[p] + RcvWnd /\ AcceptPush(p, m)
  <2>1. MoveTypes /\ Grows(p) /\ InOrderInv(p)' /\ OutOfOrderInv(p)' /\ Received(p, m.sn)'
    <3>1. rcvNxt[p] <= m.sn
      BY <1>1, <1>2, <1>4
    <3>2. QED
      BY <1>4, <3>1, AcceptPushStep
  <2>2. /\ acklist'[p] = acklist[p] \cup {m.sn} /\ acklist' \in [Peers -> SUBSET Nat]
        /\ \A r \in Peers : r # p => acklist'[r] = acklist[r]
    BY <1>1, <1>2, <1>4
  <2>3. QED
    BY <1>1, <1>3, <1>4, <2>1, <2>2 DEF Heard
<1>5. CASE /\ m.cmd = "PUSH" /\ askTell' = askTell
           /\ acklist' = [acklist EXCEPT ![p] = @ \cup {m.sn}]
           /\ m.sn < rcvNxt[p] /\ UNCHANGED receiverVars
  <2>1. MoveTypes /\ Grows(p) /\ InOrderInv(p)' /\ OutOfOrderInv(p)'
    BY <1>5, UnchangedReceiver
  <2>2. /\ acklist'[p] = acklist[p] \cup {m.sn} /\ acklist' \in [Peers -> SUBSET Nat]
        /\ \A r \in Peers : r # p => acklist'[r] = acklist[r]
    BY <1>1, <1>2, <1>5
  <2>3. Received(p, m.sn)'
    BY <1>5 DEF Received, receiverVars
  <2>4. QED
    BY <1>1, <1>3, <1>5, <2>1, <2>2, <2>3 DEF Heard
<1>6. CASE acklist' = acklist /\ UNCHANGED receiverVars /\ askTell' \in [Peers -> BOOLEAN]
  <2>1. MoveTypes /\ Grows(p) /\ InOrderInv(p)' /\ OutOfOrderInv(p)'
    BY <1>6, UnchangedReceiver
  <2>2. QED
    BY <1>1, <1>3, <1>6, <2>1 DEF Heard
<1>7. CASE InputPush(p, m)
  BY <1>1, <1>4, <1>5, <1>6, <1>7 DEF InputPush
<1>8. CASE InputControl(p, m)
  <2>1. askTell' \in [Peers -> BOOLEAN] /\ acklist' = acklist /\ UNCHANGED receiverVars
    BY <1>1, <1>8 DEF InputControl
  <2>2. QED
    BY <1>6, <2>1
<1>9. QED
  BY <1>7, <1>8

LEMMA InputStep ==
  ASSUME IInv, NEW p \in Peers, NEW m \in net[p], Input(p, m)
  PROVE  IInv'
<1>1. PICK q \in Peers : q = Other(p) /\ q # p
  BY OtherPeer
<1>2. /\ Acknowledge(p, m) /\ (InputPush(p, m) \/ InputControl(p, m))
      /\ rmtWnd' = [rmtWnd EXCEPT ![p] = m.wnd]
      /\ net' = [net EXCEPT ![p] = @ \ {m}] \/ net' = net
      /\ sndQueue' = sndQueue /\ sndNxt' = sndNxt /\ updated' = updated
      /\ draining' = draining /\ closed' = closed /\ sent' = sent /\ taken' = taken
  BY DEF Input
<1>3. Heard(p)
  BY <1>2, HeardStep
<1>4. /\ sndUna' \in [Peers -> Nat] /\ DOMAIN sndBuf' = Peers
      /\ DOMAIN sndBuf'[p] \subseteq DOMAIN sndBuf[p]
      /\ sndBuf'[p] \in [DOMAIN sndBuf'[p] -> Fragment]
      /\ \A r \in Peers : r # p => sndBuf'[r] = sndBuf[r] /\ sndUna'[r] = sndUna[r]
      /\ BufInv(p)'
      /\ \A sn \in 0 .. sndNxt[p] - 1 : sn \in DOMAIN sndBuf'[p] \/ Received(q, sn)
  BY <1>1, <1>2, AcknowledgeStep
<1>5. net \in [Peers -> SUBSET Segment] /\ rmtWnd \in [Peers -> Nat] /\ m \in Segment
  BY DEF IInv, TypeOK
<1>6. /\ net' \in [Peers -> SUBSET Segment] /\ net'[p] \subseteq net[p]
      /\ \A r \in Peers : r # p => net'[r] = net[r]
  BY <1>2, <1>5
<1>7. KeptInv(p)'
  <2>1. \A sn : Received(q, sn)' <=> Received(q, sn)
    BY <1>1, <1>3 DEF Heard, Grows, Received
  <2>2. QED
    BY <1>1, <1>2, <1>4, <2>1 DEF KeptInv
<1>8. \A r \in Peers : PeerInv(r)'
  BY <1>2, <1>3, <1>4, <1>6, <1>7, ReceiveStep DEF Heard
<1>9. TypeOK'
  <2>1. rmtWnd' \in [Peers -> Nat]
    BY <1>2, <1>5 DEF Segment
  <2>2. \A r \in Peers : /\ DOMAIN sndBuf'[r] \subseteq Nat
                         /\ sndBuf'[r] \in [DOMAIN sndBuf'[r] -> Fragment]
    BY <1>4 DEF IInv, TypeOK
  <2>3. /\ MoveTypes /\ acklist' \in [Peers -> SUBSET Nat] /\ askTell' \in [Peers -> BOOLEAN]
    BY <1>3 DEF Heard
  <2>4. QED
    BY <1>2, <1>4, <1>6, <2>1, <2>2, <2>3 DEF IInv, TypeOK, MoveTypes
<1>10. QED
  BY <1>8, <1>9 DEF IInv
-----------------------------------------------------------------------------
(* The invariant *)

LEMMA CloseStep ==
  ASSUME IInv, NEW p \in Peers, Close(p)
  PROVE  IInv'
<1>1. /\ sndQueue' = sndQueue /\ sndBuf' = sndBuf /\ sndUna' = sndUna /\ sndNxt' = sndNxt
      /\ rmtWnd' = rmtWnd /\ rcvQueue' = rcvQueue /\ rcvBuf' = rcvBuf /\ rcvNxt' = rcvNxt
      /\ acklist' = acklist /\ askTell' = askTell /\ updated' = updated
      /\ draining' = draining /\ net' = net /\ sent' = sent /\ taken' = taken
  BY DEF Close, senderVars, receiverVars
<1>2. closed' \in [Peers -> BOOLEAN]
  BY DEF Close, IInv, TypeOK
<1>3. TypeOK'
  BY <1>1, <1>2 DEF IInv, TypeOK
<1>4. ASSUME NEW r \in Peers PROVE PeerInv(r)'
  BY <1>1 DEF IInv, PeerInv, QueueInv, BufInv, FragInv, InOrderInv, OutOfOrderInv, AckInv,
              NetInv, KeptInv, Received
<1>5. QED
  BY <1>3, <1>4 DEF IInv

LEMMA StutterStep ==
  ASSUME IInv, UNCHANGED vars
  PROVE  IInv'
<1>1. /\ sndQueue' = sndQueue /\ sndBuf' = sndBuf /\ sndUna' = sndUna /\ sndNxt' = sndNxt
      /\ rmtWnd' = rmtWnd /\ rcvQueue' = rcvQueue /\ rcvBuf' = rcvBuf /\ rcvNxt' = rcvNxt
      /\ acklist' = acklist /\ askTell' = askTell /\ updated' = updated
      /\ draining' = draining /\ closed' = closed /\ net' = net /\ sent' = sent
      /\ taken' = taken
  BY DEF vars, senderVars, receiverVars, controlVars
<1>2. TypeOK'
  BY <1>1 DEF IInv, TypeOK
<1>3. ASSUME NEW r \in Peers PROVE PeerInv(r)'
  BY <1>1 DEF IInv, PeerInv, QueueInv, BufInv, FragInv, InOrderInv, OutOfOrderInv, AckInv,
              NetInv, KeptInv, Received
<1>4. QED
  BY <1>2, <1>3 DEF IInv

LEMMA StepInv ==
  ASSUME IInv, [Next]_vars
  PROVE  IInv'
<1>1. ASSUME NEW p \in Peers, NEW d \in Data, NEW n \in 1 .. WndRcv, Send(p, d, n)
      PROVE  IInv'
  BY <1>1, SendStep
<1>2. ASSUME NEW p \in Peers, Tick(p) PROVE IInv'
  BY <1>2, TickStep
<1>3. ASSUME NEW p \in Peers, Deliver(p) PROVE IInv'
  BY <1>3, DeliverStep
<1>4. ASSUME NEW p \in Peers, NEW m \in net[p], Input(p, m) PROVE IInv'
  BY <1>4, InputStep
<1>5. ASSUME NEW p \in Peers, Close(p) PROVE IInv'
  BY <1>5, CloseStep
<1>6. CASE UNCHANGED vars
  BY <1>6, StutterStep
<1>7. QED
  BY <1>1, <1>2, <1>3, <1>4, <1>5, <1>6 DEF Next

LEMMA InvAlways == Spec => []IInv
<1>1. IInv /\ [Next]_vars => IInv'
  BY StepInv
<1>2. QED
  BY InitInv, <1>1, PTL DEF Spec

-----------------------------------------------------------------------------
(* The safety properties of KcpProperties *)

\* Every variable of both endpoints stays in its set.
THEOREM TypeCorrect == Spec => []TypeOK
<1>1. IInv => TypeOK
  BY DEF IInv
<1>2. QED
  BY InvAlways, <1>1, PTL

\* What p's handler has and what waits for it is at most what the peer sent.
LEMMA NumberedLength ==
  ASSUME IInv, NEW p \in Peers
  PROVE  /\ Len(taken[p]) + Len(rcvQueue[p]) <= Len(sent[Other(p)])
         /\ Len(taken[p]) <= Len(sent[Other(p)])
<1>1. PICK q \in Peers : q = Other(p)
  BY OtherPeer
<1> DEFINE a == Len(taken[p])
           b == Len(rcvQueue[p])
           c == Len(sndQueue[q])
           d == Len(sent[q])
<1>2. a \in Nat /\ b \in Nat /\ c \in Nat /\ d \in Nat /\ rcvNxt[p] \in Nat /\ sndNxt[q] \in Nat
  BY SMTT(30) DEF IInv, TypeOK
<1>3. rcvNxt[p] = a + b /\ rcvNxt[p] <= sndNxt[q]
  BY <1>1 DEF IInv, PeerInv, InOrderInv
<1>4. d = sndNxt[q] + c
  BY DEF IInv, PeerInv, QueueInv
<1> HIDE DEF a, b, c, d
<1>5. a + b <= d /\ a <= d
  BY <1>2, <1>3, <1>4
<1>6. QED
  BY <1>1, <1>5 DEF a, b, d

\* Whatever is lost, duplicated or reordered, what drain hands to the message
\* handler is what the peer's application sent, in order and in whole payloads.
THEOREM OrderedDeliveryHolds == Spec => []OrderedDelivery
<1>1. ASSUME IInv, NEW p \in Peers
      PROVE  /\ Len(taken[p]) <= Len(sent[Other(p)])
             /\ \A i \in 1 .. Len(taken[p]) : taken[p][i] = sent[Other(p)][i]
             /\ taken[p] # <<>> => taken[p][Len(taken[p])].frg = 0
  <2>1. PICK q \in Peers : q = Other(p)
    BY OtherPeer
  <2>2. InOrderInv(p) /\ QueueInv(q)
    BY <1>1 DEF IInv, PeerInv
  <2>3. Len(taken[p]) <= Len(sent[q])
    BY <1>1, <2>1, NumberedLength
  <2>4. QED
    BY <2>1, <2>2, <2>3 DEF InOrderInv
<1>2. IInv => OrderedDelivery
  BY <1>1 DEF OrderedDelivery
<1>3. QED
  BY InvAlways, <1>2, PTL

\* The sender keeps a segment until the receiver has it.
THEOREM NothingForgottenHolds == Spec => []NothingForgotten
<1>1. IInv => NothingForgotten
  BY DEF IInv, PeerInv, KeptInv, NothingForgotten
<1>2. QED
  BY InvAlways, <1>1, PTL

\* Neither endpoint buffers more than its window, whatever it was told.
THEOREM WindowsRespectedHolds == Spec => []WindowsRespected
<1>1. IInv => WindowsRespected
  BY DEF IInv, PeerInv, BufInv, InOrderInv, OutOfOrderInv, WindowsRespected
<1>2. QED
  BY InvAlways, <1>1, PTL

\* A full receive queue holds the last fragment of some payload.
THEOREM NoReassemblyDeadlockHolds == Spec => []NoReassemblyDeadlock
<1>1. ASSUME IInv, NEW p \in Peers, Len(rcvQueue[p]) = RcvWnd
      PROVE  \E i \in 1 .. RcvWnd : rcvQueue[p][i].frg = 0
  <2>1. PICK q \in Peers : q = Other(p)
    BY OtherPeer
  <2> DEFINE base == Len(taken[p])
             stream == sent[q]
             f == stream[base + 1].frg
  <2>2. /\ base \in Nat /\ stream \in Seq(Fragment)
        /\ RcvWnd \in Nat \ {0} /\ WndRcv \in Nat /\ WndRcv <= RcvWnd
    <3>1. base \in Nat /\ stream \in Seq(Fragment)
      BY <1>1 DEF IInv, TypeOK
    <3>2. QED
      BY <3>1, WindowAssumption, FragAssumption
  <2>3. \A i \in 1 .. RcvWnd : rcvQueue[p][i] = stream[base + i]
    BY <1>1, <2>1 DEF IInv, PeerInv, InOrderInv
  <2>4. base + RcvWnd <= Len(stream)
    BY <1>1, <2>1, NumberedLength
  <2>5. Announced(stream)
    BY <1>1 DEF IInv, PeerInv, FragInv
  <2> HIDE DEF base, stream
  <2>6. base + 1 \in 1 .. Len(stream)
    BY <2>2, <2>4
  <2>7. stream[base + 1] \in Fragment
    BY <2>2, <2>6
  <2>8. f \in Nat /\ f < WndRcv /\ stream[(base + 1) + f].frg = 0
    BY <2>5, <2>6, <2>7 DEF Announced, Fragment
  <2> HIDE DEF f
  <2>9. 1 + f \in 1 .. RcvWnd /\ (base + 1) + f = base + (1 + f)
    BY <2>2, <2>8
  <2>10. QED
    BY <2>3, <2>8, <2>9
<1>2. IInv => NoReassemblyDeadlock
  BY <1>1 DEF NoReassemblyDeadlock
<1>3. QED
  BY InvAlways, <1>2, PTL
-----------------------------------------------------------------------------
(* The refinement *)

LEMMA SendSubmits ==
  ASSUME NEW p \in Peers, NEW d \in Data, NEW n \in 1 .. WndRcv, Send(p, d, n)
  PROVE  Channel!Submit(p)
<1>1. n \in 1 .. WndRcv - 1
  BY FragAssumption, WindowAssumption DEF Send
<1>2. Fragments(d, n) \in Accepted
  BY <1>1 DEF Accepted
<1>3. sent' = [sent EXCEPT ![p] = @ \o Fragments(d, n)] /\ taken' = taken
  BY DEF Send
<1>4. QED
  BY <1>2, <1>3 DEF Channel!Submit

LEMMA DeliverHandsOver ==
  ASSUME IInv, NEW p \in Peers, Deliver(p)
  PROVE  Channel!Handover(p)
<1>1. PICK q \in Peers : q = Other(p)
  BY OtherPeer
<1>2. PICK n \in 1 .. Len(rcvQueue[p]) :
        /\ FirstMessage(rcvQueue[p], n)
        /\ taken' = [taken EXCEPT ![p] = @ \o SubSeq(rcvQueue[p], 1, n)]
  BY DEF Deliver
<1> DEFINE from   == Len(taken[p])
           queue  == rcvQueue[p]
           stream == sent[q]
<1>3. /\ from \in Nat /\ queue \in Seq(Fragment) /\ stream \in Seq(Fragment)
      /\ Len(queue) \in Nat /\ Len(stream) \in Nat /\ n \in Nat
  BY SMTT(30) DEF IInv, TypeOK
<1>4. from + Len(queue) <= Len(stream)
  BY <1>1, NumberedLength
<1>5. \A i \in 1 .. Len(queue) : queue[i] = stream[from + i]
  BY <1>1 DEF IInv, PeerInv, InOrderInv
<1>6. sent' = sent
  BY DEF Deliver
<1>7. /\ queue[n].frg = 0 /\ \A i \in 1 .. n - 1 : queue[i].frg # 0
      /\ taken' = [taken EXCEPT ![p] = @ \o SubSeq(queue, 1, n)]
      /\ n \in 1 .. Len(queue)
  BY <1>2 DEF FirstMessage
<1> HIDE DEF queue, stream
<1>8. from + n \in from + 1 .. Len(stream)
  <2> HIDE DEF from
  <2>1. QED
    BY <1>3, <1>4, <1>7
<1>9. Channel!Boundary(stream, from + n)
  <2>1. queue[n] = stream[from + n]
    BY <1>5, <1>7
  <2>2. QED
    BY <1>7, <2>1 DEF Channel!Boundary, Channel!EndsPayload
<1>10. ASSUME NEW i \in from + 1 .. (from + n) - 1
       PROVE  ~Channel!Boundary(stream, i)
  <2> HIDE DEF from
  <2>1. /\ i - from \in 1 .. n - 1 /\ i - from \in 1 .. Len(queue)
        /\ from + (i - from) = i /\ i # 0
    BY <1>3, <1>7
  <2>2. stream[i].frg # 0
    BY <1>5, <1>7, <2>1
  <2>3. QED
    BY <2>1, <2>2 DEF Channel!Boundary, Channel!EndsPayload
<1>11. SubSeq(queue, 1, n) = SubSeq(stream, from + 1, from + n)
  <2> HIDE DEF from
  <2>1. /\ SubSeq(queue, 1, n) \in Seq(Fragment) /\ Len(SubSeq(queue, 1, n)) = n
        /\ \A i \in 1 .. n : SubSeq(queue, 1, n)[i] = queue[i]
    BY <1>3, <1>7, CutFacts
  <2>2. /\ SubSeq(stream, from + 1, from + n) \in Seq(Fragment)
        /\ Len(SubSeq(stream, from + 1, from + n)) = n
    BY <1>3, <1>8
  <2>3. \A i \in 1 .. n : SubSeq(stream, from + 1, from + n)[i] = stream[from + i]
    BY <1>3, <1>8
  <2>4. \A i \in 1 .. n : i \in 1 .. Len(queue)
    BY <1>3, <1>7
  <2>5. \A i \in 1 .. n : SubSeq(queue, 1, n)[i] = SubSeq(stream, from + 1, from + n)[i]
    BY <1>5, <2>1, <2>3, <2>4
  <2>6. QED
    BY <2>1, <2>2, <2>5, SeqEqual
<1>12. QED
  BY <1>1, <1>6, <1>7, <1>8, <1>9, <1>10, <1>11 DEF Channel!Handover, stream

\* Two KcpSession endpoints over a channel that loses, duplicates and reorders
\* are a reliable, ordered channel of whole payloads.
THEOREM ChannelImplemented == Spec => ImplementsChannel
<1>1. Init => Channel!Init
  BY DEF Init, Channel!Init
<1>2. ASSUME IInv, [Next]_vars PROVE [Channel!Next]_(Channel!vars)
  <2>1. ASSUME NEW p \in Peers, NEW d \in Data, NEW n \in 1 .. WndRcv, Send(p, d, n)
        PROVE  Channel!Next
    BY <2>1, SendSubmits DEF Channel!Next
  <2>2. ASSUME NEW p \in Peers, Deliver(p) PROVE Channel!Next
    BY <1>2, <2>2, DeliverHandsOver DEF Channel!Next
  <2>3. ASSUME NEW p \in Peers, Tick(p) PROVE UNCHANGED Channel!vars
    BY <2>3 DEF Tick, Channel!vars
  <2>4. ASSUME NEW p \in Peers, NEW m \in net[p], Input(p, m) PROVE UNCHANGED Channel!vars
    BY <2>4 DEF Input, Channel!vars
  <2>5. ASSUME NEW p \in Peers, Close(p) PROVE UNCHANGED Channel!vars
    BY <2>5 DEF Close, Channel!vars
  <2>6. CASE UNCHANGED vars
    BY <2>6 DEF vars, Channel!vars
  <2>7. QED
    BY <1>2, <2>1, <2>2, <2>3, <2>4, <2>5, <2>6 DEF Next
<1>3. QED
  BY <1>1, <1>2, InvAlways, PTL DEF Spec, ImplementsChannel, Channel!Spec

-----------------------------------------------------------------------------
(* The protocol can always go on *)

\* With nothing to acknowledge sndUna has caught up, and a segment that could be
\* moved to the receive queue has been.
ReadyInv(p) ==
  /\ DOMAIN sndBuf[p] = {} => sndUna[p] = sndNxt[p]
  /\ rcvNxt[p] \in DOMAIN rcvBuf[p] => Len(rcvQueue[p]) = RcvWnd

Ready == \A p \in Peers : ReadyInv(p)

\* What a step leaves alone stays ready.
LEMMA SenderReady ==
  ASSUME Ready, NEW r \in Peers, sndBuf'[r] = sndBuf[r], sndUna'[r] = sndUna[r],
         sndNxt'[r] = sndNxt[r]
  PROVE  DOMAIN sndBuf'[r] = {} => sndUna'[r] = sndNxt'[r]
BY DEF Ready, ReadyInv

LEMMA ReceiverReady ==
  ASSUME Ready, NEW r \in Peers, rcvBuf'[r] = rcvBuf[r], rcvQueue'[r] = rcvQueue[r],
         rcvNxt'[r] = rcvNxt[r]
  PROVE  rcvNxt'[r] \in DOMAIN rcvBuf'[r] => Len(rcvQueue'[r]) = RcvWnd
BY DEF Ready, ReadyInv

\* A flush that numbers nothing leaves the send buffer as it was.
LEMMA FlushReady ==
  ASSUME IInv, Ready, NEW p \in Peers, NEW queue \in Seq(Fragment), NEW k \in 0 .. Len(queue),
         FlushedBy(p, queue, k), UNCHANGED receiverVars
  PROVE  Ready'
<1>1. /\ sndNxt \in [Peers -> Nat] /\ k \in Nat /\ sndUna' = sndUna
      /\ sndNxt' = [sndNxt EXCEPT ![p] = @ + k]
      /\ \A r \in Peers : r # p => sndBuf'[r] = sndBuf[r]
      /\ DOMAIN sndBuf'[p] = DOMAIN sndBuf[p] \cup (sndNxt[p] .. sndNxt[p] + k - 1)
  BY DEF IInv, TypeOK, FlushedBy
<1>2. ASSUME NEW r \in Peers, DOMAIN sndBuf'[r] = {} PROVE sndUna'[r] = sndNxt'[r]
  <2>1. CASE r # p
    BY <1>1, <1>2, <2>1, SenderReady
  <2>2. CASE r = p
    <3>1. DOMAIN sndBuf[p] = {} /\ (sndNxt[p] .. sndNxt[p] + k - 1) = {}
      BY <1>1, <1>2, <2>2
    <3>2. k = 0
      BY <1>1, <3>1
    <3>3. sndUna[p] = sndNxt[p] /\ sndNxt'[p] = sndNxt[p]
      BY <1>1, <3>1, <3>2 DEF Ready, ReadyInv
    <3> QED
      BY <1>1, <2>2, <3>3
  <2> QED
    BY <2>1, <2>2
<1>3. ASSUME NEW r \in Peers
      PROVE  rcvNxt'[r] \in DOMAIN rcvBuf'[r] => Len(rcvQueue'[r]) = RcvWnd
  BY ReceiverReady DEF receiverVars
<1> QED
  BY <1>2, <1>3 DEF Ready, ReadyInv

\* MoveReady goes on until the queue is full or the next segment is missing.
LEMMA MoveAll ==
  ASSUME IInv, NEW p \in Peers, NEW buf, NEW queue \in Seq(Fragment), Len(queue) <= RcvWnd,
         MoveReady(p, buf, queue)
  PROVE  /\ rcvNxt'[p] \in DOMAIN rcvBuf'[p] => Len(rcvQueue'[p]) = RcvWnd
         /\ \A r \in Peers : r # p => /\ rcvBuf'[r] = rcvBuf[r] /\ rcvQueue'[r] = rcvQueue[r]
                                     /\ rcvNxt'[r] = rcvNxt[r]
<1>1. /\ DOMAIN rcvBuf = Peers /\ rcvNxt \in [Peers -> Nat] /\ rcvQueue \in [Peers -> Seq(Fragment)]
      /\ RcvWnd \in Nat
  BY WindowAssumption DEF IInv, TypeOK
<1>2. PICK k \in 0 .. RcvWnd - Len(queue) :
        LET moved == rcvNxt[p] .. rcvNxt[p] + k - 1
        IN  /\ k < RcvWnd - Len(queue) => rcvNxt[p] + k \notin DOMAIN buf
            /\ rcvQueue' = [rcvQueue EXCEPT ![p] =
                              queue \o [i \in 1 .. k |-> buf[rcvNxt[p] + i - 1]]]
            /\ rcvBuf'   = [rcvBuf EXCEPT ![p] = Keep(buf, DOMAIN buf \ moved)]
            /\ rcvNxt'   = [rcvNxt EXCEPT ![p] = @ + k]
  BY DEF MoveReady
<1> DEFINE ready == [i \in 1 .. k |-> buf[rcvNxt[p] + i - 1]]
<1>3. k \in Nat /\ Len(queue) \in Nat
  BY <1>1
<1>4. Len(queue \o ready) = Len(queue) + k
  <2> DEFINE Kinds == Fragment \cup {buf[rcvNxt[p] + i - 1] : i \in 1 .. k}
  <2>1. \A i \in 1 .. k : buf[rcvNxt[p] + i - 1] \in Kinds
    OBVIOUS
  <2>2. Fragment \subseteq Kinds
    OBVIOUS
  <2> HIDE DEF Kinds
  <2>3. ready \in [1 .. k -> Kinds]
    BY <2>1
  <2>4. ready \in Seq(Kinds) /\ Len(ready) = k
    BY <1>3, <2>3
  <2>5. queue \in [1 .. Len(queue) -> Fragment]
    OBVIOUS
  <2>6. queue \in [1 .. Len(queue) -> Kinds]
    BY <2>2, <2>5
  <2>7. queue \in Seq(Kinds)
    BY <1>3, <2>6
  <2> HIDE DEF ready
  <2> QED
    BY <1>3, <2>4, <2>7
<1>5. rcvQueue'[p] = queue \o ready /\ rcvNxt'[p] = rcvNxt[p] + k
      /\ DOMAIN rcvBuf'[p] \subseteq DOMAIN buf
  BY <1>1, <1>2 DEF Keep
<1>6. rcvNxt'[p] \in DOMAIN rcvBuf'[p] => Len(rcvQueue'[p]) = RcvWnd
  <2>1. CASE k < RcvWnd - Len(queue)
    BY <1>2, <1>5, <2>1
  <2>2. CASE k = RcvWnd - Len(queue)
    BY <1>1, <1>3, <1>4, <1>5, <2>2
  <2>3. k < RcvWnd - Len(queue) \/ k = RcvWnd - Len(queue)
    <3>1. RcvWnd \in Nat
      BY <1>1
    <3> QED
      BY <1>3, <3>1
  <2> QED
    BY <2>1, <2>2, <2>3
<1>7. \A r \in Peers : r # p => /\ rcvBuf'[r] = rcvBuf[r] /\ rcvQueue'[r] = rcvQueue[r]
                               /\ rcvNxt'[r] = rcvNxt[r]
  BY <1>1, <1>2
<1> QED
  BY <1>6, <1>7

\* Taking a message makes room, and what fits is moved.
LEMMA DeliverReady ==
  ASSUME IInv, Ready, NEW p \in Peers, Deliver(p)
  PROVE  Ready'
<1>1. PICK n \in 1 .. Len(rcvQueue[p]) :
        MoveReady(p, rcvBuf[p], SubSeq(rcvQueue[p], n + 1, Len(rcvQueue[p])))
  BY DEF Deliver
<1> DEFINE rest == SubSeq(rcvQueue[p], n + 1, Len(rcvQueue[p]))
<1>2. rcvQueue[p] \in Seq(Fragment) /\ Len(rcvQueue[p]) <= RcvWnd /\ RcvWnd \in Nat
  BY WindowAssumption DEF IInv, TypeOK, PeerInv, InOrderInv
<1>3. rest \in Seq(Fragment) /\ Len(rest) = Len(rcvQueue[p]) - n /\ n \in Nat /\ n >= 1
      /\ Len(rcvQueue[p]) \in Nat
  BY <1>2, CutFacts
<1> HIDE DEF rest
<1>4. /\ rcvNxt'[p] \in DOMAIN rcvBuf'[p] => Len(rcvQueue'[p]) = RcvWnd
      /\ \A r \in Peers : r # p => /\ rcvBuf'[r] = rcvBuf[r] /\ rcvQueue'[r] = rcvQueue[r]
                                  /\ rcvNxt'[r] = rcvNxt[r]
  <2>1. Len(rest) <= RcvWnd
    BY <1>2, <1>3
  <2>2. MoveReady(p, rcvBuf[p], rest)
    BY <1>1 DEF rest
  <2> QED
    BY <1>3, <2>1, <2>2, MoveAll
<1>5. ASSUME NEW r \in Peers PROVE ReadyInv(r)'
  <2>1. DOMAIN sndBuf'[r] = {} => sndUna'[r] = sndNxt'[r]
    BY SenderReady DEF Deliver, senderVars
  <2>2. rcvNxt'[r] \in DOMAIN rcvBuf'[r] => Len(rcvQueue'[r]) = RcvWnd
    BY <1>4, ReceiverReady
  <2> QED
    BY <2>1, <2>2 DEF ReadyInv
<1> QED
  BY <1>5 DEF Ready

\* shrinkBuf sets sndUna to sndNxt when the buffer is empty, and an accepted
\* segment is moved if it can be.
LEMMA InputReady ==
  ASSUME IInv, Ready, NEW p \in Peers, NEW m \in net[p], Input(p, m)
  PROVE  Ready'
<1>1. /\ sndUna \in [Peers -> Nat] /\ DOMAIN sndBuf = Peers /\ sndNxt' = sndNxt
      /\ rcvQueue[p] \in Seq(Fragment) /\ Len(rcvQueue[p]) <= RcvWnd
  BY DEF IInv, TypeOK, PeerInv, InOrderInv, Input
<1>2. ASSUME NEW r \in Peers PROVE DOMAIN sndBuf'[r] = {} => sndUna'[r] = sndNxt'[r]
  <2> DEFINE left == {sn \in DOMAIN sndBuf[p] : sn >= m.una /\ ~(m.cmd = "ACK" /\ sn = m.sn)}
  <2>1. /\ sndBuf' = [sndBuf EXCEPT ![p] = Keep(@, left)]
        /\ \E una \in left \cup {sndNxt[p]} : sndUna' = [sndUna EXCEPT ![p] = una]
    BY DEF Input, Acknowledge
  <2>2. CASE r # p
    <3>1. sndBuf'[r] = sndBuf[r] /\ sndUna'[r] = sndUna[r] /\ sndNxt'[r] = sndNxt[r]
      BY <1>1, <2>1, <2>2
    <3> QED
      BY <3>1, SenderReady
  <2>3. CASE r = p
    <3>1. DOMAIN sndBuf'[p] = left
      BY <1>1, <2>1 DEF Keep
    <3> HIDE DEF left
    <3>2. left = {} => sndUna'[p] = sndNxt[p]
      BY <1>1, <2>1
    <3> QED
      BY <1>1, <2>3, <3>1, <3>2
  <2> QED
    BY <2>2, <2>3
<1>3. ASSUME NEW r \in Peers
      PROVE  rcvNxt'[r] \in DOMAIN rcvBuf'[r] => Len(rcvQueue'[r]) = RcvWnd
  <2>1. CASE UNCHANGED receiverVars
    BY <2>1, ReceiverReady DEF receiverVars
  <2>2. CASE AcceptPush(p, m)
    <3> DEFINE buf == [sn \in DOMAIN rcvBuf[p] \cup {m.sn} |->
                         IF sn \in DOMAIN rcvBuf[p] THEN rcvBuf[p][sn] ELSE m.frag]
    <3>1. MoveReady(p, buf, rcvQueue[p])
      BY <2>2 DEF AcceptPush
    <3> HIDE DEF buf
    <3>2. /\ rcvNxt'[p] \in DOMAIN rcvBuf'[p] => Len(rcvQueue'[p]) = RcvWnd
          /\ \A s \in Peers : s # p => /\ rcvBuf'[s] = rcvBuf[s] /\ rcvQueue'[s] = rcvQueue[s]
                                      /\ rcvNxt'[s] = rcvNxt[s]
      BY <1>1, <3>1, MoveAll
    <3> QED
      BY <3>2, ReceiverReady
  <2> QED
    BY <2>1, <2>2 DEF Input, InputPush, InputControl
<1> QED
  BY <1>2, <1>3 DEF Ready, ReadyInv

\* A payload is queued, and flushed once the timer has run.
LEMMA SendReady ==
  ASSUME IInv, Ready, NEW p \in Peers, NEW d \in Data, NEW n \in 1 .. WndRcv, Send(p, d, n)
  PROVE  Ready'
<1> DEFINE queue == sndQueue[p] \o Fragments(d, n)
<1>1. queue \in Seq(Fragment)
  <2>1. n \in Nat /\ n < WndRcv
    BY FragAssumption DEF Send
  <2> QED
    BY <2>1, FragmentsFacts DEF IInv, TypeOK
<1>2. UNCHANGED receiverVars
  BY DEF Send
<1>3. CASE updated[p] /\ Flush(p, queue)
  <2> HIDE DEF queue
  <2>1. PICK k \in 0 .. Len(queue) : FlushedBy(p, queue, k)
    BY <1>1, <1>3, FlushEffect
  <2> QED
    BY <1>1, <1>2, <2>1, FlushReady
<1>4. CASE UNCHANGED <<sndBuf, sndUna, sndNxt>>
  BY <1>2, <1>4, SenderReady, ReceiverReady DEF Ready, ReadyInv, receiverVars
<1> QED
  BY <1>3, <1>4 DEF Send, queue

LEMMA ReadyAlways == Spec => []Ready
<1>1. Init => Ready
  BY DEF Init, Ready, ReadyInv
<1>2. ASSUME IInv, Ready, [Next]_vars PROVE Ready'
  <2>1. ASSUME NEW p \in Peers, Tick(p) PROVE Ready'
    <3>1. sndQueue[p] \in Seq(Fragment)
      BY <1>2 DEF IInv, TypeOK
    <3>2. PICK k \in 0 .. Len(sndQueue[p]) : FlushedBy(p, sndQueue[p], k)
      BY <1>2, <2>1, <3>1, FlushEffect DEF Tick
    <3> QED
      BY <1>2, <2>1, <3>1, <3>2, FlushReady DEF Tick
  <2>2. ASSUME NEW p \in Peers, Close(p) PROVE Ready'
    BY <1>2, <2>2, SenderReady, ReceiverReady DEF Close, Ready, ReadyInv, senderVars, receiverVars
  <2>3. CASE UNCHANGED vars
    BY <1>2, <2>3, SenderReady, ReceiverReady DEF vars, Ready, ReadyInv, senderVars, receiverVars
  <2> QED
    BY <1>2, <2>1, <2>2, <2>3, SendReady, DeliverReady, InputReady DEF Next
<1> QED
  BY <1>1, <1>2, InvAlways, PTL DEF Spec

\* Whatever the channel does to them, two sessions with something left to deliver
\* always have a way to go on: no pair of windows, no loss and no order of
\* acknowledgements brings both to wait for the other.
THEOREM NeverStuckHolds == Spec => []NeverStuck
<1>1. ASSUME IInv, Ready, NEW p \in Peers, NEW q \in Peers, q = Other(p), Other(q) = p,
             Len(taken[q]) < Len(sent[p])
      PROVE  \/ Deliverable(rcvQueue[q]) \/ TooLong(rcvQueue[q])
             \/ /\ Len(rcvQueue[q]) < RcvWnd
                /\ \/ rcvNxt[q] \in DOMAIN sndBuf[p]
                   \/ /\ rcvNxt[q] = sndNxt[p]
                      /\ \/ DOMAIN sndBuf[p] # {}
                         \/ Admitted(p, sndQueue[p]) > 0
                         \/ rmtWnd[p] = 0
  <2> DEFINE queue == rcvQueue[q]
             stream == sent[p]
             base == Len(taken[q])
  <2>1. /\ queue \in Seq(Fragment) /\ stream \in Seq(Fragment) /\ base \in Nat
        /\ rcvNxt[q] \in Nat /\ sndNxt[p] \in Nat /\ sndUna[p] \in Nat /\ rmtWnd[p] \in Nat
        /\ sndQueue[p] \in Seq(Fragment) /\ Len(sndQueue[p]) \in Nat
        /\ Len(queue) \in Nat /\ Len(stream) \in Nat
    BY <1>1, SMTT(30) DEF IInv, TypeOK
  <2>2. SndWnd \in Nat \ {0} /\ RcvWnd \in Nat \ {0} /\ WndRcv \in Nat /\ WndRcv <= RcvWnd
        /\ RecvLimit \in Nat
    BY WindowAssumption, FragAssumption, RecvAssumption
  <2>3. PeerInv(p) /\ PeerInv(q) /\ ReadyInv(p) /\ ReadyInv(q)
    BY <1>1 DEF IInv, Ready
  <2>4. /\ rcvNxt[q] = base + Len(queue) /\ rcvNxt[q] <= sndNxt[p] /\ Len(queue) <= RcvWnd
        /\ \A i \in 1 .. Len(queue) : queue[i] = stream[base + i]
    BY <1>1, <2>3 DEF PeerInv, InOrderInv
  <2>5. Len(stream) = sndNxt[p] + Len(sndQueue[p])
    BY <2>3 DEF PeerInv, QueueInv
  <2> HIDE DEF queue, stream, base
  <2>6. ASSUME queue # <<>>, Head(queue).frg < Len(queue)
        PROVE  Deliverable(queue) \/ TooLong(queue)
    <3>1. Head(queue) \in Fragment
      BY <2>1, <2>6
    <3>2. Head(queue).frg \in Nat
      BY <3>1 DEF Fragment
    <3> QED
      BY <2>1, <2>2, <2>6, <3>2 DEF Deliverable, TooLong
  <2>7. ASSUME queue # <<>>
        PROVE  /\ Head(queue).frg \in Nat /\ Head(queue).frg < WndRcv
               /\ base + 1 + Head(queue).frg <= Len(stream)
    <3>1. 1 \in 1 .. Len(queue) /\ Head(queue) = queue[1]
      BY <2>1, <2>7
    <3>2. Head(queue) = stream[base + 1]
      BY <2>4, <3>1
    <3>3. base + 1 \in 1 .. Len(stream)
      BY <2>1, <2>4, <2>5, <3>1
    <3>4. /\ stream[base + 1].frg < WndRcv
          /\ base + 1 + stream[base + 1].frg <= Len(stream)
      BY <2>3, <3>3 DEF PeerInv, FragInv, Announced, stream
    <3>5. stream[base + 1].frg \in Nat
      <4>1. stream[base + 1] \in Fragment
        BY <2>1, <3>3
      <4> QED
        BY <4>1 DEF Fragment
    <3> QED
      BY <3>2, <3>4, <3>5
  <2>8. CASE Len(queue) = RcvWnd
    <3>1. queue # <<>>
      BY <2>1, <2>2, <2>8
    <3>2. Head(queue).frg < Len(queue)
      BY <2>1, <2>2, <2>7, <2>8, <3>1
    <3> QED
      BY <2>6, <3>1, <3>2 DEF queue
  <2>9. CASE Len(queue) < RcvWnd /\ rcvNxt[q] < sndNxt[p]
    <3>1. rcvNxt[q] \notin DOMAIN rcvBuf[q]
      BY <2>1, <2>2, <2>3, <2>9 DEF ReadyInv, queue
    <3>2. rcvNxt[q] \in 0 .. sndNxt[p] - 1 /\ ~(rcvNxt[q] < rcvNxt[q])
      BY <2>1, <2>9
    <3>3. ~Received(q, rcvNxt[q])
      BY <3>1, <3>2 DEF Received
    <3>4. rcvNxt[q] \in DOMAIN sndBuf[p] \/ Received(Other(p), rcvNxt[q])
      BY <2>3, <3>2 DEF PeerInv, KeptInv
    <3>5. rcvNxt[q] \in DOMAIN sndBuf[p]
      BY <1>1, <3>3, <3>4
    <3> QED
      BY <2>9, <3>5 DEF queue
  <2>10. CASE Len(queue) < RcvWnd /\ rcvNxt[q] = sndNxt[p] /\ Len(sndQueue[p]) > 0
    <3>1. CASE DOMAIN sndBuf[p] = {} /\ rmtWnd[p] # 0
      <4> DEFINE room == sndUna[p] + Smaller(SndWnd, rmtWnd[p]) - sndNxt[p]
      <4>1. sndUna[p] = sndNxt[p]
        BY <2>3, <3>1 DEF ReadyInv
      <4>2. room \in Nat /\ room > 0
        BY <2>1, <2>2, <3>1, <4>1 DEF Smaller
      <4>3. Admitted(p, sndQueue[p]) = Smaller(room, Len(sndQueue[p]))
        BY <4>2 DEF Admitted
      <4> HIDE DEF room
      <4>4. Admitted(p, sndQueue[p]) > 0
        BY <2>1, <2>10, <4>2, <4>3 DEF Smaller
      <4> QED
        BY <2>10, <4>4 DEF queue
    <3> QED
      BY <2>10, <3>1 DEF queue
  <2>11. CASE Len(queue) < RcvWnd /\ rcvNxt[q] = sndNxt[p] /\ Len(sndQueue[p]) = 0
    <3>1. Len(stream) = base + Len(queue) /\ base < Len(stream)
      BY <1>1, <2>1, <2>4, <2>5, <2>11 DEF base, stream
    <3>2. queue # <<>>
      BY <2>1, <3>1
    <3>3. Head(queue).frg < Len(queue)
      BY <2>1, <2>7, <3>1, <3>2
    <3> QED
      BY <2>6, <3>2, <3>3 DEF queue
  <2>12. \/ Len(queue) = RcvWnd
         \/ Len(queue) < RcvWnd /\ rcvNxt[q] < sndNxt[p]
         \/ Len(queue) < RcvWnd /\ rcvNxt[q] = sndNxt[p] /\ Len(sndQueue[p]) > 0
         \/ Len(queue) < RcvWnd /\ rcvNxt[q] = sndNxt[p] /\ Len(sndQueue[p]) = 0
    <3>1. Len(queue) = RcvWnd \/ Len(queue) < RcvWnd
      BY <2>1, <2>2, <2>4
    <3>2. rcvNxt[q] = sndNxt[p] \/ rcvNxt[q] < sndNxt[p]
      <4>1. rcvNxt[q] \in Nat /\ sndNxt[p] \in Nat /\ rcvNxt[q] <= sndNxt[p]
        BY <2>1, <2>4
      <4> QED
        BY <4>1
    <3>3. Len(sndQueue[p]) = 0 \/ Len(sndQueue[p]) > 0
      BY <2>1
    <3> QED
      BY <3>1, <3>2, <3>3
  <2> QED
    BY <2>8, <2>9, <2>10, <2>11, <2>12
<1>2. IInv /\ Ready => NeverStuck
  <2> SUFFICES ASSUME IInv, Ready PROVE NeverStuck
    OBVIOUS
  <2>1. \A p \in Peers : Other(p) \in Peers /\ Other(Other(p)) = p
    BY OtherPeer
  <2> QED
    BY <1>1, <2>1 DEF NeverStuck
<1> QED
  BY <1>2, InvAlways, ReadyAlways, PTL

-----------------------------------------------------------------------------
(* Sequence numbers in 32 bits *)

\* A multiple of the space that is close to 0 is 0 or minus the space.
LEMMA Multiples ==
  ASSUME NEW j \in Int, -3 * Half < Space * j, Space * j < Half
  PROVE  j = 0 \/ j = -1
<1>1. Space \in Nat \ {0} /\ Space = 2 * Half /\ Half \in Nat \ {0}
  BY HalfAssumption DEF Space
<1>2. ASSUME j >= 1 PROVE FALSE
  <2>1. Space * j >= Space
    BY <1>1, <1>2
  <2> QED
    BY <1>1, <2>1
<1>3. ASSUME j <= -2 PROVE FALSE
  <2>1. Space * j <= -(2 * Space)
    BY <1>1, <1>3
  <2> QED
    BY <1>1, <2>1
<1> QED
  BY <1>2, <1>3

\* The division the code's conversions stand for.
LEMMA Division ==
  ASSUME NEW n \in Int
  PROVE  Unsigned(n) \in 0 .. Space - 1 /\ \E q \in Int : n = Space * q + Unsigned(n)
<1>1. Space \in Nat \ {0}
  BY HalfAssumption DEF Space
<1>2. n \div Space \in Int /\ n % Space \in 0 .. Space - 1 /\ n = Space * (n \div Space) + (n % Space)
  BY <1>1, Z3
<1> QED
  BY <1>2 DEF Unsigned
\* itimediff of wrapped numbers is the difference of the naturals they stand
\* for, when that is less than half the number space.
THEOREM SerialOrder ==
  ASSUME NEW later \in Int, NEW earlier \in Int, NEW offset \in Int,
         -Half <= later - (earlier + offset), later - (earlier + offset) < Half
  PROVE  ComparesAsNaturals(later, earlier, offset)
<1> DEFINE a == Unsigned(later)
           b == Unsigned(earlier)
           e == later - (earlier + offset)
           d == a - (b + offset)
           r == Unsigned(d)
<1>1. Space \in Nat \ {0} /\ Space = 2 * Half /\ Half \in Nat \ {0}
  BY HalfAssumption DEF Space
<1>2. PICK p \in Int : later = Space * p + a
  BY Division
<1>3. PICK q \in Int : earlier = Space * q + b
  BY Division
<1>4. a \in Int /\ b \in Int
  BY <1>1, Division
<1>5. d \in Int /\ e \in Int
  BY <1>4
<1>6. PICK t \in Int : d = Space * t + r
  BY <1>5, Division
<1>7. r \in Int /\ 0 <= r /\ r < Space
  BY <1>1, <1>5, Division
<1>8. e = Space * ((p - q) + t) + r
  <2>1. e = (Space * p + a) - ((Space * q + b) + offset)
    BY <1>2, <1>3
  <2>2. e = (Space * p - Space * q) + d
    BY <1>1, <1>4, <2>1
  <2>3. Space * ((p - q) + t) = (Space * p - Space * q) + Space * t
    BY <1>1
  <2> QED
    BY <1>1, <1>5, <1>6, <1>7, <2>2, <2>3
<1> DEFINE j == (p - q) + t
<1>9. Space * j = e - r /\ j \in Int
  <2> HIDE DEF a, b, e, d, r
  <2> QED
    BY <1>1, <1>5, <1>7, <1>8
<1>10. j = 0 \/ j = -1
  <2>1. -Half <= e /\ e < Half
    OBVIOUS
  <2> HIDE DEF a, b, e, d, r, j
  <2>2. -3 * Half < Space * j /\ Space * j < Half
    BY <1>1, <1>5, <1>7, <1>9, <2>1
  <2> QED
    BY <1>9, <2>2, Multiples
<1>11. r = e \/ r = e + Space
  <2> HIDE DEF a, b, e, d, r, j
  <2>1. CASE j = 0
    BY <1>1, <1>5, <1>7, <1>9, <2>1
  <2>2. CASE j = -1
    BY <1>1, <1>5, <1>7, <1>9, <2>2
  <2> QED
    BY <1>10, <2>1, <2>2
<1>12. Signed(d) = e
  <2>1. -Half <= e /\ e < Half
    OBVIOUS
  <2>2. Signed(d) = IF r < Half THEN r ELSE r - Space
    BY DEF Signed
  <2> HIDE DEF a, b, e, d, r, j
  <2> QED
    BY <1>1, <1>5, <1>7, <1>11, <2>1, <2>2
<1> QED
  BY <1>12 DEF ComparesAsNaturals, itimediff

\* What a number can be ahead of those it is compared with.
LEMMA NumbersNear ==
  ASSUME IInv, NEW p \in Peers
  PROVE  LET q == Other(p)
         IN  /\ q \in Peers
             /\ sndUna[p] \in Nat /\ sndNxt[p] \in Nat /\ rcvNxt[p] \in Nat /\ rmtWnd[p] \in Nat
             /\ sndUna[p] <= sndNxt[p] /\ sndNxt[p] <= sndUna[p] + SndWnd
             /\ sndNxt[q] \in Nat /\ rcvNxt[p] <= sndNxt[q]
             /\ sndNxt[q] <= rcvNxt[p] + RcvWnd + SndWnd
             /\ rcvNxt[q] \in Nat /\ rcvNxt[q] <= sndNxt[p]
<1>1. PICK q \in Peers : q = Other(p) /\ Other(q) = p
  BY OtherPeer
<1>2. /\ \A e \in Peers : /\ sndUna[e] \in Nat /\ sndNxt[e] \in Nat /\ rcvNxt[e] \in Nat
                          /\ rmtWnd[e] \in Nat
      /\ SndWnd \in Nat /\ RcvWnd \in Nat
  BY WindowAssumption DEF IInv, TypeOK
<1>3. PeerInv(p) /\ PeerInv(q)
  BY DEF IInv
<1>4. sndUna[q] <= rcvNxt[p] + RcvWnd
  <2>1. CASE sndUna[q] = 0
    BY <1>2, <2>1
  <2>2. CASE sndUna[q] # 0
    <3> DEFINE last == sndUna[q] - 1
    <3>1. last \in 0 .. sndNxt[q] - 1 /\ last \notin DOMAIN sndBuf[q]
      BY <1>2, <1>3, <2>2 DEF PeerInv, BufInv
    <3>2. Received(p, last)
      BY <1>1, <1>3, <3>1 DEF PeerInv, KeptInv
    <3>3. last < rcvNxt[p] + RcvWnd
      BY <1>2, <1>3, <3>1, <3>2 DEF PeerInv, OutOfOrderInv, Received
    <3> QED
      BY <1>2, <3>3
  <2> QED
    BY <2>1, <2>2
<1>5. /\ sndUna[p] <= sndNxt[p] /\ sndNxt[p] <= sndUna[p] + SndWnd
      /\ sndNxt[q] <= sndUna[q] + SndWnd
      /\ rcvNxt[p] <= sndNxt[q] /\ rcvNxt[q] <= sndNxt[p]
  BY <1>1, <1>3 DEF PeerInv, BufInv, InOrderInv
<1>6. sndNxt[q] <= rcvNxt[p] + RcvWnd + SndWnd
  BY <1>2, <1>4, <1>5
<1> QED
  BY <1>1, <1>2, <1>5, <1>6

\* The numbers of the code may wrap: while the two windows together are no more
\* than half the number space, flush admits by the same comparison as the
\* model, and so does input for whatever datagram is not half a number space
\* old.
THEOREM NumbersCompareHolds ==
  ASSUME SndWnd + RcvWnd <= Half
  PROVE  Spec => []NumbersCompare
<1>1. SndWnd \in Nat \ {0} /\ RcvWnd \in Nat \ {0} /\ Half \in Nat \ {0}
  BY WindowAssumption, HalfAssumption
<1>2. ASSUME IInv, NEW p \in Peers PROVE FlushCompares(p)
  <2> DEFINE w == Smaller(SndWnd, rmtWnd[p])
  <2>1. /\ sndUna[p] \in Nat /\ sndNxt[p] \in Nat /\ rmtWnd[p] \in Nat
        /\ sndUna[p] <= sndNxt[p] /\ sndNxt[p] <= sndUna[p] + SndWnd
    BY <1>2, NumbersNear
  <2>2. w \in Nat /\ w <= SndWnd
    BY <1>1, <2>1 DEF Smaller
  <2> HIDE DEF w
  <2>3. /\ -Half <= sndNxt[p] - (sndUna[p] + w)
        /\ sndNxt[p] - (sndUna[p] + w) < Half
    BY <1>1, <2>1, <2>2
  <2>4. ComparesAsNaturals(sndNxt[p], sndUna[p], w)
    BY <2>1, <2>2, <2>3, SerialOrder
  <2> QED
    BY <2>4 DEF FlushCompares, w
<1>3. ASSUME IInv, NEW p \in Peers, NEW m \in net[p], Recent(p, m)
      PROVE  InputCompares(p, m)
  <2>1. PICK q \in Peers : q = Other(p) /\ Other(q) = p
    BY OtherPeer
  <2> DEFINE una == sndUna[p]
             nxt == sndNxt[p]
             rcv == rcvNxt[p]
             far == sndNxt[q]
  <2>2. /\ una \in Nat /\ nxt \in Nat /\ una <= nxt /\ nxt <= una + SndWnd
        /\ rcv \in Nat /\ far \in Nat /\ rcv <= far /\ far <= rcv + RcvWnd + SndWnd
        /\ rcvNxt[q] \in Nat /\ rcvNxt[q] <= nxt
    BY <1>3, <2>1, NumbersNear
  <2>3. m \in Segment /\ m.sn \in Nat /\ m.una \in Nat
    <3>1. m \in Segment
      BY <1>3 DEF IInv, TypeOK
    <3> QED
      BY <3>1 DEF Segment
  <2>4. PeerInv(p) /\ PeerInv(q)
    BY <1>3 DEF IInv
  <2>5. \A sn \in DOMAIN sndBuf[p] : sn \in Nat /\ una <= sn /\ sn < nxt
    BY <1>3, <2>4 DEF IInv, TypeOK, PeerInv, BufInv
  <2>6. \A sn \in DOMAIN rcvBuf[p] : sn \in Nat /\ rcv <= sn /\ sn < rcv + RcvWnd
    BY <1>3, <2>4 DEF IInv, TypeOK, PeerInv, OutOfOrderInv
  <2>7. m.una <= nxt /\ nxt - m.una <= Half - RcvWnd
    BY <1>3, <2>1, <2>2, <2>3, <2>4 DEF PeerInv, NetInv, Recent
  <2>8. ASSUME m.cmd = "ACK" PROVE m.sn < nxt /\ nxt - m.sn <= Half - RcvWnd
    <3>1. Received(q, m.sn)
      BY <1>3, <2>1, <2>4, <2>8 DEF PeerInv, NetInv
    <3>2. m.sn < nxt
      BY <2>1, <2>2, <2>3, <2>4, <3>1 DEF PeerInv, OutOfOrderInv, Received
    <3> QED
      BY <1>3, <2>8, <3>2 DEF Recent
  <2>9. ASSUME m.cmd = "PUSH" PROVE m.sn < far /\ far - m.sn <= Half - RcvWnd
    BY <1>3, <2>1, <2>4, <2>9 DEF PeerInv, NetInv, Recent
  <2> HIDE DEF una, nxt, rcv, far
  <2>10. ASSUME NEW n \in Nat, n <= nxt, nxt - n <= Half - RcvWnd
         PROVE  /\ ComparesAsNaturals(n, una, 0)
                /\ n < nxt => ComparesAsNaturals(n, nxt, 0)
                /\ \A sn \in DOMAIN sndBuf[p] : ComparesAsNaturals(n, sn, 0)
    <3>1. ASSUME NEW x \in Nat, una <= x, x <= nxt
          PROVE  ComparesAsNaturals(n, x, 0)
      <4>1. -Half <= n - (x + 0) /\ n - (x + 0) < Half
        BY <1>1, <2>2, <2>10, <3>1
      <4> QED
        BY <3>1, <4>1, SerialOrder
    <3> QED
      BY <2>2, <2>5, <3>1
  <2>11. ASSUME m.cmd = "ACK"
         PROVE  /\ ComparesAsNaturals(m.sn, sndUna[p], 0)
                /\ ComparesAsNaturals(m.sn, sndNxt[p], 0)
                /\ \A sn \in DOMAIN sndBuf[p] : ComparesAsNaturals(m.sn, sn, 0)
    BY <2>2, <2>3, <2>8, <2>10, <2>11 DEF una, nxt
  <2>12. ASSUME m.cmd = "PUSH"
         PROVE  /\ ComparesAsNaturals(m.sn, rcvNxt[p], RcvWnd)
                /\ ComparesAsNaturals(m.sn, rcvNxt[p], 0)
                /\ m.sn < rcvNxt[p] + RcvWnd =>
                     \A sn \in DOMAIN rcvBuf[p] : ComparesAsNaturals(m.sn, sn, 0)
    <3>1. /\ -Half <= m.sn - (rcv + RcvWnd) /\ m.sn - (rcv + RcvWnd) < Half
          /\ -Half <= m.sn - (rcv + 0) /\ m.sn - (rcv + 0) < Half
      BY <1>1, <2>2, <2>3, <2>9, <2>12
    <3>2. ComparesAsNaturals(m.sn, rcv, RcvWnd) /\ ComparesAsNaturals(m.sn, rcv, 0)
      BY <1>1, <2>2, <2>3, <3>1, SerialOrder
    <3>3. ASSUME m.sn < rcv + RcvWnd, NEW sn \in DOMAIN rcvBuf[p]
          PROVE  ComparesAsNaturals(m.sn, sn, 0)
      <4>1. sn \in Nat /\ -Half <= m.sn - (sn + 0) /\ m.sn - (sn + 0) < Half
        BY <1>1, <2>2, <2>3, <2>6, <2>9, <2>12, <3>3
      <4> QED
        BY <2>3, <4>1, SerialOrder
    <3> QED
      BY <3>2, <3>3 DEF rcv
  <2> QED
    BY <2>3, <2>7, <2>10, <2>11, <2>12 DEF InputCompares
<1>4. IInv => NumbersCompare
  BY <1>2, <1>3 DEF NumbersCompare
<1>5. QED
  BY InvAlways, <1>4, PTL
=============================================================================
