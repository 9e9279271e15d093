--------------------------- MODULE KcpProperties ---------------------------
(***************************************************************************)
(* What the two endpoints of Kcp guarantee.  Kcp_proofs proves the safety  *)
(* part for every window, payload set and bound.                           *)
(***************************************************************************)
EXTENDS Kcp, SerialNumbers

\* p has segment sn, waiting in rcvBuf or already moved to rcvQueue.
Received(p, sn) == sn < rcvNxt[p] \/ sn \in DOMAIN rcvBuf[p]

\* Every variable stays in its set.
TypeOK ==
  /\ sndQueue \in [Peers -> Seq(Fragment)]
  /\ sndUna   \in [Peers -> Nat]
  /\ sndNxt   \in [Peers -> Nat]
  /\ rmtWnd   \in [Peers -> Nat]
  /\ rcvQueue \in [Peers -> Seq(Fragment)]
  /\ rcvNxt   \in [Peers -> Nat]
  /\ acklist  \in [Peers -> SUBSET Nat]
  /\ askTell  \in [Peers -> BOOLEAN]
  /\ updated  \in [Peers -> BOOLEAN]
  /\ draining \in [Peers -> BOOLEAN]
  /\ closed   \in [Peers -> BOOLEAN]
  /\ net      \in [Peers -> SUBSET Segment]
  /\ sent     \in [Peers -> Seq(Fragment)]
  /\ taken    \in [Peers -> Seq(Fragment)]
  /\ DOMAIN sndBuf = Peers /\ DOMAIN rcvBuf = Peers
  /\ \A p \in Peers :
       /\ DOMAIN sndBuf[p] \subseteq Nat /\ sndBuf[p] \in [DOMAIN sndBuf[p] -> Fragment]
       /\ DOMAIN rcvBuf[p] \subseteq Nat /\ rcvBuf[p] \in [DOMAIN rcvBuf[p] -> Fragment]

\* The handler is given a prefix of what the peer sent: in order, with no gap,
\* duplicate or foreign fragment, whatever the channel does, and never the
\* first half of a payload alone (recv and drain, kcp_transport.ts).
OrderedDelivery ==
  \A p \in Peers :
    LET from == sent[Other(p)]
        got  == taken[p]
    IN  /\ Len(got) <= Len(from)
        /\ \A i \in 1 .. Len(got) : got[i] = from[i]
        /\ got # <<>> => got[Len(got)].frg = 0

\* A segment leaves the send buffer only after the peer has it: neither a stale
\* una, a reordered ACK nor a duplicate makes the sender forget an undelivered
\* fragment (parseUna, parseAck, ackPush in ikcp.ts).
NothingForgotten ==
  \A p \in Peers : \A sn \in 0 .. sndNxt[p] - 1 :
    sn \in DOMAIN sndBuf[p] \/ Received(Other(p), sn)

\* The buffers stay within the configured windows however stale the window the
\* peer last advertised is (flush, parseData in ikcp.ts).
WindowsRespected ==
  \A p \in Peers :
    /\ sndNxt[p] <= sndUna[p] + SndWnd
    /\ \A sn \in DOMAIN sndBuf[p] : sndUna[p] <= sn /\ sn < sndNxt[p]
    /\ Len(rcvQueue[p]) <= RcvWnd
    /\ \A sn \in DOMAIN rcvBuf[p] : rcvNxt[p] <= sn /\ sn < rcvNxt[p] + RcvWnd

\* A receive queue at its limit holds a whole message: the window can never be
\* filled by the fragments of a message still incomplete, which would leave the
\* peer unable to send the rest (send's IKCP_WND_RCV check, wndsize's clamp).
NoReassemblyDeadlock ==
  \A p \in Peers :
    Len(rcvQueue[p]) = RcvWnd => \E i \in 1 .. RcvWnd : rcvQueue[p][i].frg = 0

\* The message at the head is longer than what drain() asks recv for.
TooLong(queue) == queue # <<>> /\ Head(queue).frg >= RecvLimit

\* As long as something p sent has not been taken, the protocol can go on,
\* whatever was lost: drain has a message to hand over (or one it never will), or
\* there is room for the segment that is missing and p still has it to send
\* again, or all that was numbered is there and p has an acknowledgement to ask
\* for again, a segment to number or a closed window to probe (the windows, the
\* acknowledgements and the fragment counts of ikcp.ts together).
NeverStuck ==
  \A p \in Peers :
    LET q == Other(p)
    IN  Len(taken[q]) < Len(sent[p]) =>
          \/ Deliverable(rcvQueue[q]) \/ TooLong(rcvQueue[q])
          \/ /\ Len(rcvQueue[q]) < RcvWnd
             /\ \/ rcvNxt[q] \in DOMAIN sndBuf[p]
                \/ /\ rcvNxt[q] = sndNxt[p]
                   /\ \/ DOMAIN sndBuf[p] # {}
                      \/ Admitted(p, sndQueue[p]) > 0
                      \/ rmtWnd[p] = 0

\* What send accepts, as the channel specification sees it.
Accepted == {Fragments(d, n) : d \in Data, n \in 1 .. WndRcv - 1}

Channel == INSTANCE MessageChannel
             WITH Ends <- Peers, Peer <- Other, Payloads <- Accepted

\* Two sessions over a lossy channel implement a reliable ordered channel of
\* whole payloads.
ImplementsChannel == Channel!Spec

-----------------------------------------------------------------------------
(* Sequence numbers in 32 bits *)

\* The comparisons input() makes of the numbers of m with those p keeps: una in
\* parseUna, an ACK's number in parseAck, a PUSH's in input itself and parseData.
InputCompares(p, m) ==
  /\ \A sn \in DOMAIN sndBuf[p] : ComparesAsNaturals(m.una, sn, 0)
  /\ m.cmd = "ACK" =>
       /\ ComparesAsNaturals(m.sn, sndUna[p], 0)
       /\ ComparesAsNaturals(m.sn, sndNxt[p], 0)
       /\ \A sn \in DOMAIN sndBuf[p] : ComparesAsNaturals(m.sn, sn, 0)
  /\ m.cmd = "PUSH" =>
       /\ ComparesAsNaturals(m.sn, rcvNxt[p], RcvWnd)
       /\ ComparesAsNaturals(m.sn, rcvNxt[p], 0)
       /\ m.sn < rcvNxt[p] + RcvWnd => \A sn \in DOMAIN rcvBuf[p] : ComparesAsNaturals(m.sn, sn, 0)

\* The comparison by which flush() admits segments.
FlushCompares(p) == ComparesAsNaturals(sndNxt[p], sndUna[p], Smaller(SndWnd, rmtWnd[p]))

\* The numbers m carries towards p are at most half the number space, less a
\* window, behind those of today: no datagram outlives half of all numbers.
Recent(p, m) ==
  LET behind == Half - RcvWnd
  IN  /\ sndNxt[p] - m.una <= behind
      /\ m.cmd = "ACK"  => sndNxt[p] - m.sn <= behind
      /\ m.cmd = "PUSH" => sndNxt[Other(p)] - m.sn <= behind

\* Whatever the channel reorders, wrapped numbers compare as the naturals of
\* this model: the windows alone keep flush's comparison in range, and input's
\* for every datagram that is recent (itimediff in ikcp.ts).
NumbersCompare ==
  \A p \in Peers : FlushCompares(p) /\ \A m \in net[p] : Recent(p, m) => InputCompares(p, m)

-----------------------------------------------------------------------------
(* Liveness *)

\* p's next flush may emit segment sn of kind cmd.
Pending(p, cmd, sn) ==
  \/ cmd = "PUSH" /\ (sn \in DOMAIN sndBuf[p] \/ sn >= sndNxt[p]) /\ sn < Len(sent[p])
  \/ cmd = "ACK"  /\ sn \in acklist[p]
  \/ cmd = "WASK" /\ rmtWnd[p] = 0
  \/ cmd = "WINS" /\ askTell[p]

\* A tick that gets segment sn of kind cmd into the channel, up to date.
Emit(p, cmd, sn) ==
  /\ Pending(p, cmd, sn)
  /\ Tick(p)
  /\ \E m \in net'[Other(p)] :
       m.cmd = cmd /\ m.sn = sn /\ m.wnd = WndUnused(p) /\ m.una = rcvNxt[p]

\* p's datagram callback gets a segment sn of kind cmd.
Hear(p, cmd, sn) ==
  \E m \in net[p] : m.cmd = cmd /\ m.sn = sn /\ Input(p, m)

Numbers(p) == 0 .. MaxSent[p] - 1

\* The interval timer of p keeps firing, its callback finishes, every resend
\* and probe timer runs out again and again, and a segment p emits again and
\* again is not lost every time and reaches the other end.
Fairness(p) ==
  LET q == Other(p)
  IN  /\ WF_vars(Tick(p))
      /\ WF_vars(Deliver(p))
      /\ \A sn \in Numbers(p) : WF_vars(Emit(p, "PUSH", sn)) /\ WF_vars(Hear(q, "PUSH", sn))
      /\ \A sn \in Numbers(q) : SF_vars(Emit(p, "ACK", sn)) /\ WF_vars(Hear(q, "ACK", sn))
      /\ WF_vars(Emit(p, "WASK", 0)) /\ WF_vars(Hear(q, "WASK", 0))
      /\ SF_vars(Emit(p, "WINS", 0)) /\ WF_vars(Hear(q, "WINS", 0))

FairSpec == Spec /\ \A p \in Peers : Fairness(p)

\* Every payload send accepted reaches the peer's handler, unless one of the
\* sessions is closed: lost segments are sent again, lost acknowledgements are
\* repeated, and a closed window is probed until the peer's answer arrives.
EventualDelivery ==
  \A p \in Peers : \A i \in 1 .. MaxSent[p] :
    (Len(sent[p]) >= i) ~> (Len(taken[Other(p)]) >= i \/ closed[Client] \/ closed[Server])
=============================================================================
