-------------------------------- MODULE Kcp --------------------------------
(***************************************************************************)
(* Two KcpSession endpoints (kcp_transport.ts) that drive the KCP protocol *)
(* of ikcp.ts over a datagram channel which may lose, duplicate and        *)
(* reorder.  Each endpoint is one JavaScript event loop, so a handler runs *)
(* to its end; the two endpoints and the channel interleave freely.        *)
(*                                                                         *)
(* Abstractions.  A payload is a model value and a fragment is the payload *)
(* with its fragment number, sizes are counted in fragments of one mss.    *)
(* Time is abstract: any transmitted segment may be found past its         *)
(* resendts (or its fastack threshold) and the window probe may be found   *)
(* due at any flush.  A segment travels in a datagram of its own, which    *)
(* allows every loss and order that packing several into one mtu allows.   *)
(* Sequence numbers are naturals: the 32-bit numbers of the code wrap only *)
(* after 2^32 segments, and itimediff orders them as naturals while those  *)
(* compared are less than half the number space apart, as they are here.   *)
(* The session runs with nocwnd = 1 as KcpSession configures by default,   *)
(* so the congestion window does not limit a flush.                        *)
(***************************************************************************)
EXTENDS Integers, Sequences, FiniteSets

CONSTANTS
  Client, Server,   \* the two endpoints
  Data,             \* payloads the application sends
  SndWnd,           \* wndsize(sndwnd, _), in segments
  RcvWnd,           \* wndsize(_, rcvwnd), in segments
  WndRcv,           \* IKCP_WND_RCV: the window assumed at first, and the limit
                    \* a payload's fragment count stays below
  RecvLimit,        \* the size drain() passes to recv, in fragments
  Closers,          \* bound: the endpoints that may close in a behaviour
  MaxSent,          \* bound: fragments an endpoint queues in a behaviour
  NetCap,           \* bound: datagrams in flight towards an endpoint
  Duplicates        \* whether the channel may deliver a datagram twice

Peers == {Client, Server}

\* The other end of the channel.
Other(p) == IF p = Client THEN Server ELSE Client

ASSUME PeersAssumption == Client # Server
ASSUME WindowAssumption == /\ SndWnd \in Nat \ {0}
                           /\ RcvWnd \in Nat \ {0}
\* wndsize raises rcvWnd to at least IKCP_WND_RCV.
ASSUME FragAssumption == WndRcv \in 2 .. RcvWnd
ASSUME RecvAssumption == RecvLimit \in Nat
ASSUME BoundAssumption == /\ Closers \subseteq Peers
                          /\ MaxSent \in [Peers -> Nat]
                          /\ NetCap \in [Peers -> Nat]
                          /\ Duplicates \in BOOLEAN

VARIABLES
  sndQueue,   \* fragments accepted by send and not yet numbered
  sndBuf,     \* sn -> fragment, the numbered segments not acknowledged yet
  sndUna,     \* the oldest unacknowledged sequence number
  sndNxt,     \* the next sequence number to assign
  rmtWnd,     \* the peer's free window as last heard
  rcvQueue,   \* fragments in order, ready for recv
  rcvBuf,     \* sn -> fragment, received and not yet in rcvQueue
  rcvNxt,     \* the next sequence number to move to rcvQueue
  acklist,    \* sequence numbers to acknowledge in the next flush
  askTell,    \* the IKCP_ASK_TELL bit of probe
  updated,    \* whether update has run: flush does nothing before
  draining,   \* whether the loop of drain() goes on
  closed,     \* KcpSession.closed
  net,        \* datagrams in flight towards an endpoint
  sent,       \* history: fragments of the payloads send accepted
  taken       \* history: fragments of the payloads the handler was given

senderVars   == <<sndQueue, sndBuf, sndUna, sndNxt, rmtWnd>>
receiverVars == <<rcvQueue, rcvBuf, rcvNxt>>
controlVars  == <<acklist, askTell, updated, draining, closed>>
vars == <<senderVars, receiverVars, controlVars, net, sent, taken>>

Fragment == [msg : Data, frg : Nat]
Segment  == [cmd : {"PUSH", "ACK", "WASK", "WINS"}, sn : Nat,
             frag : Fragment \cup {<<>>}, wnd : Nat, una : Nat]

\* A payload cut into n fragments, numbered down to 0.
Fragments(d, n) == [i \in 1 .. n |-> [msg |-> d, frg |-> n - i]]

Smaller(a, b) == IF a <= b THEN a ELSE b

\* f without the entries outside S.
Keep(f, S) == [x \in S |-> f[x]]

Init ==
  /\ sndQueue = [p \in Peers |-> <<>>]
  /\ sndBuf   = [p \in Peers |-> [sn \in {} |-> <<>>]]
  /\ sndUna   = [p \in Peers |-> 0]
  /\ sndNxt   = [p \in Peers |-> 0]
  /\ rmtWnd   = [p \in Peers |-> WndRcv]
  /\ rcvQueue = [p \in Peers |-> <<>>]
  /\ rcvBuf   = [p \in Peers |-> [sn \in {} |-> <<>>]]
  /\ rcvNxt   = [p \in Peers |-> 0]
  /\ acklist  = [p \in Peers |-> {}]
  /\ askTell  = [p \in Peers |-> FALSE]
  /\ updated  = [p \in Peers |-> FALSE]
  /\ draining = [p \in Peers |-> FALSE]
  /\ closed   = [p \in Peers |-> FALSE]
  /\ net      = [p \in Peers |-> {}]
  /\ sent     = [p \in Peers |-> <<>>]
  /\ taken    = [p \in Peers |-> <<>>]

-----------------------------------------------------------------------------
(* flush *)

\* peeksize() finds a whole message, and it fits what drain() asks for.
Deliverable(queue) ==
  /\ queue # <<>>
  /\ Len(queue) > Head(queue).frg
  /\ Head(queue).frg < RecvLimit

\* wndUnused(): what p advertises as its free window.
WndUnused(p) == RcvWnd - Len(rcvQueue[p])

\* Mutant of Seg: una is the last segment received, not the next expected.
SegUnaOfLast(p, cmd, sn, frag) ==
  [cmd |-> cmd, sn |-> sn, frag |-> frag, wnd |-> WndUnused(p), una |-> rcvNxt[p] - 1]

\* A segment p emits: wnd and una are those of the moment of the flush.
Seg(p, cmd, sn, frag) ==
  [cmd |-> cmd, sn |-> sn, frag |-> frag, wnd |-> WndUnused(p), una |-> rcvNxt[p]]

\* Mutant of ProbeTimer: a closed window is never probed.
NeverProbe(p) == {FALSE}

\* The window probe may be due only while the peer's window is closed.
ProbeTimer(p) == IF rmtWnd[p] = 0 THEN BOOLEAN ELSE {FALSE}

\* Mutant of Admitted: the peer's window alone limits the sender.
AdmittedByPeer(p, queue) ==
  LET room == sndUna[p] + rmtWnd[p] - sndNxt[p]
  IN  IF room <= 0 THEN 0 ELSE Smaller(room, Len(queue))

\* How many fragments of queue the effective window lets into the send buffer.
Admitted(p, queue) ==
  LET room == sndUna[p] + Smaller(SndWnd, rmtWnd[p]) - sndNxt[p]
  IN  IF room <= 0 THEN 0 ELSE Smaller(room, Len(queue))

\* flush() of p with the given send queue: acknowledgements, window probes,
\* new segments, and the segments whose resend time (or fast resend) is due.
\* Some may be lost: output() counts a failed send and drops the datagram, and
\* the channel may drop any.
Flush(p, queue) ==
  LET k     == Admitted(p, queue)
      fresh == sndNxt[p] .. sndNxt[p] + k - 1
      buf   == [sn \in DOMAIN sndBuf[p] \cup fresh |->
                  IF sn \in fresh THEN queue[sn - sndNxt[p] + 1] ELSE sndBuf[p][sn]]
  IN \E due \in SUBSET DOMAIN sndBuf[p], probeDue \in ProbeTimer(p) :
       LET acks   == {Seg(p, "ACK", sn, <<>>) : sn \in acklist[p]}
           ask    == IF probeDue THEN {Seg(p, "WASK", 0, <<>>)} ELSE {}
           tell   == IF askTell[p] THEN {Seg(p, "WINS", 0, <<>>)} ELSE {}
           pushes == {Seg(p, "PUSH", sn, buf[sn]) : sn \in fresh \cup due}
       IN /\ \E kept \in SUBSET (acks \cup ask \cup tell \cup pushes) :
                net' = [net EXCEPT ![Other(p)] = @ \cup kept]
          /\ Cardinality(net'[Other(p)]) <= NetCap[Other(p)]
          /\ sndQueue' = [sndQueue EXCEPT ![p] = SubSeq(queue, k + 1, Len(queue))]
          /\ sndBuf'   = [sndBuf EXCEPT ![p] = buf]
          /\ sndNxt'   = [sndNxt EXCEPT ![p] = @ + k]
          /\ acklist'  = [acklist EXCEPT ![p] = {}]
          /\ askTell'  = [askTell EXCEPT ![p] = FALSE]
          /\ UNCHANGED <<sndUna, rmtWnd>>

\* KcpSession.send of a payload of n fragments: queue it, then flush.  It may be
\* called from the message handler, that is, while the endpoint is draining.
Send(p, d, n) ==
  /\ ~closed[p]
  /\ n < WndRcv
  /\ Len(sent[p]) + n <= MaxSent[p]
  /\ sent' = [sent EXCEPT ![p] = @ \o Fragments(d, n)]
  /\ LET queue == sndQueue[p] \o Fragments(d, n)
     IN  \/ updated[p] /\ Flush(p, queue)
         \/ /\ ~updated[p]
            /\ sndQueue' = [sndQueue EXCEPT ![p] = queue]
            /\ UNCHANGED <<sndBuf, sndUna, sndNxt, rmtWnd, acklist, askTell, net>>
  /\ UNCHANGED <<receiverVars, updated, draining, closed, taken>>

\* The timer callback tick(): update and flush, then drain(), whose loop goes on
\* while recv returns messages.
Tick(p) ==
  /\ ~closed[p]
  /\ ~draining[p]
  /\ Flush(p, sndQueue[p])
  /\ updated'  = [updated EXCEPT ![p] = TRUE]
  /\ draining' = [draining EXCEPT ![p] = Deliverable(rcvQueue[p])]
  /\ UNCHANGED <<receiverVars, closed, sent, taken>>

-----------------------------------------------------------------------------
(* recv, called by drain until it returns a number instead of a message *)

\* Mutant of MoveReady: one segment is moved, those behind it stay.
MoveOne(p, buf, queue) ==
  LET ready == rcvNxt[p] \in DOMAIN buf /\ Len(queue) < RcvWnd
  IN  /\ rcvQueue' = [rcvQueue EXCEPT ![p] = IF ready THEN Append(queue, buf[rcvNxt[p]]) ELSE queue]
      /\ rcvBuf'   = [rcvBuf EXCEPT ![p] = IF ready THEN Keep(buf, DOMAIN buf \ {rcvNxt[p]}) ELSE buf]
      /\ rcvNxt'   = [rcvNxt EXCEPT ![p] = IF ready THEN @ + 1 ELSE @]

\* Moves the contiguous head of buf behind queue while the window has room.
MoveReady(p, buf, queue) ==
  \E k \in 0 .. RcvWnd - Len(queue) :
    LET moved == rcvNxt[p] .. rcvNxt[p] + k - 1
    IN  /\ moved \subseteq DOMAIN buf
        /\ k < RcvWnd - Len(queue) => rcvNxt[p] + k \notin DOMAIN buf
        /\ rcvQueue' = [rcvQueue EXCEPT ![p] =
                          queue \o [i \in 1 .. k |-> buf[rcvNxt[p] + i - 1]]]
        /\ rcvBuf'   = [rcvBuf EXCEPT ![p] = Keep(buf, DOMAIN buf \ moved)]
        /\ rcvNxt'   = [rcvNxt EXCEPT ![p] = @ + k]

\* Mutants of FirstMessage: recv takes one segment, whatever its number; recv does
\* not stop at the first number 0.
FirstSegment(queue, n) == n = 1
SomeMessages(queue, n) == queue[n].frg = 0

\* The first n fragments of queue are one message.
FirstMessage(queue, n) ==
  /\ queue[n].frg = 0
  /\ \A i \in 1 .. n - 1 : queue[i].frg # 0

\* recv returned a message: the handler gets it, whether or not the handler of
\* an earlier message closed the session.
Deliver(p) ==
  /\ draining[p]
  /\ Deliverable(rcvQueue[p])
  /\ \E n \in 1 .. Len(rcvQueue[p]) :
       /\ FirstMessage(rcvQueue[p], n)
       /\ taken' = [taken EXCEPT ![p] = @ \o SubSeq(rcvQueue[p], 1, n)]
       /\ MoveReady(p, rcvBuf[p], SubSeq(rcvQueue[p], n + 1, Len(rcvQueue[p])))
  /\ askTell'  = [askTell EXCEPT ![p] = @ \/ Len(rcvQueue'[p]) < RcvWnd]
  /\ draining' = [draining EXCEPT ![p] = Deliverable(rcvQueue'[p])]
  /\ UNCHANGED <<senderVars, acklist, updated, closed, net, sent>>

-----------------------------------------------------------------------------
(* input *)

\* Mutant of Acknowledge: una itself counts as acknowledged.
AcknowledgeUna(p, m) ==
  LET left == {sn \in DOMAIN sndBuf[p] : sn > m.una /\ ~(m.cmd = "ACK" /\ sn = m.sn)}
      unacked == left \cup {sndNxt[p]}
  IN  /\ sndBuf' = [sndBuf EXCEPT ![p] = Keep(@, left)]
      /\ \E una \in unacked :
           /\ \A sn \in unacked : una <= sn
           /\ sndUna' = [sndUna EXCEPT ![p] = una]

\* parseUna, parseAck and shrinkBuf: m acknowledges everything below its una
\* and, when it is an ACK, its own sequence number.
Acknowledge(p, m) ==
  LET left == {sn \in DOMAIN sndBuf[p] : sn >= m.una /\ ~(m.cmd = "ACK" /\ sn = m.sn)}
      unacked == left \cup {sndNxt[p]}
  IN  /\ sndBuf' = [sndBuf EXCEPT ![p] = Keep(@, left)]
      /\ \E una \in unacked :
           /\ \A sn \in unacked : una <= sn
           /\ sndUna' = [sndUna EXCEPT ![p] = una]

\* parseData: a segment inside the window is kept once, then moved if it is next.
AcceptPush(p, m) ==
  LET buf == [sn \in DOMAIN rcvBuf[p] \cup {m.sn} |->
                IF sn \in DOMAIN rcvBuf[p] THEN rcvBuf[p][sn] ELSE m.frag]
  IN  MoveReady(p, buf, rcvQueue[p])

\* The PUSH branch: acknowledge anything below the window's end, keep what is new.
InputPush(p, m) ==
  /\ m.cmd = "PUSH"
  /\ \/ /\ m.sn < rcvNxt[p] + RcvWnd
        /\ acklist' = [acklist EXCEPT ![p] = @ \cup {m.sn}]
        /\ \/ m.sn >= rcvNxt[p] /\ AcceptPush(p, m)
           \/ m.sn < rcvNxt[p] /\ UNCHANGED receiverVars
     \/ /\ m.sn >= rcvNxt[p] + RcvWnd
        /\ UNCHANGED <<acklist, receiverVars>>
  /\ UNCHANGED askTell

\* The other commands: only WASK changes more than the send buffer.
InputControl(p, m) ==
  /\ m.cmd # "PUSH"
  /\ askTell' = [askTell EXCEPT ![p] = @ \/ m.cmd = "WASK"]
  /\ UNCHANGED <<acklist, receiverVars>>

\* The datagram callback: input() of a datagram, a copy of which may stay in
\* flight.
Input(p, m) ==
  /\ ~closed[p]
  /\ ~draining[p]
  /\ m \in net[p]
  /\ \/ net' = [net EXCEPT ![p] = @ \ {m}]
     \/ Duplicates /\ net' = net
  /\ rmtWnd' = [rmtWnd EXCEPT ![p] = m.wnd]
  /\ Acknowledge(p, m)
  /\ InputPush(p, m) \/ InputControl(p, m)
  /\ UNCHANGED <<sndQueue, sndNxt, updated, draining, closed, sent, taken>>

\* KcpSession.close(): by the owner, or because the datagram channel closed.
Close(p) ==
  /\ p \in Closers
  /\ ~closed[p]
  /\ closed' = [closed EXCEPT ![p] = TRUE]
  /\ UNCHANGED <<senderVars, receiverVars, acklist, askTell, updated, draining,
                 net, sent, taken>>

Next ==
  \E p \in Peers :
    \/ \E d \in Data, n \in 1 .. WndRcv : Send(p, d, n)
    \/ Tick(p)
    \/ Deliver(p)
    \/ \E m \in net[p] : Input(p, m)
    \/ Close(p)

Spec == Init /\ [][Next]_vars
=============================================================================
