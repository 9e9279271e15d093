--------------------------- MODULE MessageChannel ---------------------------
(***************************************************************************)
(* What a KcpSession promises its owner (kcp_transport.ts): a reliable,    *)
(* ordered channel of whole payloads in each direction.  A payload is      *)
(* handed to the peer's message handler at most once, complete, and after  *)
(* every payload accepted before it.                                       *)
(***************************************************************************)
EXTENDS Integers, Sequences

CONSTANTS
  Ends,          \* the two ends of the channel
  Peer(_),       \* the other end
  Payloads       \* payloads, each a sequence of fragments

VARIABLES
  sent,          \* fragments of the payloads an end was asked to send
  taken          \* fragments of the payloads an end's handler was given

vars == <<sent, taken>>

Init ==
  /\ sent  = [e \in Ends |-> <<>>]
  /\ taken = [e \in Ends |-> <<>>]

\* The last fragment of a payload has number 0.
EndsPayload(f) == f.frg = 0

\* n is the length of s up to the end of some payload.
Boundary(s, n) == n = 0 \/ EndsPayload(s[n])

\* e accepts a payload.
Submit(e) ==
  /\ \E payload \in Payloads : sent' = [sent EXCEPT ![e] = @ \o payload]
  /\ UNCHANGED taken

\* e is given the next payload its peer sent, whole.
Handover(e) ==
  LET from == Len(taken[e])
  IN \E n \in from + 1 .. Len(sent[Peer(e)]) :
       /\ Boundary(sent[Peer(e)], n)
       /\ \A i \in from + 1 .. n - 1 : ~Boundary(sent[Peer(e)], i)
       /\ taken' = [taken EXCEPT ![e] = @ \o SubSeq(sent[Peer(e)], from + 1, n)]
       /\ UNCHANGED sent

Next == \E e \in Ends : Submit(e) \/ Handover(e)

Spec == Init /\ [][Next]_vars
=============================================================================
