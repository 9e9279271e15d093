------------------------ MODULE PredictionProperties ------------------------
(***************************************************************************)
(* What reconciliation keeps of the prediction.                            *)
(***************************************************************************)
EXTENDS Prediction

\* Every variable stays in its set.
TypeOK ==
  /\ server \in Simulation /\ local \in Simulation
  /\ adopted \in BOOLEAN /\ seeding \in BOOLEAN
  /\ applying \subseteq Snapshot
  /\ replayed \in 0 .. MaxReplay
  /\ inputs \in Seq(Input) /\ snaps \in Seq(Snapshot)
  /\ lead \in Leads /\ seq \in Nat

\* The retained hashes are in tick order and never more than the limit, so the first
\* key, which rememberHash evicts, is the oldest ("insertion order is tick order",
\* hashHistory).
HistoryInOrder ==
  /\ Len(local.hist) <= History
  /\ \A i, j \in DOMAIN local.hist : i < j => local.hist[i] < local.hist[j]

\* A buffered input is for a tick still to come and within the window: none is left
\* behind by ticks, replays and reseeds, where it would stay for ever unapplied.
PendingAhead ==
  \A i \in local.pending : local.tick < i.tick /\ i.tick <= local.tick + Window

\* The step that ends the handling of snap.
Applied(snap) == snap \in applying /\ applying' = {}

\* The local tick never goes back, whatever snapshot is adopted ("It never rewinds -
\* a rewind would invalidate inputs already sent", adoptAuthoritativeSnapshot).
NeverRewinds == [][local'.tick >= local.tick]_vars

\* When a snapshot has been handled the prediction has the hash of its tick, if that
\* tick is retained at all: what hashAtTick compares is of the same tick, through
\* seeding, replays, reseeds and a client ahead of the server.
HashAvailable ==
  [][\A snap \in applying :
       Applied(snap) /\ snap.tick <= local'.tick /\ local'.tick < snap.tick + History
         => \E i \in DOMAIN local'.hist : local'.hist[i] = snap.tick]_vars

\* When a snapshot has been handled the local Boss HP is the server's, less at most one
\* cast for each tick of lead.  The HP is taken before the replay ("so catch-up ticks
\* see the right HP", applySnapshot), and a replayed cast that the server has booked
\* counts twice; but only what is buffered is replayed, and that is no more than was
\* sent ahead.  Without a lead the two are equal.
HpNearServer ==
  [][\A snap \in applying :
       Applied(snap) => local'.hp <= snap.hp /\ snap.hp <= local'.hp + lead]_vars

=============================================================================
