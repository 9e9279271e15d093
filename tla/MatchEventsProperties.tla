----------------------- MODULE MatchEventsProperties -----------------------
(***************************************************************************)
(* What the poller and the application guarantee about the event stream,   *)
(* and two statements of the code's comments that they do not keep.       *)
(* MatchEvents_proofs proves the safety part.                              *)
(***************************************************************************)
EXTENDS MatchEvents

Row == [match : Matches, seq : Nat]

\* Every variable stays in its set, and the server drops only what it appended.
TypeOK ==
  /\ latest \in [Matches -> Nat] /\ dropped \in [Matches -> Nat]
  /\ match \in Matches \cup {None} /\ battle \in BOOLEAN /\ ended \in BOOLEAN
  /\ performance \in Matches \cup {None} /\ opening \in Matches \cup {None}
  /\ charges \in Nat
  /\ entering \in [Calls -> Call \cup {Idle}]
  /\ matchId \in Matches \cup {None} /\ cursor \in Nat /\ fetch \in Fetch \cup {NoFetch}
  /\ delivered \in Seq(Row)
  /\ clean \in BOOLEAN /\ counted \in BOOLEAN /\ gapInRun \in BOOLEAN
  /\ \A m \in Matches : dropped[m] <= latest[m]

\* A run of the poller hands each row of a match over at most once and in order,
\* even when a fetch of an earlier run answers into it and when pages are drained
\* back to back (poll, battle_event_poller.ts; "each row is delivered once per
\* poller run", app.ts).
DeliveredInOrder ==
  \A i, j \in 1 .. Len(delivered) :
    i < j /\ delivered[i].match = delivered[j].match => delivered[i].seq < delivered[j].seq

\* A run that started with no fetch in flight loses nothing silently: behind its
\* cursor, each row was handed over or onGap was called (poll's cursor and gap
\* test against a server that drops rows).
NoSilentLoss ==
  active /\ clean =>
    \A s \in 1 .. cursor :
      gapInRun \/ \E i \in 1 .. Len(delivered) : delivered[i] = [match |-> matchId, seq |-> s]

\* After enterBattlePerformance restarted the poller the charges are exact: rows
\* replayed by the restart are counted once, also those of a page that was in
\* flight when it restarted (the reset before start, app.ts).
ResyncCountsExactly == active /\ counted => charges = Len(delivered)

\* A snapshot or a ticket that arrives after the performance moved on starts no
\* poller and shows no hand: the poller only ever turns to the match performed,
\* and so does the opening (the checks of performanceMatchId after each await).
StaleCallsIgnored ==
  [][/\ matchId' \notin {matchId, None} => matchId' = performance'
     /\ opening' \notin {opening, None} => opening' = performance']_vars

\* Leaving the battle leaves nothing counted or shown once the winner is known:
\* no answer that is still in flight brings the poller, the charges or the hand
\* of the ended match back (onMatchEnd, stopBattlePerformance).
EndedMatchStaysEnded ==
  ended => ~active /\ performance = None /\ opening = None /\ charges = 0

-----------------------------------------------------------------------------
(* Refinement *)

\* The fetch in flight is not the one this run would make.
Owed == active /\ fetch # NoFetch /\ ~(fetch.match = matchId /\ fetch.after = cursor)

Feed == INSTANCE EventFeed
          WITH Streams <- Matches, NoStream <- None, polled <- matchId, pos <- cursor,
               owed <- Owed, rows <- delivered, told <- gapInRun

\* Whatever the server drops, however fetches, ticks, restarts and the calls of the
\* application overlap, the poller is a feed of one match at a time: the page an
\* earlier run left in flight is the only thing that ever disturbs it, once, and
\* before the run has handed anything over (poll, start, stop).
ImplementsFeed == Feed!Spec

-----------------------------------------------------------------------------
(* Liveness *)

\* The interval keeps firing, requests end, and a fetch that is made again and again
\* is answered with a page at last.
FairSpec ==
  /\ Spec
  /\ WF_vars(IntervalTick)
  /\ SF_vars(ReceivePage)
  /\ \A c \in Calls : WF_vars(SnapshotDone(c)) /\ WF_vars(TicketDone(c))

\* A poller that stays with a match whose rows the server retains catches up
\* with the stream: the drain limit, failed fetches, overlapping polls and
\* skipped ticks only delay it.
CatchUp ==
  \A m \in Matches :
    <>[](matchId = m /\ dropped[m] = 0) => <>[](cursor >= latest[m])

-----------------------------------------------------------------------------
(* Statements of the comments *)

\* "Charges are per-match: they do not migrate into the next one."
ChargesPerMatch == active /\ delivered = <<>> => charges = 0

\* start: "Starts polling matchId from the oldest event the server retains ...
\* calling this while running restarts cleanly": the rows behind the cursor of a
\* run are rows this run handed over, unless it told of a gap.
RestartsCleanly ==
  active =>
    \A s \in 1 .. cursor :
      gapInRun \/ \E i \in 1 .. Len(delivered) : delivered[i] = [match |-> matchId, seq |-> s]
=============================================================================
