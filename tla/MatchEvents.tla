---------------------------- MODULE MatchEvents ----------------------------
(***************************************************************************)
(* The match-event stream of a battle: BattleEventPoller                   *)
(* (battle_event_poller.ts) and the part of the client's application       *)
(* (app.ts) that starts, stops and restarts it, enters and leaves the      *)
(* battle screen and counts the gift charges out of the rows it is given.  *)
(* Everything runs on one event loop, so a handler is atomic up to its     *)
(* first await; what interleaves are the answers of the server, the        *)
(* poller's interval and the screen changes.                               *)
(*                                                                         *)
(* Abstractions.  Matches are numbered in the order the lobby starts them  *)
(* and a row is its match and its sequence number.  Every row is one gift  *)
(* of the local player at one charge, so charges counts rows.  The server  *)
(* answers at the moment the client gets the answer: what it appends or    *)
(* drops in between is a step of its own.                                  *)
(***************************************************************************)
EXTENDS Integers, Sequences

CONSTANTS
  LastMatch,       \* bound: the matches of a behaviour are 1 .. LastMatch
  MaxSeq,          \* bound: rows the server appends to a match
  Limit,           \* rows of a page
  MaxDrainPages,   \* MAX_DRAIN_PAGES: pages of one poll
  Calls            \* bound: enterBattlePerformance calls that may be in flight

ASSUME MatchAssumption == LastMatch \in Nat /\ MaxSeq \in [1 .. LastMatch -> Nat]
ASSUME PageAssumption == Limit \in Nat \ {0} /\ MaxDrainPages \in Nat \ {0}

None == 0
Matches == 1 .. LastMatch

VARIABLES
  latest,       \* the server: last row of each match
  dropped,      \* the server: rows of each match no longer retained
  match,        \* the match the lobby last started (flow.match)
  battle,       \* whether the battle screen is the active one
  ended,        \* BattleScene.matchEnded
  performance,  \* performanceMatchId
  opening,      \* the match whose ticket filled battleOpening
  charges,      \* giftChargesSpent
  entering,     \* the enterBattlePerformance calls in flight
  matchId,      \* the poller: matchIdValue, None when it is stopped
  cursor,       \* the poller: cursor
  fetch,        \* the poller: its fetch in flight (polling), if any
  delivered,    \* history: rows handed to onEvents since the poller's last start
  clean,        \* history: no fetch was in flight at the last start
  counted,      \* history: the last start reset the charges
  gapInRun      \* history: onGap was called since the last start

serverVars  == <<latest, dropped>>
screenVars  == <<match, battle, ended>>
appVars     == <<performance, opening, charges>>
pollerVars  == <<matchId, cursor, fetch>>
historyVars == <<delivered, clean, counted, gapInRun>>
vars == <<serverVars, screenVars, appVars, entering, pollerVars, historyVars>>

Larger(a, b) == IF a >= b THEN a ELSE b
Smaller(a, b) == IF a <= b THEN a ELSE b

\* The poller's active flag: start and stop set it together with matchIdValue.
active == matchId # None

Fetch   == [match : Matches, after : Nat, page : Nat]
NoFetch == [match |-> None, after |-> 0, page |-> 0]

Call == [match : Matches, restart : BOOLEAN, awaits : {"snapshot", "ticket"}]
Idle == [match |-> None, restart |-> FALSE, awaits |-> "nothing"]

Init ==
  /\ latest      = [m \in Matches |-> 0]
  /\ dropped     = [m \in Matches |-> 0]
  /\ match       = None
  /\ battle      = FALSE
  /\ ended       = FALSE
  /\ performance = None
  /\ opening     = None
  /\ charges     = 0
  /\ entering    = [c \in Calls |-> Idle]
  /\ matchId     = None
  /\ cursor      = 0
  /\ fetch       = NoFetch
  /\ delivered   = <<>>
  /\ clean       = TRUE
  /\ counted     = TRUE
  /\ gapInRun    = FALSE

-----------------------------------------------------------------------------
(* The server *)

\* The oldest_cursor of an answer: the oldest row retained, 0 while none is lost.
OldestCursor(m) == IF dropped[m] = 0 THEN 0 ELSE dropped[m] + 1

\* A row is added to the stream of a match.
AddRow(m) ==
  /\ m <= match
  /\ latest[m] < MaxSeq[m]
  /\ latest' = [latest EXCEPT ![m] = @ + 1]
  /\ UNCHANGED <<dropped, screenVars, appVars, entering, pollerVars, historyVars>>

\* The server drops the oldest rows it retains, but not the last one.
Drop(m) ==
  /\ \E d \in dropped[m] + 1 .. latest[m] - 1 : dropped' = [dropped EXCEPT ![m] = d]
  /\ UNCHANGED <<latest, screenVars, appVars, entering, pollerVars, historyVars>>

-----------------------------------------------------------------------------
(* BattleEventPoller *)

\* stop(): a fetch in flight is not cancelled and the cursor stays.
Stop == matchId' = None /\ UNCHANGED <<cursor, fetch>>

\* Mutant of Start: the cursor starts before the first row.
StartBeforeFirst(m, zeroed) ==
  /\ matchId' = m
  /\ cursor' = -1
  /\ fetch' = IF fetch = NoFetch THEN [match |-> m, after |-> 0, page |-> 0] ELSE fetch
  /\ delivered' = <<>>
  /\ clean' = (fetch = NoFetch)
  /\ counted' = zeroed
  /\ gapInRun' = FALSE

\* start(m): from the oldest row.  Its immediate poll does nothing while a fetch,
\* one made before the last stop included, is in flight.  zeroed says whether the
\* caller has reset the charges.
Start(m, zeroed) ==
  /\ matchId' = m
  /\ cursor' = 0
  /\ fetch' = IF fetch = NoFetch THEN [match |-> m, after |-> 0, page |-> 0] ELSE fetch
  /\ delivered' = <<>>
  /\ clean' = (fetch = NoFetch)
  /\ counted' = zeroed
  /\ gapInRun' = FALSE

\* Mutant of IntervalTick: the timer polls only until the first page.
TickOnce ==
  /\ active
  /\ fetch = NoFetch
  /\ cursor = 0
  /\ fetch' = [match |-> matchId, after |-> cursor, page |-> 0]
  /\ UNCHANGED <<serverVars, screenVars, appVars, entering, matchId, cursor, historyVars>>

\* The interval's poll: nothing while the previous one is still fetching.
IntervalTick ==
  /\ active
  /\ fetch = NoFetch
  /\ fetch' = [match |-> matchId, after |-> cursor, page |-> 0]
  /\ UNCHANGED <<serverVars, screenVars, appVars, entering, matchId, cursor, historyVars>>

\* The last row of the page the server answers to f, or f.after if it is empty.
PageEnd(f) ==
  Larger(f.after, Smaller(Larger(f.after, dropped[f.match]) + Limit, latest[f.match]))

\* The rows of the page: the first retained ones after f.after.
PageRows(f) ==
  LET from == Larger(f.after, dropped[f.match])
  IN  [i \in 1 .. PageEnd(f) - from |-> [match |-> f.match, seq |-> from + i]]

\* Mutant of GapSeen: the cursor the page moved to is compared.
GapAfterResync(f) == PageEnd(f) < OldestCursor(f.match)

\* The answer shows that rows after the cursor were dropped.
GapSeen(f) == f.after < OldestCursor(f.match)

\* Mutant of Drain: the next page is asked for from where this one was.
DrainFromAfter(f) ==
  IF PageEnd(f) < latest[f.match] /\ f.page + 1 < MaxDrainPages
  THEN [match |-> matchId, after |-> f.after, page |-> f.page + 1]
  ELSE NoFetch

\* The poll loop after the page: it asks for the next page of what is now polled,
\* or ends.
Drain(f) ==
  IF PageEnd(f) < latest[f.match] /\ f.page + 1 < MaxDrainPages
  THEN [match |-> matchId, after |-> PageEnd(f), page |-> f.page + 1]
  ELSE NoFetch

\* The synchronous part of enterBattlePerformance: it asks for the snapshot.
Enter(m, restart) ==
  \E c \in Calls :
    /\ entering[c] = Idle
    /\ entering' = [entering EXCEPT ![c] = [match |-> m, restart |-> restart,
                                            awaits |-> "snapshot"]]

\* onGap: the application enters the performance of the polled match again.
Gap(f) ==
  \/ /\ GapSeen(f)
     /\ Enter(matchId, TRUE)
     /\ gapInRun' = TRUE
  \/ /\ ~GapSeen(f)
     /\ UNCHANGED <<entering, gapInRun>>

\* A page arrives while the poller is active: onGap, then the cursor, then
\* onEvents, then the next page.
ReceivePage ==
  /\ fetch # NoFetch
  /\ active
  /\ Gap(fetch)
  /\ cursor' = PageEnd(fetch)
  /\ delivered' = delivered \o PageRows(fetch)
  /\ charges' = charges + Len(PageRows(fetch))
  /\ fetch' = Drain(fetch)
  /\ UNCHANGED <<serverVars, screenVars, performance, opening, matchId, clean, counted>>

\* The poll ends without a page: the poller was stopped, or the fetch failed.
ReceiveNothing ==
  /\ fetch # NoFetch
  /\ fetch' = NoFetch
  /\ UNCHANGED <<serverVars, screenVars, appVars, entering, matchId, cursor, historyVars>>

-----------------------------------------------------------------------------
(* The application *)

\* onPerformanceEnter: the battle scene starts the poller unless it runs.
PerformanceEnter(m) ==
  \/ /\ active
     /\ UNCHANGED <<pollerVars, historyVars>>
  \/ /\ ~active
     /\ Start(m, FALSE)

\* The lobby starts the next match: onFlowChange enters its performance, then
\* switchTo enters the battle scene.
MatchStart ==
  /\ ~battle
  /\ match < LastMatch
  /\ match' = match + 1
  /\ battle' = TRUE
  /\ ended' = FALSE
  /\ performance' = match'
  /\ Enter(match', FALSE)
  /\ PerformanceEnter(match')
  /\ UNCHANGED <<serverVars, opening, charges>>

\* Another change of the flow during the battle: onFlowChange, with the scene
\* already active.
FlowChange ==
  /\ battle
  /\ performance' = match
  /\ Enter(match, FALSE)
  /\ UNCHANGED <<serverVars, screenVars, opening, charges, pollerVars, historyVars>>

\* The flow leaves the battle screen: the lobby's result, the battle server's
\* result frame, an abandoned match or a lost session.  Only the scene's onExit
\* runs.
LeaveBattle ==
  /\ battle
  /\ battle' = FALSE
  /\ Stop
  /\ UNCHANGED <<serverVars, match, ended, appVars, entering, historyVars>>

\* Mutant of MatchEnd: the performance is not forgotten.
MatchEndKeepsPerformance ==
  /\ match # None
  /\ ~ended
  /\ ended' = TRUE
  /\ battle' = FALSE
  /\ Stop
  /\ opening' = None
  /\ charges' = 0
  /\ UNCHANGED <<serverVars, match, performance, entering, historyVars>>

\* onMatchEnd: a battle snapshot names the winner, whatever screen is active.
MatchEnd ==
  /\ match # None
  /\ ~ended
  /\ ended' = TRUE
  /\ battle' = FALSE
  /\ Stop
  /\ performance' = None
  /\ opening' = None
  /\ charges' = 0
  /\ UNCHANGED <<serverVars, match, entering, historyVars>>

\* The snapshot of a call arrives: it goes on to the ticket unless the
\* performance has moved on.
SnapshotDone(c) ==
  /\ entering[c].awaits = "snapshot"
  /\ entering' = [entering EXCEPT ![c] =
                    IF performance = @.match THEN [@ EXCEPT !.awaits = "ticket"] ELSE Idle]
  /\ UNCHANGED <<serverVars, screenVars, appVars, pollerVars, historyVars>>

\* Mutant of Current: a call is never stale.
NeverStale(c) == TRUE

\* The call's match is still the one being performed.
Current(c) == performance = entering[c].match

\* Mutant of Resync: the charges go on from where they were.
ResyncKeepsCharges(m) == Start(m, TRUE) /\ UNCHANGED charges

\* A restart of the poller by enterBattlePerformance.
Resync(m) == Start(m, TRUE) /\ charges' = 0

\* The ticket of a call arrives, or the request fails.
TicketDone(c) ==
  /\ entering[c].awaits = "ticket"
  /\ entering' = [entering EXCEPT ![c] = Idle]
  /\ \/ /\ ~Current(c)
        /\ UNCHANGED <<opening, charges, pollerVars, historyVars>>
     \/ /\ Current(c)
        /\ opening' \in {None, entering[c].match}
        /\ \/ /\ entering[c].restart \/ ~active
              /\ Resync(entering[c].match)
           \/ /\ ~entering[c].restart
              /\ active
              /\ UNCHANGED <<charges, pollerVars, historyVars>>
  /\ UNCHANGED <<serverVars, screenVars, performance>>

Next ==
  \/ \E m \in Matches : AddRow(m) \/ Drop(m)
  \/ IntervalTick
  \/ ReceivePage
  \/ ReceiveNothing
  \/ MatchStart
  \/ FlowChange
  \/ LeaveBattle
  \/ MatchEnd
  \/ \E c \in Calls : SnapshotDone(c) \/ TicketDone(c)

Spec == Init /\ [][Next]_vars
=============================================================================
