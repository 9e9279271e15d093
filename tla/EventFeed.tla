----------------------------- MODULE EventFeed -----------------------------
(***************************************************************************)
(* What a BattleEventPoller promises the application                       *)
(* (battle_event_poller.ts): between start and stop, the rows of one       *)
(* stream from its beginning, in order and each once, with a word when     *)
(* some are missing.  A run that begins while a page of an earlier run is  *)
(* owed may be given that one page first, and then goes on from where the  *)
(* page ends, in whatever stream it was.                                   *)
(***************************************************************************)
EXTENDS Integers, Sequences

CONSTANTS
  Streams,    \* the streams, one of each match
  NoStream    \* while stopped

VARIABLES
  polled,     \* the stream of the run, NoStream while stopped
  pos,        \* the run goes on behind this row
  owed,       \* a page of an earlier run may still be given to this one
  rows,       \* rows given in this run
  told        \* whether this run was told that rows are missing

vars == <<polled, pos, owed, rows, told>>

\* The n rows of stream s that end with row last.
RowsUpTo(s, last, n) == [i \in 1 .. n |-> [match |-> s, seq |-> last - n + i]]

Init ==
  /\ polled = NoStream
  /\ pos = 0
  /\ owed = FALSE
  /\ rows = <<>>
  /\ told = FALSE

\* start: from the beginning, also while running.
Begin ==
  /\ polled' \in Streams
  /\ pos' = 0
  /\ owed' \in BOOLEAN
  /\ rows' = <<>>
  /\ told' = FALSE

\* stop.
End ==
  /\ polled' = NoStream
  /\ owed' = FALSE
  /\ UNCHANGED <<pos, rows, told>>

\* The next rows of the stream, and a word about those that are missing before.
Page ==
  /\ polled # NoStream
  /\ ~owed
  /\ pos' >= pos
  /\ \E n \in 0 .. pos' - pos :
       /\ rows' = rows \o RowsUpTo(polled, pos', n)
       /\ n < pos' - pos => told'
  /\ told => told'
  /\ UNCHANGED <<polled, owed>>

\* The page owed to an earlier run, before any other.
LatePage ==
  /\ polled # NoStream
  /\ owed /\ ~owed'
  /\ rows = <<>>
  /\ pos' >= 0
  /\ \E s \in Streams, n \in 0 .. pos' : rows' = RowsUpTo(s, pos', n)
  /\ told' \in BOOLEAN
  /\ UNCHANGED polled

\* The page owed does not come.
PageLost ==
  /\ owed /\ ~owed'
  /\ UNCHANGED <<polled, pos, rows, told>>

Next == Begin \/ End \/ Page \/ LatePage \/ PageLost

Spec == Init /\ [][Next]_vars
=============================================================================
