------------------------- MODULE MatchEvents_proofs -------------------------
(***************************************************************************)
(* Proofs of the safety properties of MatchEventsProperties for any number *)
(* of matches, rows, rows per page, pages per poll and concurrent calls.   *)
(*                                                                         *)
(* The argument.  A fetch that answers into a run of the poller either was *)
(* made by this run, and then asks for what follows its cursor, or is one  *)
(* an earlier run left in flight, and then it is the first to answer: the  *)
(* run has handed nothing over yet.  In both cases the page continues what *)
(* was handed over.  With that, each step of the poller is one of the feed *)
(* of EventFeed, and each other step leaves the feed alone.                *)
(***************************************************************************)
EXTENDS MatchEventsProperties, TLAPS

-----------------------------------------------------------------------------
(* The inductive invariant *)

\* The fetch in flight continues the run, or the run has not begun.
FetchInv ==
  active /\ fetch # NoFetch =>
    \/ fetch.match = matchId /\ fetch.after = cursor
    \/ ~clean /\ delivered = <<>> /\ cursor = 0

\* What was handed over of the polled match is behind the cursor.
BehindCursor ==
  active => \A i \in 1 .. Len(delivered) :
              delivered[i].match = matchId => delivered[i].seq <= cursor

\* What holds of a run of the poller.
RunInv == FetchInv /\ BehindCursor /\ DeliveredInOrder /\ NoSilentLoss /\ ResyncCountsExactly

\* A battle on screen has a match that is not over.
BattleInv == battle => match # None /\ ~ended

\* What holds once the winner is known.
EndInv == BattleInv /\ EndedMatchStaysEnded

IInv == TypeOK /\ RunInv /\ EndInv

-----------------------------------------------------------------------------
(* Pages and sequences *)

\* The first part of a concatenation is its first sequence, the rest its second.
LEMMA JoinFacts ==
  ASSUME NEW S, NEW a \in Seq(S), NEW b \in Seq(S)
  PROVE  /\ a \o b \in Seq(S)
         /\ Len(a \o b) = Len(a) + Len(b)
         /\ \A i \in 1 .. Len(a) : (a \o b)[i] = a[i]
         /\ \A i \in Len(a) + 1 .. Len(a) + Len(b) : (a \o b)[i] = b[i - Len(a)]
         /\ Len(a) \in Nat /\ Len(b) \in Nat
OBVIOUS

\* A page starts behind the cursor it was asked for, is in order without a hole
\* and ends where the cursor moves to.
LEMMA PageFacts ==
  ASSUME TypeOK, NEW f \in Fetch
  PROVE  /\ PageEnd(f) \in Nat /\ f.after \in Nat /\ f.after <= PageEnd(f)
         /\ PageRows(f) \in Seq(Row)
         /\ \E from \in Nat :
              /\ f.after <= from /\ from <= PageEnd(f)
              /\ ~GapSeen(f) => from = f.after
              /\ Len(PageRows(f)) = PageEnd(f) - from
              /\ \A i \in 1 .. Len(PageRows(f)) :
                   PageRows(f)[i] = [match |-> f.match, seq |-> from + i]
<1> DEFINE from == Larger(f.after, dropped[f.match])
           n    == PageEnd(f) - from
<1>1. f.after \in Nat /\ f.match \in Matches
  BY DEF Fetch
<1>2. dropped[f.match] \in Nat /\ latest[f.match] \in Nat /\ dropped[f.match] <= latest[f.match]
  BY <1>1 DEF TypeOK
<1>3. Limit \in Nat
  BY PageAssumption
<1>4. from \in Nat /\ f.after <= from
  BY <1>1, <1>2 DEF Larger
<1>5. PageEnd(f) \in Nat /\ from <= PageEnd(f)
  BY <1>1, <1>2, <1>3 DEF PageEnd, Larger, Smaller
<1>6. ~GapSeen(f) => from = f.after
  BY <1>1, <1>2 DEF GapSeen, OldestCursor, Larger
<1>7. PageRows(f) = [i \in 1 .. n |-> [match |-> f.match, seq |-> from + i]]
  BY DEF PageRows
<1> HIDE DEF from
<1>8. n \in Nat
  BY <1>4, <1>5
<1> HIDE DEF n
<1>9. \A i \in 1 .. n : [match |-> f.match, seq |-> from + i] \in Row
  BY <1>1, <1>4, <1>8 DEF Row
<1>10. PageRows(f) \in Seq(Row) /\ Len(PageRows(f)) = n
  BY <1>7, <1>8, <1>9
<1>11. \A i \in 1 .. n : PageRows(f)[i] = [match |-> f.match, seq |-> from + i]
  BY <1>7
<1>12. n = PageEnd(f) - from
  BY DEF n
<1>13. f.after <= PageEnd(f)
  BY <1>1, <1>4, <1>5
<1>14. QED
  BY <1>1, <1>4, <1>5, <1>6, <1>10, <1>11, <1>12, <1>13

-----------------------------------------------------------------------------
(* What the steps do to a run *)

\* A step that touches neither the poller nor what it handed over nor the charges.
LEMMA RunUntouched ==
  ASSUME RunInv, UNCHANGED <<pollerVars, historyVars, charges>>
  PROVE  RunInv'
BY DEF RunInv, FetchInv, BehindCursor, DeliveredInOrder, NoSilentLoss, ResyncCountsExactly,
       pollerVars, historyVars, active

\* A stopped poller promises nothing but the order of what it handed over.
LEMMA RunStopped ==
  ASSUME RunInv, Stop, UNCHANGED historyVars
  PROVE  RunInv'
BY DEF RunInv, FetchInv, BehindCursor, DeliveredInOrder, NoSilentLoss, ResyncCountsExactly,
       Stop, historyVars, active

\* A run starts with nothing handed over.
LEMMA RunStarted ==
  ASSUME NEW m \in Matches, NEW zeroed \in BOOLEAN, Start(m, zeroed), zeroed => charges' = 0
  PROVE  RunInv'
<1>1. /\ matchId' = m /\ cursor' = 0 /\ delivered' = <<>> /\ counted' = zeroed
      /\ clean' = (fetch = NoFetch)
      /\ fetch' = IF fetch = NoFetch THEN [match |-> m, after |-> 0, page |-> 0] ELSE fetch
  BY DEF Start
<1>2. Len(delivered') = 0
  BY <1>1
<1>3. FetchInv'
  BY <1>1 DEF FetchInv
<1>4. BehindCursor' /\ DeliveredInOrder' /\ NoSilentLoss'
  BY <1>1, <1>2 DEF BehindCursor, DeliveredInOrder, NoSilentLoss
<1>5. ResyncCountsExactly'
  BY <1>1, <1>2 DEF ResyncCountsExactly
<1>6. QED
  BY <1>3, <1>4, <1>5 DEF RunInv

-----------------------------------------------------------------------------
(* A page *)

\* A page continues what was handed over, in order and behind the new cursor.
LEMMA PageExtendsRun ==
  ASSUME IInv, ReceivePage
  PROVE  FetchInv' /\ BehindCursor' /\ DeliveredInOrder'
<1> DEFINE f    == fetch
           rows == PageRows(f)
           a    == Len(delivered)
           b    == Len(rows)
<1>1. /\ TypeOK /\ active /\ f \in Fetch /\ f # NoFetch
      /\ delivered \in Seq(Row) /\ cursor \in Nat /\ matchId \in Matches
  BY DEF IInv, TypeOK, ReceivePage, active
<1>2. /\ PageEnd(f) \in Nat /\ f.after \in Nat /\ f.after <= PageEnd(f)
      /\ rows \in Seq(Row)
  BY <1>1, PageFacts
<1>3. PICK from \in Nat :
        /\ f.after <= from /\ from <= PageEnd(f)
        /\ b = PageEnd(f) - from
        /\ \A i \in 1 .. b : rows[i] = [match |-> f.match, seq |-> from + i]
  BY <1>1, PageFacts
<1>4. /\ cursor' = PageEnd(f) /\ delivered' = delivered \o rows /\ matchId' = matchId
      /\ clean' = clean /\ fetch' = Drain(f)
  BY DEF ReceivePage
<1>5. /\ Len(delivered') = a + b /\ a \in Nat /\ b \in Nat
      /\ \A i \in 1 .. a : delivered'[i] = delivered[i]
      /\ \A i \in a + 1 .. a + b : delivered'[i] = rows[i - a]
  BY <1>1, <1>2, <1>4, JoinFacts
<1>6. \/ f.match = matchId /\ f.after = cursor
      \/ delivered = <<>> /\ cursor = 0
  BY <1>1 DEF IInv, RunInv, FetchInv
<1>7. /\ \A i \in 1 .. a : delivered[i].match = matchId => delivered[i].seq <= cursor
      /\ \A i, j \in 1 .. a : i < j /\ delivered[i].match = delivered[j].match
                              => delivered[i].seq < delivered[j].seq
  BY <1>1 DEF IInv, RunInv, BehindCursor, DeliveredInOrder
<1>8. ASSUME NEW i \in 1 .. a PROVE delivered[i].seq \in Nat
  <2>1. delivered[i] \in Row
    BY <1>1
  <2>2. QED
    BY <2>1 DEF Row
<1>9. FetchInv'
  BY <1>4 DEF FetchInv, Drain
<1>10. delivered = <<>> => a = 0
  BY <1>1
<1> HIDE DEF f, rows, a, b
<1>11. \A i \in a + 1 .. a + b :
         /\ delivered'[i].match = f.match /\ delivered'[i].seq = from + (i - a)
         /\ delivered'[i].seq <= PageEnd(f) /\ f.after < delivered'[i].seq
  <2>1. SUFFICES ASSUME NEW i \in a + 1 .. a + b
                 PROVE  /\ delivered'[i].match = f.match
                        /\ delivered'[i].seq = from + (i - a)
                        /\ delivered'[i].seq <= PageEnd(f) /\ f.after < delivered'[i].seq
    OBVIOUS
  <2>2. i - a \in 1 .. b
    BY <1>5
  <2>3. delivered'[i] = [match |-> f.match, seq |-> from + (i - a)]
    BY <1>3, <1>5, <2>2
  <2>4. QED
    BY <1>2, <1>3, <1>5, <2>2, <2>3, SMTT(30)
<1>12. BehindCursor'
  <2>1. ASSUME NEW i \in 1 .. a + b, delivered'[i].match = matchId
        PROVE  delivered'[i].seq <= PageEnd(f)
    <3>1. CASE i \in 1 .. a
      <4>1. f.after = cursor
        BY <1>6, <1>10, <3>1
      <4>2. delivered[i].seq <= cursor /\ delivered'[i].seq = delivered[i].seq
        BY <1>5, <1>7, <2>1, <3>1
      <4>3. QED
        BY <1>1, <1>2, <1>8, <3>1, <4>1, <4>2
    <3>2. CASE i \in a + 1 .. a + b
      BY <1>11, <3>2
    <3>3. QED
      BY <1>5, <3>1, <3>2
  <2>2. QED
    BY <1>4, <1>5, <2>1 DEF BehindCursor
<1>13. DeliveredInOrder'
  <2>1. ASSUME NEW i \in 1 .. a + b, NEW j \in 1 .. a + b,
               i < j, delivered'[i].match = delivered'[j].match
        PROVE  delivered'[i].seq < delivered'[j].seq
    <3>1. CASE j \in 1 .. a
      <4>1. i \in 1 .. a
        BY <1>5, <2>1, <3>1
      <4>2. QED
        BY <1>5, <1>7, <2>1, <3>1, <4>1
    <3>2. CASE i \in 1 .. a /\ j \in a + 1 .. a + b
      <4>1. f.match = matchId /\ f.after = cursor
        BY <1>6, <1>10, <3>2
      <4>2. delivered'[i] = delivered[i] /\ delivered'[j].match = f.match
        BY <1>5, <1>11, <3>2
      <4>3. delivered[i].seq <= cursor
        BY <1>7, <2>1, <3>2, <4>1, <4>2
      <4>4. f.after < delivered'[j].seq /\ delivered'[j].seq = from + (j - a)
        BY <1>11, <3>2
      <4>5. delivered'[i].seq \in Nat /\ delivered'[j].seq \in Nat
        BY <1>3, <1>5, <1>8, <3>2, <4>2, <4>4
      <4>6. delivered'[i].seq <= f.after /\ f.after < delivered'[j].seq
        BY <4>1, <4>2, <4>3, <4>4
      <4>7. QED
        BY <1>2, <4>5, <4>6
    <3>3. CASE i \in a + 1 .. a + b /\ j \in a + 1 .. a + b
      BY <1>3, <1>5, <1>11, <2>1, <3>3
    <3>4. QED
      BY <1>5, <2>1, <3>1, <3>2, <3>3
  <2>2. QED
    BY <1>5, <2>1 DEF DeliveredInOrder
<1>14. QED
  BY <1>9, <1>12, <1>13

\* In a clean run, a page leaves no row out unless onGap is called.
LEMMA PageLosesNothing ==
  ASSUME IInv, ReceivePage
  PROVE  NoSilentLoss'
<1> DEFINE f    == fetch
           rows == PageRows(f)
           a    == Len(delivered)
           b    == Len(rows)
<1>1. /\ TypeOK /\ active /\ f \in Fetch /\ f # NoFetch
      /\ delivered \in Seq(Row) /\ cursor \in Nat /\ matchId \in Matches
  BY DEF IInv, TypeOK, ReceivePage, active
<1>2. /\ PageEnd(f) \in Nat /\ f.after \in Nat /\ f.after <= PageEnd(f)
      /\ rows \in Seq(Row)
  BY <1>1, PageFacts
<1>3. PICK from \in Nat :
        /\ ~GapSeen(f) => from = f.after
        /\ b = PageEnd(f) - from
        /\ \A i \in 1 .. b : rows[i] = [match |-> f.match, seq |-> from + i]
  BY <1>1, PageFacts
<1>4. /\ cursor' = PageEnd(f) /\ delivered' = delivered \o rows /\ matchId' = matchId
      /\ clean' = clean
  BY DEF ReceivePage
<1>5. /\ Len(delivered') = a + b /\ a \in Nat /\ b \in Nat
      /\ \A i \in 1 .. a : delivered'[i] = delivered[i]
      /\ \A i \in a + 1 .. a + b : delivered'[i] = rows[i - a]
  BY <1>1, <1>2, <1>4, JoinFacts
<1>6. GapSeen(f) => gapInRun'
  BY DEF ReceivePage, Gap
<1>7. ~GapSeen(f) => gapInRun' = gapInRun
  BY DEF ReceivePage, Gap
<1> HIDE DEF rows, a, b
<1>8. ASSUME clean, ~GapSeen(f), ~gapInRun, NEW s \in 1 .. PageEnd(f)
      PROVE  \E i \in 1 .. Len(delivered') : delivered'[i] = [match |-> matchId, seq |-> s]
  <2>1. f.match = matchId /\ f.after = cursor /\ from = cursor
    BY <1>1, <1>3, <1>8 DEF IInv, RunInv, FetchInv
  <2>2. CASE s \in 1 .. cursor
    <3>1. PICK i \in 1 .. Len(delivered) : delivered[i] = [match |-> matchId, seq |-> s]
      BY <1>1, <1>8, <2>2 DEF IInv, RunInv, NoSilentLoss
    <3>2. i \in 1 .. a /\ i \in 1 .. Len(delivered')
      BY <1>5, <3>1 DEF a
    <3>3. QED
      BY <1>5, <3>1, <3>2
  <2>3. CASE s \notin 1 .. cursor
    <3>1. s - cursor \in 1 .. b
      BY <1>1, <1>2, <1>3, <1>5, <2>1, <2>3
    <3>2. a + (s - cursor) \in a + 1 .. a + b /\ (a + (s - cursor)) - a = s - cursor
      BY <1>1, <1>5, <3>1
    <3>3. delivered'[a + (s - cursor)] = rows[s - cursor]
      BY <1>5, <3>2
    <3>4. rows[s - cursor] = [match |-> matchId, seq |-> s]
      BY <1>1, <1>3, <2>1, <3>1
    <3>5. a + (s - cursor) \in 1 .. Len(delivered')
      BY <1>5, <3>2
    <3>6. QED
      BY <3>3, <3>4, <3>5
  <2>4. QED
    BY <2>2, <2>3
<1>9. QED
  BY <1>4, <1>6, <1>7, <1>8 DEF NoSilentLoss

\* A page is counted once.
LEMMA PageCounted ==
  ASSUME IInv, ReceivePage
  PROVE  ResyncCountsExactly'
<1>1. /\ TypeOK /\ active /\ fetch \in Fetch /\ delivered \in Seq(Row)
  BY DEF IInv, TypeOK, ReceivePage
<1>2. PageRows(fetch) \in Seq(Row)
  BY <1>1, PageFacts
<1>3. Len(delivered \o PageRows(fetch)) = Len(delivered) + Len(PageRows(fetch))
  BY <1>1, <1>2, JoinFacts
<1>4. /\ charges' = charges + Len(PageRows(fetch)) /\ counted' = counted
      /\ delivered' = delivered \o PageRows(fetch)
  BY DEF ReceivePage
<1>5. QED
  BY <1>1, <1>3, <1>4 DEF IInv, RunInv, ResyncCountsExactly

-----------------------------------------------------------------------------
(* Types *)

\* A stopped and a started poller stay in their sets.
LEMMA StopTypes ==
  ASSUME TypeOK, Stop
  PROVE  matchId' \in Matches \cup {None} /\ cursor' \in Nat /\ fetch' \in Fetch \cup {NoFetch}
BY DEF TypeOK, Stop

LEMMA StartTypes ==
  ASSUME TypeOK, NEW m \in Matches, NEW zeroed \in BOOLEAN, Start(m, zeroed)
  PROVE  /\ matchId' \in Matches \cup {None} /\ cursor' \in Nat
         /\ fetch' \in Fetch \cup {NoFetch} /\ delivered' \in Seq(Row)
         /\ clean' \in BOOLEAN /\ counted' \in BOOLEAN /\ gapInRun' \in BOOLEAN
<1>1. [match |-> m, after |-> 0, page |-> 0] \in Fetch
  BY DEF Fetch
<1>2. fetch' \in Fetch \cup {NoFetch}
  BY <1>1 DEF TypeOK, Start
<1>3. delivered' = <<>> /\ delivered' \in Seq(Row)
  BY DEF Start
<1>4. QED
  BY <1>2, <1>3 DEF Start

LEMMA EnterTypes ==
  ASSUME TypeOK, NEW m \in Matches, NEW restart \in BOOLEAN, Enter(m, restart)
  PROVE  entering' \in [Calls -> Call \cup {Idle}]
<1>1. [match |-> m, restart |-> restart, awaits |-> "snapshot"] \in Call
  BY DEF Call
<1>2. QED
  BY <1>1 DEF TypeOK, Enter

LEMMA PageTypes ==
  ASSUME TypeOK, ReceivePage
  PROVE  TypeOK'
<1> DEFINE f == fetch
<1>1. f \in Fetch /\ f.match \in Matches /\ matchId \in Matches /\ f.page \in Nat
  BY DEF TypeOK, ReceivePage, active, Fetch
<1>2. PageEnd(f) \in Nat /\ PageRows(f) \in Seq(Row)
  BY <1>1, PageFacts
<1>3. delivered \in Seq(Row) /\ charges \in Nat
  BY DEF TypeOK
<1>4. delivered \o PageRows(f) \in Seq(Row) /\ charges + Len(PageRows(f)) \in Nat
  BY <1>2, <1>3, JoinFacts
<1>5. Drain(f) \in Fetch \cup {NoFetch}
  BY <1>1, <1>2 DEF Drain, Fetch
<1>6. gapInRun' \in BOOLEAN /\ entering' \in [Calls -> Call \cup {Idle}]
  <2>1. CASE GapSeen(f)
    <3>1. Enter(matchId, TRUE) /\ gapInRun' = TRUE
      BY <2>1 DEF ReceivePage, Gap
    <3>2. entering' \in [Calls -> Call \cup {Idle}]
      BY <1>1, <3>1, EnterTypes
    <3>3. QED
      BY <3>1, <3>2
  <2>2. CASE ~GapSeen(f)
    BY <2>2 DEF ReceivePage, Gap, TypeOK
  <2>3. QED
    BY <2>1, <2>2
<1>7. /\ cursor' = PageEnd(f) /\ delivered' = delivered \o PageRows(f)
      /\ charges' = charges + Len(PageRows(f)) /\ fetch' = Drain(f)
      /\ UNCHANGED <<serverVars, screenVars, performance, opening, matchId, clean, counted>>
  BY DEF ReceivePage
<1> HIDE DEF f
<1>8. QED
  BY <1>2, <1>4, <1>5, <1>6, <1>7 DEF TypeOK, serverVars, screenVars

-----------------------------------------------------------------------------
(* The invariant *)

LEMMA InitInv == Init => IInv
<1> SUFFICES ASSUME Init PROVE IInv
  OBVIOUS
<1>1. delivered = <<>> /\ Len(delivered) = 0 /\ delivered \in Seq(Row)
  BY DEF Init
<1>2. TypeOK
  <2>1. entering \in [Calls -> Call \cup {Idle}] /\ fetch \in Fetch \cup {NoFetch}
    BY DEF Init
  <2>2. /\ latest \in [Matches -> Nat] /\ dropped \in [Matches -> Nat]
        /\ \A m \in Matches : dropped[m] <= latest[m]
    BY DEF Init
  <2>3. QED
    BY <1>1, <2>1, <2>2 DEF Init, TypeOK
<1>3. RunInv
  BY <1>1 DEF Init, RunInv, FetchInv, BehindCursor, DeliveredInOrder, NoSilentLoss,
              ResyncCountsExactly, active
<1>4. EndInv
  BY DEF Init, EndInv, BattleInv, EndedMatchStaysEnded, active
<1>5. QED
  BY <1>2, <1>3, <1>4 DEF IInv

LEMMA ServerStep ==
  ASSUME IInv, NEW m \in Matches, AddRow(m) \/ Drop(m)
  PROVE  IInv'
<1>1. TypeOK'
  <2>1. CASE AddRow(m)
    <3>1. latest' = [latest EXCEPT ![m] = @ + 1] /\ dropped' = dropped
      BY <2>1 DEF AddRow
    <3>2. dropped \in [Matches -> Nat] /\ latest \in [Matches -> Nat]
          /\ \A x \in Matches : dropped[x] <= latest[x]
      BY DEF IInv, TypeOK
    <3>3. latest' \in [Matches -> Nat] /\ \A x \in Matches : dropped[x] <= latest'[x]
      BY <3>1, <3>2
    <3>4. QED
      BY <2>1, <3>1, <3>3, SMTT(30) DEF IInv, TypeOK, AddRow, screenVars, appVars, pollerVars,
                              historyVars
  <2>2. CASE Drop(m)
    <3>1. PICK d \in dropped[m] + 1 .. latest[m] - 1 : dropped' = [dropped EXCEPT ![m] = d]
      BY <2>2 DEF Drop
    <3>2. dropped \in [Matches -> Nat] /\ latest \in [Matches -> Nat]
          /\ \A x \in Matches : dropped[x] <= latest[x]
      BY DEF IInv, TypeOK
    <3>3. dropped' \in [Matches -> Nat] /\ \A x \in Matches : dropped'[x] <= latest[x]
      BY <3>1, <3>2
    <3>4. QED
      BY <2>2, <3>3, SMTT(30) DEF IInv, TypeOK, Drop, screenVars, appVars, pollerVars, historyVars
  <2>3. QED
    BY <2>1, <2>2
<1>2. UNCHANGED <<screenVars, appVars, entering, pollerVars, historyVars>>
  BY DEF AddRow, Drop
<1>3. RunInv'
  BY <1>2, RunUntouched DEF IInv, appVars
<1>4. EndInv'
  BY <1>2 DEF IInv, EndInv, BattleInv, EndedMatchStaysEnded, active, screenVars, appVars, pollerVars
<1>5. QED
  BY <1>1, <1>3, <1>4 DEF IInv

LEMMA IntervalTickStep ==
  ASSUME IInv, IntervalTick
  PROVE  IInv'
<1>1. /\ active /\ fetch' = [match |-> matchId, after |-> cursor, page |-> 0]
      /\ UNCHANGED <<serverVars, screenVars, appVars, entering, matchId, cursor, historyVars>>
  BY DEF IntervalTick
<1>2. TypeOK'
  <2>1. fetch' \in Fetch
    BY <1>1 DEF IInv, TypeOK, active, Fetch
  <2>2. QED
    BY <1>1, <2>1 DEF IInv, TypeOK, serverVars, screenVars, appVars, historyVars
<1>3. FetchInv'
  BY <1>1 DEF FetchInv
<1>4. RunInv'
  BY <1>1, <1>3 DEF IInv, RunInv, BehindCursor, DeliveredInOrder, NoSilentLoss,
                    ResyncCountsExactly, active, appVars, historyVars
<1>5. EndInv'
  BY <1>1 DEF IInv, EndInv, BattleInv, EndedMatchStaysEnded, active, screenVars, appVars
<1>6. QED
  BY <1>2, <1>4, <1>5 DEF IInv

LEMMA ReceivePageStep ==
  ASSUME IInv, ReceivePage
  PROVE  IInv'
<1>1. TypeOK'
  BY PageTypes DEF IInv
<1>2. RunInv'
  BY PageExtendsRun, PageLosesNothing, PageCounted DEF RunInv
<1>3. EndInv'
  BY DEF IInv, EndInv, BattleInv, EndedMatchStaysEnded, ReceivePage, active, screenVars
<1>4. QED
  BY <1>1, <1>2, <1>3 DEF IInv

LEMMA ReceiveNothingStep ==
  ASSUME IInv, ReceiveNothing
  PROVE  IInv'
<1>1. /\ fetch' = NoFetch
      /\ UNCHANGED <<serverVars, screenVars, appVars, entering, matchId, cursor, historyVars>>
  BY DEF ReceiveNothing
<1>2. TypeOK'
  BY <1>1 DEF IInv, TypeOK, serverVars, screenVars, appVars, historyVars
<1>3. RunInv'
  BY <1>1 DEF IInv, RunInv, FetchInv, BehindCursor, DeliveredInOrder, NoSilentLoss,
              ResyncCountsExactly, active, appVars, historyVars
<1>4. EndInv'
  BY <1>1 DEF IInv, EndInv, BattleInv, EndedMatchStaysEnded, active, screenVars, appVars
<1>5. QED
  BY <1>2, <1>3, <1>4 DEF IInv

LEMMA MatchStartStep ==
  ASSUME IInv, MatchStart
  PROVE  IInv'
<1> DEFINE m == match + 1
<1>1. /\ match' = m /\ battle' = TRUE /\ ended' = FALSE /\ performance' = m
      /\ Enter(m, FALSE) /\ PerformanceEnter(m)
      /\ UNCHANGED <<serverVars, opening, charges>>
  BY DEF MatchStart
<1>2. m \in Matches
  BY MatchAssumption DEF IInv, TypeOK, MatchStart, Matches, None
<1> HIDE DEF m
<1>3. entering' \in [Calls -> Call \cup {Idle}]
  BY <1>1, <1>2, EnterTypes DEF IInv
<1>4. CASE active /\ UNCHANGED <<pollerVars, historyVars>>
  <2>1. TypeOK'
    BY <1>1, <1>2, <1>3, <1>4 DEF IInv, TypeOK, serverVars, pollerVars, historyVars
  <2>2. RunInv'
    BY <1>1, <1>4, RunUntouched DEF IInv
  <2>3. EndInv'
    BY <1>1, <1>2 DEF EndInv, BattleInv, EndedMatchStaysEnded, Matches, None
  <2>4. QED
    BY <2>1, <2>2, <2>3 DEF IInv
<1>5. CASE Start(m, FALSE)
  <2>1. TypeOK'
    BY <1>1, <1>2, <1>3, <1>5, StartTypes DEF IInv, TypeOK, serverVars
  <2>2. RunInv'
    BY <1>2, <1>5, RunStarted
  <2>3. EndInv'
    BY <1>1, <1>2 DEF EndInv, BattleInv, EndedMatchStaysEnded, Matches, None
  <2>4. QED
    BY <2>1, <2>2, <2>3 DEF IInv
<1>6. QED
  BY <1>1, <1>4, <1>5 DEF PerformanceEnter

LEMMA FlowChangeStep ==
  ASSUME IInv, FlowChange
  PROVE  IInv'
<1>1. /\ battle /\ performance' = match /\ Enter(match, FALSE)
      /\ UNCHANGED <<serverVars, screenVars, opening, charges, pollerVars, historyVars>>
  BY DEF FlowChange
<1>2. match \in Matches
  BY <1>1 DEF IInv, TypeOK, EndInv, BattleInv
<1>3. entering' \in [Calls -> Call \cup {Idle}]
  BY <1>1, <1>2, EnterTypes DEF IInv
<1>4. TypeOK'
  BY <1>1, <1>2, <1>3 DEF IInv, TypeOK, serverVars, screenVars, pollerVars, historyVars
<1>5. RunInv'
  BY <1>1, RunUntouched DEF IInv
<1>6. EndInv'
  BY <1>1 DEF IInv, EndInv, BattleInv, EndedMatchStaysEnded, screenVars
<1>7. QED
  BY <1>4, <1>5, <1>6 DEF IInv

LEMMA LeaveBattleStep ==
  ASSUME IInv, LeaveBattle
  PROVE  IInv'
<1>1. /\ battle /\ battle' = FALSE /\ Stop
      /\ UNCHANGED <<serverVars, match, ended, appVars, entering, historyVars>>
  BY DEF LeaveBattle
<1>2. TypeOK'
  BY <1>1, StopTypes DEF IInv, TypeOK, serverVars, appVars, historyVars
<1>3. RunInv'
  BY <1>1, RunStopped DEF IInv
<1>4. EndInv'
  BY <1>1 DEF IInv, EndInv, BattleInv, EndedMatchStaysEnded
<1>5. QED
  BY <1>2, <1>3, <1>4 DEF IInv

LEMMA MatchEndStep ==
  ASSUME IInv, MatchEnd
  PROVE  IInv'
<1>1. /\ ended' = TRUE /\ battle' = FALSE /\ Stop /\ performance' = None /\ opening' = None
      /\ charges' = 0
      /\ UNCHANGED <<serverVars, match, entering, historyVars>>
  BY DEF MatchEnd
<1>2. TypeOK'
  BY <1>1, StopTypes DEF IInv, TypeOK, serverVars, historyVars
<1>3. RunInv'
  BY <1>1, RunStopped DEF IInv
<1>4. EndInv'
  BY <1>1 DEF EndInv, BattleInv, EndedMatchStaysEnded, Stop, active
<1>5. QED
  BY <1>2, <1>3, <1>4 DEF IInv

\* A call that waits for an answer has a match.
LEMMA WaitingCall ==
  ASSUME TypeOK, NEW c \in Calls, entering[c].awaits \in {"snapshot", "ticket"}
  PROVE  entering[c] \in Call /\ entering[c].match \in Matches /\ entering[c].match # None
BY DEF TypeOK, Call, Idle, Matches, None

LEMMA SnapshotDoneStep ==
  ASSUME IInv, NEW c \in Calls, SnapshotDone(c)
  PROVE  IInv'
<1>1. UNCHANGED <<serverVars, screenVars, appVars, pollerVars, historyVars>>
  BY DEF SnapshotDone
<1>2. entering' \in [Calls -> Call \cup {Idle}]
  <2>1. entering[c] \in Call
    BY WaitingCall DEF SnapshotDone, IInv
  <2>2. [entering[c] EXCEPT !.awaits = "ticket"] \in Call
    BY <2>1 DEF Call
  <2>3. QED
    BY <2>2 DEF SnapshotDone, IInv, TypeOK
<1>3. TypeOK'
  BY <1>1, <1>2, SMTT(30) DEF IInv, TypeOK, serverVars, screenVars, appVars, pollerVars,
                              historyVars
<1>4. RunInv'
  BY <1>1, RunUntouched DEF IInv, appVars
<1>5. EndInv'
  BY <1>1 DEF IInv, EndInv, BattleInv, EndedMatchStaysEnded, active, screenVars, appVars, pollerVars
<1>6. QED
  BY <1>3, <1>4, <1>5 DEF IInv

LEMMA TicketDoneStep ==
  ASSUME IInv, NEW c \in Calls, TicketDone(c)
  PROVE  IInv'
<1> DEFINE m == entering[c].match
<1>1. m \in Matches /\ m # None
  BY WaitingCall DEF TicketDone, IInv
<1>2. /\ entering' \in [Calls -> Call \cup {Idle}]
      /\ UNCHANGED <<serverVars, screenVars, performance>>
  BY DEF TicketDone, IInv, TypeOK
<1>3. opening' \in Matches \cup {None}
  BY <1>1 DEF TicketDone, IInv, TypeOK
<1>4. CASE Current(c) /\ Resync(m)
  <2>1. Start(m, TRUE) /\ charges' = 0
    BY <1>4 DEF Resync
  <2>2. TypeOK'
    BY <1>1, <1>2, <1>3, <2>1, StartTypes
       DEF IInv, TypeOK, serverVars, screenVars
  <2>3. RunInv'
    BY <1>1, <2>1, RunStarted
  <2>4. ~ended
    BY <1>1, <1>4 DEF IInv, EndInv, BattleInv, EndedMatchStaysEnded, Current
  <2>5. EndInv'
    BY <1>2, <2>4 DEF IInv, EndInv, BattleInv, EndedMatchStaysEnded, screenVars
  <2>6. QED
    BY <2>2, <2>3, <2>5 DEF IInv
<1>5. CASE UNCHANGED <<charges, pollerVars, historyVars>>
  <2>1. TypeOK'
    BY <1>2, <1>3, <1>5
       DEF IInv, TypeOK, serverVars, screenVars, pollerVars, historyVars
  <2>2. RunInv'
    BY <1>5, RunUntouched DEF IInv
  <2>3. ended => ~Current(c)
    BY <1>1 DEF IInv, EndInv, BattleInv, EndedMatchStaysEnded, Current
  <2>4. ended => opening' = opening
    BY <2>3 DEF TicketDone
  <2>5. EndInv'
    BY <1>2, <1>5, <2>4 DEF IInv, EndInv, BattleInv, EndedMatchStaysEnded, active, screenVars,
                            pollerVars
  <2>6. QED
    BY <2>1, <2>2, <2>5 DEF IInv
<1>6. QED
  BY <1>4, <1>5 DEF TicketDone

LEMMA StepInv ==
  ASSUME IInv, [Next]_vars
  PROVE  IInv'
<1>1. ASSUME NEW m \in Matches, AddRow(m) \/ Drop(m) PROVE IInv'
  BY <1>1, ServerStep
<1>2. CASE IntervalTick
  BY <1>2, IntervalTickStep
<1>3. CASE ReceivePage
  BY <1>3, ReceivePageStep
<1>4. CASE ReceiveNothing
  BY <1>4, ReceiveNothingStep
<1>5. CASE MatchStart
  BY <1>5, MatchStartStep
<1>6. CASE FlowChange
  BY <1>6, FlowChangeStep
<1>7. CASE LeaveBattle
  BY <1>7, LeaveBattleStep
<1>8. CASE MatchEnd
  BY <1>8, MatchEndStep
<1>9. ASSUME NEW c \in Calls, SnapshotDone(c) \/ TicketDone(c) PROVE IInv'
  BY <1>9, SnapshotDoneStep, TicketDoneStep
<1>10. CASE UNCHANGED vars
  <2>1. TypeOK'
    BY <1>10, SMTT(30) DEF IInv, TypeOK, vars, serverVars, screenVars, appVars, pollerVars, historyVars
  <2>2. RunInv'
    BY <1>10, RunUntouched DEF IInv, vars, appVars
  <2>3. EndInv'
    BY <1>10 DEF IInv, EndInv, BattleInv, EndedMatchStaysEnded, active, vars, screenVars, appVars,
                 pollerVars
  <2>4. QED
    BY <2>1, <2>2, <2>3 DEF IInv
<1>11. QED
  BY <1>1, <1>2, <1>3, <1>4, <1>5, <1>6, <1>7, <1>8, <1>9, <1>10 DEF Next

LEMMA InvAlways == Spec => []IInv
<1>1. IInv /\ [Next]_vars => IInv'
  BY StepInv
<1>2. QED
  BY InitInv, <1>1, PTL DEF Spec

-----------------------------------------------------------------------------
(* The properties of MatchEventsProperties *)

\* Every variable of the server, the screen and the poller stays in its set.
THEOREM TypeCorrect == Spec => []TypeOK
<1>1. IInv => TypeOK
  BY DEF IInv
<1>2. QED
  BY InvAlways, <1>1, PTL

\* Whatever fetch answers into a run, its rows are handed over in order and once.
THEOREM DeliveredInOrderHolds == Spec => []DeliveredInOrder
<1>1. IInv => DeliveredInOrder
  BY DEF IInv, RunInv
<1>2. QED
  BY InvAlways, <1>1, PTL

\* A run that started with no fetch in flight skips a row only if it called onGap.
THEOREM NoSilentLossHolds == Spec => []NoSilentLoss
<1>1. IInv => NoSilentLoss
  BY DEF IInv, RunInv
<1>2. QED
  BY InvAlways, <1>1, PTL

\* The charges are those of the rows handed over since enterBattlePerformance
\* restarted the poller.
THEOREM ResyncCountsExactlyHolds == Spec => []ResyncCountsExactly
<1>1. IInv => ResyncCountsExactly
  BY DEF IInv, RunInv
<1>2. QED
  BY InvAlways, <1>1, PTL

\* No answer still in flight brings an ended match back.
THEOREM EndedMatchStaysEndedHolds == Spec => []EndedMatchStaysEnded
<1>1. IInv => EndedMatchStaysEnded
  BY DEF IInv, EndInv
<1>2. QED
  BY InvAlways, <1>1, PTL

\* The poller and the hand turn only to the match performed.
THEOREM StaleCallsIgnoredHolds == Spec => StaleCallsIgnored
<1> DEFINE Follows == /\ matchId' \notin {matchId, None} => matchId' = performance'
                      /\ opening' \notin {opening, None} => opening' = performance'
<1>1. ASSUME IInv, [Next]_vars
      PROVE  [Follows]_vars
  <2>1. ASSUME NEW m \in Matches, AddRow(m) \/ Drop(m) PROVE Follows
    BY <2>1 DEF AddRow, Drop, appVars, pollerVars
  <2>2. CASE IntervalTick \/ ReceiveNothing
    BY <2>2 DEF IntervalTick, ReceiveNothing, appVars
  <2>3. CASE ReceivePage
    BY <2>3 DEF ReceivePage
  <2>4. CASE MatchStart
    BY <2>4 DEF MatchStart, PerformanceEnter, Start, pollerVars
  <2>5. CASE FlowChange
    BY <2>5 DEF FlowChange, pollerVars
  <2>6. CASE LeaveBattle
    BY <2>6 DEF LeaveBattle, Stop, appVars
  <2>7. CASE MatchEnd
    BY <2>7 DEF MatchEnd, Stop
  <2>8. ASSUME NEW c \in Calls, SnapshotDone(c) PROVE Follows
    BY <2>8 DEF SnapshotDone, appVars, pollerVars
  <2>9. ASSUME NEW c \in Calls, TicketDone(c) PROVE Follows
    BY <2>9 DEF TicketDone, Current, Resync, Start, pollerVars
  <2>10. QED
    BY <1>1, <2>1, <2>2, <2>3, <2>4, <2>5, <2>6, <2>7, <2>8, <2>9 DEF Next
<1>2. QED
  BY InvAlways, <1>1, PTL DEF Spec, StaleCallsIgnored

-----------------------------------------------------------------------------
(* Refinement of EventFeed *)

\* The rows of a page are the last ones up to where the cursor moves to.
LEMMA PageOfFeed ==
  ASSUME TypeOK, NEW f \in Fetch
  PROVE  \E n \in 0 .. PageEnd(f) - f.after :
           /\ PageRows(f) = Feed!RowsUpTo(f.match, PageEnd(f), n)
           /\ n < PageEnd(f) - f.after => GapSeen(f)
<1> DEFINE from == Larger(f.after, dropped[f.match])
           n    == PageEnd(f) - from
<1>1. /\ f.after \in Nat /\ f.match \in Matches
      /\ dropped[f.match] \in Nat /\ latest[f.match] \in Nat
      /\ dropped[f.match] <= latest[f.match]
  BY DEF TypeOK, Fetch
<1>2. from \in Nat /\ f.after <= from
  BY <1>1 DEF Larger
<1>3. PageEnd(f) \in Nat /\ from <= PageEnd(f)
  BY <1>1, PageAssumption DEF PageEnd, Larger, Smaller
<1>4. from # f.after => GapSeen(f)
  BY <1>1 DEF GapSeen, OldestCursor, Larger
<1>5. PageRows(f) = [i \in 1 .. n |-> [match |-> f.match, seq |-> from + i]]
  BY DEF PageRows
<1> HIDE DEF from
<1>6. \A i \in 1 .. n : from + i = PageEnd(f) - n + i
  BY <1>2, <1>3
<1>7. PageRows(f) = Feed!RowsUpTo(f.match, PageEnd(f), n)
  BY <1>5, <1>6 DEF Feed!RowsUpTo
<1>8. n \in 0 .. PageEnd(f) - f.after /\ (n < PageEnd(f) - f.after => GapSeen(f))
  BY <1>1, <1>2, <1>3, <1>4
<1>9. QED
  BY <1>7, <1>8

\* A step that leaves the poller and what it handed over alone.
LEMMA FeedUntouched ==
  ASSUME UNCHANGED <<pollerVars, historyVars>>
  PROVE  UNCHANGED Feed!vars
BY DEF pollerVars, historyVars, Feed!vars, Owed, active

\* start begins a run of the feed.
LEMMA StartBegins ==
  ASSUME NEW m \in Matches, NEW zeroed \in BOOLEAN, Start(m, zeroed)
  PROVE  Feed!Begin
<1>1. Owed' \in BOOLEAN
  BY DEF Owed
<1>2. matchId' = m /\ cursor' = 0 /\ delivered' = <<>> /\ gapInRun' = FALSE
  BY DEF Start
<1>3. QED
  BY <1>1, <1>2 DEF Feed!Begin

\* stop ends it.
LEMMA StopEnds ==
  ASSUME Stop, UNCHANGED historyVars
  PROVE  Feed!End
<1>1. matchId' = None /\ UNCHANGED <<cursor, delivered, gapInRun>>
  BY DEF Stop, historyVars
<1>2. ~Owed'
  BY <1>1 DEF Owed, active
<1>3. QED
  BY <1>1, <1>2 DEF Feed!End

\* The interval's poll asks for what follows the cursor.
LEMMA TickStutters ==
  ASSUME IntervalTick
  PROVE  UNCHANGED Feed!vars
<1>1. fetch = NoFetch /\ fetch'.match = matchId' /\ fetch'.after = cursor'
  BY DEF IntervalTick
<1>2. Owed = FALSE /\ Owed' = FALSE
  BY <1>1 DEF Owed
<1>3. UNCHANGED <<matchId, cursor, delivered, gapInRun>>
  BY DEF IntervalTick, historyVars
<1>4. QED
  BY <1>2, <1>3 DEF Feed!vars

\* A page is the next of the run, or the one owed to an earlier run.
LEMMA ReceiveGivesPage ==
  ASSUME IInv, ReceivePage
  PROVE  Feed!Page \/ Feed!LatePage
<1>1. /\ TypeOK /\ TypeOK' /\ active /\ fetch \in Fetch /\ fetch # NoFetch
      /\ fetch.match \in Matches /\ fetch.after \in Nat
  BY PageTypes DEF IInv, TypeOK, ReceivePage, Fetch
<1>2. PICK n \in 0 .. PageEnd(fetch) - fetch.after :
        /\ PageRows(fetch) = Feed!RowsUpTo(fetch.match, PageEnd(fetch), n)
        /\ n < PageEnd(fetch) - fetch.after => GapSeen(fetch)
  BY <1>1, PageOfFeed
<1>3. PageEnd(fetch) \in Nat /\ fetch.after <= PageEnd(fetch) /\ PageRows(fetch) \in Seq(Row)
  BY <1>1, PageFacts
<1>4. /\ cursor' = PageEnd(fetch) /\ delivered' = delivered \o PageRows(fetch)
      /\ fetch' = Drain(fetch) /\ matchId' = matchId
  BY DEF ReceivePage
<1>5. (GapSeen(fetch) => gapInRun') /\ (gapInRun => gapInRun') /\ gapInRun' \in BOOLEAN
  BY <1>1 DEF ReceivePage, Gap, TypeOK
<1>6. Owed' = FALSE
  BY <1>4 DEF Owed, Drain
<1>7. matchId # None
  BY <1>1 DEF active
<1>8. CASE fetch.match = matchId /\ fetch.after = cursor
  <2>1. Owed = FALSE
    BY <1>8 DEF Owed
  <2>2. cursor' >= cursor /\ n \in 0 .. cursor' - cursor
    BY <1>1, <1>3, <1>4, <1>8
  <2>3. delivered' = delivered \o Feed!RowsUpTo(matchId, cursor', n)
    BY <1>2, <1>4, <1>8
  <2>4. n < cursor' - cursor => gapInRun'
    BY <1>2, <1>4, <1>5, <1>8
  <2>5. Feed!Page
    BY <1>4, <1>5, <1>6, <1>7, <2>1, <2>2, <2>3, <2>4 DEF Feed!Page
  <2>6. QED
    BY <2>5
<1>9. CASE ~(fetch.match = matchId /\ fetch.after = cursor)
  <2>1. Owed
    BY <1>1, <1>9 DEF Owed
  <2>2. delivered = <<>>
    BY <1>1, <1>9 DEF IInv, RunInv, FetchInv
  <2>3. delivered' = PageRows(fetch)
    BY <1>3, <1>4, <2>2
  <2>4. delivered' = Feed!RowsUpTo(fetch.match, cursor', n)
    BY <1>2, <1>4, <2>3
  <2>5. n \in 0 .. cursor' /\ cursor' >= 0
    BY <1>1, <1>3, <1>4
  <2>6. Feed!LatePage
    BY <1>1, <1>4, <1>5, <1>6, <1>7, <2>1, <2>2, <2>4, <2>5 DEF Feed!LatePage
  <2>7. QED
    BY <2>6
<1>10. QED
  BY <1>8, <1>9

\* A fetch that brings no page loses the page it owed, if any.
LEMMA ReceiveNothingLoses ==
  ASSUME ReceiveNothing
  PROVE  Feed!PageLost \/ UNCHANGED Feed!vars
<1>1. UNCHANGED <<matchId, cursor, delivered, gapInRun>>
  BY DEF ReceiveNothing, historyVars
<1>2. ~Owed'
  BY DEF ReceiveNothing, Owed
<1>3. CASE Owed
  BY <1>1, <1>2, <1>3 DEF Feed!PageLost
<1>4. CASE ~Owed
  BY <1>1, <1>2, <1>4 DEF Feed!vars, Owed
<1>5. QED
  BY <1>3, <1>4

\* The poller, the application around it and the server's losses implement the
\* feed of EventFeed: a run gets the rows of its match from the beginning, in order
\* and each once, and is told when some are missing; only the page an earlier run
\* left in flight disturbs it, before its first row.
THEOREM FeedImplemented == Spec => ImplementsFeed
<1>1. Init => Feed!Init
  BY DEF Init, Feed!Init, Owed, active
<1>2. ASSUME IInv, [Next]_vars PROVE [Feed!Next]_(Feed!vars)
  <2>1. ASSUME NEW m \in Matches, AddRow(m) \/ Drop(m) PROVE UNCHANGED Feed!vars
    BY <2>1, FeedUntouched DEF AddRow, Drop
  <2>2. CASE IntervalTick
    BY <2>2, TickStutters
  <2>3. CASE ReceivePage
    BY <1>2, <2>3, ReceiveGivesPage DEF Feed!Next
  <2>4. CASE ReceiveNothing
    BY <2>4, ReceiveNothingLoses DEF Feed!Next
  <2>5. CASE MatchStart
    <3>1. match' \in Matches /\ PerformanceEnter(match')
      BY <1>2, <2>5, MatchAssumption DEF IInv, TypeOK, MatchStart, Matches, None
    <3>2. CASE Start(match', FALSE)
      BY <3>1, <3>2, StartBegins DEF Feed!Next
    <3>3. CASE UNCHANGED <<pollerVars, historyVars>>
      BY <3>3, FeedUntouched
    <3>4. QED
      BY <3>1, <3>2, <3>3 DEF PerformanceEnter
  <2>6. CASE FlowChange
    BY <2>6, FeedUntouched DEF FlowChange
  <2>7. CASE LeaveBattle \/ MatchEnd
    BY <2>7, StopEnds DEF LeaveBattle, MatchEnd, Feed!Next
  <2>8. ASSUME NEW c \in Calls, SnapshotDone(c) PROVE UNCHANGED Feed!vars
    BY <2>8, FeedUntouched DEF SnapshotDone
  <2>9. ASSUME NEW c \in Calls, TicketDone(c) PROVE [Feed!Next]_(Feed!vars)
    <3>1. entering[c].match \in Matches
      BY <1>2, <2>9, WaitingCall DEF TicketDone, IInv
    <3>2. CASE Start(entering[c].match, TRUE)
      BY <3>1, <3>2, StartBegins DEF Feed!Next
    <3>3. CASE UNCHANGED <<pollerVars, historyVars>>
      BY <3>3, FeedUntouched
    <3>4. QED
      BY <2>9, <3>2, <3>3 DEF TicketDone, Resync
  <2>10. CASE UNCHANGED vars
    BY <2>10, FeedUntouched DEF vars
  <2>11. QED
    BY <1>2, <2>1, <2>2, <2>3, <2>4, <2>5, <2>6, <2>7, <2>8, <2>9, <2>10 DEF Next
<1>3. QED
  BY <1>1, <1>2, InvAlways, PTL DEF Spec, ImplementsFeed, Feed!Spec
=============================================================================
