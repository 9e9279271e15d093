--------------------------- MODULE MCMatchEvents ---------------------------
\* MatchEvents on two matches: the first with a backlog of several pages.
EXTENDS MatchEventsProperties

CONSTANTS FirstRows, LaterRows

MCMaxSeq == [m \in Matches |-> IF m = 1 THEN FirstRows ELSE LaterRows]
=============================================================================
