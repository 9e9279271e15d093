--------------------------- MODULE SerialNumbers ---------------------------
(***************************************************************************)
(* The numbers of ikcp.ts, which live in 32 bits and are compared by the   *)
(* sign of their signed difference.  The width is a parameter: Half is     *)
(* 2^31 in the code.                                                       *)
(***************************************************************************)
EXTENDS Integers

CONSTANT Half     \* half the number of sequence numbers there are

ASSUME HalfAssumption == Half \in Nat \ {0}

Space == 2 * Half

\* n >>> 0, as a number is advanced and put into a segment.
Unsigned(n) == n % Space

\* n | 0
Signed(n) == IF Unsigned(n) < Half THEN Unsigned(n) ELSE Unsigned(n) - Space

itimediff(later, earlier) == Signed(later - earlier)

\* What a comparison of the code makes of two numbers, the second moved on by
\* an offset (snd_una + cwnd, rcv_nxt + rcv_wnd), is what the naturals say that
\* they stand for.
ComparesAsNaturals(later, earlier, offset) ==
  itimediff(Unsigned(later), Unsigned(earlier) + offset) = later - (earlier + offset)
=============================================================================
