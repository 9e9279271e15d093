------------------------- MODULE BossRaceProperties -------------------------
(***************************************************************************)
(* What the rules of the race guarantee over a whole match.                *)
(***************************************************************************)
EXTENDS BossRace

\* Every variable stays in its set, and a player is alive who has a life left.
TypeOK ==
  /\ danmaku \in BOOLEAN
  /\ joined \subseteq Players
  /\ players \in [Players -> Player]
  /\ pending \subseteq Input
  /\ tick \in Nat
  /\ state \in {"waiting", "running", "finished"}
  /\ winner \in Players \cup {None}
  /\ hitAt \in [Players -> Nat \cup {None}]
  /\ played \in [Players -> [Cards -> Nat]]
  /\ \A p \in Players : players[p].alive <=> players[p].lives > 0

\* How often card is in hand, and among the first n cards of the rotating deck.
InHand(hand, card) == Cardinality({i \in DOMAIN hand : hand[i] = card})
Drawn(deck, n, card) ==
  Cardinality({i \in 0 .. n - 1 : deck[(i % Len(deck)) + 1] = card})

\* The cards of the hand of q and those it played are those drawn from its deck.
CardsBalanced(q, plays) ==
  \A c \in Cards : InHand(q.hand, c) + plays[c] = Drawn(q.deck, q.cursor, c)

\* The energy of q and what it played cost no more than it was given in n ticks, but
\* for the slack of each cast.
Spent(plays) == FoldFunction(+, 0, [c \in Cards |-> plays[c] * Cost[c]])
EnergyBalanced(q, plays, n) ==
  q.energy + Spent(plays)
    <= OpeningEnergy + n * EnergyPerTick + FoldFunction(+, 0, plays) * Slack

\* Every card a player has cast or holds was drawn from the deck, and every card
\* drawn was cast or is held; and no card is cast that was not paid for, but for the
\* slack of each cast (applyCast, drawServerCard, accrueCardEnergy over a match).
LedgerBalanced ==
  \A p \in joined : players[p].deck # <<>> =>
    /\ CardsBalanced(players[p], played[p])
    /\ EnergyBalanced(players[p], played[p], tick)

\* Two hits of a player are further apart than the time to recover, whatever bombs and
\* cards are used in between: each of the three writes invulnerableUntilTick anew
\* (judgePlayerContacts, applyPlayerTick, applyInvulnerable).
HitsSpaced ==
  [][\A p \in Players :
       hitAt'[p] # hitAt[p] /\ hitAt[p] # None => hitAt'[p] > hitAt[p] + HitTicks]_vars

=============================================================================
