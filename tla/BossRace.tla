------------------------------ MODULE BossRace ------------------------------
(***************************************************************************)
(* The rules of the race, BossRaceSimulation (boss_race.ts) with the hands *)
(* of card_hand.ts: inputs buffered for their tick, the tick with its      *)
(* casts, bombs, shots and hits, and its end.                              *)
(*                                                                         *)
(* The simulation is driven through its methods, as by its tests and by a  *)
(* server; the client, which gets hands and corrections from snapshots, is *)
(* in Prediction.  Positions and bullets are left out: whether a bullet    *)
(* touches a ship is a choice of each tick, so cards that only clear or    *)
(* fire bullets do no more than their damage.  Scores, graze and the       *)
(* numbers of inputs are left out, an input being one that is not refused  *)
(* for its number.  Tickets of one match carry one seed.                   *)
(***************************************************************************)
EXTENDS Integers, Sequences, SequencesExt

CONSTANTS
  Players,       \* ids, in the order of sortedPlayerIds
  MinPlayers,    \* BOSS_RACE_MIN_PLAYERS
  Cards,         \* the catalogue
  Blank,         \* a card id that is blank
  Unknown,       \* a card id in no catalogue
  Guards,        \* the cards of kind "invulnerable"
  Cost, Cooldown, Duration, Damage,  \* of each card; energy in some unit
  HandLimit, MaxEnergy, EnergyPerTick,
  Slack,         \* the epsilon of validateCast
  Decks, OpeningEnergy,  \* what the tickets may say
  HitTicks,      \* DANMAKU_INVULNERABLE_TICKS
  Lives, Bombs, BossHp, ShotDamage, BombDamage,
  Window,        \* how far ahead an input may be
  Controls,      \* what an input may ask for
  MaxTick        \* bound: ticks of a behaviour

\* What a deck may name, and so a hand hold.
Ids == Cards \cup {Blank, Unknown}

ASSUME PlayersAssumption == Players \subseteq Nat /\ IsFiniteSet(Players)
ASSUME CatalogueAssumption ==
  /\ IsFiniteSet(Cards) /\ Blank \notin Cards /\ Unknown \notin Cards \cup {Blank}
  /\ Guards \subseteq Cards
  /\ {Cost, Cooldown, Duration, Damage} \subseteq [Cards -> Nat]
  /\ Decks \subseteq Seq(Ids) \ {<<>>}
\* BASE_, NEW_ and EXPANSION_CARD_EFFECTS: aegis_ward lasts 180 ticks, iron_veil 120.
ASSUME GuardAssumption == \A c \in Guards : Duration[c] >= HitTicks
ASSUME NumbersAssumption ==
  /\ {MinPlayers, HandLimit, MaxEnergy, EnergyPerTick, Slack, OpeningEnergy,
      HitTicks, Bombs, ShotDamage, BombDamage, Window, MaxTick} \subseteq Nat
  /\ OpeningEnergy <= MaxEnergy
  /\ Lives \in Nat \ {0} /\ BossHp \in Nat \ {0}
ASSUME ControlsAssumption ==
  Controls \subseteq [slot : Nat, shoot : BOOLEAN, bomb : BOOLEAN]

VARIABLES
  danmaku,       \* danmakuMechanics
  joined,        \* the keys of players
  players,       \* players, of those that joined
  pending,       \* pendingInputsByTick
  tick,          \* currentTick
  state,         \* state
  winner,        \* winnerPlayerId
  hitAt,         \* history: the tick at which each player was last hit
  played         \* history: how often each player cast each card

raceVars == <<danmaku, joined, players, pending, tick, state, winner>>
vars == <<danmaku, joined, players, pending, tick, state, winner, hitAt, played>>

None == -1
\* Slot 0 stands for the card slot -1, which asks for no card.
Control == [slot : Nat, shoot : BOOLEAN, bomb : BOOLEAN]
Idle == [slot |-> 0, shoot |-> FALSE, bomb |-> FALSE]
Input == [player : Players, tick : Nat, control : Control]

Player ==
  [connected : BOOLEAN, last : Control, alive : BOOLEAN,
   hand : Seq(Ids), deck : Seq(Ids), cursor : Nat,
   energy : 0 .. MaxEnergy, ready : [Cards -> Nat],
   until : Nat, lives : 0 .. Lives, bombs : 0 .. Bombs, hp : 0 .. BossHp]

NewPlayer ==
  [connected |-> TRUE, last |-> Idle, alive |-> TRUE,
   hand |-> <<>>, deck |-> <<>>, cursor |-> 0,
   energy |-> 0, ready |-> [c \in Cards |-> 0],
   until |-> 0, lives |-> Lives, bombs |-> Bombs, hp |-> BossHp]

Init ==
  /\ danmaku \in BOOLEAN
  /\ joined = {}
  /\ players = [p \in Players |-> NewPlayer]
  /\ pending = {}
  /\ tick = 0
  /\ state = "waiting"
  /\ winner = None
  /\ hitAt = [p \in Players |-> None]
  /\ played = [p \in Players |-> [c \in Cards |-> 0]]

-----------------------------------------------------------------------------
(* Pieces of a tick, on the state q of one player *)

Smaller(m, n) == IF m < n THEN m ELSE n

\* Mutant: not stopped at zero.
LessUnclamped(n, d) == n - d

Less(n, d) == IF n > d THEN n - d ELSE 0

\* Mutant: the cursor is moved before it is read.
DrawAhead(q) ==
  LET card == q.deck[((q.cursor + 1) % Len(q.deck)) + 1] IN
  IF Len(q.hand) >= HandLimit \/ q.deck = <<>> THEN q
  ELSE [q EXCEPT !.cursor = @ + 1,
                 !.hand = IF card = Blank THEN @ ELSE Append(@, card)]

\* drawServerCard: a blank is passed over; an id in no catalogue is held as any other.
Draw(q) ==
  LET card == q.deck[(q.cursor % Len(q.deck)) + 1] IN
  IF Len(q.hand) >= HandLimit \/ q.deck = <<>> THEN q
  ELSE [q EXCEPT !.cursor = @ + 1,
                 !.hand = IF card = Blank THEN @ ELSE Append(@, card)]

\* validateCast, of a slot that asks for a card.
Castable(q, slot, t) ==
  /\ slot \in DOMAIN q.hand
  /\ q.hand[slot] \in Cards
  /\ t >= q.ready[q.hand[slot]]
  /\ q.energy + Slack >= Cost[q.hand[slot]]

\* applyCast
ApplyCast(q, slot, t) ==
  LET card == q.hand[slot] IN
  Draw([q EXCEPT !.energy = Less(@, Cost[card]),
                 !.ready[card] = t + Cooldown[card],
                 !.hand = RemoveAt(@, slot)])

\* executeCastCard with the ledger's part of runCardEffect; a dead player casts too.
ExecuteCast(q, slot, t) ==
  LET card == q.hand[slot] IN
  IF Castable(q, slot, t)
  THEN [ApplyCast(q, slot, t) EXCEPT
          !.hp = Less(@, Damage[card]),
          !.until = IF card \in Guards THEN t + Duration[card] ELSE @]
  ELSE q

Bomb(q, control, t) ==
  IF danmaku /\ control.bomb /\ q.bombs > 0 /\ q.alive
  THEN [q EXCEPT !.bombs = @ - 1, !.until = t + HitTicks]
  ELSE q

\* Only without the danmaku mechanics; with them the server says what was hit.
Shoot(q, control) ==
  IF danmaku \/ ~q.alive THEN q
  ELSE [q EXCEPT !.hp = Less(@, (IF control.shoot THEN ShotDamage ELSE 0)
                                + (IF control.bomb THEN BombDamage ELSE 0))]

\* The inputs of this tick; without one of their own the last is held, but its card.
Arrived(p, t) == {i \in pending : i.player = p /\ i.tick = t}

Held(p, t) ==
  IF Arrived(p, t) = {} THEN [players[p].last EXCEPT !.slot = 0]
  ELSE (CHOOSE i \in Arrived(p, t) : TRUE).control

\* What the player has as its cast is looked at.
BeforeCast(p, t) ==
  LET q == players[p]
      control == Held(p, t)
      last == IF Arrived(p, t) = {} THEN q.last ELSE control
  IN Shoot(Bomb([q EXCEPT !.last = last,
                          !.energy = Smaller(MaxEnergy, @ + EnergyPerTick)],
                control, t), control)

Casts(p, t) ==
  /\ p \in joined /\ players[p].connected
  /\ Held(p, t).slot # 0
  /\ Castable(BeforeCast(p, t), Held(p, t).slot, t)

\* applyPlayerTick
ApplyPlayer(p, t) ==
  IF p \in joined /\ players[p].connected
  THEN ExecuteCast(BeforeCast(p, t), Held(p, t).slot, t)
  ELSE players[p]

Hittable(p, q, t) == danmaku /\ p \in joined /\ q.connected /\ q.alive /\ t > q.until

\* Mutant: a hit gives no time to recover.
JudgeAtOnce(p, q, t) ==
  [q EXCEPT !.lives = Less(@, 1), !.until = t, !.alive = Less(q.lives, 1) > 0]

\* judgePlayerContacts, for a player that a bullet touches.
Judge(p, q, t) ==
  [q EXCEPT !.lives = Less(@, 1), !.until = t + HitTicks, !.alive = Less(q.lives, 1) > 0]

-----------------------------------------------------------------------------
(* The methods *)

AddPlayer(p) ==
  /\ p \notin joined
  /\ joined' = joined \cup {p}
  /\ UNCHANGED <<danmaku, players, pending, tick, state, winner, hitAt, played>>

SetPlayerConnected(p, connected) ==
  /\ p \in joined
  /\ players[p].connected # connected
  /\ players' = [players EXCEPT ![p].connected = connected]
  /\ UNCHANGED <<danmaku, joined, pending, tick, state, winner, hitAt, played>>

\* A ticket is taken once, before the race; its hand is the first cards of its deck.
SeedPlayerHand(p, deck) ==
  /\ p \in joined
  /\ state = "waiting"
  /\ players[p].deck = <<>>
  /\ players' = [players EXCEPT
       ![p].hand = SubSeq(deck, 1, Smaller(HandLimit, Len(deck))),
       ![p].deck = deck,
       ![p].cursor = Smaller(HandLimit, Len(deck)),
       ![p].energy = OpeningEnergy,
       ![p].ready = [c \in Cards |-> 0],
       ![p].until = 0]
  /\ UNCHANGED <<danmaku, joined, pending, tick, state, winner, hitAt, played>>

\* A later input for the same tick replaces the one there.
SubmitInput(p, control, t) ==
  /\ state # "finished"
  /\ p \in joined /\ players[p].connected
  /\ tick < t /\ t <= tick + Window /\ t <= MaxTick
  /\ pending' = (pending \ Arrived(p, t))
                  \cup {[player |-> p, tick |-> t, control |-> control]}
  /\ UNCHANGED <<danmaku, joined, players, tick, state, winner, hitAt, played>>

\* startIfReady: too few players, and the tick only counts.
WaitingTick ==
  /\ state = "waiting"
  /\ Cardinality(joined) < MinPlayers
  /\ tick < MaxTick
  /\ tick' = tick + 1
  /\ UNCHANGED <<danmaku, joined, players, pending, state, winner, hitAt, played>>

\* tick with startIfReady, where bullets touch the players of touched.
Tick(touched) ==
  LET t == tick + 1
      hit == {p \in touched : Hittable(p, ApplyPlayer(p, t), t)}
      after == [p \in Players |-> IF p \in hit THEN Judge(p, ApplyPlayer(p, t), t)
                                  ELSE ApplyPlayer(p, t)]
      beaten == {p \in joined : after[p].hp = 0}
  IN
  /\ state = "running" \/ (state = "waiting" /\ Cardinality(joined) >= MinPlayers)
  /\ tick < MaxTick
  /\ players' = after
  /\ pending' = {i \in pending : i.tick # t}
  /\ IF beaten = {}
     THEN state' = "running" /\ UNCHANGED winner
     ELSE /\ state' = "finished"
          /\ winner' \in {p \in beaten : \A o \in beaten : p <= o}
  /\ tick' = t
  /\ hitAt' = [p \in Players |-> IF p \in hit THEN t ELSE hitAt[p]]
  /\ played' = [p \in Players |->
       [c \in Cards |->
          IF Casts(p, t) /\ c = players[p].hand[Held(p, t).slot]
          THEN played[p][c] + 1 ELSE played[p][c]]]
  /\ UNCHANGED <<danmaku, joined>>

Next ==
  \/ \E p \in Players : AddPlayer(p)
  \/ \E p \in Players, connected \in BOOLEAN : SetPlayerConnected(p, connected)
  \/ \E p \in Players, deck \in Decks : SeedPlayerHand(p, deck)
  \/ \E p \in Players, control \in Controls, ahead \in 1 .. Window :
       SubmitInput(p, control, tick + ahead)
  \/ WaitingTick
  \/ \E touched \in SUBSET joined : Tick(touched)

Spec == Init /\ [][Next]_vars
=============================================================================
