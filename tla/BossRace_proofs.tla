-------------------------- MODULE BossRace_proofs --------------------------
(***************************************************************************)
(* Proofs about BossRace, for any players, catalogue and numbers.  A tick  *)
(* treats each player alone, so the lemmas follow one player through its   *)
(* pieces.  Recovers says what each may do to the time a player is         *)
(* invulnerable for: leave it, or set it at least HitTicks ahead; that     *)
(* keeps it HitTicks past the last hit, which is what spaces the hits.     *)
(* Ledger is the same for cards and energy: each piece of a tick that casts*)
(* or draws a card books it on both sides.                                 *)
(***************************************************************************)
EXTENDS BossRaceProperties, Induction, TLAPS, SequenceTheorems, FunctionTheorems

Good(q) == q \in Player /\ (q.alive <=> q.lives > 0)
Recovers(q, r, t) == r.until = q.until \/ r.until >= t + HitTicks

LEMMA Numbers ==
  /\ MaxEnergy \in Nat /\ EnergyPerTick \in Nat /\ OpeningEnergy \in 0 .. MaxEnergy
  /\ HandLimit \in Nat /\ HitTicks \in Nat /\ Window \in Nat
  /\ Lives \in Nat \ {0} /\ Bombs \in Nat /\ BossHp \in Nat \ {0}
  /\ ShotDamage \in Nat /\ BombDamage \in Nat
BY NumbersAssumption

LEMMA Catalogue ==
  ASSUME NEW card \in Cards
  PROVE  /\ Cost[card] \in Nat /\ Cooldown[card] \in Nat
         /\ Duration[card] \in Nat /\ Damage[card] \in Nat
<1>1. /\ Cost \in [Cards -> Nat] /\ Cooldown \in [Cards -> Nat]
      /\ Duration \in [Cards -> Nat] /\ Damage \in [Cards -> Nat]
  BY CatalogueAssumption
<1> QED
  BY <1>1

LEMMA LessType ==
  ASSUME NEW n \in Nat, NEW d \in Nat
  PROVE  Less(n, d) \in 0 .. n
BY DEF Less

LEMMA RemoveAtType ==
  ASSUME NEW S, NEW s \in Seq(S), NEW i \in DOMAIN s
  PROVE  RemoveAt(s, i) \in Seq(S)
<1>1. i \in 1 .. Len(s) /\ Len(s) \in Nat
  BY LenProperties
<1>2. \A j \in 1 .. Len(s) : s[j] \in S
  BY ElementOfSeq
<1>3. SubSeq(s, 1, i - 1) \in Seq(S)
  <2>1. \A j \in 1 .. i - 1 : s[j] \in S
    BY <1>1, <1>2
  <2> QED
    BY <1>1, <2>1, SubSeqProperties
<1>4. SubSeq(s, i + 1, Len(s)) \in Seq(S)
  <2>1. \A j \in i + 1 .. Len(s) : s[j] \in S
    BY <1>1, <1>2
  <2> QED
    BY <1>1, <2>1, SubSeqProperties
<1> QED
  BY <1>3, <1>4, ConcatProperties DEF RemoveAt

LEMMA DrawGood ==
  ASSUME NEW q \in Player
  PROVE  /\ Draw(q) \in Player
         /\ Draw(q).alive = q.alive /\ Draw(q).lives = q.lives
         /\ Draw(q).until = q.until
<1> DEFINE card == q.deck[(q.cursor % Len(q.deck)) + 1]
           hand == IF card = Blank THEN q.hand ELSE Append(q.hand, card)
<1>1. CASE Len(q.hand) >= HandLimit \/ q.deck = <<>>
  BY <1>1 DEF Draw
<1>2. CASE ~(Len(q.hand) >= HandLimit \/ q.deck = <<>>)
  <2>1. q.hand \in Seq(Ids) /\ q.deck \in Seq(Ids) /\ q.cursor \in Nat
    BY DEF Player
  <2>2. Len(q.deck) \in Nat \ {0}
    BY <1>2, <2>1, EmptySeq, LenProperties
  <2>3. (q.cursor % Len(q.deck)) + 1 \in 1 .. Len(q.deck)
    BY <2>1, <2>2
  <2>4. card \in Ids
    BY <2>1, <2>3, ElementOfSeq
  <2> HIDE DEF card
  <2>5. hand \in Seq(Ids)
    BY <2>1, <2>4, AppendProperties
  <2> HIDE DEF hand
  <2>6. Draw(q) = [q EXCEPT !.cursor = @ + 1, !.hand = hand]
    BY <1>2 DEF Draw, hand, card
  <2>7. q.cursor + 1 \in Nat
    BY <2>1
  <2>8. Draw(q) \in Player
    BY <2>5, <2>6, <2>7 DEF Player
  <2>9. /\ Draw(q).alive = q.alive /\ Draw(q).lives = q.lives
        /\ Draw(q).until = q.until
    BY <2>6 DEF Player
  <2> QED
    BY <2>8, <2>9
<1> QED
  BY <1>1, <1>2

LEMMA ApplyCastGood ==
  ASSUME NEW q \in Player, NEW slot \in DOMAIN q.hand, q.hand[slot] \in Cards, NEW t \in Nat
  PROVE  LET r == ApplyCast(q, slot, t) IN
         /\ r \in Player
         /\ r.alive = q.alive /\ r.lives = q.lives /\ r.until = q.until
<1> DEFINE card == q.hand[slot]
           paid == [q EXCEPT !.energy = Less(@, Cost[card]),
                             !.ready[card] = t + Cooldown[card],
                             !.hand = RemoveAt(@, slot)]
<1>1. q.hand \in Seq(Ids) /\ q.energy \in 0 .. MaxEnergy
      /\ q.ready \in [Cards -> Nat]
  BY DEF Player
<1>2. card \in Cards
  OBVIOUS
<1> HIDE DEF card
<1>3. Cost[card] \in Nat /\ Cooldown[card] \in Nat
  BY <1>2, Catalogue
<1>4. Less(q.energy, Cost[card]) \in 0 .. MaxEnergy
  BY <1>1, <1>3, Numbers DEF Less
<1>5. RemoveAt(q.hand, slot) \in Seq(Ids)
  BY <1>1, RemoveAtType
<1>6. [q.ready EXCEPT ![card] = t + Cooldown[card]] \in [Cards -> Nat]
  BY <1>1, <1>2, <1>3
<1>7. paid \in Player /\ paid.alive = q.alive /\ paid.lives = q.lives /\ paid.until = q.until
  BY <1>4, <1>5, <1>6 DEF Player
<1>8. ApplyCast(q, slot, t) = Draw(paid)
  BY DEF ApplyCast, card
<1> HIDE DEF paid
<1> QED
  BY <1>7, <1>8, DrawGood

LEMMA ExecuteCastGood ==
  ASSUME NEW q, Good(q), NEW slot \in Nat, NEW t \in Nat
  PROVE  /\ Good(ExecuteCast(q, slot, t))
         /\ Recovers(q, ExecuteCast(q, slot, t), t)
<1> DEFINE card == q.hand[slot]
           r == ApplyCast(q, slot, t)
<1>1. CASE ~Castable(q, slot, t)
  BY <1>1 DEF ExecuteCast, Recovers
<1>2. CASE Castable(q, slot, t)
  <2>1. q \in Player /\ q.hand \in Seq(Ids)
    BY DEF Good, Player
  <2>2. card \in Cards
    BY <1>2 DEF Castable
  <2>3. r \in Player /\ r.alive = q.alive /\ r.lives = q.lives /\ r.until = q.until
    BY <1>2, <2>1, ApplyCastGood DEF Castable
  <2> HIDE DEF r
  <2>4. ExecuteCast(q, slot, t) =
          [r EXCEPT !.hp = Less(@, Damage[card]),
                    !.until = IF card \in Guards THEN t + Duration[card] ELSE @]
    BY <1>2 DEF ExecuteCast, r
  <2> HIDE DEF card
  <2>5. r.hp \in 0 .. BossHp /\ r.until \in Nat
    BY <2>3 DEF Player
  <2>6. Less(r.hp, Damage[card]) \in 0 .. BossHp
    BY <2>2, <2>5, Catalogue, Numbers DEF Less
  <2>7. Duration[card] \in Nat /\ (card \in Guards => Duration[card] >= HitTicks) /\ HitTicks \in Nat
    BY <2>2, Catalogue, GuardAssumption, Numbers
  <2> DEFINE hp == Less(r.hp, Damage[card])
             until == IF card \in Guards THEN t + Duration[card] ELSE r.until
  <2>8. until \in Nat /\ (until = q.until \/ until >= t + HitTicks)
    BY <2>3, <2>5, <2>7
  <2>9. ExecuteCast(q, slot, t) = [r EXCEPT !.hp = hp, !.until = until]
    BY <2>4
  <2>10. hp \in 0 .. BossHp
    BY <2>6
  <2> HIDE DEF hp, until
  <2>11. ExecuteCast(q, slot, t) \in Player
    BY <2>3, <2>8, <2>9, <2>10 DEF Player
  <2>12. /\ ExecuteCast(q, slot, t).alive = r.alive /\ ExecuteCast(q, slot, t).lives = r.lives
         /\ ExecuteCast(q, slot, t).until = until
    BY <2>3, <2>9 DEF Player
  <2> QED
    BY <2>3, <2>8, <2>11, <2>12 DEF Good, Recovers
<1> QED
  BY <1>1, <1>2

LEMMA BombGood ==
  ASSUME NEW q, Good(q), NEW control, NEW t \in Nat
  PROVE  Good(Bomb(q, control, t)) /\ Recovers(q, Bomb(q, control, t), t)
<1> DEFINE r == [q EXCEPT !.bombs = @ - 1, !.until = t + HitTicks]
<1>1. CASE danmaku /\ control.bomb /\ q.bombs > 0 /\ q.alive
  <2>1. q.bombs - 1 \in 0 .. Bombs /\ t + HitTicks \in Nat
    BY <1>1, Numbers DEF Good, Player
  <2>2. r \in Player
    BY <2>1 DEF Good, Player
  <2>3. r.alive = q.alive /\ r.lives = q.lives /\ r.until = t + HitTicks
    BY DEF Good, Player
  <2>4. Bomb(q, control, t) = r
    BY <1>1 DEF Bomb
  <2> HIDE DEF r
  <2> QED
    BY <2>1, <2>2, <2>3, <2>4 DEF Good, Recovers
<1>2. CASE ~(danmaku /\ control.bomb /\ q.bombs > 0 /\ q.alive)
  BY <1>2 DEF Bomb, Recovers
<1> QED
  BY <1>1, <1>2

LEMMA ShootGood ==
  ASSUME NEW q, Good(q), NEW control \in Control
  PROVE  Good(Shoot(q, control)) /\ Shoot(q, control).until = q.until
<1> DEFINE d == (IF control.shoot THEN ShotDamage ELSE 0) + (IF control.bomb THEN BombDamage ELSE 0)
<1>1. d \in Nat
  BY Numbers
<1>2. Shoot(q, control) = IF danmaku \/ ~q.alive THEN q ELSE [q EXCEPT !.hp = Less(@, d)]
  BY DEF Shoot
<1> HIDE DEF d
<1>3. Less(q.hp, d) \in 0 .. BossHp
  BY <1>1, Numbers, SMTT(40) DEF Less, Good, Player
<1> QED
  BY <1>2, <1>3 DEF Good, Player

LEMMA JudgeGood ==
  ASSUME NEW p, NEW q, Good(q), NEW t \in Nat
  PROVE  Good(Judge(p, q, t)) /\ Judge(p, q, t).until = t + HitTicks
<1>1. q.lives \in 0 .. Lives /\ Less(q.lives, 1) \in 0 .. Lives /\ t + HitTicks \in Nat
  BY Numbers, SMTT(40) DEF Less, Good, Player
<1> DEFINE lives == Less(q.lives, 1)
           alive == lives > 0
<1>2. lives \in 0 .. Lives /\ alive \in BOOLEAN
  BY <1>1
<1>3. Judge(p, q, t) = [q EXCEPT !.lives = lives, !.until = t + HitTicks, !.alive = alive]
  BY DEF Judge, Good, Player
<1> HIDE DEF lives
<1>4. Judge(p, q, t) \in Player
  BY <1>1, <1>2, <1>3, ZenonT(40) DEF Good, Player
<1>5. Judge(p, q, t).alive = alive /\ Judge(p, q, t).lives = lives
      /\ Judge(p, q, t).until = t + HitTicks
  BY <1>3 DEF Good, Player
<1> QED
  BY <1>4, <1>5 DEF Good

-----------------------------------------------------------------------------
(* A player in a tick *)

LEMMA HeldType ==
  ASSUME TypeOK, NEW p \in Players, NEW t \in Nat
  PROVE  Held(p, t) \in Control
<1>1. players[p].last \in Control
  BY DEF TypeOK, Player
<1>2. CASE Arrived(p, t) = {}
  BY <1>1, <1>2 DEF Held, Control
<1>3. CASE Arrived(p, t) # {}
  <2> DEFINE i == CHOOSE j \in Arrived(p, t) : TRUE
  <2>1. i \in Arrived(p, t)
    BY <1>3
  <2>2. i \in Input
    BY <2>1 DEF Arrived, TypeOK
  <2> QED
    BY <1>3, <2>2 DEF Held, Input
<1> QED
  BY <1>2, <1>3

\* Before the cast: nothing of the hand is touched, and energy accrues.
LEMMA BeforeCastGood ==
  ASSUME TypeOK, NEW p \in Players, NEW t \in Nat
  PROVE  LET b == BeforeCast(p, t)
             q == players[p]
         IN /\ Good(b) /\ Recovers(q, b, t)
            /\ b.hand = q.hand /\ b.deck = q.deck /\ b.cursor = q.cursor
            /\ b.energy <= q.energy + EnergyPerTick
<1> DEFINE q == players[p]
           control == Held(p, t)
           last == IF Arrived(p, t) = {} THEN q.last ELSE control
           energy == Smaller(MaxEnergy, q.energy + EnergyPerTick)
           begun == [q EXCEPT !.last = last, !.energy = energy]
           bombed == Bomb(begun, control, t)
           shot == Shoot(bombed, control)
<1>1. Good(q)
  BY DEF TypeOK, Good
<1>2. control \in Control /\ last \in Control
  BY <1>1, HeldType DEF Good, Player
<1> HIDE DEF control, last
<1>3. energy \in 0 .. MaxEnergy /\ energy <= q.energy + EnergyPerTick
  <2>1. q.energy \in 0 .. MaxEnergy
    BY <1>1 DEF Good, Player
  <2> HIDE DEF q
  <2> QED
    BY <2>1, Numbers DEF Smaller
<1> HIDE DEF energy
<1>4. /\ Good(begun) /\ begun.until = q.until /\ begun.energy = energy
      /\ begun.hand = q.hand /\ begun.deck = q.deck /\ begun.cursor = q.cursor
  BY <1>1, <1>2, <1>3 DEF Good, Player
<1>5. BeforeCast(p, t) = shot
  BY DEF BeforeCast, last, control, energy
<1> HIDE DEF begun
<1>6. Good(bombed) /\ Recovers(q, bombed, t)
  BY <1>4, BombGood DEF Recovers
<1>7. /\ bombed.energy = begun.energy
      /\ bombed.hand = begun.hand /\ bombed.deck = begun.deck /\ bombed.cursor = begun.cursor
  BY <1>4 DEF Bomb, Good, Player
<1> HIDE DEF bombed
<1>8. Good(shot) /\ Recovers(q, shot, t)
  BY <1>2, <1>6, ShootGood DEF Recovers
<1>9. /\ shot.energy = bombed.energy
      /\ shot.hand = bombed.hand /\ shot.deck = bombed.deck /\ shot.cursor = bombed.cursor
  BY <1>6 DEF Shoot, Good, Player
<1> QED
  BY <1>3, <1>4, <1>5, <1>7, <1>8, <1>9

LEMMA ApplyPlayerGood ==
  ASSUME TypeOK, NEW p \in Players, NEW t \in Nat
  PROVE  Good(ApplyPlayer(p, t)) /\ Recovers(players[p], ApplyPlayer(p, t), t)
<1> DEFINE q == players[p]
           b == BeforeCast(p, t)
           slot == Held(p, t).slot
<1>1. Good(q)
  BY DEF TypeOK, Good
<1>2. Good(b) /\ Recovers(q, b, t)
  BY BeforeCastGood
<1>3. slot \in Nat
  BY HeldType DEF Control
<1>4. ApplyPlayer(p, t) = IF p \in joined /\ q.connected THEN ExecuteCast(b, slot, t) ELSE q
  BY DEF ApplyPlayer
<1> HIDE DEF b, slot
<1>5. Good(ExecuteCast(b, slot, t)) /\ Recovers(b, ExecuteCast(b, slot, t), t)
  BY <1>2, <1>3, ExecuteCastGood
<1> QED
  BY <1>1, <1>2, <1>4, <1>5 DEF Recovers

-----------------------------------------------------------------------------
(* The invariant *)

SpacedInv ==
  /\ state = "waiting" => \A p \in Players : hitAt[p] = None
  /\ \A p \in Players : hitAt[p] # None => /\ hitAt[p] <= tick
                                           /\ players[p].until >= hitAt[p] + HitTicks

Inv == TypeOK /\ SpacedInv

LEMMA Initially == Init => Inv
<1> SUFFICES ASSUME Init PROVE Inv
  OBVIOUS
<1>1. NewPlayer \in Player /\ NewPlayer.alive /\ NewPlayer.lives > 0
  <2>1. Idle \in Control
    BY DEF Idle, Control
  <2>2. /\ [c \in Cards |-> 0] \in [Cards -> Nat]
        /\ <<>> \in Seq(Ids)
        /\ 0 \in 0 .. MaxEnergy /\ Lives \in 0 .. Lives /\ Bombs \in 0 .. Bombs
        /\ BossHp \in 0 .. BossHp
    BY Numbers
  <2> QED
    BY <2>1, <2>2, Numbers DEF NewPlayer, Player
<1>2. TypeOK
  BY <1>1 DEF Init, TypeOK
<1>3. SpacedInv
  BY DEF Init, SpacedInv
<1> QED
  BY <1>2, <1>3 DEF Inv

\* What a tick leaves each player with.
LEMMA TickPlayer ==
  ASSUME Inv, NEW touched \in SUBSET joined, Tick(touched), NEW p \in Players
  PROVE  /\ Good(players'[p])
         /\ hitAt'[p] \in {hitAt[p], tick + 1}
         /\ hitAt'[p] # hitAt[p] => /\ tick + 1 > ApplyPlayer(p, tick + 1).until
                                    /\ players'[p].until = tick + 1 + HitTicks
         /\ hitAt'[p] = hitAt[p] =>
              \/ Recovers(players[p], players'[p], tick + 1)
              \/ players'[p].until = tick + 1 + HitTicks
<1> DEFINE t == tick + 1
           hit == {o \in touched : Hittable(o, ApplyPlayer(o, t), t)}
<1>1. t \in Nat /\ HitTicks \in Nat
  BY Numbers DEF Inv, TypeOK
<1>2. Good(ApplyPlayer(p, t)) /\ Recovers(players[p], ApplyPlayer(p, t), t)
  BY <1>1, ApplyPlayerGood DEF Inv
<1>3. /\ players'[p] = IF p \in hit THEN Judge(p, ApplyPlayer(p, t), t) ELSE ApplyPlayer(p, t)
      /\ hitAt'[p] = IF p \in hit THEN t ELSE hitAt[p]
  BY DEF Tick
<1>4. p \in hit => t > ApplyPlayer(p, t).until
  BY DEF Hittable
<1>5. Good(Judge(p, ApplyPlayer(p, t), t)) /\ Judge(p, ApplyPlayer(p, t), t).until = t + HitTicks
  BY <1>1, <1>2, JudgeGood
<1> HIDE DEF hit
<1> QED
  BY <1>2, <1>3, <1>4, <1>5

LEMMA SeedGood ==
  ASSUME Inv, NEW p \in Players, NEW deck \in Decks, SeedPlayerHand(p, deck)
  PROVE  players' \in [Players -> Player]
         /\ \A o \in Players : Good(players'[o])
<1> DEFINE n == Smaller(HandLimit, Len(deck))
           q == [players[p] EXCEPT !.hand = SubSeq(deck, 1, n), !.deck = deck, !.cursor = n,
                                   !.energy = OpeningEnergy,
                                   !.ready = [c \in Cards |-> 0], !.until = 0]
<1>1. deck \in Seq(Ids) /\ Len(deck) \in Nat
  BY CatalogueAssumption, LenProperties
<1>2. n \in Nat /\ n <= Len(deck)
  BY <1>1, Numbers DEF Smaller
<1> HIDE DEF n
<1>3. SubSeq(deck, 1, n) \in Seq(Ids)
  <2>1. \A i \in 1 .. n : deck[i] \in Ids
    BY <1>1, <1>2, ElementOfSeq
  <2> QED
    BY <1>2, <2>1, SubSeqProperties
<1>4. OpeningEnergy \in 0 .. MaxEnergy /\ [c \in Cards |-> 0] \in [Cards -> Nat]
  BY Numbers
<1>5. players[p] \in Player
  BY DEF Inv, TypeOK
<1>6. q \in Player /\ q.alive = players[p].alive /\ q.lives = players[p].lives
  BY <1>1, <1>2, <1>3, <1>4, <1>5 DEF Player
<1> HIDE DEF q
<1>7. players \in [Players -> Player]
  BY DEF Inv, TypeOK
<1>8. players' = [players EXCEPT ![p] = q]
  BY <1>7 DEF SeedPlayerHand, q, n
<1>9. \A o \in Players : Good(players[o])
  BY DEF Inv, TypeOK, Good
<1>10. Good(q)
  BY <1>6, <1>9 DEF Good
<1> QED
  BY <1>6, <1>7, <1>8, <1>9, <1>10

LEMMA Inductive == Inv /\ [Next]_vars => Inv'
<1> SUFFICES ASSUME Inv, [Next]_vars PROVE Inv'
  OBVIOUS
<1> USE DEF Inv
<1>1. ASSUME NEW p \in Players, AddPlayer(p) PROVE Inv'
  BY <1>1 DEF AddPlayer, TypeOK, SpacedInv, Held
<1>2. ASSUME NEW p \in Players, NEW connected \in BOOLEAN, SetPlayerConnected(p, connected)
      PROVE Inv'
  <2>1. players' = [players EXCEPT ![p].connected = connected] /\ players \in [Players -> Player]
    BY <1>2 DEF SetPlayerConnected, TypeOK
  <2>2. \A o \in Players : /\ players'[o] \in Player
                           /\ players'[o].alive = players[o].alive
                           /\ players'[o].lives = players[o].lives
                           /\ players'[o].until = players[o].until
    BY <2>1, ZenonT(40) DEF Player
  <2>3. players' \in [Players -> Player]
    BY <2>1, <2>2
  <2> QED
    BY <1>2, <2>2, <2>3 DEF SetPlayerConnected, TypeOK, SpacedInv
<1>3. ASSUME NEW p \in Players, NEW deck \in Decks, SeedPlayerHand(p, deck) PROVE Inv'
  <2>1. TypeOK'
    <3>1. \A o \in Players : players'[o].alive <=> players'[o].lives > 0
      BY <1>3, SeedGood DEF Good
    <3>2. players' \in [Players -> Player]
      BY <1>3, SeedGood
    <3>3. UNCHANGED <<danmaku, joined, pending, tick, state, winner, hitAt, played>>
      BY <1>3 DEF SeedPlayerHand
    <3> QED
      BY <3>1, <3>2, <3>3 DEF TypeOK
  <2>2. SpacedInv'
    BY <1>3 DEF SeedPlayerHand, SpacedInv
  <2> QED
    BY <2>1, <2>2
<1>4. ASSUME NEW p \in Players, NEW control \in Controls, NEW ahead \in 1 .. Window,
             SubmitInput(p, control, tick + ahead)
      PROVE Inv'
  <2>1. [player |-> p, tick |-> tick + ahead, control |-> control] \in Input
    <3>1. control \in Control
      BY ControlsAssumption DEF Control
    <3>2. tick + ahead \in Nat
      BY Numbers DEF TypeOK
    <3> QED
      BY <3>1, <3>2 DEF Input
  <2>2. pending' \subseteq Input
    BY <1>4, <2>1 DEF SubmitInput, TypeOK
  <2> QED
    BY <1>4, <2>2 DEF SubmitInput, TypeOK, SpacedInv
<1>5. ASSUME WaitingTick PROVE Inv'
  BY <1>5 DEF WaitingTick, TypeOK, SpacedInv
<1>6. ASSUME NEW touched \in SUBSET joined, Tick(touched) PROVE Inv'
  <2> USE <1>6
  <2>1. tick \in Nat /\ tick' = tick + 1 /\ state' \in {"running", "finished"}
    BY DEF Tick, TypeOK
  <2>2. winner' \in Players \cup {None}
    BY DEF Tick, TypeOK
  <2>3. \A p \in Players : Good(players'[p])
    BY TickPlayer
  <2>4. players' \in [Players -> Player] /\ \A p \in Players : players'[p].alive <=> players'[p].lives > 0
    <3>1. DOMAIN players' = Players /\ players' = [p \in Players |-> players'[p]]
      BY DEF Tick
    <3> QED
      BY <2>3, <3>1 DEF Good
  <2>5. hitAt' \in [Players -> Nat \cup {None}]
    BY <2>1 DEF Tick, TypeOK
  <2>6. played' \in [Players -> [Cards -> Nat]]
    BY DEF Tick, TypeOK
  <2>7. pending' \subseteq Input /\ UNCHANGED <<danmaku, joined>>
    BY DEF Tick, TypeOK
  <2>8. TypeOK'
    BY <2>1, <2>2, <2>4, <2>5, <2>6, <2>7 DEF TypeOK
  <2>9. ASSUME NEW p \in Players, hitAt'[p] # None
        PROVE  hitAt'[p] <= tick' /\ players'[p].until >= hitAt'[p] + HitTicks
    <3>1. HitTicks \in Nat /\ players[p].until \in Nat /\ players'[p].until \in Nat
      BY <2>4, Numbers DEF TypeOK, Player
    <3>2. CASE hitAt'[p] # hitAt[p]
      BY <2>1, <3>1, <3>2, TickPlayer
    <3>3. CASE hitAt'[p] = hitAt[p]
      <4>1. hitAt[p] \in Nat /\ hitAt[p] <= tick /\ players[p].until >= hitAt[p] + HitTicks
        BY <2>9, <3>3 DEF SpacedInv, TypeOK
      <4>2. \/ Recovers(players[p], players'[p], tick + 1)
            \/ players'[p].until = tick + 1 + HitTicks
        BY <3>3, TickPlayer
      <4> QED
        BY <2>1, <3>1, <3>3, <4>1, <4>2 DEF Recovers
    <3> QED
      BY <3>2, <3>3
  <2>10. SpacedInv'
    BY <2>1, <2>9 DEF SpacedInv
  <2> QED
    BY <2>8, <2>10
<1>7. ASSUME UNCHANGED vars PROVE Inv'
  BY <1>7 DEF vars, TypeOK, SpacedInv
<1> QED
  BY <1>1, <1>2, <1>3, <1>4, <1>5, <1>6, <1>7 DEF Next

LEMMA Invariant == Spec => []Inv
BY Initially, Inductive, PTL DEF Spec

\* The types, and who is alive has a life left.
THEOREM TypeCorrect == Spec => []TypeOK
<1>1. Inv => TypeOK
  BY DEF Inv
<1> QED
  BY <1>1, Invariant, PTL

\* However many bombs and guards are used, two hits are HitTicks apart and more.
THEOREM HitsSpacedHolds == Spec => HitsSpaced
<1> DEFINE Spaced == \A p \in Players :
             hitAt'[p] # hitAt[p] /\ hitAt[p] # None => hitAt'[p] > hitAt[p] + HitTicks
<1>1. Inv /\ Inv' /\ [Next]_vars => [Spaced]_vars
  <2> SUFFICES ASSUME Inv, Next, NEW p \in Players, hitAt'[p] # hitAt[p], hitAt[p] # None
               PROVE hitAt'[p] > hitAt[p] + HitTicks
    BY DEF vars
  <2>1. PICK touched \in SUBSET joined : Tick(touched)
    <3>1. hitAt' # hitAt
      OBVIOUS
    <3>2. \A o \in Players : ~AddPlayer(o)
      BY <3>1 DEF AddPlayer
    <3>3. \A o \in Players, connected \in BOOLEAN : ~SetPlayerConnected(o, connected)
      BY <3>1 DEF SetPlayerConnected
    <3>4. \A o \in Players, deck \in Decks : ~SeedPlayerHand(o, deck)
      BY <3>1 DEF SeedPlayerHand
    <3>5. \A o \in Players, control \in Controls, ahead \in 1 .. Window :
            ~SubmitInput(o, control, tick + ahead)
      BY <3>1 DEF SubmitInput
    <3>6. ~WaitingTick
      BY <3>1 DEF WaitingTick
    <3> QED
      BY <3>2, <3>3, <3>4, <3>5, <3>6 DEF Next
  <2> DEFINE t == tick + 1
             r == ApplyPlayer(p, t)
  <2>2. /\ t \in Nat /\ HitTicks \in Nat /\ hitAt[p] \in Nat /\ hitAt[p] <= tick
        /\ players[p].until \in Nat /\ players[p].until >= hitAt[p] + HitTicks
    BY Numbers DEF Inv, TypeOK, SpacedInv, Player
  <2>3. hitAt'[p] = t /\ t > r.until
    BY <2>1, TickPlayer
  <2>4. Good(r) /\ Recovers(players[p], r, t)
    BY <2>2, ApplyPlayerGood DEF Inv
  <2>5. r.until \in Nat
    BY <2>4 DEF Good, Player
  <2> HIDE DEF t, r
  <2> QED
    BY <2>2, <2>3, <2>4, <2>5 DEF Recovers
<1>2. HitsSpaced <=> [][Spaced]_vars
  BY PTL DEF HitsSpaced
<1> QED
  BY <1>1, <1>2, Invariant, PTL DEF Spec
-----------------------------------------------------------------------------
(* Counting cards *)

At(s, card) == {i \in DOMAIN s : s[i] = card}

LEMMA InHandType ==
  ASSUME NEW S, NEW s \in Seq(S), NEW card
  PROVE  IsFiniteSet(At(s, card)) /\ InHand(s, card) \in Nat
         /\ InHand(s, card) = Cardinality(At(s, card))
<1>1. DOMAIN s = 1 .. Len(s) /\ Len(s) \in Nat
  BY LenProperties
<1>2. IsFiniteSet(1 .. Len(s))
  BY <1>1, FS_Interval
<1>3. At(s, card) \in SUBSET (1 .. Len(s))
  BY <1>1 DEF At
<1>4. IsFiniteSet(At(s, card))
  BY <1>2, <1>3, FS_Subset
<1> QED
  BY <1>4, FS_CardinalityType DEF InHand, At

LEMMA InHandEmpty ==
  ASSUME NEW card
  PROVE  InHand(<<>>, card) = 0
BY FS_EmptySet DEF InHand

LEMMA InHandAppend ==
  ASSUME NEW S, NEW s \in Seq(S), NEW x \in S, NEW card
  PROVE  InHand(Append(s, x), card) = InHand(s, card) + (IF x = card THEN 1 ELSE 0)
<1> DEFINE n == Len(s)
           a == Append(s, x)
<1>1. /\ n \in Nat /\ DOMAIN s = 1 .. n
      /\ a \in Seq(S) /\ DOMAIN a = 1 .. n + 1
      /\ \A i \in 1 .. n : a[i] = s[i]
      /\ a[n + 1] = x
  BY AppendProperties, LenProperties
<1> HIDE DEF a, n
<1>2. At(a, card) = IF x = card THEN At(s, card) \cup {n + 1} ELSE At(s, card)
  BY <1>1 DEF At
<1>3. n + 1 \notin At(s, card)
  BY <1>1 DEF At
<1>4. IsFiniteSet(At(s, card)) /\ InHand(s, card) = Cardinality(At(s, card))
      /\ InHand(s, card) \in Nat
  BY InHandType
<1>5. InHand(a, card) = Cardinality(At(a, card))
  BY <1>1, InHandType
<1>6. Cardinality(At(s, card) \cup {n + 1}) = Cardinality(At(s, card)) + 1
  BY <1>3, <1>4, FS_AddElement
<1> QED
  BY <1>2, <1>4, <1>5, <1>6 DEF a

LEMMA RemoveAtProperties ==
  ASSUME NEW S, NEW s \in Seq(S), NEW k \in DOMAIN s
  PROVE  /\ RemoveAt(s, k) \in Seq(S)
         /\ DOMAIN RemoveAt(s, k) = 1 .. Len(s) - 1
         /\ \A j \in 1 .. Len(s) - 1 :
              RemoveAt(s, k)[j] = IF j < k THEN s[j] ELSE s[j + 1]
<1> DEFINE l == SubSeq(s, 1, k - 1)
           r == SubSeq(s, k + 1, Len(s))
<1>1. k \in 1 .. Len(s) /\ Len(s) \in Nat
  BY LenProperties
<1>2. \A j \in 1 .. Len(s) : s[j] \in S
  BY ElementOfSeq
<1>3. l \in Seq(S) /\ Len(l) = k - 1 /\ \A j \in 1 .. k - 1 : l[j] = s[j]
  <2>1. \A j \in 1 .. k - 1 : s[j] \in S
    BY <1>1, <1>2
  <2> QED
    BY <1>1, <2>1, SubSeqProperties
<1>4. r \in Seq(S) /\ Len(r) = Len(s) - k /\ \A j \in 1 .. Len(s) - k : r[j] = s[j + k]
  <2>1. \A j \in k + 1 .. Len(s) : s[j] \in S
    BY <1>1, <1>2
  <2> QED
    BY <1>1, <2>1, SubSeqProperties
<1>5. RemoveAt(s, k) = l \o r
  BY DEF RemoveAt
<1> HIDE DEF l, r
<1>6. /\ l \o r \in Seq(S) /\ Len(l \o r) = Len(l) + Len(r)
      /\ \A j \in 1 .. Len(l) + Len(r) :
           (l \o r)[j] = IF j <= Len(l) THEN l[j] ELSE r[j - Len(l)]
  BY <1>3, <1>4, ConcatProperties
<1>7. Len(l) + Len(r) = Len(s) - 1
  BY <1>1, <1>3, <1>4
<1>8. DOMAIN (l \o r) = 1 .. Len(s) - 1
  BY <1>6, <1>7, LenProperties
<1>9. ASSUME NEW j \in 1 .. Len(s) - 1
      PROVE  (l \o r)[j] = IF j < k THEN s[j] ELSE s[j + 1]
  <2>1. CASE j < k
    BY <1>1, <1>3, <1>6, <1>7, <2>1
  <2>2. CASE ~(j < k)
    <3>1. ~(j <= Len(l)) /\ j - Len(l) \in 1 .. Len(s) - k /\ (j - Len(l)) + k = j + 1
      BY <1>1, <1>3, <2>2
    <3> QED
      BY <1>4, <1>6, <1>7, <2>2, <3>1
  <2> QED
    BY <2>1, <2>2
<1> QED
  BY <1>5, <1>6, <1>8, <1>9

LEMMA InHandRemove ==
  ASSUME NEW S, NEW s \in Seq(S), NEW k \in DOMAIN s, NEW card
  PROVE  InHand(RemoveAt(s, k), card) + (IF s[k] = card THEN 1 ELSE 0) = InHand(s, card)
<1> DEFINE r == RemoveAt(s, k)
           rest == At(s, card) \ {k}
           f == [j \in At(r, card) |-> IF j < k THEN j ELSE j + 1]
<1>1. k \in 1 .. Len(s) /\ Len(s) \in Nat /\ DOMAIN s = 1 .. Len(s)
  BY LenProperties
<1>2. /\ r \in Seq(S) /\ DOMAIN r = 1 .. Len(s) - 1
      /\ \A j \in 1 .. Len(s) - 1 : r[j] = IF j < k THEN s[j] ELSE s[j + 1]
  BY RemoveAtProperties
<1> HIDE DEF r
<1>3. \A j \in At(r, card) : j \in 1 .. Len(s) - 1 /\ f[j] \in rest
  BY <1>1, <1>2 DEF At
<1>4. \A i, j \in At(r, card) : f[i] = f[j] => i = j
  BY <1>1, <1>2 DEF At
<1>5. ASSUME NEW i \in rest PROVE \E j \in At(r, card) : f[j] = i
  <2> DEFINE j == IF i < k THEN i ELSE i - 1
  <2>1. i \in 1 .. Len(s) /\ s[i] = card /\ i # k
    BY <1>1 DEF At
  <2>2. j \in 1 .. Len(s) - 1 /\ r[j] = card
    BY <1>1, <1>2, <2>1
  <2>3. j \in At(r, card)
    BY <1>2, <2>2 DEF At
  <2>4. f[j] = i
    BY <1>1, <2>1, <2>3
  <2> HIDE DEF j
  <2> QED
    BY <2>3, <2>4
<1>6. f \in [At(r, card) -> rest]
  BY <1>3
<1> HIDE DEF f, rest
<1>7. ExistsBijection(At(r, card), rest)
  <2>1. f \in Bijection(At(r, card), rest)
    BY <1>4, <1>5, <1>6 DEF Bijection, Injection, Surjection, IsInjective
  <2> QED
    BY <2>1 DEF ExistsBijection
<1>8. IsFiniteSet(At(r, card)) /\ InHand(r, card) = Cardinality(At(r, card)) /\ InHand(r, card) \in Nat
  BY <1>2, InHandType
<1>9. IsFiniteSet(At(s, card)) /\ InHand(s, card) = Cardinality(At(s, card)) /\ InHand(s, card) \in Nat
  BY InHandType
<1>10. Cardinality(rest) = Cardinality(At(r, card))
  BY <1>7, <1>8, FS_Bijection
<1>11. Cardinality(rest) = IF k \in At(s, card) THEN Cardinality(At(s, card)) - 1
                           ELSE Cardinality(At(s, card))
  BY <1>9, FS_RemoveElement DEF rest
<1>12. k \in At(s, card) <=> s[k] = card
  BY DEF At
<1> QED
  BY <1>8, <1>9, <1>10, <1>11, <1>12 DEF r

\* The places of card among the first n cards that come from deck.
From(deck, n, card) == {i \in 0 .. n - 1 : deck[(i % Len(deck)) + 1] = card}

LEMMA DrawnType ==
  ASSUME NEW deck, NEW n \in Nat, NEW card
  PROVE  IsFiniteSet(From(deck, n, card)) /\ Drawn(deck, n, card) \in Nat
         /\ Drawn(deck, n, card) = Cardinality(From(deck, n, card))
<1>1. IsFiniteSet(0 .. n - 1)
  BY FS_Interval
<1>2. From(deck, n, card) \in SUBSET (0 .. n - 1)
  BY DEF From
<1>3. IsFiniteSet(From(deck, n, card))
  BY <1>1, <1>2, FS_Subset
<1> QED
  BY <1>3, FS_CardinalityType DEF Drawn, From

LEMMA DrawnNext ==
  ASSUME NEW deck, NEW n \in Nat, NEW card
  PROVE  Drawn(deck, n + 1, card) = Drawn(deck, n, card)
           + (IF deck[(n % Len(deck)) + 1] = card THEN 1 ELSE 0)
<1>1. From(deck, n + 1, card) = IF deck[(n % Len(deck)) + 1] = card
        THEN From(deck, n, card) \cup {n} ELSE From(deck, n, card)
  <2> DEFINE of(i) == deck[(i % Len(deck)) + 1]
  <2>1. 0 .. (n + 1) - 1 = (0 .. n - 1) \cup {n}
    OBVIOUS
  <2>2. /\ From(deck, n, card) = {i \in 0 .. n - 1 : of(i) = card}
        /\ From(deck, n + 1, card) = {i \in 0 .. (n + 1) - 1 : of(i) = card}
    BY DEF From
  <2>3. of(n) = deck[(n % Len(deck)) + 1]
    OBVIOUS
  <2> HIDE DEF of
  <2>4. {i \in (0 .. n - 1) \cup {n} : of(i) = card} =
          IF of(n) = card THEN {i \in 0 .. n - 1 : of(i) = card} \cup {n}
          ELSE {i \in 0 .. n - 1 : of(i) = card}
    OBVIOUS
  <2> QED
    BY <2>1, <2>2, <2>3, <2>4
<1>2. n \notin From(deck, n, card)
  BY DEF From
<1>3. /\ IsFiniteSet(From(deck, n, card)) /\ Drawn(deck, n, card) \in Nat
      /\ Drawn(deck, n, card) = Cardinality(From(deck, n, card))
      /\ Drawn(deck, n + 1, card) = Cardinality(From(deck, n + 1, card))
  BY DrawnType
<1>4. Cardinality(From(deck, n, card) \cup {n}) = Cardinality(From(deck, n, card)) + 1
  BY <1>2, <1>3, FS_AddElement
<1> QED
  BY <1>1, <1>3, <1>4

\* The first cards of a deck are what the opening hand holds.
LEMMA DrawnFirst ==
  ASSUME NEW S, NEW deck \in Seq(S), NEW n \in 0 .. Len(deck), NEW card
  PROVE  InHand(SubSeq(deck, 1, n), card) = Drawn(deck, n, card)
<1> DEFINE s == SubSeq(deck, 1, n)
           f == [i \in At(s, card) |-> i - 1]
<1>1. n \in Nat /\ Len(deck) \in Nat /\ n <= Len(deck)
  BY LenProperties
<1>2. s \in Seq(S) /\ DOMAIN s = 1 .. n /\ \A i \in 1 .. n : s[i] = deck[i]
  <2>1. \A i \in 1 .. n : deck[i] \in S
    BY <1>1, ElementOfSeq
  <2>2. s \in Seq(S) /\ Len(s) = n /\ \A i \in 1 .. n : s[i] = deck[i]
    BY <1>1, <2>1, SubSeqProperties
  <2> QED
    BY <2>2, LenProperties
<1> HIDE DEF s
<1>3. \A i \in 0 .. n - 1 : i % Len(deck) = i
  BY <1>1
<1>4. From(deck, n, card) = {i \in 0 .. n - 1 : deck[i + 1] = card}
  BY <1>3 DEF From
<1>5. At(s, card) = {i \in 1 .. n : deck[i] = card}
  BY <1>2 DEF At
<1>6. f \in [At(s, card) -> From(deck, n, card)]
  BY <1>1, <1>4, <1>5
<1>7. \A i, j \in At(s, card) : f[i] = f[j] => i = j
  BY <1>1, <1>5
<1>8. ASSUME NEW j \in From(deck, n, card) PROVE \E i \in At(s, card) : f[i] = j
  <2>1. j + 1 \in At(s, card) /\ (j + 1) - 1 = j
    BY <1>1, <1>4, <1>5
  <2> QED
    BY <2>1
<1> HIDE DEF f
<1>9. ExistsBijection(At(s, card), From(deck, n, card))
  <2>1. f \in Bijection(At(s, card), From(deck, n, card))
    BY <1>6, <1>7, <1>8 DEF Bijection, Injection, Surjection, IsInjective
  <2> QED
    BY <2>1 DEF ExistsBijection
<1>10. IsFiniteSet(At(s, card)) /\ InHand(s, card) = Cardinality(At(s, card))
  BY <1>2, InHandType
<1>11. Drawn(deck, n, card) = Cardinality(From(deck, n, card))
  BY <1>1, DrawnType
<1> QED
  BY <1>9, <1>10, <1>11, FS_Bijection DEF s

-----------------------------------------------------------------------------
(* The ledger *)

Plays == [Cards -> Nat]

LEMMA Times == \A m, n \in Nat : m * n \in Nat /\ (m + 1) * n = m * n + n
OBVIOUS

LEMMA FiniteCards == IsFiniteSet(Cards) /\ Blank \notin Cards
BY CatalogueAssumption

LEMMA SpentType ==
  ASSUME NEW plays \in Plays
  PROVE  Spent(plays) \in Nat /\ FoldFunction(+, 0, plays) \in Nat
<1> DEFINE h == [c \in Cards |-> plays[c] * Cost[c]]
<1>1. h \in [Cards -> Nat]
  BY Catalogue DEF Plays
<1> HIDE DEF h
<1>2. Total(h) \in Nat /\ Total(plays) \in Nat
  BY <1>1, FiniteCards, TotalType DEF Plays
<1> QED
  BY <1>2 DEF Total, Spent, h

LEMMA TotalOneMore ==
  ASSUME NEW plays \in Plays, NEW more \in Plays, NEW card \in Cards,
         \A c \in Cards : more[c] = IF c = card THEN plays[c] + 1 ELSE plays[c]
  PROVE  Total(more) = Total(plays) + 1
<1> DEFINE d == 1
<1>1. /\ plays \in [Cards -> Nat] /\ more \in [Cards -> Nat] /\ d \in Nat
      /\ \A c \in Cards : more[c] = IF c = card THEN plays[c] + d ELSE plays[c]
  BY DEF Plays
<1> HIDE DEF d
<1>2. Total(more) = Total(plays) + d
  BY <1>1, FiniteCards, TotalAdd
<1> QED
  BY <1>2 DEF d

\* What is played once more is paid once more.
LEMMA SpentMore ==
  ASSUME NEW plays \in Plays, NEW card \in Cards, NEW more,
         more = [plays EXCEPT ![card] = @ + 1]
  PROVE  /\ more \in Plays
         /\ Spent(more) = Spent(plays) + Cost[card]
         /\ FoldFunction(+, 0, more) = FoldFunction(+, 0, plays) + 1
<1> DEFINE h == [c \in Cards |-> plays[c] * Cost[c]]
           k == [c \in Cards |-> more[c] * Cost[c]]
<1>1. more \in Plays
  BY DEF Plays
<1>2. h \in [Cards -> Nat] /\ k \in [Cards -> Nat]
  BY <1>1, Catalogue DEF Plays
<1>3. \A c \in Cards : k[c] = IF c = card THEN h[c] + Cost[card] ELSE h[c]
  <2>1. \A c \in Cards : plays[c] \in Nat /\ Cost[c] \in Nat
    BY Catalogue DEF Plays
  <2>2. (plays[card] + 1) * Cost[card] = plays[card] * Cost[card] + Cost[card]
    BY <2>1, Times
  <2> QED
    BY <2>2 DEF Plays
<1> HIDE DEF h, k
<1>4. Total(k) = Total(h) + Cost[card]
  <2>1. Cost[card] \in Nat
    BY Catalogue
  <2> QED
    BY <1>2, <1>3, <2>1, FiniteCards, TotalAdd, SMTT(40)
<1>5. Total(more) = Total(plays) + 1
  <2>1. \A c \in Cards : more[c] = IF c = card THEN plays[c] + 1 ELSE plays[c]
    BY DEF Plays
  <2> QED
    BY <1>1, <2>1, TotalOneMore
<1> QED
  BY <1>1, <1>4, <1>5 DEF Total, Spent, h, k

LEMMA SpentNothing ==
  ASSUME NEW plays \in Plays, \A c \in Cards : plays[c] = 0
  PROVE  Spent(plays) = 0 /\ FoldFunction(+, 0, plays) = 0
<1>1. plays = [c \in Cards |-> 0] /\ [c \in Cards |-> plays[c] * Cost[c]] = [c \in Cards |-> 0]
  BY Catalogue DEF Plays
<1> QED
  BY <1>1, FiniteCards, TotalZero DEF Total, Spent

Ledger(q, plays, n) ==
  IF q.deck = <<>> THEN q.hand = <<>>
  ELSE CardsBalanced(q, plays) /\ EnergyBalanced(q, plays, n)

\* A card drawn is held, and nothing else of the ledger changes.
LEMMA DrawLedger ==
  ASSUME NEW q \in Player, q.deck # <<>>
  PROVE  /\ Draw(q).deck = q.deck /\ Draw(q).energy = q.energy
         /\ \A c \in Cards : \E d \in {0, 1} :
              /\ InHand(Draw(q).hand, c) = InHand(q.hand, c) + d
              /\ Drawn(q.deck, Draw(q).cursor, c) = Drawn(q.deck, q.cursor, c) + d
<1> DEFINE card == q.deck[(q.cursor % Len(q.deck)) + 1]
           hand == IF card = Blank THEN q.hand ELSE Append(q.hand, card)
<1>1. /\ q.hand \in Seq(Ids) /\ q.deck \in Seq(Ids)
      /\ q.cursor \in Nat
  BY DEF Player
<1>2. ASSUME NEW c \in Cards PROVE InHand(q.hand, c) \in Nat /\ Drawn(q.deck, q.cursor, c) \in Nat
  BY <1>1, InHandType, DrawnType
<1>3. CASE Len(q.hand) >= HandLimit
  <2>1. Draw(q) = q
    BY <1>3 DEF Draw
  <2> QED
    BY <1>2, <2>1
<1>4. CASE ~(Len(q.hand) >= HandLimit)
  <2>1. Draw(q) = [q EXCEPT !.cursor = @ + 1, !.hand = hand]
    BY <1>4 DEF Draw
  <2>2. Len(q.deck) \in Nat \ {0}
    BY <1>1, EmptySeq, LenProperties
  <2>3. (q.cursor % Len(q.deck)) + 1 \in 1 .. Len(q.deck)
    BY <1>1, <2>2
  <2>4. card \in Ids
    BY <1>1, <2>3, ElementOfSeq
  <2> HIDE DEF card
  <2>5. ASSUME NEW c \in Cards
        PROVE  InHand(hand, c) = InHand(q.hand, c) + (IF card = c THEN 1 ELSE 0)
    <3>1. CASE card = Blank
      BY <1>2, <3>1, FiniteCards
    <3>2. CASE card # Blank
      BY <1>1, <2>4, <3>2, InHandAppend
    <3> QED
      BY <3>1, <3>2
  <2>6. ASSUME NEW c \in Cards
        PROVE  Drawn(q.deck, q.cursor + 1, c)
                 = Drawn(q.deck, q.cursor, c) + (IF card = c THEN 1 ELSE 0)
    BY <1>1, DrawnNext DEF card
  <2> HIDE DEF hand
  <2>7. /\ Draw(q).deck = q.deck /\ Draw(q).energy = q.energy
        /\ Draw(q).hand = hand /\ Draw(q).cursor = q.cursor + 1
    BY <2>1 DEF Player
  <2> QED
    BY <2>5, <2>6, <2>7
<1> QED
  BY <1>3, <1>4

\* A cast is booked on both sides of the ledger.
LEMMA CastLedger ==
  ASSUME NEW q \in Player, NEW slot \in DOMAIN q.hand, q.hand[slot] \in Cards,
         q.energy + Slack >= Cost[q.hand[slot]], NEW t \in Nat, q.deck # <<>>,
         NEW plays \in Plays, CardsBalanced(q, plays),
         NEW more, more = [plays EXCEPT ![q.hand[slot]] = @ + 1]
  PROVE  LET r == ApplyCast(q, slot, t) IN
         /\ r.deck = q.deck
         /\ CardsBalanced(r, more)
         /\ r.energy + Cost[q.hand[slot]] <= q.energy + Slack
<1> DEFINE card == q.hand[slot]
           r == ApplyCast(q, slot, t)
           paid == [q EXCEPT !.energy = Less(@, Cost[card]),
                             !.ready[card] = t + Cooldown[card],
                             !.hand = RemoveAt(@, slot)]
<1>1. /\ q.hand \in Seq(Ids) /\ q.energy \in 0 .. MaxEnergy
      /\ q.ready \in [Cards -> Nat] /\ q.cursor \in Nat
  BY DEF Player
<1>2. card \in Cards
  OBVIOUS
<1> HIDE DEF card
<1>3. Cost[card] \in Nat /\ Cooldown[card] \in Nat
  BY <1>2, Catalogue
<1>4. Less(q.energy, Cost[card]) \in 0 .. MaxEnergy
  BY <1>1, <1>3, Numbers DEF Less
<1>5. RemoveAt(q.hand, slot) \in Seq(Ids)
  BY <1>1, RemoveAtType
<1>6. [q.ready EXCEPT ![card] = t + Cooldown[card]] \in [Cards -> Nat]
  BY <1>1, <1>2, <1>3
<1>7. /\ paid \in Player /\ paid.deck = q.deck /\ paid.cursor = q.cursor
      /\ paid.energy = Less(q.energy, Cost[card]) /\ paid.hand = RemoveAt(q.hand, slot)
  BY <1>4, <1>5, <1>6 DEF Player
<1>8. r = Draw(paid)
  BY DEF ApplyCast, card
<1> HIDE DEF paid, r
<1>9. /\ r.deck = q.deck /\ r.energy = Less(q.energy, Cost[card])
      /\ \A c \in Cards : \E d \in {0, 1} :
           /\ InHand(r.hand, c) = InHand(paid.hand, c) + d
           /\ Drawn(q.deck, r.cursor, c) = Drawn(q.deck, q.cursor, c) + d
  BY <1>7, <1>8, DrawLedger
<1>10. ASSUME NEW c \in Cards
       PROVE  InHand(r.hand, c) + more[c] = Drawn(r.deck, r.cursor, c)
  <2>1. InHand(paid.hand, c) + (IF card = c THEN 1 ELSE 0) = InHand(q.hand, c)
    BY <1>1, <1>7, InHandRemove DEF card
  <2>2. InHand(q.hand, c) + plays[c] = Drawn(q.deck, q.cursor, c)
    BY DEF CardsBalanced
  <2>3. more[c] = plays[c] + (IF card = c THEN 1 ELSE 0)
    BY <1>2 DEF Plays, card
  <2>4. PICK d \in {0, 1} :
           /\ InHand(r.hand, c) = InHand(paid.hand, c) + d
           /\ Drawn(q.deck, r.cursor, c) = Drawn(q.deck, q.cursor, c) + d
    BY <1>9
  <2>5. /\ InHand(paid.hand, c) \in Nat /\ InHand(q.hand, c) \in Nat
        /\ Drawn(q.deck, q.cursor, c) \in Nat /\ plays[c] \in Nat
    BY <1>1, <1>5, <1>7, InHandType, DrawnType DEF Plays
  <2> QED
    BY <1>9, <2>1, <2>2, <2>3, <2>4, <2>5, SMTT(40)
<1>11. r.energy + Cost[card] <= q.energy + Slack
  <2>1. Slack \in Nat /\ q.energy \in Nat /\ q.energy + Slack >= Cost[card]
    BY <1>1, NumbersAssumption DEF card
  <2> QED
    BY <1>3, <1>9, <2>1 DEF Less
<1> QED
  BY <1>9, <1>10, <1>11 DEF CardsBalanced, r, card

\* What a player's own tick does to what it holds, and to what it has played.
LEMMA TickLedger ==
  ASSUME TypeOK, NEW p \in Players, Ledger(players[p], played[p], tick),
         NEW t, t = tick + 1, NEW more,
         more = [c \in Cards |->
                   IF Casts(p, t) /\ c = players[p].hand[Held(p, t).slot]
                   THEN played[p][c] + 1 ELSE played[p][c]]
  PROVE  Ledger(ApplyPlayer(p, t), more, t)
<1> DEFINE q == players[p]
           slot == Held(p, t).slot
           b == BeforeCast(p, t)
           r == ApplyPlayer(p, t)
           plays == played[p]
<1>1. /\ q \in Player /\ plays \in Plays /\ tick \in Nat /\ t \in Nat
      /\ slot \in Nat /\ EnergyPerTick \in Nat /\ Slack \in Nat
  <2>1. q \in Player /\ plays \in Plays /\ tick \in Nat /\ t \in Nat
    BY DEF TypeOK, Plays
  <2>2. slot \in Nat
    BY <2>1, HeldType DEF Control
  <2> QED
    BY <2>1, <2>2, NumbersAssumption
<1>2. /\ b \in Player /\ b.hand = q.hand /\ b.deck = q.deck /\ b.cursor = q.cursor
      /\ b.energy <= q.energy + EnergyPerTick
  BY <1>1, BeforeCastGood DEF Good
<1>3. q.energy \in Nat /\ b.energy \in Nat /\ q.hand \in Seq(Ids)
  BY <1>1, <1>2 DEF Player
<1> DEFINE given(n) == OpeningEnergy + n * EnergyPerTick
<1>4. given(tick) \in Nat /\ given(t) = given(tick) + EnergyPerTick
  BY <1>1, Times, Numbers
<1>5. /\ EnergyBalanced(q, plays, tick) <=>
           q.energy + Spent(plays) <= given(tick) + FoldFunction(+, 0, plays) * Slack
      /\ EnergyBalanced(r, more, t) <=>
           r.energy + Spent(more) <= given(t) + FoldFunction(+, 0, more) * Slack
  BY DEF EnergyBalanced
<1> HIDE DEF given
<1>6. CASE ~Casts(p, t)
  <2>1. more = plays
    BY <1>1, <1>6 DEF Plays
  <2>2. r = q \/ r = b
    <3>1. CASE ~(p \in joined /\ q.connected)
      BY <3>1 DEF ApplyPlayer
    <3>2. CASE p \in joined /\ q.connected /\ slot = 0
      <4>1. slot \notin DOMAIN b.hand
        <5>1. b.hand \in Seq(Ids)
          BY <1>2 DEF Player
        <5> QED
          BY <3>2, <5>1, LenProperties
      <4> QED
        BY <3>2, <4>1 DEF ApplyPlayer, ExecuteCast, Castable
    <3>3. CASE p \in joined /\ q.connected /\ slot # 0
      BY <1>6, <3>3 DEF Casts, ApplyPlayer, ExecuteCast
    <3> QED
      BY <3>1, <3>2, <3>3
  <2>3. /\ r.hand = q.hand /\ r.deck = q.deck /\ r.cursor = q.cursor
        /\ r.energy \in Nat /\ r.energy <= q.energy + EnergyPerTick
    BY <1>1, <1>2, <1>3, <2>2
  <2> HIDE DEF q, r, plays
  <2>4. CASE q.deck = <<>>
    BY <2>3, <2>4 DEF Ledger, q, r
  <2>5. CASE q.deck # <<>>
    <3>1. CardsBalanced(q, plays) /\ EnergyBalanced(q, plays, tick)
      BY <2>5 DEF Ledger, q, plays
    <3>2. CardsBalanced(r, more)
      BY <2>1, <2>3, <3>1 DEF CardsBalanced
    <3>3. EnergyBalanced(r, more, t)
      <4> DEFINE total == FoldFunction(+, 0, plays) * Slack
      <4>1. Spent(plays) \in Nat /\ total \in Nat
        BY <1>1, SpentType, Times
      <4>2. q.energy + Spent(plays) <= given(tick) + total
        BY <1>5, <3>1
      <4> HIDE DEF total
      <4>3. r.energy + Spent(plays) <= given(t) + total
        BY <1>1, <1>3, <1>4, <2>3, <4>1, <4>2, SMTT(40)
      <4> QED
        BY <1>5, <2>1, <4>3 DEF total
    <3> QED
      BY <2>3, <2>5, <3>2, <3>3 DEF Ledger, r
  <2> QED
    BY <2>4, <2>5
<1>7. CASE Casts(p, t)
  <2> DEFINE card == b.hand[slot]
             a == ApplyCast(b, slot, t)
  <2>1. /\ p \in joined /\ q.connected /\ Castable(b, slot, t)
        /\ slot \in DOMAIN b.hand /\ card \in Cards
        /\ b.energy + Slack >= Cost[card]
    BY <1>7 DEF Casts, Castable
  <2>2. b.hand \in Seq(Ids) /\ card \in Cards
    BY <1>2, <2>1 DEF Player
  <2>3. q.deck # <<>> /\ CardsBalanced(q, plays) /\ EnergyBalanced(q, plays, tick)
    <3>1. DOMAIN q.hand # {}
      BY <1>2, <2>1
    <3>2. q.hand # <<>>
      BY <3>1
    <3> QED
      BY <3>2 DEF Ledger
  <2>4. more = [plays EXCEPT ![card] = @ + 1]
    BY <1>1, <1>2, <1>7, <2>2 DEF Plays
  <2>5. CardsBalanced(b, plays) /\ b.deck # <<>>
    BY <1>2, <2>3 DEF CardsBalanced
  <2>6. /\ a.deck = b.deck /\ CardsBalanced(a, more)
        /\ a.energy + Cost[card] <= b.energy + Slack
    BY <1>1, <1>2, <2>1, <2>4, <2>5, CastLedger
  <2>7. a \in Player
    BY <1>1, <1>2, <2>1, ApplyCastGood
  <2>8. r = [a EXCEPT !.hp = Less(@, Damage[card]),
                      !.until = IF card \in Guards THEN t + Duration[card] ELSE @]
    BY <2>1 DEF ApplyPlayer, ExecuteCast
  <2> HIDE DEF a, r, b, card
  <2>9. /\ r.deck = a.deck /\ r.hand = a.hand /\ r.cursor = a.cursor /\ r.energy = a.energy
        /\ a.energy \in Nat
    BY <2>7, <2>8 DEF Player
  <2>10. CardsBalanced(r, more)
    BY <2>6, <2>9 DEF CardsBalanced
  <2>11. EnergyBalanced(r, more, t)
    <3> DEFINE casts == FoldFunction(+, 0, plays)
    <3>1. Spent(plays) \in Nat /\ casts \in Nat /\ Cost[card] \in Nat
      BY <1>1, <2>2, SpentType, Catalogue
    <3>2. Spent(more) = Spent(plays) + Cost[card] /\ FoldFunction(+, 0, more) = casts + 1
      BY <1>1, <2>2, <2>4, SpentMore, ZenonT(40)
    <3> DEFINE slacks(n) == n * Slack
    <3>3. slacks(casts + 1) = slacks(casts) + Slack /\ slacks(casts) \in Nat
      BY <1>1, <3>1, Times
    <3>4. q.energy + Spent(plays) <= given(tick) + slacks(casts)
      BY <1>5, <2>3
    <3>5. EnergyBalanced(r, more, t) <=>
            r.energy + (Spent(plays) + Cost[card]) <= given(t) + slacks(casts + 1)
      BY <1>5, <3>2
    <3> HIDE DEF casts, slacks
    <3>6. r.energy + (Spent(plays) + Cost[card]) <= given(t) + slacks(casts + 1)
      <4>1. /\ r.energy \in Nat /\ b.energy \in Nat /\ q.energy \in Nat
            /\ EnergyPerTick \in Nat /\ Slack \in Nat
            /\ r.energy + Cost[card] <= b.energy + Slack
            /\ b.energy <= q.energy + EnergyPerTick
        BY <1>1, <1>2, <1>3, <2>6, <2>9
      <4> HIDE DEF q, plays
      <4>2. r.energy + Cost[card] <= q.energy + EnergyPerTick + Slack
        BY <3>1, <4>1
      <4> QED
        BY <1>4, <3>1, <3>3, <3>4, <4>1, <4>2
    <3> QED
      BY <3>5, <3>6
  <2>12. r.deck # <<>>
    BY <2>5, <2>6, <2>9
  <2> QED
    BY <2>10, <2>11, <2>12 DEF Ledger, r
<1> QED
  BY <1>6, <1>7

\* Nothing is played before the race, and every player's ledger is in balance.
LedgerInv ==
  /\ state = "waiting" => \A p \in Players, c \in Cards : played[p][c] = 0
  /\ \A p \in Players : Ledger(players[p], played[p], tick)

\* What the ledger reads of a player, as it is.
LEMMA LedgerOf ==
  ASSUME NEW q, NEW r, NEW plays, NEW n,
         r.deck = q.deck, r.hand = q.hand, r.cursor = q.cursor, r.energy = q.energy,
         Ledger(q, plays, n)
  PROVE  Ledger(r, plays, n)
BY DEF Ledger, CardsBalanced, EnergyBalanced

LEMMA LedgerLater ==
  ASSUME NEW q \in Player, NEW plays \in Plays, NEW n \in Nat, Ledger(q, plays, n)
  PROVE  Ledger(q, plays, n + 1)
<1> DEFINE given(m) == OpeningEnergy + m * EnergyPerTick
           total == FoldFunction(+, 0, plays) * Slack
<1>1. /\ q.energy \in Nat /\ EnergyPerTick \in Nat
      /\ given(n) \in Nat /\ given(n + 1) = given(n) + EnergyPerTick
  <2>1. q.energy \in Nat
    BY DEF Player
  <2>2. EnergyPerTick \in Nat /\ OpeningEnergy \in Nat /\ n + 1 \in Nat
    BY NumbersAssumption
  <2>3. /\ n * EnergyPerTick \in Nat
        /\ (n + 1) * EnergyPerTick = n * EnergyPerTick + EnergyPerTick
    BY <2>2, Times
  <2> QED
    BY <2>1, <2>2, <2>3
<1>2. Spent(plays) \in Nat /\ total \in Nat
  BY SpentType, Times, NumbersAssumption
<1>3. \A m : EnergyBalanced(q, plays, m) <=> q.energy + Spent(plays) <= given(m) + total
  BY DEF EnergyBalanced
<1> HIDE DEF given, total
<1>4. EnergyBalanced(q, plays, n) => EnergyBalanced(q, plays, n + 1)
  BY <1>1, <1>2, <1>3
<1> QED
  BY <1>4 DEF Ledger

LEMMA SeedLedger ==
  ASSUME Inv, LedgerInv, NEW p \in Players, NEW deck \in Decks, SeedPlayerHand(p, deck)
  PROVE  Ledger(players'[p], played[p], tick)
<1> DEFINE n == Smaller(HandLimit, Len(deck))
           r == players'[p]
<1>1. deck \in Seq(Ids) /\ Len(deck) \in Nat /\ deck # <<>>
  BY CatalogueAssumption, LenProperties
<1>2. n \in 0 .. Len(deck)
  BY <1>1, Numbers DEF Smaller
<1>3. /\ r.hand = SubSeq(deck, 1, n) /\ r.deck = deck /\ r.cursor = n /\ r.energy = OpeningEnergy
  <2> DEFINE q == [players[p] EXCEPT
                     !.hand = SubSeq(deck, 1, n), !.deck = deck, !.cursor = n,
                     !.energy = OpeningEnergy, !.ready = [c \in Cards |-> 0], !.until = 0]
  <2>1. players \in [Players -> Player]
    BY DEF Inv, TypeOK
  <2>2. q.hand = SubSeq(deck, 1, n) /\ q.deck = deck /\ q.cursor = n /\ q.energy = OpeningEnergy
    BY <2>1, ZenonT(40) DEF Player
  <2> HIDE DEF q
  <2>3. players' = [players EXCEPT ![p] = q]
    BY <2>1 DEF SeedPlayerHand, q
  <2> QED
    BY <2>1, <2>2, <2>3
<1>4. played[p] \in Plays /\ \A c \in Cards : played[p][c] = 0
  BY DEF SeedPlayerHand, LedgerInv, Inv, TypeOK, Plays
<1> HIDE DEF n, r
<1>5. CardsBalanced(r, played[p])
  <2>1. ASSUME NEW c \in Cards PROVE InHand(r.hand, c) + played[p][c] = Drawn(r.deck, r.cursor, c)
    <3>1. InHand(SubSeq(deck, 1, n), c) = Drawn(deck, n, c)
      BY <1>1, <1>2, DrawnFirst
    <3>2. Drawn(deck, n, c) \in Nat
      BY <1>1, <1>2, DrawnType
    <3> QED
      BY <1>3, <1>4, <3>1, <3>2
  <2> QED
    BY <2>1 DEF CardsBalanced
<1>6. EnergyBalanced(r, played[p], tick)
  <2>1. Spent(played[p]) = 0 /\ FoldFunction(+, 0, played[p]) = 0
    BY <1>4, SpentNothing
  <2>2. OpeningEnergy \in Nat /\ tick * EnergyPerTick \in Nat /\ Slack \in Nat
    BY NumbersAssumption DEF Inv, TypeOK
  <2>3. OpeningEnergy + 0 <= OpeningEnergy + tick * EnergyPerTick + 0 * Slack
    BY <2>2
  <2> QED
    BY <1>3, <2>1, <2>3 DEF EnergyBalanced
<1> QED
  BY <1>1, <1>3, <1>5, <1>6 DEF Ledger, r

LEMMA LedgerStep == Inv /\ LedgerInv /\ [Next]_vars => LedgerInv'
<1> SUFFICES ASSUME Inv, LedgerInv, [Next]_vars PROVE LedgerInv'
  OBVIOUS
<1> USE DEF Inv
<1>0. tick \in Nat /\ players \in [Players -> Player] /\ played \in [Players -> Plays]
  BY DEF TypeOK, Plays
<1>1. ASSUME NEW p \in Players, AddPlayer(p) PROVE LedgerInv'
  BY <1>1 DEF AddPlayer, LedgerInv
<1>2. ASSUME NEW p \in Players, NEW connected \in BOOLEAN, SetPlayerConnected(p, connected)
      PROVE LedgerInv'
  <2>1. \A o \in Players : /\ players'[o].deck = players[o].deck
                           /\ players'[o].hand = players[o].hand
                           /\ players'[o].cursor = players[o].cursor
                           /\ players'[o].energy = players[o].energy
    BY <1>0, <1>2 DEF SetPlayerConnected, Player
  <2>2. \A o \in Players : Ledger(players'[o], played[o], tick)
    BY <2>1, LedgerOf DEF LedgerInv
  <2> QED
    BY <1>2, <2>2 DEF SetPlayerConnected, LedgerInv
<1>3. ASSUME NEW p \in Players, NEW deck \in Decks, SeedPlayerHand(p, deck) PROVE LedgerInv'
  <2>1. \A o \in Players : o # p => players'[o] = players[o]
    BY <1>0, <1>3 DEF SeedPlayerHand
  <2>2. Ledger(players'[p], played[p], tick)
    BY <1>3, SeedLedger
  <2> QED
    BY <1>3, <2>1, <2>2 DEF SeedPlayerHand, LedgerInv
<1>4. ASSUME NEW p \in Players, NEW control \in Controls, NEW ahead \in 1 .. Window,
             SubmitInput(p, control, tick + ahead)
      PROVE LedgerInv'
  BY <1>4 DEF SubmitInput, LedgerInv
<1>5. CASE WaitingTick
  <2>1. \A o \in Players : Ledger(players[o], played[o], tick + 1)
    BY <1>0, LedgerLater DEF LedgerInv
  <2> QED
    BY <1>5, <2>1 DEF WaitingTick, LedgerInv
<1>6. ASSUME NEW touched \in SUBSET joined, Tick(touched) PROVE LedgerInv'
  <2>1. state' # "waiting" /\ tick' = tick + 1
    BY <1>6 DEF Tick
  <2>2. ASSUME NEW p \in Players PROVE Ledger(players'[p], played'[p], tick')
    <3> DEFINE t == tick + 1
               r == ApplyPlayer(p, t)
    <3>1. played'[p] = [c \in Cards |->
                          IF Casts(p, t) /\ c = players[p].hand[Held(p, t).slot]
                          THEN played[p][c] + 1 ELSE played[p][c]]
      BY <1>6 DEF Tick
    <3>2. Ledger(r, played'[p], t)
      BY <3>1, TickLedger DEF LedgerInv
    <3>3. players'[p] = r \/ players'[p] = Judge(p, r, t)
      BY <1>6 DEF Tick
    <3>4. Good(r)
      BY <1>0, ApplyPlayerGood
    <3> HIDE DEF r
    <3>5. /\ players'[p].deck = r.deck /\ players'[p].hand = r.hand
          /\ players'[p].cursor = r.cursor /\ players'[p].energy = r.energy
      BY <3>3, <3>4 DEF Judge, Good, Player
    <3> QED
      BY <2>1, <3>2, <3>5, LedgerOf
  <2> QED
    BY <2>1, <2>2 DEF LedgerInv
<1>7. CASE UNCHANGED vars
  BY <1>7 DEF vars, LedgerInv
<1> QED
  BY <1>1, <1>2, <1>3, <1>4, <1>5, <1>6, <1>7 DEF Next

\* Whatever a player is dealt, casts and suffers in a match, its cards are those drawn
\* and its casts are paid for, for any catalogue, deck and rate.
THEOREM LedgerHolds == Spec => []LedgerBalanced
<1>1. Init => LedgerInv
  BY DEF Init, LedgerInv, Ledger, NewPlayer
<1>2. LedgerInv /\ Inv => LedgerBalanced
  BY DEF LedgerInv, Ledger, LedgerBalanced, Inv, TypeOK
<1> QED
  BY <1>1, <1>2, LedgerStep, Invariant, PTL DEF Spec
=============================================================================
