----------------------------- MODULE Prediction -----------------------------
(***************************************************************************)
(* The local prediction of a race and its reconciliation with the battle   *)
(* server: BattleScene.step, BattleClient's sendInput, tick, applySnapshot *)
(* and catchUpPrediction, and of BossRaceSimulation what they call.        *)
(*                                                                         *)
(* Server and client run the same simulation, the server on the inputs     *)
(* that reach it in its window, the client on those it sends.  Inputs and  *)
(* snapshots travel in order and are not lost (MessageChannel).  Applying  *)
(* a snapshot is one handler: while it runs, the server goes on and the    *)
(* client does nothing else.                                               *)
(*                                                                         *)
(* Abstractions.  Only the local player is followed: the Boss HP of his    *)
(* copy, his hand as the casts it has booked, his buffered inputs.  A cast *)
(* costs the Boss one HP.  Positions are left to their one effect, a hard  *)
(* snap, which any later snapshot may cause.                               *)
(*                                                                         *)
(* Assumptions.  The roster has two players, so a simulation runs from its *)
(* first tick.  With the local player alone, which the application falls   *)
(* back to for a match that names no players, the simulation waits until   *)
(* the first snapshot, and its ticks leave buffered inputs behind, as      *)
(* WaitingTick does in BossRace.  The danmaku mechanics are on, as in      *)
(* production: the Boss is hit by player bullets on the server only.  Then *)
(* stateHashComparable is false and no hash is compared, but they are      *)
(* recorded all the same, and the model keeps their keys.                  *)
(***************************************************************************)
EXTENDS Integers, Sequences, FiniteSets

CONSTANTS
  Window,     \* how far ahead of its tick a simulation takes inputs: 8
  History,    \* BOSS_RACE_HASH_HISTORY_TICKS
  MaxReplay,  \* BATTLE_MAX_CATCH_UP_TICKS
  Leads,      \* the values of inputLeadTicks()
  MaxHp,      \* bossMaxHp
  MaxTick,    \* bound: ticks of either side
  MaxSeq,     \* bound: inputs sent
  MaxQueue    \* bound: inputs in flight, and snapshots in flight

ASSUME ParameterAssumption ==
  /\ Window \in Nat \ {0} /\ History \in Nat \ {0} /\ MaxReplay \in Nat \ {0}
  /\ Leads \subseteq Nat /\ MaxHp \in Nat \ {0}
ASSUME BoundAssumption == MaxTick \in Nat /\ MaxSeq \in Nat /\ MaxQueue \in Nat

VARIABLES
  server,    \* the server's simulation
  local,     \* BattleClient.simulation
  adopted,   \* adoptedAuthoritative
  applying,  \* the snapshot applySnapshot is working on, a set of at most one
  seeding,   \* it is the first one: seedPrediction
  replayed,  \* ticks replayed for it
  inputs,    \* inputs on their way to the server
  snaps,     \* snapshots on their way to the client
  lead,      \* inputLeadTicks()
  seq        \* BattleClient.seq

clientVars   == <<local, adopted, applying, seeding, replayed, seq>>
vars == <<server, clientVars, inputs, snaps, lead>>

Sides  == {"client", "server"}
\* An input, with the sides whose hand and energy allow the card it plays, if any.
Input  == [tick : Nat, seq : Nat, cast : SUBSET Sides]
States == {"running", "finished"}

\* A BossRaceSimulation. casts: the casts its hand has booked; hist: the keys of
\* hashHistory in the order of their insertion.
Simulation == [tick : Nat, state : States, hp : 0 .. MaxHp, casts : SUBSET Nat,
               pending : SUBSET Input, lastSeq : Nat, hist : Seq(Nat)]
Snapshot   == [tick : Nat, state : States, hp : 0 .. MaxHp, casts : SUBSET Nat]

NewSimulation == [tick |-> 0, state |-> "running", hp |-> MaxHp, casts |-> {},
                  pending |-> {}, lastSeq |-> 0, hist |-> <<>>]

Init ==
  /\ server   = NewSimulation
  /\ local    = NewSimulation
  /\ adopted  = FALSE
  /\ applying = {}
  /\ seeding  = FALSE
  /\ replayed = 0
  /\ inputs   = <<>>
  /\ snaps    = <<>>
  /\ lead \in Leads
  /\ seq      = 0

-----------------------------------------------------------------------------
(* BossRaceSimulation *)

\* Mutant: more than what is left is taken.
LessUnclamped(n, d) == n - d

\* d less, at least 0.
Less(n, d) == IF n > d THEN n - d ELSE 0

\* rememberHash: a key that is there keeps its place, else the oldest one may go.
Remember(hist, tick) ==
  IF \E i \in DOMAIN hist : hist[i] = tick THEN hist
  ELSE LET h == Append(hist, tick) IN IF Len(h) > History THEN Tail(h) ELSE h

\* submitInput.
Accepts(sim, input) ==
  /\ sim.state # "finished"
  /\ input.seq > sim.lastSeq
  /\ sim.tick < input.tick /\ input.tick <= sim.tick + Window

Submit(sim, input) ==
  IF Accepts(sim, input)
    THEN [sim EXCEPT !.lastSeq = input.seq,
                     !.pending = {i \in @ : i.tick # input.tick} \cup {input}]
    ELSE sim

\* Mutant: the bucket of the tick is kept.
TickKeepsBucket(sim, side, hits) ==
  LET next  == sim.tick + 1
      due   == {i \in sim.pending : i.tick = next}
      plays == {i \in due : side \in i.cast}
      hp    == Less(sim.hp, hits + Cardinality(plays))
  IN
  IF sim.state = "finished" THEN sim
  ELSE [sim EXCEPT !.tick = next, !.hp = hp, !.casts = @ \cup {i.seq : i \in plays},
                   !.state = IF hp = 0 THEN "finished" ELSE @, !.hist = Remember(@, next)]

\* tick: the inputs due, what they cast and the hits of player bullets, then
\* checkRaceWinner.
Tick(sim, side, hits) ==
  LET next  == sim.tick + 1
      due   == {i \in sim.pending : i.tick = next}
      plays == {i \in due : side \in i.cast}
      hp    == Less(sim.hp, hits + Cardinality(plays))
  IN
  IF sim.state = "finished" THEN sim
  ELSE [sim EXCEPT !.tick    = next,
                   !.hp      = hp,
                   !.casts   = @ \cup {i.seq : i \in plays},
                   !.pending = @ \ due,
                   !.state   = IF hp = 0 THEN "finished" ELSE @,
                   !.hist    = Remember(@, next)]

\* Mutant: the tick of the snapshot is taken whatever the local one is.
AdoptRewinds(sim, snap, alignTick) ==
  LET tick == IF alignTick THEN snap.tick ELSE sim.tick IN
  [sim EXCEPT !.tick = tick, !.state = snap.state, !.hp = snap.hp, !.casts = snap.casts,
              !.pending = IF alignTick THEN {} ELSE @, !.hist = Remember(@, tick)]

\* Mutant: the adopted state is not remembered.
AdoptForgetsHash(sim, snap, alignTick) ==
  LET ahead == alignTick /\ snap.tick > sim.tick IN
  [sim EXCEPT !.tick = IF ahead THEN snap.tick ELSE @, !.pending = IF ahead THEN {} ELSE @,
              !.state = snap.state, !.hp = snap.hp, !.casts = snap.casts]

\* adoptAuthoritativeSnapshot.
Adopt(sim, snap, alignTick) ==
  LET ahead == alignTick /\ snap.tick > sim.tick
      tick  == IF ahead THEN snap.tick ELSE sim.tick
  IN
  [sim EXCEPT !.tick    = tick,
              !.pending = IF ahead THEN {} ELSE @,
              !.state   = snap.state,
              !.hp      = snap.hp,
              !.casts   = snap.casts,
              !.hist    = Remember(@, tick)]

\* Mutant: nothing is copied.
AdoptNothing(sim, snap) == sim

\* adoptAuthoritativeProgress: neither tick, state, hand nor buffered inputs.
AdoptProgress(sim, snap) == [sim EXCEPT !.hp = snap.hp]

-----------------------------------------------------------------------------
(* The client *)

\* BattleScene.step: an input for the tick after the local one, stamped with the
\* lead, sent whether the prediction takes it or not, then one tick.
Step ==
  /\ applying = {}
  /\ seq < MaxSeq /\ local.tick < MaxTick /\ Len(inputs) < MaxQueue
  /\ seq' = seq + 1
  /\ \E cast \in SUBSET Sides :
       LET input == [tick |-> local.tick + 1 + lead, seq |-> seq', cast |-> cast] IN
       /\ inputs' = Append(inputs, input)
       /\ local' = Tick(Submit(local, input), "client", 0)
  /\ UNCHANGED <<server, adopted, applying, seeding, replayed, snaps, lead>>

\* applySnapshot up to the replay: the first snapshot is adopted at tick 0.
ReceiveSnapshot ==
  /\ applying = {} /\ snaps # <<>>
  /\ LET snap == Head(snaps) IN
     /\ applying' = {snap}
     /\ local' = IF adopted THEN AdoptProgress(local, snap)
                 ELSE Adopt(local, [snap EXCEPT !.tick = 0], TRUE)
  /\ snaps' = Tail(snaps)
  /\ seeding' = ~adopted
  /\ adopted' = TRUE
  /\ replayed' = 0
  /\ UNCHANGED <<server, inputs, lead, seq>>

\* One turn of catchUpPrediction's loop, the last one reseeds.
CatchUp ==
  \E snap \in applying :
    /\ local.tick < snap.tick /\ local.state # "finished"
    /\ replayed < MaxReplay
    /\ replayed' = replayed + 1
    /\ LET next == Tick(local, "client", 0) IN
       local' = IF replayed' = MaxReplay THEN Adopt(next, snap, TRUE) ELSE next
    /\ UNCHANGED <<server, adopted, applying, seeding, inputs, snaps, lead, seq>>

\* The rest of applySnapshot, when the loop has ended: the server's state is adopted
\* after seeding and on a position error above the hard-snap threshold.
SnapshotApplied ==
  \E snap \in applying, hardSnap \in BOOLEAN :
    /\ \/ local.tick >= snap.tick
       \/ local.state = "finished"
       \/ replayed = MaxReplay
    /\ applying' = {}
    /\ local' = IF seeding \/ hardSnap THEN Adopt(local, snap, FALSE) ELSE local
    /\ UNCHANGED <<server, adopted, seeding, replayed, inputs, snaps, lead, seq>>

-----------------------------------------------------------------------------
(* The battle server *)

\* An input arrives.
ServerInput ==
  /\ inputs # <<>>
  /\ inputs' = Tail(inputs)
  /\ server' = Submit(server, Head(inputs))
  /\ UNCHANGED <<clientVars, snaps, lead>>

\* A tick, in which bullets may hit the Boss and the opponent may win, and the
\* snapshot of it, if one is sent.
ServerTick ==
  /\ server.state # "finished" /\ server.tick < MaxTick
  /\ \E hits \in 0 .. 1, state \in States :
       LET next == Tick(server, "server", hits) IN
       server' = IF state = "finished" THEN [next EXCEPT !.state = "finished"] ELSE next
  /\ \/ UNCHANGED snaps
     \/ /\ Len(snaps) < MaxQueue
        /\ snaps' = Append(snaps, [tick |-> server'.tick, state |-> server'.state,
                                   hp |-> server'.hp, casts |-> server'.casts])
  /\ UNCHANGED <<clientVars, inputs, lead>>

Next == \/ Step \/ ReceiveSnapshot \/ CatchUp \/ SnapshotApplied
        \/ ServerInput \/ ServerTick

Spec == Init /\ [][Next]_vars
=============================================================================
