------------------------- MODULE Prediction_proofs --------------------------
(***************************************************************************)
(* Proofs about Prediction.  Each operation of the simulation keeps SimOK, *)
(* on either side: buffered inputs stay ahead of the tick because a tick   *)
(* takes its bucket and an adoption that moves the tick drops them all,    *)
(* and the retained hashes stay in order because no operation lowers the   *)
(* tick, which bounds them.  Across the queues between the two sides: only *)
(* the inputs sent ahead of the tick wait to be replayed over the HP of a  *)
(* snapshot (HpInv), and what is retained reaches back to the earliest     *)
(* snapshot that is still to be handled (HashInv).                         *)
(***************************************************************************)
EXTENDS PredictionProperties, Induction, TLAPS, FiniteSetTheorems, SequenceTheorems

USE ParameterAssumption, BoundAssumption

-----------------------------------------------------------------------------
(* The invariant of a simulation *)

\* The retained hashes are in order, few enough, and none is of a tick to come.
HistOK(sim) ==
  /\ Len(sim.hist) <= History
  /\ Increasing(sim.hist)
  /\ \A i \in DOMAIN sim.hist : sim.hist[i] <= sim.tick

PendOK(sim) ==
  \A i \in sim.pending : sim.tick < i.tick /\ i.tick <= sim.tick + Window

SimOK(sim) == /\ sim \in Simulation /\ IsFiniteSet(sim.pending)
              /\ HistOK(sim) /\ PendOK(sim)

PInv == TypeOK /\ SimOK(server) /\ SimOK(local)

-----------------------------------------------------------------------------
(* The operations of the simulation *)

\* Remembering a tick at least as late as all that are retained.
LEMMA RememberOK ==
  ASSUME NEW hist \in Seq(Nat), NEW tick \in Nat,
         Len(hist) <= History, Increasing(hist), \A i \in DOMAIN hist : hist[i] <= tick
  PROVE  /\ Remember(hist, tick) \in Seq(Nat)
         /\ Len(Remember(hist, tick)) <= History
         /\ Increasing(Remember(hist, tick))
         /\ \A i \in DOMAIN Remember(hist, tick) : Remember(hist, tick)[i] <= tick
<1>1. CASE \E i \in DOMAIN hist : hist[i] = tick
  BY <1>1 DEF Remember
<1>2. CASE ~\E i \in DOMAIN hist : hist[i] = tick
  <2> DEFINE h == Append(hist, tick)
  <2>1. /\ h \in Seq(Nat) /\ Len(h) = Len(hist) + 1
        /\ h[Len(h)] = tick
        /\ \A i \in 1 .. Len(hist) : h[i] = hist[i] /\ h[i] < tick
    <3>1. \A i \in DOMAIN hist : hist[i] < tick
      BY <1>2
    <3> QED
      BY <3>1
  <2>2. Increasing(h) /\ \A i \in DOMAIN h : h[i] <= tick
    BY <2>1 DEF Increasing
  <2> HIDE DEF h
  <2>3. /\ Tail(h) \in Seq(Nat) /\ Len(Tail(h)) = Len(hist)
        /\ \A i \in 1 .. Len(hist) : Tail(h)[i] = h[i + 1]
    BY <2>1
  <2>4. Increasing(Tail(h)) /\ \A i \in DOMAIN Tail(h) : Tail(h)[i] <= tick
    <3>1. DOMAIN Tail(h) = 1 .. Len(hist) /\ DOMAIN h = 1 .. Len(hist) + 1
      BY <2>1, <2>3
    <3>2. \A i \in 1 .. Len(hist) : i + 1 \in DOMAIN h /\ Tail(h)[i] = h[i + 1]
      <4>1. Len(hist) \in Nat
        OBVIOUS
      <4>2. \A i \in 1 .. Len(hist) : i + 1 \in 1 .. Len(hist) + 1
        BY <4>1
      <4> QED
        BY <2>3, <3>1, <4>2
    <3>3. ASSUME NEW i \in 1 .. Len(hist), NEW j \in 1 .. Len(hist), i < j
          PROVE  Tail(h)[i] < Tail(h)[j]
      <4>1. h[i + 1] < h[j + 1]
        BY <2>2, <3>2, <3>3 DEF Increasing
      <4> QED
        BY <3>2, <4>1
    <3>4. \A i \in 1 .. Len(hist) : Tail(h)[i] <= tick
      BY <2>2, <3>2
    <3> QED
      BY <3>1, <3>3, <3>4 DEF Increasing
  <2>5. Remember(hist, tick) = IF Len(h) > History THEN Tail(h) ELSE h
    BY <1>2 DEF Remember, h
  <2> QED
    BY <2>1, <2>2, <2>3, <2>4, <2>5
<1> QED
  BY <1>1, <1>2

LEMMA LessType ==
  ASSUME NEW n \in 0 .. MaxHp, NEW d \in Nat
  PROVE  Less(n, d) \in 0 .. MaxHp
  BY DEF Less

LEMMA SubmitOK ==
  ASSUME NEW sim, SimOK(sim), NEW input \in Input
  PROVE  SimOK(Submit(sim, input)) /\ Submit(sim, input).tick = sim.tick
<1>1. CASE ~Accepts(sim, input)
  BY <1>1 DEF Submit
<1>2. CASE Accepts(sim, input)
  <2> DEFINE old == {i \in sim.pending : i.tick # input.tick}
             p   == old \cup {input}
             s   == [sim EXCEPT !.lastSeq = input.seq, !.pending = p]
  <2>1. sim \in Simulation /\ p \subseteq Input /\ input.seq \in Nat
    BY DEF SimOK, Simulation, Input
  <2>2. IsFiniteSet(p)
    <3>1. IsFiniteSet(old) /\ IsFiniteSet({input})
      BY FS_Subset, FS_Singleton DEF SimOK
    <3> QED
      BY <3>1, FS_Union
  <2>3. \A i \in p : sim.tick < i.tick /\ i.tick <= sim.tick + Window
    BY <1>2 DEF SimOK, PendOK, Accepts
  <2>4. Submit(sim, input) = s
    BY <1>2 DEF Submit
  <2> HIDE DEF p
  <2>5. /\ s \in Simulation /\ s.tick = sim.tick /\ s.hist = sim.hist /\ s.pending = p
    BY <2>1 DEF Simulation
  <2> HIDE DEF s
  <2> QED
    BY <2>2, <2>3, <2>4, <2>5 DEF SimOK, HistOK, PendOK
<1> QED
  BY <1>1, <1>2

LEMMA TickOK ==
  ASSUME NEW sim, SimOK(sim), NEW side, NEW hits \in Nat
  PROVE  /\ SimOK(Tick(sim, side, hits))
         /\ Tick(sim, side, hits).tick \in {sim.tick, sim.tick + 1}
<1>1. CASE sim.state = "finished"
  BY <1>1 DEF Tick
<1>2. CASE sim.state # "finished"
  <2> DEFINE next  == sim.tick + 1
             due   == {i \in sim.pending : i.tick = next}
             plays == {i \in due : side \in i.cast}
             hp    == Less(sim.hp, hits + Cardinality(plays))
             casts == sim.casts \cup {i.seq : i \in plays}
             hist  == Remember(sim.hist, next)
             s     == [sim EXCEPT !.tick = next, !.hp = hp, !.casts = casts,
                                  !.pending = sim.pending \ due,
                                  !.state = IF hp = 0 THEN "finished" ELSE sim.state,
                                  !.hist = hist]
  <2>1. sim \in Simulation /\ next \in Nat /\ sim.pending \subseteq Input
    BY DEF SimOK, Simulation
  <2>2. hp \in 0 .. MaxHp
    <3>1. IsFiniteSet(plays)
      BY FS_Subset DEF SimOK
    <3>2. Cardinality(plays) \in Nat
      BY <3>1, FS_CardinalityType
    <3>3. sim.hp \in 0 .. MaxHp
      BY <2>1 DEF Simulation
    <3> HIDE DEF plays
    <3>4. hits + Cardinality(plays) \in Nat
      BY <3>2
    <3> QED
      BY <3>3, <3>4, LessType
  <2>3. casts \subseteq Nat
    BY <2>1 DEF Simulation, Input
  <2>4. /\ hist \in Seq(Nat) /\ Len(hist) <= History /\ Increasing(hist)
        /\ \A i \in DOMAIN hist : hist[i] <= next
    <3>1. /\ sim.hist \in Seq(Nat) /\ Len(sim.hist) <= History /\ Increasing(sim.hist)
          /\ \A i \in DOMAIN sim.hist : sim.hist[i] <= next
      BY <2>1 DEF SimOK, HistOK, Simulation
    <3> HIDE DEF next
    <3> QED
      BY <2>1, <3>1, RememberOK
  <2>5. /\ IsFiniteSet(sim.pending \ due)
        /\ \A i \in sim.pending \ due : next < i.tick /\ i.tick <= next + Window
    <3>1. IsFiniteSet(sim.pending \ due)
      BY FS_Subset DEF SimOK
    <3>2. \A i \in sim.pending : i.tick \in Nat
      BY <2>1 DEF Input
    <3> QED
      BY <2>1, <3>1, <3>2 DEF SimOK, PendOK, Simulation
  <2>6. Tick(sim, side, hits) = s
    BY <1>2 DEF Tick
  <2> HIDE DEF next, due, plays, hp, casts, hist
  <2>7. /\ s \in Simulation /\ s.tick = next /\ s.hist = hist
        /\ s.pending = sim.pending \ due
    <3>1. (IF hp = 0 THEN "finished" ELSE sim.state) \in States
      BY <2>1 DEF Simulation, States
    <3> QED
      BY <2>1, <2>2, <2>3, <2>4, <3>1 DEF Simulation
  <2> HIDE DEF s
  <2>8. SimOK(s)
    BY <2>4, <2>5, <2>7 DEF SimOK, HistOK, PendOK
  <2> QED
    BY <2>6, <2>7, <2>8 DEF next
<1> QED
  BY <1>1, <1>2

LEMMA AdoptOK ==
  ASSUME NEW sim, SimOK(sim), NEW snap \in Snapshot, NEW alignTick \in BOOLEAN
  PROVE  SimOK(Adopt(sim, snap, alignTick)) /\ Adopt(sim, snap, alignTick).tick >= sim.tick
<1> DEFINE ahead   == alignTick /\ snap.tick > sim.tick
           tick    == IF ahead THEN snap.tick ELSE sim.tick
           pending == IF ahead THEN {} ELSE sim.pending
           hist    == Remember(sim.hist, tick)
           s       == [sim EXCEPT !.tick = tick, !.pending = pending, !.state = snap.state,
                                  !.hp = snap.hp, !.casts = snap.casts, !.hist = hist]
<1>1. /\ sim \in Simulation /\ sim.tick \in Nat /\ snap.tick \in Nat
      /\ sim.pending \subseteq Input
  BY DEF SimOK, Simulation, Snapshot
<1>2. tick \in Nat /\ tick >= sim.tick
  BY <1>1
<1>3. /\ pending \subseteq Input /\ IsFiniteSet(pending)
      /\ \A i \in pending : tick < i.tick /\ i.tick <= tick + Window
  BY <1>1, FS_EmptySet DEF SimOK, PendOK
<1>4. Adopt(sim, snap, alignTick) = s
  BY DEF Adopt
<1> HIDE DEF tick, pending
<1>5. /\ hist \in Seq(Nat) /\ Len(hist) <= History /\ Increasing(hist)
      /\ \A i \in DOMAIN hist : hist[i] <= tick
  <2>1. /\ sim.hist \in Seq(Nat) /\ Len(sim.hist) <= History /\ Increasing(sim.hist)
        /\ \A i \in DOMAIN sim.hist : sim.hist[i] <= tick
    BY <1>1, <1>2 DEF SimOK, HistOK, Simulation
  <2> QED
    BY <1>2, <2>1, RememberOK
<1> HIDE DEF hist
<1>6. /\ s \in Simulation /\ s.tick = tick /\ s.hist = hist /\ s.pending = pending
  BY <1>1, <1>2, <1>3, <1>5 DEF Simulation, Snapshot
<1> HIDE DEF s
<1>7. SimOK(s)
  BY <1>3, <1>5, <1>6 DEF SimOK, HistOK, PendOK
<1> QED
  BY <1>2, <1>4, <1>6, <1>7

LEMMA AdoptProgressOK ==
  ASSUME NEW sim, SimOK(sim), NEW snap \in Snapshot
  PROVE  SimOK(AdoptProgress(sim, snap)) /\ AdoptProgress(sim, snap).tick = sim.tick
<1> DEFINE s == AdoptProgress(sim, snap)
<1>1. sim \in Simulation /\ snap.hp \in 0 .. MaxHp
  BY DEF SimOK, Snapshot
<1>2. /\ s \in Simulation /\ s.tick = sim.tick /\ s.hist = sim.hist /\ s.pending = sim.pending
  BY <1>1 DEF AdoptProgress, Simulation
<1> HIDE DEF s
<1>3. SimOK(s)
  BY <1>2 DEF SimOK, HistOK, PendOK
<1> QED
  BY <1>2, <1>3 DEF s

-----------------------------------------------------------------------------
(* The steps *)

\* What a step keeps.
Moves == PInv' /\ local'.tick >= local.tick

LEMMA Stays == ASSUME SimOK(local) PROVE local.tick >= local.tick
  BY DEF SimOK, Simulation

LEMMA StepStep ==
  ASSUME PInv, Step
  PROVE  Moves
<1> USE DEF PInv
<1>1. PICK cast \in SUBSET Sides :
        LET input == [tick |-> local.tick + 1 + lead, seq |-> seq + 1, cast |-> cast] IN
        /\ inputs' = Append(inputs, input)
        /\ local' = Tick(Submit(local, input), "client", 0)
  BY DEF Step
<1> DEFINE input == [tick |-> local.tick + 1 + lead, seq |-> seq + 1, cast |-> cast]
<1>2. input \in Input
  BY SMTT(40) DEF Input, TypeOK, SimOK, Simulation
<1>3. inputs' \in Seq(Input)
  BY <1>1, <1>2 DEF TypeOK
<1>4. local' = Tick(Submit(local, input), "client", 0)
  BY <1>1
<1> HIDE DEF input
<1>5. SimOK(Submit(local, input)) /\ Submit(local, input).tick = local.tick
  BY <1>2, SubmitOK
<1>6. SimOK(local') /\ local'.tick \in {local.tick, local.tick + 1}
  BY <1>4, <1>5, TickOK
<1>7. /\ seq' = seq + 1
      /\ UNCHANGED <<server, adopted, applying, seeding, replayed, snaps, lead>>
  BY DEF Step
<1>8. TypeOK'
  BY <1>3, <1>6, <1>7 DEF TypeOK, SimOK
<1>9. local.tick \in Nat
  BY DEF SimOK, Simulation
<1> QED
  BY <1>6, <1>7, <1>8, <1>9 DEF Moves

LEMMA ReceiveStep ==
  ASSUME PInv, ReceiveSnapshot
  PROVE  Moves
<1> USE DEF PInv
<1> DEFINE snap == Head(snaps)
           zero == [snap EXCEPT !.tick = 0]
<1>1. snap \in Snapshot /\ Tail(snaps) \in Seq(Snapshot)
  <2>1. snaps \in Seq(Snapshot) /\ snaps # <<>>
    BY DEF ReceiveSnapshot, TypeOK
  <2> QED
    BY <2>1
<1> HIDE DEF snap
<1>2. zero \in Snapshot
  BY <1>1 DEF Snapshot
<1>3. /\ applying' = {snap} /\ snaps' = Tail(snaps)
      /\ local' = IF adopted THEN AdoptProgress(local, snap) ELSE Adopt(local, zero, TRUE)
      /\ seeding' = ~adopted /\ adopted' = TRUE /\ replayed' = 0
      /\ UNCHANGED <<server, inputs, lead, seq>>
  BY DEF ReceiveSnapshot, snap
<1> HIDE DEF zero
<1>4. SimOK(local') /\ local'.tick >= local.tick
  <2>1. CASE adopted
    <3>1. SimOK(AdoptProgress(local, snap)) /\ AdoptProgress(local, snap).tick = local.tick
      BY <1>1, AdoptProgressOK
    <3> QED
      BY <1>3, <2>1, <3>1, Stays
  <2>2. CASE ~adopted
    <3>1. SimOK(Adopt(local, zero, TRUE)) /\ Adopt(local, zero, TRUE).tick >= local.tick
      BY <1>2, AdoptOK
    <3> QED
      BY <1>3, <2>2, <3>1
  <2> QED
    BY <2>1, <2>2
<1>5. TypeOK'
  <2>1. seeding' \in BOOLEAN /\ adopted' \in BOOLEAN
    BY <1>3 DEF TypeOK
  <2>2. applying' \subseteq Snapshot /\ snaps' \in Seq(Snapshot)
    BY <1>1, <1>3
  <2>3. replayed' \in 0 .. MaxReplay
    BY <1>3
  <2> QED
    BY <1>3, <1>4, <2>1, <2>2, <2>3 DEF TypeOK, SimOK
<1> QED
  BY <1>3, <1>4, <1>5 DEF Moves

LEMMA CatchUpStep ==
  ASSUME PInv, CatchUp
  PROVE  Moves
<1> USE DEF PInv
<1> DEFINE next == Tick(local, "client", 0)
<1>1. PICK snap \in applying :
        /\ replayed < MaxReplay /\ replayed' = replayed + 1
        /\ local' = IF replayed' = MaxReplay THEN Adopt(next, snap, TRUE) ELSE next
        /\ UNCHANGED <<server, adopted, applying, seeding, inputs, snaps, lead, seq>>
  BY DEF CatchUp
<1>2. SimOK(next) /\ next.tick \in {local.tick, local.tick + 1}
  BY TickOK
<1>3. snap \in Snapshot
  BY DEF TypeOK
<1>4. local' = Adopt(next, snap, TRUE) \/ local' = next
  BY <1>1
<1>5. /\ replayed < MaxReplay /\ replayed' = replayed + 1
      /\ UNCHANGED <<server, adopted, applying, seeding, inputs, snaps, lead, seq>>
  BY <1>1
<1> HIDE DEF next
<1>6. local.tick \in Nat /\ next.tick \in Nat /\ next.tick >= local.tick
  BY <1>2, SMTT(40) DEF SimOK, Simulation
<1>7. SimOK(local') /\ local'.tick >= next.tick
  <2>1. SimOK(Adopt(next, snap, TRUE)) /\ Adopt(next, snap, TRUE).tick >= next.tick
    BY <1>2, <1>3, AdoptOK
  <2>2. CASE local' = Adopt(next, snap, TRUE)
    <3> DEFINE b == Adopt(next, snap, TRUE)
    <3>1. SimOK(b) /\ b.tick >= next.tick /\ local' = b
      BY <2>1, <2>2
    <3> HIDE DEF b
    <3> QED
      BY <3>1
  <2>3. CASE local' = next
    <3>1. next.tick >= next.tick
      BY <1>6
    <3> QED
      BY <1>2, <2>3, <3>1
  <2> QED
    BY <1>4, <2>2, <2>3
<1>8. local'.tick \in Nat
  BY <1>7 DEF SimOK, Simulation
<1>9. TypeOK'
  BY <1>5, <1>7 DEF TypeOK, SimOK
<1> QED
  BY <1>5, <1>6, <1>7, <1>8, <1>9 DEF Moves

LEMMA AppliedStep ==
  ASSUME PInv, SnapshotApplied
  PROVE  Moves
<1> USE DEF PInv
<1>1. PICK snap \in applying, hardSnap \in BOOLEAN :
        /\ applying' = {}
        /\ local' = IF seeding \/ hardSnap THEN Adopt(local, snap, FALSE) ELSE local
        /\ UNCHANGED <<server, adopted, seeding, replayed, inputs, snaps, lead, seq>>
  BY DEF SnapshotApplied
<1>2. snap \in Snapshot
  BY DEF TypeOK
<1>3. SimOK(local') /\ local'.tick >= local.tick
  <2>1. SimOK(Adopt(local, snap, FALSE)) /\ Adopt(local, snap, FALSE).tick >= local.tick
    BY <1>2, AdoptOK
  <2> QED
    BY <1>1, <2>1, Stays
<1>4. TypeOK'
  BY <1>1, <1>3 DEF TypeOK, SimOK
<1> QED
  BY <1>1, <1>3, <1>4 DEF Moves

LEMMA ServerInputStep ==
  ASSUME PInv, ServerInput
  PROVE  Moves
<1> USE DEF PInv
<1>1. Head(inputs) \in Input /\ Tail(inputs) \in Seq(Input)
  <2>1. inputs \in Seq(Input) /\ inputs # <<>>
    BY DEF ServerInput, TypeOK
  <2> QED
    BY <2>1
<1>2. /\ inputs' = Tail(inputs) /\ server' = Submit(server, Head(inputs))
      /\ UNCHANGED <<clientVars, snaps, lead>>
  BY DEF ServerInput
<1>3. SimOK(server')
  BY <1>1, <1>2, SubmitOK
<1>4. TypeOK'
  BY <1>1, <1>2, <1>3 DEF TypeOK, SimOK, clientVars
<1> QED
  BY <1>2, <1>3, <1>4, Stays DEF Moves, clientVars

LEMMA ServerTickStep ==
  ASSUME PInv, ServerTick
  PROVE  Moves
<1> USE DEF PInv
<1>1. PICK hits \in 0 .. 1, state \in States :
        server' = IF state = "finished"
                    THEN [Tick(server, "server", hits) EXCEPT !.state = "finished"]
                    ELSE Tick(server, "server", hits)
  BY DEF ServerTick
<1> DEFINE next == Tick(server, "server", hits)
<1>2. SimOK(next)
  BY TickOK
<1>3. server' = [next EXCEPT !.state = "finished"] \/ server' = next
  BY <1>1
<1> HIDE DEF next
<1>4. SimOK(server')
  <2> DEFINE s == [next EXCEPT !.state = "finished"]
  <2>1. s \in Simulation /\ s.tick = next.tick /\ s.hist = next.hist /\ s.pending = next.pending
    BY <1>2 DEF SimOK, Simulation, States
  <2> HIDE DEF s
  <2>2. SimOK(s)
    BY <1>2, <2>1 DEF SimOK, HistOK, PendOK
  <2> QED
    BY <1>2, <1>3, <2>2 DEF s
<1>5. snaps' \in Seq(Snapshot)
  <2> DEFINE snap == [tick |-> server'.tick, state |-> server'.state,
                      hp |-> server'.hp, casts |-> server'.casts]
  <2>1. snap \in Snapshot
    BY <1>4 DEF SimOK, Simulation, Snapshot
  <2>2. snaps' = snaps \/ snaps' = Append(snaps, snap)
    BY DEF ServerTick
  <2> HIDE DEF snap
  <2> QED
    BY <2>1, <2>2 DEF TypeOK
<1>6. UNCHANGED <<clientVars, inputs, lead>>
  BY DEF ServerTick
<1>7. TypeOK'
  BY <1>4, <1>5, <1>6 DEF TypeOK, SimOK, clientVars
<1> QED
  BY <1>4, <1>6, <1>7, Stays DEF Moves, clientVars

-----------------------------------------------------------------------------
(* Theorems *)

LEMMA Inductive == PInv /\ [Next]_vars => Moves
<1> SUFFICES ASSUME PInv, [Next]_vars PROVE Moves
  OBVIOUS
<1>1. CASE UNCHANGED vars
  <2>1. TypeOK'
    BY <1>1 DEF PInv, TypeOK, vars, clientVars
  <2>2. server' = server /\ local' = local
    BY <1>1 DEF vars, clientVars
  <2> QED
    BY <2>1, <2>2, Stays DEF PInv, Moves
<1> QED
  BY <1>1, StepStep, ReceiveStep, CatchUpStep, AppliedStep, ServerInputStep, ServerTickStep
     DEF Next

LEMMA InvariantCorrect == Spec => []PInv
<1>1. Init => PInv
  <2> SUFFICES ASSUME Init PROVE PInv
    OBVIOUS
  <2>1. <<>> \in Seq(Nat) /\ <<>> \in Seq(Input) /\ <<>> \in Seq(Snapshot)
    OBVIOUS
  <2>2. NewSimulation \in Simulation
    BY <2>1 DEF NewSimulation, Simulation, States
  <2>3. SimOK(NewSimulation)
    BY <2>2, FS_EmptySet DEF SimOK, HistOK, PendOK, Increasing, NewSimulation
  <2>4. server = NewSimulation /\ local = NewSimulation
    BY DEF Init
  <2>5. TypeOK
    <3>1. seq = 0 /\ inputs = <<>> /\ snaps = <<>> /\ lead \in Leads
          /\ applying = {} /\ replayed = 0
      BY DEF Init
    <3>2. adopted \in BOOLEAN /\ seeding \in BOOLEAN
      BY DEF Init
    <3>3. replayed \in 0 .. MaxReplay
      BY <3>1
    <3> QED
      BY <2>1, <2>2, <2>4, <3>1, <3>2, <3>3 DEF TypeOK
  <2> QED
    BY <2>3, <2>4, <2>5 DEF PInv
<1>2. PInv /\ [Next]_vars => PInv'
  BY Inductive DEF Moves
<1> QED
  BY <1>1, <1>2, PTL DEF Spec

\* Every variable keeps its type; Boss HP in particular stays within bounds.
THEOREM TypeCorrect == Spec => []TypeOK
<1>1. PInv => TypeOK
  BY DEF PInv
<1> QED
  BY <1>1, InvariantCorrect, PTL

\* The retained hashes stay in tick order and within the limit, whatever is adopted.
THEOREM HistoryOrdered == Spec => []HistoryInOrder
<1>1. PInv => HistoryInOrder
  BY DEF PInv, SimOK, HistOK, Increasing, HistoryInOrder
<1> QED
  BY <1>1, InvariantCorrect, PTL

\* No buffered input is ever left behind.
THEOREM NoneLeftBehind == Spec => []PendingAhead
<1>1. PInv => PendingAhead
  BY DEF PInv, SimOK, PendOK, PendingAhead
<1> QED
  BY <1>1, InvariantCorrect, PTL

\* No adoption, replay or reseed takes the local tick back.
THEOREM TickForward == Spec => NeverRewinds
<1>1. PInv /\ [Next]_vars => [local'.tick >= local.tick]_vars
  BY Inductive DEF Moves
<1> QED
  BY <1>1, InvariantCorrect, PTL DEF Spec, NeverRewinds

-----------------------------------------------------------------------------
(* The Boss HP *)

\* Each tick has at most one buffered input.
OneEach(pending) == \A i, j \in pending : i.tick = j.tick => i = j

\* Nothing is buffered further ahead than the lead, and while a snapshot is replayed
\* the ticks replayed count against it.
WithinLead(pending, tick, n) == \A i \in pending : i.tick + n <= tick + lead

\* HP m is that of a snapshot, n, less at most one for each replayed tick and for each
\* tick of lead.
NearHp(m, n) == m <= n /\ n <= m + replayed /\ n <= m + lead

HpInv ==
  /\ OneEach(local.pending)
  /\ WithinLead(local.pending, local.tick, IF applying = {} THEN 0 ELSE replayed)
  /\ \A snap, other \in applying : snap = other
  /\ \A snap \in applying : NearHp(local.hp, snap.hp)

\* A tick takes one HP at most, and none unless an input was buffered for it.
LEMMA TickTakes ==
  ASSUME NEW sim \in Simulation, sim.state # "finished", OneEach(sim.pending)
  PROVE  LET next == Tick(sim, "client", 0) IN
         /\ next.tick = sim.tick + 1
         /\ next.pending = {i \in sim.pending : i.tick # sim.tick + 1}
         /\ next.hp <= sim.hp /\ sim.hp <= next.hp + 1
         /\ next.hp = sim.hp \/ \E i \in sim.pending : i.tick = sim.tick + 1
<1> DEFINE due   == {i \in sim.pending : i.tick = sim.tick + 1}
           plays == {i \in due : "client" \in i.cast}
           next  == Tick(sim, "client", 0)
<1>1. sim.hp \in Nat /\ sim.tick \in Nat
  BY DEF Simulation
<1>2. plays = {} \/ \E i \in due : plays = {i}
  BY DEF OneEach
<1>3. /\ next.tick = sim.tick + 1
      /\ next.pending = sim.pending \ due
      /\ next.hp = Less(sim.hp, 0 + Cardinality(plays))
  BY DEF Tick, Simulation
<1>4. next.pending = {i \in sim.pending : i.tick # sim.tick + 1}
  BY <1>3
<1> HIDE DEF plays, next
<1>5. CASE plays = {}
  <2>1. Cardinality(plays) = 0
    BY <1>5, FS_EmptySet
  <2> QED
    BY <1>1, <1>3, <1>4, <2>1 DEF Less, next
<1>6. CASE \E i \in due : plays = {i}
  <2>1. Cardinality(plays) = 1
    BY <1>6, FS_Singleton
  <2>2. \E i \in sim.pending : i.tick = sim.tick + 1
    BY <1>6
  <2> QED
    BY <1>1, <1>3, <1>4, <2>1, <2>2 DEF Less, next
<1> QED
  BY <1>2, <1>5, <1>6

\* Submitting keeps one input for each tick.
LEMMA SubmitOneEach ==
  ASSUME NEW sim \in Simulation, NEW input, OneEach(sim.pending)
  PROVE  LET sent == Submit(sim, input) IN
         /\ OneEach(sent.pending)
         /\ sent.pending \subseteq sim.pending \cup {input}
         /\ sent.tick = sim.tick /\ sent.state = sim.state
         /\ sim.state = "finished" => sent = sim
BY DEF Submit, Accepts, Simulation, OneEach

LEMMA AdoptHp ==
  ASSUME NEW sim \in Simulation, NEW snap, NEW alignTick \in BOOLEAN
  PROVE  LET next == Adopt(sim, snap, alignTick) IN
         /\ next.hp = snap.hp
         /\ \/ next.pending = {}
            \/ next.pending = sim.pending /\ next.tick = sim.tick
BY DEF Adopt, Simulation

LEMMA HpStepStep ==
  ASSUME PInv, HpInv, Step
  PROVE  HpInv'
<1>1. applying = {} /\ applying' = {} /\ lead' = lead
  BY DEF Step
<1>2. PICK cast \in SUBSET Sides :
        LET input == [tick |-> local.tick + 1 + lead, seq |-> seq + 1, cast |-> cast] IN
        local' = Tick(Submit(local, input), "client", 0)
  BY DEF Step
<1> DEFINE input == [tick |-> local.tick + 1 + lead, seq |-> seq + 1, cast |-> cast]
           sent  == Submit(local, input)
<1>3. local' = Tick(sent, "client", 0) /\ input.tick = local.tick + 1 + lead
  BY <1>2
<1>4. /\ local \in Simulation /\ local.tick \in Nat /\ lead \in Nat
      /\ OneEach(local.pending) /\ WithinLead(local.pending, local.tick, 0)
  BY <1>1, ParameterAssumption DEF PInv, TypeOK, HpInv, Simulation
<1>5. sent \in Simulation
  <2>1. input \in Input
    BY <1>4 DEF Input, PInv, TypeOK
  <2> QED
    BY <2>1, SubmitOK DEF PInv, SimOK
<1> HIDE DEF input
<1>6. /\ OneEach(sent.pending) /\ sent.pending \subseteq local.pending \cup {input}
      /\ sent.tick = local.tick /\ sent.state = local.state
      /\ local.state = "finished" => sent = local
  BY <1>4, SubmitOneEach
<1> HIDE DEF sent
<1>7. OneEach(local'.pending) /\ WithinLead(local'.pending, local'.tick, 0)
  <2>1. CASE sent.state = "finished"
    <3>1. local' = sent
      BY <1>3, <2>1 DEF Tick
    <3> QED
      BY <1>4, <1>6, <2>1, <3>1
  <2>2. CASE sent.state # "finished"
    <3>1. local'.tick = sent.tick + 1 /\ local'.pending \subseteq sent.pending
      BY <1>3, <1>5, <1>6, <2>2, TickTakes
    <3>2. \A i \in sent.pending : i.tick + 0 <= sent.tick + 1 + lead
      <4>1. \A i \in local.pending : i.tick + 0 <= local.tick + lead /\ i.tick \in Nat
        BY <1>4 DEF WithinLead, Simulation, Input
      <4> QED
        BY <1>3, <1>4, <1>6, <4>1
    <3> QED
      BY <1>6, <3>1, <3>2 DEF OneEach, WithinLead
  <2> QED
    BY <2>1, <2>2
<1> QED
  BY <1>1, <1>7 DEF HpInv, WithinLead

LEMMA HpReceiveStep ==
  ASSUME PInv, HpInv, ReceiveSnapshot
  PROVE  HpInv'
<1> DEFINE snap == Head(snaps)
           zero == [snap EXCEPT !.tick = 0]
<1>1. /\ applying = {} /\ applying' = {snap} /\ replayed' = 0 /\ lead' = lead
      /\ local' = IF adopted THEN AdoptProgress(local, snap) ELSE Adopt(local, zero, TRUE)
      /\ snap \in Snapshot
  BY DEF ReceiveSnapshot, PInv, TypeOK
<1> HIDE DEF snap
<1>2. zero.hp = snap.hp /\ snap.hp \in Nat /\ lead \in Nat
  BY <1>1, ParameterAssumption DEF Snapshot, PInv, TypeOK
<1> HIDE DEF zero
<1>3. local \in Simulation
  BY DEF PInv, TypeOK
<1>4. /\ local'.hp = snap.hp
      /\ \/ local'.pending = {}
         \/ local'.pending = local.pending /\ local'.tick = local.tick
  <2>1. CASE adopted
    BY <1>1, <1>3, <2>1 DEF AdoptProgress, Simulation
  <2>2. CASE ~adopted
    <3>1. local' = Adopt(local, zero, TRUE)
      BY <1>1, <2>2
    <3> QED
      BY <1>2, <1>3, <3>1, AdoptHp
  <2> QED
    BY <2>1, <2>2
<1>5. OneEach(local'.pending) /\ WithinLead(local'.pending, local'.tick, replayed')
  BY <1>1, <1>4 DEF HpInv, OneEach, WithinLead
<1>6. local'.hp <= snap.hp /\ snap.hp <= local'.hp + replayed' /\ snap.hp <= local'.hp + lead
  <2>1. local'.hp = snap.hp /\ replayed' = 0
    BY <1>1, <1>4
  <2> QED
    BY <1>2, <2>1
<1> QED
  BY <1>1, <1>5, <1>6 DEF HpInv, WithinLead, NearHp

LEMMA HpCatchUpStep ==
  ASSUME PInv, HpInv, CatchUp
  PROVE  HpInv'
<1> DEFINE next == Tick(local, "client", 0)
<1>1. PICK snap \in applying :
        /\ local.state # "finished"
        /\ replayed' = replayed + 1
        /\ local' = IF replayed' = MaxReplay THEN Adopt(next, snap, TRUE) ELSE next
        /\ applying' = applying /\ lead' = lead
  BY DEF CatchUp
<1>2. /\ local \in Simulation /\ local.tick \in Nat /\ local.hp \in Nat /\ snap.hp \in Nat
      /\ lead \in Nat /\ replayed \in Nat
  BY ParameterAssumption DEF PInv, TypeOK, Simulation, Snapshot
<1>3. /\ OneEach(local.pending) /\ WithinLead(local.pending, local.tick, replayed)
      /\ NearHp(local.hp, snap.hp) /\ applying = {snap}
  BY DEF HpInv
<1>4. /\ next.tick = local.tick + 1
      /\ next.pending = {i \in local.pending : i.tick # local.tick + 1}
      /\ next.hp <= local.hp /\ local.hp <= next.hp + 1
      /\ next.hp = local.hp \/ \E i \in local.pending : i.tick = local.tick + 1
  BY <1>1, <1>2, <1>3, TickTakes
<1>5. next \in Simulation /\ next.hp \in Nat
  <2>1. next \in Simulation
    BY TickOK DEF PInv, SimOK
  <2> QED
    BY <2>1 DEF Simulation
<1> HIDE DEF next
<1>6. OneEach(next.pending) /\ WithinLead(next.pending, next.tick, replayed + 1)
  <2>1. \A i \in local.pending : i.tick + replayed <= local.tick + lead /\ i.tick \in Nat
    BY <1>2, <1>3 DEF WithinLead, Simulation, Input
  <2>2. \A i \in next.pending : i.tick + (replayed + 1) <= next.tick + lead
    BY <1>2, <1>4, <2>1
  <2> QED
    BY <1>3, <1>4, <2>2 DEF OneEach, WithinLead
<1>7. next.hp <= snap.hp /\ snap.hp <= next.hp + (replayed + 1) /\ snap.hp <= next.hp + lead
  <2>1. local.hp <= snap.hp /\ snap.hp <= local.hp + replayed /\ snap.hp <= local.hp + lead
    BY <1>3 DEF NearHp
  <2>2. CASE next.hp = local.hp
    BY <1>2, <2>1, <2>2
  <2>3. CASE \E i \in local.pending : i.tick = local.tick + 1
    <3>1. replayed + 1 <= lead
      BY <1>2, <1>3, <2>3 DEF WithinLead
    <3> QED
      BY <1>2, <1>4, <1>5, <2>1, <3>1
  <2> QED
    BY <1>4, <2>2, <2>3
<1>8. CASE replayed' = MaxReplay
  <2>1. /\ local'.hp = snap.hp
        /\ \/ local'.pending = {}
           \/ local'.pending = next.pending /\ local'.tick = next.tick
    BY <1>1, <1>5, <1>8, AdoptHp
  <2>2. OneEach(local'.pending) /\ WithinLead(local'.pending, local'.tick, replayed + 1)
    BY <1>6, <2>1 DEF OneEach, WithinLead
  <2>3. /\ local'.hp <= snap.hp /\ snap.hp <= local'.hp + (replayed + 1)
        /\ snap.hp <= local'.hp + lead
    BY <1>2, <2>1
  <2> QED
    BY <1>1, <1>3, <2>2, <2>3 DEF HpInv, WithinLead, NearHp
<1>9. CASE replayed' # MaxReplay
  <2>1. local' = next
    BY <1>1, <1>9
  <2> QED
    BY <1>1, <1>3, <1>6, <1>7, <2>1 DEF HpInv, WithinLead, NearHp
<1> QED
  BY <1>8, <1>9

LEMMA HpAppliedStep ==
  ASSUME PInv, HpInv, SnapshotApplied
  PROVE  /\ HpInv'
         /\ \A snap \in applying : local'.hp <= snap.hp /\ snap.hp <= local'.hp + lead
<1>1. PICK snap \in applying :
        /\ applying' = {} /\ lead' = lead
        /\ local' = Adopt(local, snap, FALSE) \/ local' = local
  BY DEF SnapshotApplied
<1>2. /\ local \in Simulation /\ local.tick \in Nat /\ snap.hp \in Nat
      /\ lead \in Nat /\ replayed \in Nat
  BY ParameterAssumption DEF PInv, TypeOK, Simulation, Snapshot
<1>3. /\ OneEach(local.pending) /\ WithinLead(local.pending, local.tick, replayed)
      /\ NearHp(local.hp, snap.hp) /\ applying = {snap}
  BY DEF HpInv
<1>4. /\ local'.hp = snap.hp \/ local'.hp = local.hp
      /\ local'.pending = {} \/ (local'.pending = local.pending /\ local'.tick = local.tick)
  <2>1. CASE local' = local
    BY <2>1
  <2>2. CASE local' = Adopt(local, snap, FALSE)
    <3> DEFINE next == Adopt(local, snap, FALSE)
    <3>1. /\ next.hp = snap.hp
          /\ next.pending = {} \/ (next.pending = local.pending /\ next.tick = local.tick)
      BY <1>2, AdoptHp
    <3> HIDE DEF next
    <3> QED
      BY <2>2, <3>1 DEF next
  <2> QED
    BY <1>1, <2>1, <2>2
<1>5. OneEach(local'.pending) /\ WithinLead(local'.pending, local'.tick, 0)
  <2>1. \A i \in local.pending : i.tick + 0 <= local.tick + lead
    <3>1. \A i \in local.pending : i.tick + replayed <= local.tick + lead /\ i.tick \in Nat
      BY <1>2, <1>3 DEF WithinLead, Simulation, Input
    <3> QED
      BY <1>2, <3>1
  <2> QED
    BY <1>3, <1>4, <2>1 DEF OneEach, WithinLead
<1>6. local'.hp <= snap.hp /\ snap.hp <= local'.hp + lead
  BY <1>2, <1>3, <1>4 DEF NearHp
<1> QED
  BY <1>1, <1>3, <1>5, <1>6 DEF HpInv, WithinLead

LEMMA HpStep == PInv /\ HpInv /\ [Next]_vars => HpInv'
<1> SUFFICES ASSUME PInv, HpInv, [Next]_vars
             PROVE  HpInv'
  OBVIOUS
<1>1. CASE ServerInput \/ ServerTick \/ UNCHANGED vars
  <2>1. UNCHANGED <<local, applying, replayed, lead>>
    BY <1>1 DEF ServerInput, ServerTick, vars, clientVars
  <2> QED
    BY <2>1 DEF HpInv, WithinLead, NearHp
<1> QED
  BY <1>1, HpStepStep, HpReceiveStep, HpCatchUpStep, HpAppliedStep DEF Next

\* The local Boss HP is the server's after every snapshot, less at most the lead,
\* through seeding, replays and reseeds; without a lead it is the server's.
THEOREM HpFollowsServer == Spec => HpNearServer
<1> DEFINE Follows ==
      \A snap \in applying :
        Applied(snap) => local'.hp <= snap.hp /\ snap.hp <= local'.hp + lead
<1>1. Init => HpInv
  BY DEF Init, HpInv, NewSimulation, OneEach, WithinLead
<1>2. PInv /\ HpInv /\ [Next]_vars => [Follows]_vars
  <2> SUFFICES ASSUME PInv, HpInv, Next, NEW snap \in applying, applying' = {}
               PROVE  local'.hp <= snap.hp /\ snap.hp <= local'.hp + lead
    BY DEF Applied
  <2>1. SnapshotApplied
    BY DEF Next, Step, ReceiveSnapshot, CatchUp, ServerInput, ServerTick, clientVars
  <2> QED
    BY <2>1, HpAppliedStep
<1>3. HpNearServer <=> [][Follows]_vars
  BY PTL DEF HpNearServer
<1> QED
  BY <1>1, <1>2, <1>3, HpStep, InvariantCorrect, PTL DEF Spec

-----------------------------------------------------------------------------
(* The hash of a snapshot's tick *)

Keeps(hist, t) == \E i \in DOMAIN hist : hist[i] = t

\* All that History ticks can hold of what sim went through from a tick on.
Retained(sim, from) == \A t \in from .. sim.tick : sim.tick < t + History => Keeps(sim.hist, t)

\* What is evicted is History ticks old.
LEMMA RememberKeeps ==
  ASSUME NEW hist \in Seq(Nat), NEW tick \in Nat,
         Len(hist) <= History, Increasing(hist), \A i \in DOMAIN hist : hist[i] <= tick,
         NEW t \in Nat, tick < t + History, Keeps(hist, t) \/ t = tick
  PROVE  Keeps(Remember(hist, tick), t)
<1>1. CASE \E i \in DOMAIN hist : hist[i] = tick
  BY <1>1 DEF Remember, Keeps
<1>2. CASE ~\E i \in DOMAIN hist : hist[i] = tick
  <2> DEFINE h == Append(hist, tick)
  <2>1. /\ h \in Seq(Nat) /\ Len(h) = Len(hist) + 1 /\ Len(hist) \in Nat
        /\ h[Len(h)] = tick /\ h # <<>>
        /\ \A i \in 1 .. Len(hist) : h[i] = hist[i] /\ h[i] < tick
    <3>1. \A i \in DOMAIN hist : hist[i] < tick
      BY <1>2
    <3> QED
      BY <3>1, SMTT(40)
  <2>2. Increasing(h)
    BY <2>1 DEF Increasing
  <2>3. Remember(hist, tick) = IF Len(h) > History THEN Tail(h) ELSE h
    BY <1>2 DEF Remember
  <2> HIDE DEF h
  <2>4. PICK k \in 1 .. Len(h) : h[k] = t
    <3>1. CASE Keeps(hist, t)
      <4>1. PICK i \in 1 .. Len(hist) : hist[i] = t
        BY <3>1 DEF Keeps
      <4>2. i \in 1 .. Len(h) /\ h[i] = t
        BY <2>1, <4>1, SMTT(40)
      <4> QED
        BY <4>2
    <3>2. CASE t = tick
      BY <2>1, <3>2
    <3> QED
      BY <3>1, <3>2
  <2>5. CASE ~(Len(h) > History)
    <3>1. k \in DOMAIN h /\ h[k] = t
      BY <2>1, <2>4
    <3>2. Keeps(h, t)
      BY <3>1 DEF Keeps
    <3> QED
      BY <2>3, <2>5, <3>2
  <2>6. CASE Len(h) > History
    <3>1. Len(h) = History + 1 /\ h[1] \in Nat
      BY <2>1, <2>6
    <3>2. h[1] + History <= tick
      <4>1. h[1] + (Len(h) - 1) <= h[Len(h)]
        BY <2>1, <2>2, IncreasingSpan
      <4> QED
        BY <2>1, <3>1, <4>1
    <3>3. k # 1
      BY <2>4, <3>1, <3>2
    <3>4. /\ k - 1 \in 1 .. Len(hist) /\ (k - 1) + 1 = k
          /\ Len(Tail(h)) = Len(hist) /\ Tail(h)[k - 1] = h[(k - 1) + 1]
          /\ DOMAIN Tail(h) = 1 .. Len(hist)
      BY <2>1, <2>4, <3>3, SMTT(40)
    <3>5. Keeps(Tail(h), t)
      BY <2>4, <3>4 DEF Keeps
    <3> QED
      BY <2>3, <2>6, <3>5
  <2> QED
    BY <2>5, <2>6
<1> QED
  BY <1>1, <1>2

\* A tick, or an adoption that does not move the tick, goes on with what is retained.
LEMMA TickRetains ==
  ASSUME NEW sim, SimOK(sim), NEW from \in Nat, Retained(sim, from), NEW side, NEW hits \in Nat
  PROVE  Retained(Tick(sim, side, hits), from)
<1> DEFINE next == sim.tick + 1
           r == Tick(sim, side, hits)
<1>1. CASE sim.state = "finished"
  BY <1>1 DEF Tick
<1>2. CASE sim.state # "finished"
  <2>1. /\ sim \in Simulation /\ sim.tick \in Nat /\ next \in Nat /\ sim.hist \in Seq(Nat)
        /\ Len(sim.hist) <= History /\ Increasing(sim.hist)
        /\ \A i \in DOMAIN sim.hist : sim.hist[i] <= next
    BY DEF SimOK, HistOK, Simulation
  <2>2. r.tick = next /\ r.hist = Remember(sim.hist, next)
    BY <1>2, <2>1 DEF Tick, Simulation
  <2> HIDE DEF r
  <2>3. ASSUME NEW t \in from .. next, next < t + History
        PROVE  Keeps(Remember(sim.hist, next), t)
    <3>1. t \in Nat /\ (t = next \/ (t \in from .. sim.tick /\ sim.tick < t + History))
      BY <2>1, <2>3
    <3>2. Keeps(sim.hist, t) \/ t = next
      BY <3>1 DEF Retained
    <3> HIDE DEF next
    <3> QED
      BY <2>1, <2>3, <3>1, <3>2, RememberKeeps
  <2> QED
    BY <2>2, <2>3 DEF Retained, r
<1> QED
  BY <1>1, <1>2

LEMMA AdoptRetains ==
  ASSUME NEW sim, SimOK(sim), NEW from \in Nat, Retained(sim, from),
         NEW snap, snap.tick \in Nat, NEW alignTick \in BOOLEAN,
         alignTick => snap.tick <= from \/ snap.tick <= sim.tick
  PROVE  Retained(Adopt(sim, snap, alignTick), from)
<1> DEFINE ahead == alignTick /\ snap.tick > sim.tick
           tick == IF ahead THEN snap.tick ELSE sim.tick
           r == Adopt(sim, snap, alignTick)
<1>1. /\ sim \in Simulation /\ sim.tick \in Nat /\ sim.hist \in Seq(Nat)
      /\ Len(sim.hist) <= History /\ Increasing(sim.hist)
      /\ \A i \in DOMAIN sim.hist : sim.hist[i] <= sim.tick
  BY DEF SimOK, HistOK, Simulation
<1>2. tick \in Nat /\ \A i \in DOMAIN sim.hist : sim.hist[i] <= tick
  BY <1>1
<1>3. r.tick = tick /\ r.hist = Remember(sim.hist, tick)
  BY <1>1 DEF Adopt, Simulation
<1>4. ASSUME NEW t \in from .. tick, tick < t + History
      PROVE  Keeps(Remember(sim.hist, tick), t)
  <2>1. t \in Nat
    BY <1>2, <1>4
  <2>2. Keeps(sim.hist, t) \/ t = tick
    <3>1. CASE ahead
      BY <1>1, <1>4, <3>1
    <3>2. CASE ~ahead
      BY <1>4, <3>2 DEF Retained
    <3> QED
      BY <3>1, <3>2
  <2> HIDE DEF tick
  <2> QED
    BY <1>1, <1>2, <1>4, <2>1, <2>2, RememberKeeps
<1> HIDE DEF r, tick
<1> QED
  BY <1>3, <1>4 DEF Retained, r

\* Snapshots are applied in the order of their ticks, one at a time, and every one that
\* is, will be or may yet be sent finds what is retained from its tick on.
SnapsInOrder ==
  /\ \A a, b \in applying : a = b
  /\ \A a \in applying : /\ a.tick <= server.tick
                         /\ \A i \in DOMAIN snaps : a.tick < snaps[i].tick
  /\ \A i \in DOMAIN snaps : snaps[i].tick <= server.tick
  /\ \A i, j \in DOMAIN snaps : i < j => snaps[i].tick < snaps[j].tick

HashInv ==
  /\ SnapsInOrder
  /\ \A a \in applying : Retained(local, a.tick)
  /\ \A i \in DOMAIN snaps : Retained(local, snaps[i].tick)
  /\ Retained(local, server.tick + 1)

\* What a step of the client leaves of it, when it sends and receives nothing.
LEMMA LocalRetains ==
  ASSUME PInv, HashInv, UNCHANGED <<server, snaps>>, applying' \subseteq applying,
         \A from \in Nat :
           /\ Retained(local, from)
           /\ \/ \E a \in applying : a.tick = from
              \/ \E i \in DOMAIN snaps : snaps[i].tick = from
              \/ server.tick + 1 = from
           => Retained(local', from)
  PROVE  HashInv'
<1>1. SnapsInOrder'
  BY DEF HashInv, SnapsInOrder
<1>2. /\ \A a \in applying : a.tick \in Nat
      /\ \A i \in DOMAIN snaps : snaps[i].tick \in Nat
      /\ server.tick + 1 \in Nat
  <2>1. \A i \in DOMAIN snaps : snaps[i] \in Snapshot
    BY ElementOfSeq DEF PInv, TypeOK
  <2> QED
    BY <2>1 DEF PInv, TypeOK, Snapshot, Simulation
<1>3. \A a \in applying' : Retained(local', a.tick)
  BY <1>2 DEF HashInv
<1>4. \A i \in DOMAIN snaps : Retained(local', snaps[i].tick)
  BY <1>2 DEF HashInv
<1>5. Retained(local', server.tick + 1)
  BY <1>2 DEF HashInv
<1>6. HashInv' <=> /\ SnapsInOrder'
                   /\ \A a \in applying' : Retained(local', a.tick)
                   /\ \A i \in DOMAIN snaps' : Retained(local', snaps'[i].tick)
                   /\ Retained(local', server'.tick + 1)
  BY DEF HashInv, Retained
<1> QED
  BY <1>1, <1>3, <1>4, <1>5, <1>6

LEMMA HashStep == PInv /\ HashInv /\ [Next]_vars => HashInv'
<1> SUFFICES ASSUME PInv, HashInv, [Next]_vars PROVE HashInv'
  OBVIOUS
<1> USE DEF PInv
<1>0. /\ \A a \in applying : a \in Snapshot /\ a.tick \in Nat
      /\ \A i \in DOMAIN snaps : snaps[i] \in Snapshot /\ snaps[i].tick \in Nat
      /\ server.tick \in Nat /\ local.tick \in Nat
  <2>1. \A i \in DOMAIN snaps : snaps[i] \in Snapshot
    BY ElementOfSeq DEF TypeOK
  <2> QED
    BY <2>1 DEF TypeOK, Snapshot, Simulation
<1>1. CASE Step
  <2>1. PICK cast \in SUBSET Sides :
          LET input == [tick |-> local.tick + 1 + lead, seq |-> seq + 1, cast |-> cast] IN
          local' = Tick(Submit(local, input), "client", 0)
    BY <1>1 DEF Step
  <2> DEFINE input == [tick |-> local.tick + 1 + lead, seq |-> seq + 1, cast |-> cast]
             sent  == Submit(local, input)
  <2>2. input \in Input
    BY <1>0 DEF Input, TypeOK
  <2>3. local' = Tick(sent, "client", 0)
    BY <2>1
  <2> HIDE DEF input
  <2>4. SimOK(sent) /\ sent.tick = local.tick /\ sent.hist = local.hist
    <3>1. sent.hist = local.hist
      BY DEF Submit, TypeOK, Simulation
    <3> QED
      BY <2>2, <3>1, SubmitOK
  <2> HIDE DEF sent
  <2>5. ASSUME NEW from \in Nat, Retained(local, from) PROVE Retained(local', from)
    <3>1. Retained(sent, from)
      BY <2>4, <2>5 DEF Retained
    <3> QED
      BY <2>3, <2>4, <3>1, TickRetains
  <2> QED
    BY <1>1, <2>5, LocalRetains DEF Step
<1>2. CASE ReceiveSnapshot
  <2> DEFINE snap == Head(snaps)
             zero == [snap EXCEPT !.tick = 0]
  <2>1. /\ applying' = {snap} /\ snaps' = Tail(snaps) /\ snaps # <<>> /\ server' = server
        /\ local' = IF adopted THEN AdoptProgress(local, snap) ELSE Adopt(local, zero, TRUE)
    BY <1>2 DEF ReceiveSnapshot
  <2>2. /\ snaps \in Seq(Snapshot) /\ Len(snaps) \in Nat /\ DOMAIN snaps = 1 .. Len(snaps)
        /\ 1 \in DOMAIN snaps /\ snap = snaps[1] /\ snap \in Snapshot
        /\ DOMAIN Tail(snaps) = 1 .. Len(snaps) - 1
        /\ \A i \in 1 .. Len(snaps) - 1 : Tail(snaps)[i] = snaps[i + 1] /\ i + 1 \in DOMAIN snaps
    BY <2>1, SMTT(40) DEF TypeOK
  <2> HIDE DEF snap
  <2>3. zero.tick = 0
    BY <2>2 DEF Snapshot
  <2> HIDE DEF zero
  <2>4. ASSUME NEW from \in Nat, Retained(local, from) PROVE Retained(local', from)
    <3>1. CASE adopted
      <4>1. local'.tick = local.tick /\ local'.hist = local.hist
        BY <2>1, <3>1 DEF AdoptProgress, TypeOK, Simulation
      <4> QED
        BY <2>4, <4>1 DEF Retained
    <3>2. CASE ~adopted
      <4>1. zero.tick \in Nat /\ zero.tick <= from
        BY <2>3
      <4>2. Retained(Adopt(local, zero, TRUE), from)
        BY <2>4, <4>1, AdoptRetains
      <4> QED
        BY <2>1, <3>2, <4>2
    <3> QED
      BY <3>1, <3>2
  <2>5. SnapsInOrder'
    BY <2>1, <2>2 DEF HashInv, SnapsInOrder
  <2>6. Retained(local', snap.tick)
    BY <1>0, <2>2, <2>4 DEF HashInv
  <2>7. \A i \in DOMAIN snaps' : Retained(local', snaps'[i].tick)
    BY <1>0, <2>1, <2>2, <2>4 DEF HashInv
  <2>8. Retained(local', server.tick + 1)
    BY <1>0, <2>4 DEF HashInv
  <2>9. HashInv' <=> /\ SnapsInOrder'
                     /\ \A a \in applying' : Retained(local', a.tick)
                     /\ \A i \in DOMAIN snaps' : Retained(local', snaps'[i].tick)
                     /\ Retained(local', server'.tick + 1)
    BY DEF HashInv, Retained
  <2> QED
    BY <2>1, <2>5, <2>6, <2>7, <2>8, <2>9
<1>3. CASE CatchUp
  <2> DEFINE next == Tick(local, "client", 0)
  <2>1. PICK snap \in applying :
          /\ local' = IF replayed' = MaxReplay THEN Adopt(next, snap, TRUE) ELSE next
          /\ UNCHANGED <<server, snaps, applying>>
    BY <1>3 DEF CatchUp
  <2>2. SimOK(next) /\ \A from \in Nat : Retained(local, from) => Retained(next, from)
    BY TickOK, TickRetains
  <2> HIDE DEF next
  <2>3. ASSUME NEW from \in Nat, Retained(local, from), snap.tick <= from
        PROVE  Retained(local', from)
    <3>1. Retained(Adopt(next, snap, TRUE), from)
      BY <1>0, <2>2, <2>3, AdoptRetains
    <3> QED
      BY <2>1, <2>2, <2>3, <3>1
  <2>4. ASSUME NEW from \in Nat,
               \/ \E a \in applying : a.tick = from
               \/ \E i \in DOMAIN snaps : snaps[i].tick = from
               \/ server.tick + 1 = from
        PROVE  snap.tick <= from
    BY <1>0, <2>4 DEF HashInv, SnapsInOrder
  <2> QED
    BY <2>1, <2>3, <2>4, LocalRetains
<1>4. CASE SnapshotApplied
  <2>1. PICK snap \in applying :
          /\ applying' = {}
          /\ local' = Adopt(local, snap, FALSE) \/ local' = local
          /\ UNCHANGED <<server, snaps>>
    BY <1>4 DEF SnapshotApplied
  <2>2. ASSUME NEW from \in Nat, Retained(local, from) PROVE Retained(local', from)
    BY <1>0, <2>1, <2>2, AdoptRetains
  <2> QED
    BY <2>1, <2>2, LocalRetains
<1>5. CASE ServerInput
  <2>1. server' = Submit(server, Head(inputs)) /\ UNCHANGED <<local, applying, snaps>>
    BY <1>5 DEF ServerInput, clientVars
  <2>2. server'.tick = server.tick
    BY <2>1 DEF Submit, TypeOK, Simulation
  <2> QED
    BY <2>1, <2>2 DEF HashInv, SnapsInOrder
<1>6. CASE ServerTick
  <2> DEFINE snap == [tick |-> server'.tick, state |-> server'.state,
                      hp |-> server'.hp, casts |-> server'.casts]
  <2>1. server'.tick = server.tick + 1
    <3>1. PICK hits \in 0 .. 1, state \in States :
            server' = IF state = "finished"
                        THEN [Tick(server, "server", hits) EXCEPT !.state = "finished"]
                        ELSE Tick(server, "server", hits)
      BY <1>6 DEF ServerTick
    <3>2. Tick(server, "server", hits) \in Simulation
      BY TickOK DEF SimOK
    <3>3. Tick(server, "server", hits).tick = server.tick + 1
      BY <1>6 DEF ServerTick, Tick, TypeOK, Simulation
    <3> QED
      BY <3>1, <3>2, <3>3 DEF Simulation
  <2>2. /\ snaps' = snaps \/ snaps' = Append(snaps, snap)
        /\ UNCHANGED <<local, applying>> /\ snap.tick = server.tick + 1
    BY <1>6, <2>1 DEF ServerTick, clientVars
  <2> HIDE DEF snap
  <2>3. Retained(local, server'.tick + 1)
    <3>1. \A t \in server.tick + 2 .. local.tick : t \in server.tick + 1 .. local.tick
      BY <1>0
    <3> QED
      BY <1>0, <2>1, <3>1 DEF HashInv, Retained
  <2>4. CASE snaps' = snaps
    BY <1>0, <2>1, <2>2, <2>3, <2>4 DEF HashInv, SnapsInOrder
  <2>5. CASE snaps' = Append(snaps, snap)
    <3>1. /\ Len(snaps) \in Nat /\ DOMAIN snaps = 1 .. Len(snaps)
          /\ DOMAIN snaps' = 1 .. Len(snaps) + 1
          /\ \A i \in 1 .. Len(snaps) : snaps'[i] = snaps[i]
          /\ snaps'[Len(snaps) + 1] = snap
      BY <2>5 DEF TypeOK
    <3>2. \A i \in DOMAIN snaps' : i \in DOMAIN snaps \/ i = Len(snaps) + 1
      BY <3>1
    <3>3. SnapsInOrder'
      <4>1. \A a \in applying : a.tick <= server'.tick /\ a.tick < snap.tick
        BY <1>0, <2>1, <2>2 DEF HashInv, SnapsInOrder
      <4>2. \A i \in 1 .. Len(snaps) : snaps'[i].tick <= server'.tick /\ snaps'[i].tick < snap.tick
        BY <1>0, <2>1, <2>2, <3>1 DEF HashInv, SnapsInOrder
      <4>3. snap.tick <= server'.tick
        BY <1>0, <2>1, <2>2
      <4>4. \A a \in applying, i \in DOMAIN snaps' : a.tick < snaps'[i].tick
        BY <3>1, <3>2, <4>1 DEF HashInv, SnapsInOrder
      <4>5. ASSUME NEW i \in DOMAIN snaps', NEW j \in DOMAIN snaps', i < j
            PROVE  snaps'[i].tick < snaps'[j].tick
        <5>1. i \in 1 .. Len(snaps)
          BY <3>1, <4>5
        <5>2. CASE j \in 1 .. Len(snaps)
          BY <3>1, <4>5, <5>1, <5>2 DEF HashInv, SnapsInOrder
        <5>3. CASE j = Len(snaps) + 1
          BY <3>1, <4>2, <5>1, <5>3
        <5> QED
          BY <3>1, <3>2, <5>2, <5>3
      <4>6. \A i \in DOMAIN snaps' : snaps'[i].tick <= server'.tick
        BY <3>1, <3>2, <4>2, <4>3
      <4> QED
        BY <2>2, <4>1, <4>4, <4>5, <4>6 DEF HashInv, SnapsInOrder
    <3>4. \A i \in DOMAIN snaps' : Retained(local, snaps'[i].tick)
      BY <2>2, <3>1, <3>2 DEF HashInv
    <3> QED
      BY <2>2, <2>3, <3>3, <3>4 DEF HashInv
  <2> QED
    BY <2>2, <2>4, <2>5
<1>7. CASE UNCHANGED vars
  BY <1>7 DEF vars, clientVars, HashInv, SnapsInOrder
<1> QED
  BY <1>1, <1>2, <1>3, <1>4, <1>5, <1>6, <1>7 DEF Next

\* The hash of a snapshot's tick is there to compare when the snapshot has been handled,
\* for any lead, window, history and replay limit.
THEOREM HashComparable == Spec => HashAvailable
<1> DEFINE Available ==
             \A snap \in applying :
               Applied(snap) /\ snap.tick <= local'.tick /\ local'.tick < snap.tick + History
                 => \E i \in DOMAIN local'.hist : local'.hist[i] = snap.tick
<1>1. Init => HashInv
  BY DEF Init, HashInv, SnapsInOrder, Retained, NewSimulation
<1>2. PInv /\ HashInv /\ [Next]_vars => [Available]_vars
  <2> SUFFICES ASSUME PInv, HashInv, Next, NEW snap \in applying, applying' = {},
                      snap.tick <= local'.tick, local'.tick < snap.tick + History
               PROVE  Keeps(local'.hist, snap.tick)
    BY DEF Applied, Keeps
  <2>1. SnapshotApplied
    BY DEF Next, Step, ReceiveSnapshot, CatchUp, ServerInput, ServerTick, clientVars
  <2>2. PICK other \in applying : local' = Adopt(local, other, FALSE) \/ local' = local
    BY <2>1 DEF SnapshotApplied
  <2>3. snap.tick \in Nat /\ other.tick \in Nat /\ Retained(local, snap.tick)
    BY DEF HashInv, PInv, TypeOK, Snapshot
  <2>4. Retained(local', snap.tick)
    BY <2>2, <2>3, AdoptRetains DEF PInv
  <2>5. local'.tick \in Nat
    BY <2>2, <2>3 DEF PInv, TypeOK, Simulation, Adopt
  <2>6. snap.tick \in snap.tick .. local'.tick
    BY <2>3, <2>5
  <2> QED
    BY <2>4, <2>6 DEF Retained
<1>3. HashAvailable <=> [][Available]_vars
  BY PTL DEF HashAvailable
<1> QED
  BY <1>1, <1>2, <1>3, HashStep, InvariantCorrect, PTL DEF Spec
=============================================================================
