----------------------------- MODULE MCBossRace -----------------------------
(* Instances of BossRace for TLC: a card that guards and one that strikes. *)
EXTENDS BossRaceProperties
CONSTANTS guard, strike, blank, unknown
MCCost     == [c \in Cards |-> IF c = guard THEN 3 ELSE 2]
MCCooldown == [c \in Cards |-> IF c = guard THEN 3 ELSE 1]
MCDuration == [c \in Cards |-> IF c = guard THEN 3 ELSE 0]
MCDamage   == [c \in Cards |-> IF c = guard THEN 0 ELSE 2]
MCDecks    == {<<guard>>, <<guard, strike, strike, blank, guard>>,
               <<strike, unknown, guard, blank, strike>>}
MCControls == {[slot |-> 1, shoot |-> FALSE, bomb |-> FALSE],
               [slot |-> 2, shoot |-> TRUE, bomb |-> FALSE],
               [slot |-> 0, shoot |-> TRUE, bomb |-> TRUE]}
=============================================================================
