CONSTANTS
  guard = guard
  strike = strike
  blank = blank
  unknown = unknown
  Players = {1}
  MinPlayers = 1
  Cards = {guard, strike}
  Blank = blank
  Unknown = unknown
  Guards = {guard}
  Cost <- MCCost
  Cooldown <- MCCooldown
  Duration <- MCDuration
  Damage <- MCDamage
  HandLimit = 2
  MaxEnergy = 5
  EnergyPerTick = 2
  Slack = 1
  Decks <- MCDecks
  OpeningEnergy = 3
  HitTicks = 2
  Lives = 3
  Bombs = 2
  BossHp = 5
  ShotDamage = 1
  BombDamage = 1
  Window = 2
  Controls <- MCControls
  MaxTick = 7
SPECIFICATION Spec
INVARIANTS
  TypeOK
  LedgerBalanced
PROPERTY HitsSpaced
CHECK_DEADLOCK FALSE
