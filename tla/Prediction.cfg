CONSTANTS
  Window = 2
  History = 2
  MaxReplay = 2
  Leads = {0, 1}
  MaxHp = 2
  MaxTick = 4
  MaxSeq = 3
  MaxQueue = 2
SPECIFICATION Spec
INVARIANTS
  TypeOK
  HistoryInOrder
  PendingAhead
PROPERTIES
  NeverRewinds
  HashAvailable
  HpNearServer
CHECK_DEADLOCK FALSE
