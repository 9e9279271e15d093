CONSTANTS
  LastMatch = 2
  FirstRows = 3
  LaterRows = 1
  MaxSeq <- MCMaxSeq
  Limit = 1
  MaxDrainPages = 2
  Calls = {c1, c2}
SPECIFICATION FairSpec
INVARIANTS
  TypeOK
  NoSilentLoss
  ResyncCountsExactly
  EndedMatchStaysEnded
PROPERTIES
  ImplementsFeed
  StaleCallsIgnored
  CatchUp
CHECK_DEADLOCK FALSE
