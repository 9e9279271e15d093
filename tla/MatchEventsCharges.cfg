CONSTANTS
  LastMatch = 2
  FirstRows = 1
  LaterRows = 1
  MaxSeq <- MCMaxSeq
  Limit = 1
  MaxDrainPages = 2
  Calls = {c1}
SPECIFICATION Spec
INVARIANT ChargesPerMatch
CHECK_DEADLOCK FALSE
