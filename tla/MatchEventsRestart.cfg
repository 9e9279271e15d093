CONSTANTS
  LastMatch = 2
  FirstRows = 2
  LaterRows = 1
  MaxSeq <- MCMaxSeq
  Limit = 1
  MaxDrainPages = 2
  Calls = {c1}
SPECIFICATION Spec
INVARIANT RestartsCleanly
CHECK_DEADLOCK FALSE
