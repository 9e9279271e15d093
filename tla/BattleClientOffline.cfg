CONSTANTS
  LastMatch = 1
  Deployments = {"plain"}
  MaxSessions = 1
  MaxInputs = 2
  MaxHandshakes = 1
SPECIFICATION Spec
INVARIANTS
  OfflineDropsInputs
CHECK_DEADLOCK FALSE
