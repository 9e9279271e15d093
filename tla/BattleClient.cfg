CONSTANTS
  LastMatch = 2
  Deployments = {"plain", "lobby", "handshake"}
  MaxSessions = 2
  MaxInputs = 3
  MaxHandshakes = 2
SPECIFICATION Spec
INVARIANTS
  TypeOK
  FramesInOrder
  NothingDropped
  NeverClearAfterSealed
PROPERTIES
  OwnKey
  ResultOfOwnMatch
CHECK_DEADLOCK FALSE
