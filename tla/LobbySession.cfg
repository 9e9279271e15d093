CONSTANTS
  Deployments = {"ws", "http"}
  MaxLogins = 2
  LastMatch = 2
  MaxCalls = 2
SPECIFICATION Spec
INVARIANTS
  TypeOK
  TokenFollowsSession
  MatchNeedsSession
  BattleIsJoined
PROPERTIES
  SessionsNeverReturn
