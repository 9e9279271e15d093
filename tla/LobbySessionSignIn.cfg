CONSTANTS
  Deployments = {"ws"}
  MaxLogins = 2
  LastMatch = 1
  MaxCalls = 1
SPECIFICATION Spec
PROPERTIES
  SignInLands
CHECK_DEADLOCK FALSE
