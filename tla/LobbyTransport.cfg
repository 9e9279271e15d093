CONSTANTS
  Calls = {1, 2}
  MaxSockets = 3
  MaxTokens = 1
  MaxPushes = 1
SPECIFICATION FairSpec
INVARIANTS
  TypeOK
  NoWaiterForgotten
  SentCallsAnswerable
  OwnAnswerOnQuietConnection
PROPERTIES
  DisposedIsFinal
  EveryWaiterWakes
CHECK_DEADLOCK FALSE
