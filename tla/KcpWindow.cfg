CONSTANTS
  Client = client
  Server = server
  Data = {d1, d2}
  SndWnd = 2
  RcvWnd = 3
  WndRcv = 3
  RecvLimit = 2
  Closers = {client, server}
  ClientSends = 3
  ServerSends = 0
  MaxSent <- MCMaxSent
  ToClient = 1
  ToServer = 2
  NetCap <- MCNetCap
  Half = 5
  Duplicates = TRUE
SPECIFICATION Spec
INVARIANTS
  TypeOK
  NothingForgotten
  WindowsRespected
  NeverStuck
  OrderedDelivery
PROPERTY ImplementsChannel
SYMMETRY DataSymmetry
CHECK_DEADLOCK FALSE
