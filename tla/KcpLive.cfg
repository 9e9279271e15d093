CONSTANTS
  Client = client
  Server = server
  Data = {d1}
  SndWnd = 2
  RcvWnd = 2
  WndRcv = 2
  RecvLimit = 2
  Closers = {client}
  ClientSends = 3
  ServerSends = 0
  MaxSent <- MCMaxSent
  ToClient = 1
  ToServer = 2
  NetCap <- MCNetCap
  Half = 4
  Duplicates = FALSE
SPECIFICATION FairSpec
PROPERTY EventualDelivery
CHECK_DEADLOCK FALSE
