SPECIFICATION ClientSpec
CONSTANTS
  Subs = {f1, f2}
  Events = {"logs", "txs"}
  MaxEvents = 1
  RPCFilterCap = 2
  Conns = {c1, c2}
  NoConn = NoConn
  FirstSub = f1
  FirstConn = c1
  SentEvent = "logs"
CHECK_DEADLOCK FALSE
INVARIANTS
  SubscribersAreHeld
  
PROPERTIES
  RequestsAreServed
  ReaderEnds
  LostPeerIsDropped
