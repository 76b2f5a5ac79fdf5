\* A listener whose connections are kept open: whose data does each get?
CONSTANTS
  p1 = p1
  p2 = p2
  d1 = d1
  d2 = d2
  listener = listener
  nobody = nobody
  Peer <- Peers
  Child <- Children
  Lc = listener
  NoPeer = nobody
  MaxQueue = 1
  KeepsOpen <- EitherWay
  MaxSend = 1
  MaxRecv = 1
  ConnectTimeout = 1
  SendIn <- Answers
  CloseIn <- Closes
SPECIFICATION Spec
INVARIANTS
  RightPeer
