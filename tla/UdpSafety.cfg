\* A listener, two senders and two connections for them, which the application
\* keeps open or not, answers or not, and closes whenever it likes.
CONSTANTS
  p1 = p1
  p2 = p2
  d1 = d1
  d2 = d2
  listener = listener
  nobody = nobody
  Peer <- Peers
  Child <- Children
  Lc = listener
  NoPeer = nobody
  MaxQueue = 1
  KeepsOpen <- EitherWay
  MaxSend = 1
  MaxRecv = 1
  ConnectTimeout = 1
  SendIn <- Answers
  CloseIn <- Closes
SPECIFICATION Spec
SYMMETRY Symmetry
INVARIANTS
  TypeOK
  OneChildPerPeer
  ListenerKeepsSocket
  FreedIsSilent
