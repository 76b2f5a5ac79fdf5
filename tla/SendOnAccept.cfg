\* Data sent from the ACCEPT handler is not watched.
CONSTANTS
  c1 = c1
  c2 = c2
  Conn <- Two
  Ssl <- Plain
  MaxSend = 1
  MaxRecv = 1
  ConnectTimeout = 1
  SendIn <- AnyContext
  CloseIn = {}
  Reconnects = FALSE
SPECIFICATION Spec
SYMMETRY Symmetry
INVARIANTS
  QueuedDataIsWatched
