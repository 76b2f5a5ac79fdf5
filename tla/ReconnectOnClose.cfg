\* A CLOSE handler that reconnects leaves a connection behind.
CONSTANTS
  c1 = c1
  c2 = c2
  Conn <- Two
  Ssl <- Plain
  MaxSend = 1
  MaxRecv = 1
  ConnectTimeout = 1
  SendIn = {}
  CloseIn = {}
  Reconnects = TRUE
SPECIFICATION Spec
SYMMETRY Symmetry
INVARIANTS
  AllClosedByMgrFree
