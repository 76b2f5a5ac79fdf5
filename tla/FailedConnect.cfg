\* A connect() that fails at once is announced as a success.
CONSTANTS
  c1 = c1
  c2 = c2
  Conn <- Two
  Ssl <- Plain
  MaxSend = 1
  MaxRecv = 1
  ConnectTimeout = 1
  SendIn = {}
  CloseIn = {}
  Reconnects = FALSE
SPECIFICATION Spec
SYMMETRY Symmetry
INVARIANTS
  FailedConnectIsReported
