\* Liveness: the timer alone closes and times out.
CONSTANTS
  c1 = c1
  c2 = c2
  Conn <- One
  Ssl <- Both
  MaxSend = 2
  MaxRecv = 2
  ConnectTimeout = 5
  SendIn <- SendsWhenOpen
  CloseIn <- AnyContext
  Reconnects = FALSE
SPECIFICATION FairSpec
PROPERTIES
  CloseHappens
  ConnectEnds
