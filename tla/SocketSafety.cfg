\* Two connections in any role (a listener and what it accepts, clients), plain
\* or SSL, and an application that sends and closes from every handler.
CONSTANTS
  c1 = c1
  c2 = c2
  Conn <- Two
  Ssl <- Both
  MaxSend = 2
  MaxRecv = 1
  ConnectTimeout = 1
  SendIn <- AnyContext
  CloseIn <- AnyContext
  Reconnects = FALSE
SPECIFICATION Spec
SYMMETRY Symmetry
INVARIANTS
  TypeOK
  NothingFiresAfterFree
  EventOrder
  FailedIsGone
  SslBeforeData
  OnlyAcceptSendStalls
  AllClosedByMgrFree
PROPERTIES
  ImplementsConnLife
