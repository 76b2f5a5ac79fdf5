\* Two clients that may send CONNECT twice, and two messages.
CONSTANTS
  k1 = k1
  k2 = k2
  s1 = s1
  s2 = s2
  s3 = s3
  all = all
  some = some
  m1 = m1
  m2 = m2
  Null = Null
  Conn <- Conns
  Session <- Sessions
  Filter <- Filters
  Message <- Messages
  Matches <- Matching
  MaxTopics = 2
  MaxConnects = 2
SPECIFICATION Spec
SYMMETRY Symmetry
INVARIANTS
  TypeOK
  UserDataIsSession
  SessionsHaveClients
PROPERTIES
  ImplementsPubSub
