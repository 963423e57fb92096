SPECIFICATION FairSpec
CONSTANTS
  c1 = c1
  c2 = c2
  h1 = h1
  h2 = h2
  k1 = k1
  k2 = k2
  NoConn = NoConn
  Conns <- TwoConns
  Handlers <- TwoHandlers
  Closers <- TwoClosers
  MaxListens = 2
  MaxMessages = 2
INVARIANTS
  TypeOK
  ActiveCounts
  DrainerWillWake
  ClosedIsClosed
PROPERTIES
  ImplementsContract
  CloseCompletes
CHECK_DEADLOCK FALSE
