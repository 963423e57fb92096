SPECIFICATION WarmSpec
CONSTANTS
  a = a
  b = b
  c1 = c1
  c2 = c2
  NotConfigured = NotConfigured
  NoConn = NoConn
  Calls <- TwoCalls
  Answers <- None
  Lookup <- ListedTwice
  Weight <- NoWeights
  ActiveCount <- NotReported
  Balancer = "leastActive"
  MaxConnections = 2
  RetryMaxAttempts = 2
INVARIANTS
  PoolIsEven
PROPERTIES
  CallsEnd
CHECK_DEADLOCK FALSE
