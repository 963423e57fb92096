SPECIFICATION MCSpec
CONSTANTS
  a = a
  b = b
  c1 = c1
  c2 = c2
  NotConfigured = NotConfigured
  NoConn = NoConn
  Calls <- TwoCalls
  Answers <- AllAnswers
  Lookup <- TwoEndpoints
  Weight <- NoWeights
  ActiveCount <- NotReported
  Balancer = "roundRobin"
  MaxConnections = 1
  MaxDrains = 2
  RetryMaxAttempts = NotConfigured
SYMMETRY Symmetry
INVARIANTS
  DeployTypeOK
  RestartGoesUnnoticed
  RunsOnceThroughRestarts
CHECK_DEADLOCK FALSE
