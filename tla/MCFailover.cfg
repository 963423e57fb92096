SPECIFICATION Spec
CONSTANTS
  a = a
  b = b
  c1 = c1
  c2 = c2
  NotConfigured = NotConfigured
  NoConn = NoConn
  Calls <- TwoCalls
  Answers <- RefusedOrFatal
  Lookup <- TwoEndpoints
  Weight <- NoWeights
  ActiveCount <- NotReported
  Balancer = "roundRobin"
  MaxConnections = 1
  RetryMaxAttempts = NotConfigured
SYMMETRY Symmetry
INVARIANTS
  TypeOK
  LoneCallTriesAll
  RunsOncePerUnknown
CHECK_DEADLOCK FALSE
