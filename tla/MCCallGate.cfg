SPECIFICATION GateSpec
CONSTANTS
  c1 = c1
  c2 = c2
  c3 = c3
  k1 = k1
  k2 = k2
  NoKey = NoKey
  Keys <- TwoKeys
  Calls <- ThreeCalls
  Threshold = 2
  Reset = 2
  Modulus = 2
INVARIANTS
  TypeOK
  TripsAtThreshold
  HalfOpenHasProbe
  MetricsTellResults
PROPERTIES
  OpenIsNotExtended
  HalfOpenEnds
