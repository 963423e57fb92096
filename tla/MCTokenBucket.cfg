SPECIFICATION Spec
CONSTANTS
  Capacity = 3
  RefillTokens = 2
  RefillInterval = 3
  MaxTime = 10
INVARIANTS
  TypeOK
  WindowBound
  RefillsOnTheGrid
