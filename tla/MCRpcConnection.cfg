SPECIFICATION Spec
CONSTANTS
  r1 = r1
  r2 = r2
  s1 = s1
  s2 = s2
  s3 = s3
  NoSock = NoSock
  Orphan = Orphan
  Reqs <- TwoReqs
  Socks <- ThreeSocks
  Reconnect = TRUE
  Heartbeat = TRUE
  SplitFrames = TRUE
  AttemptCap = 2
SYMMETRY Symmetry
INVARIANTS
  TypeOK
  PendingMatchesCallers
  NoLostWaiter
  AwaitedIsOnTheWire
  ReconnectArmed
  ConnectedIsReadable
  HeartbeatFollowsState
  BackoffReset
PROPERTIES
  OnlyUserReopens
  ImplementsContract
CHECK_DEADLOCK FALSE
