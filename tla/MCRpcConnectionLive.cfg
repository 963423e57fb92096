SPECIFICATION FairSpec
CONSTANTS
  r1 = r1
  r2 = r2
  s1 = s1
  s2 = s2
  s3 = s3
  NoSock = NoSock
  Orphan = Orphan
  Reqs <- OneReq
  Socks <- TwoSocks
  Reconnect = TRUE
  Heartbeat = TRUE
  SplitFrames = FALSE
  AttemptCap = 1
PROPERTIES
  CallsSettle
  SelfHeals
