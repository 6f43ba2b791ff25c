SPECIFICATION FairSession
CONSTANTS
  Budget = 2
  DegradedAfter = 1
  ReconnectAfter = 3
  RetryDelay = 1
  MaxRetryDelay = 4
  Commands = {"pause", "resume", "reconnect"}
  Contracts = {c, d}
  c = c
  d = d
INVARIANTS
  SocketIsSubscribed
  BadgeIsBacked
  DialsBounded
PROPERTIES
  NoSocketOutlives
  DeliversOrStops
  ListingsReachTheSocket
CHECK_DEADLOCK FALSE
