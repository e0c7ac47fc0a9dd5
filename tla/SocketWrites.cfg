SPECIFICATION FairSpec
CONSTANTS
  c1 = c1
  c2 = c2
  c3 = c3
  Conns = {c1, c2}
  MaxSessions = 1
  Batch = 2
  MaxSends = 1
  MaxQueue = 3
  MaxPending = 2
CHECK_DEADLOCK FALSE
PROPERTIES
  PendingWritesResume
