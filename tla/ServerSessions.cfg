SPECIFICATION FairSpec
CONSTANTS
  s1 = s1
  s2 = s2
  b1 = b1
  None = None
  Sessions = {s1, s2}
  Streams = {b1}
  Bidi = {b1}
  SessionOf <- MCOneStream
  Codes = {7}
  MaxDatagrams = 1
CHECK_DEADLOCK FALSE
INVARIANTS
  FlagMatchesTransport
  RefusalTakesEffect
  NoStreamLeftWaiting
  NoCallbackOnFreed
PROPERTIES
  ClosesOnlyOpenSessions
  ImplementsLifecycle
  NoServiceAfterEnd
  IntervalRepeats
