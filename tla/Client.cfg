SPECIFICATION FairSpec
CONSTANTS
  s1 = s1
  s2 = s2
  MaxConnects = 2
  Streams = {s1, s2}
CHECK_DEADLOCK FALSE
INVARIANTS
  TypeOK
  AlarmsHaveClient
  OneError
  AnnouncedAreAccepted
PROPERTIES
  PollEnds
  FailureStopsLoop
