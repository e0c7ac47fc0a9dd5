SPECIFICATION Spec
CONSTANTS
  s1 = s1
  s2 = s2
  MaxConnects = 1
  Streams = {s1}
CHECK_DEADLOCK FALSE
INVARIANT EndIsReported
