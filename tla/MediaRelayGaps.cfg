SPECIFICATION Spec
CONSTANTS
  v1 = v1
  v2 = v2
  Viewers = {v1, v2}
  MaxPackets = 3
  MaxParts = 3
  SocketRoom = 2
  WriteLimit = 5
  Header = 2
  SeqSpace = 8
  FirstSeq = 6
CHECK_DEADLOCK FALSE
INVARIANT IncompleteIsDiscarded
