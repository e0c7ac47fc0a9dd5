SPECIFICATION MediaSpec
CONSTANTS
  Mtu = 12
  MaxCalls = 2
  MaxFaults = 1
  Frames <- MCFrames
  VP8Mtus = {4, 7}
  VP8Frames <- MCVP8Frames
  PictureIds = {126, 32766}
  MaxVP8Calls = 3
CHECK_DEADLOCK FALSE
INVARIANTS
  TypeOK
  ScanIsSplit
  PacketsFitMtu
  ParameterSetsFresh
  SetsAreNotForgotten
  LosslessDelivery
  DamageIsContained
  VP8IsUnderstood
