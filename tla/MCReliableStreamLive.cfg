SPECIFICATION FairSpec
CONSTANTS
  PacketSize = 3
  BufSize = 3
  WriteSizes <- MCWriteSizesLive
  FrameSizes <- MCFrameSizes
  Fps = 1
  Estimates <- MCEstimates
  MaxWritten = 3
PROPERTY
  EverythingIsAcknowledged
CHECK_DEADLOCK FALSE
