SPECIFICATION Spec
CONSTANTS
  PacketSize = 3
  BufSize = 4
  WriteSizes <- MCWriteSizes
  FrameSizes <- MCFrameSizes
  Fps = 1
  Estimates <- MCEstimates
  MaxWritten = 5
INVARIANTS
  InOrderDelivery
  BufferIsTheTail
  InFlightIsTrue
  NoBadAck
  OutstandingIsTimed
PROPERTY
  KeepsPromise
CONSTRAINT
  FewInFlight
CHECK_DEADLOCK FALSE
