SPECIFICATION FairSpec
CONSTANTS
  c1 = c1
  c2 = c2
  c3 = c3
  Clients <- MCClients
  NickOf <- MCNickOf
  HostOf <- MCHostOf
  Nobody = Nobody
  Slots = {0, 1}
  SetupUnits = 1
  Chunk = 1
  ListenLoops = 1
  SetupLoops = 1
  LoginLoops = 1
  ReadyLoops = 1
  IdleLoops = 1
  Extension = 1
  NumBases = 2
  MaxRobots = 1
  MaxQueued = 2
  QueueLoops = 1
  CheckLoops = 0
  AckLoops = 0
  PositionLoops = 2
INVARIANTS
  EnteringFirst
  
  OneConnectionPerNick
PROPERTIES
  ServedInOrder
  
CHECK_DEADLOCK FALSE
