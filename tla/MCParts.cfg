SPECIFICATION Spec
CHECK_DEADLOCK FALSE

CONSTANTS
  Slots = {1, 2, 3}
  Watcher = 1
  NumIds = 3
  MaxPlayers = 3
  Width = 6
  Clients = {1}
  MaxFuel = 6
  Regen = 1
  Every = 2
  RefuelRate = 3
  MaxLoops = 6
  MaxChange = 3
  MaxSeq = 2
  Contact = 3
  MaxConnections = 3
  NumSelectFd = 4
  Names = {"a", "b", "c"}
  MaxScores = 2
  Scores = {0, 1}
  MaxTime = 1
  Texts = {50, 60}
  MaxLines = 3
  Pilots = {1, 2}
  Team <- Two
  NumTreasures = 1
  MaxObjects = 2
  MaxAtOnce = 1
  WorldX = 3
  WorldY = 3
  NumObjs = 3
  Searches <- Corners
  MapWidth = 3
  MapHeight = 2
  Drawings <- Sheets
  PixelsX = 3
  PixelsY = 3
  NumSeats = 3
  Bots = {3}
  NumShots = 2
  Displays <- Wish
  Radars <- Everybody
  AreaSize = 2
  MaxView = 4
  PerArea = 1
  FrameRooms = {60, 104}
  WriteSpare = 8
  FrameFps = 5
  FrameDivisor = 3
  MovingShips = {1}
  MovingShots = {1}
  X = 5
  Y = 3
  WallMaps <- Maps

INVARIANTS
  ValuesAreAsGiven
  EveryoneIsHeard
  PointersAreToPlayers
  IdsAreTheirs
  OperatorsAreCounted
  ShownFuelIsTrue
  KeysAreObeyed
  RankIsKept
  BallsAreAccountedFor
  DistancesAreTrue
  WallsAreTight
  ShipsStayClear
  CellsAreTrue
  MapIsAsDrawn
  FramesAreTrue
