SPECIFICATION Spec
CONSTANTS
  h1 = h1
  h2 = h2
  h3 = h3
  h4 = h4
  r1 = r1
  b1 = b1
  b2 = b2
  b3 = b3
  b4 = b4
  h5 = h5
  Humans <- MCHumans
  Robots <- MCRobots
  Teams <- MCTeams
  PauseTeam = 0
  Bases <- MCBases
  BaseTeam <- MCBaseTeam
  RobotTeam = 3
  ReserveRobotTeam = TRUE
  RestrictRobots = TRUE
  MaxRobots = 1
  MaxPaused = 2
  Targets <- MCHumans
  NoTeam = NoTeam
  NoBase = NoBase
  Nobody = Nobody
INVARIANT
  LoginFindsABase
CHECK_DEADLOCK FALSE
