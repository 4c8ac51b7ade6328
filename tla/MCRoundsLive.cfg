SPECIFICATION FairSpec
CONSTANTS
  p1 = p1
  p2 = p2
  p3 = p3
  Ids <- MCPair
  Teams = {1, 2}
  TreasureTeams = {1, 2}
  PauseTeam = 0
  Lives = 0
  MaxPaused = 1
  NoTeam = NoTeam
PROPERTY
  OutIsNotForever
