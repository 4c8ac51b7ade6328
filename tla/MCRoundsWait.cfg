SPECIFICATION Spec
CONSTANTS
  p1 = p1
  p2 = p2
  p3 = p3
  Ids <- MCIds
  Teams = {1, 2}
  TreasureTeams = {1}
  PauseTeam = 0
  Lives = 1
  MaxPaused = 1
  NoTeam = NoTeam
PROPERTY
  WaitsForTheReset
