SPECIFICATION Spec
CONSTANTS
  Chains <- Tabled
  Worlds <- AllWorlds
  Universe <- MCUniverse
  Moments <- MCMoments
  Calendar <- MCCalendar
  ProbAbove <- MCProbAbove
  RealizedVol <- MCRealizedVol
  Looks <- Everybody
  Fragile = {"intraday", "history"}
  MaxOutages = 1
  MaxScans = 1
  Axis = 20000
INVARIANTS
  
  SweepAgrees
  Mirrored
PROPERTY
  ScanCompletes
CHECK_DEADLOCK FALSE
