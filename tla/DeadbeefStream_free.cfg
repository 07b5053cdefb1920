SPECIFICATION PSpec
CONSTANTS
  Freq = 3
  BufFrames = 2
  Songs <- MCSongs
  PrecalcTimeout = 4
  KnownTimeouts <- MCKnownTimeouts
  ReadSizes = {2, 3, 5}
  SeekTargets = {0, 600, 1700, 2999}
  MaxSeeks = 2
  PLAYERS <- MCPLAYERS
  Modules <- MCModules
  Saved <- MCSaved
  MinLengths = {0, 2}
  MaxItems = 1
INVARIANTS
  StopsAPlayer
CHECK_DEADLOCK FALSE
