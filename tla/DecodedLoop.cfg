SPECIFICATION DFairSpec
CONSTANTS
  Freq = 11
  BufFrames = 3
  TickRate = 5
  Files <- MCFiles
  Songs <- MCSongs
  KnownTimeouts <- MCKnownTimeouts
  SeekTargets = {0, 600, 1000, 1700, 2999}
  PrecalcTimeout = 4
  SubsongTimeout = 3
  SilenceTimeout = 2
  MaxSilence = 300
  MaxSeeks = 2
  Horizon = 19
INVARIANTS
  PositionTracksSong
  SeekLands
  LengthIsHeard
  DecoderAgrees
  NothingPastEnd
  KnownTimeIsPlayed
PROPERTIES
  LoopEnds
