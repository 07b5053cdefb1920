SPECIFICATION Spec
CONSTANTS
  Freq = 54
  MsPerSec = 6
  Scale = 256
  ThresholdSilence = 1
  ThresholdVolume = 4
  Garbage = 30000
  Sounds <- MCSounds
  Buffers = {5, 8}
  PrecalcTimeout = 3
  SilenceTimeout = 1
  MaxSilence = 4
  AcrPerSec = 9
  RepeatThreshold = 1
  LoopSeconds = 1
INVARIANTS
  BufTmpFits
  BufIsSmoothed
  LoopsInBounds
  OnlyQuietIsCut
  TailIsShort
