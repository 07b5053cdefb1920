SPECIFICATION FairSpec
CONSTANTS
  Threads = {t1, t2, t3}
  NoThread = NoThread
  MaxProbes = 3
  Freqs = {1, 2}
  PrecalcFreq = 1
  MaxCalls = 1
  MaxLives = 2
INVARIANTS
  ProbeExclusive
  ProbeReady
  NoProbeLost
  CoresAccounted
PROPERTIES
  AllProbesReturn
  ImplementsPool
CHECK_DEADLOCK FALSE
