SPECIFICATION FairSpec
CONSTANTS
  Threads = {t1, t2}
  Playback = t2
  NoThread = NoThread
  Players = {"uade", "it2play", "libxmp"}
  Guarded = {"it2play"}
  Eager = {"uade"}
  Candidates <- MCCandidates
  MaxCalls = 2
  MaxLives = 2
INVARIANTS
  ReplayerExclusive
  LoadsClean
  InitOnceBeforeUse
PROPERTIES
  CallsEnd
  ImplementsPool
CHECK_DEADLOCK FALSE
