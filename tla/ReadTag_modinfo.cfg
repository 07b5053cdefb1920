SPECIFICATION ASpec
CONSTANTS
  Files <- MCSingle
  Subsongs = {0, 1, 2}
  Threads = {t1, t2}
  PLAYER_all = TRUE
  SkipBroken = TRUE
INVARIANTS
  MakeInfoHasModinfo
