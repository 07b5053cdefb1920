SPECIFICATION ASpec
CONSTANTS
  Files <- MCFiles
  Subsongs = {0, 1, 2}
  Threads = {t1, t2}
  PLAYER_all = TRUE
  SkipBroken = TRUE
SYMMETRY Symmetry
INVARIANTS
  StoredAgrees
  TagsAreTrue
PROPERTIES
  NothingForgotten
