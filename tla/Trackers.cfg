CONSTANTS
  Songs <- MCSongs
  MaxRows <- MCRows
  StepLimit <- MCSteps
  Hex = 4
  Dec = 2
  MaxRestarts = 1
SPECIFICATION Spec
INVARIANTS SubsongsAscend WalkInBounds WalkIsShort RestartReplays
PROPERTY EndIsTheEnd
CHECK_DEADLOCK FALSE
