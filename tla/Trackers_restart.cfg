CONSTANTS
  Songs <- MCSongs
  MaxRows <- MCRows
  StepLimit <- MCSteps
  Hex = 4
  Dec = 2
  MaxRestarts = 1
SPECIFICATION Spec
PROPERTY LoopsDoNotSurvive
CHECK_DEADLOCK FALSE
