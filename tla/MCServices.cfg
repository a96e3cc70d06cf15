SPECIFICATION Spec
CONSTANTS
  Lag = 1
  Window = 2
  MinObs = 1
  Horizon = 1000
  LastDay = 1
  MaxRev = 1
CHECK_DEADLOCK FALSE
INVARIANT AllConverge
INVARIANT BackfillsConverge
INVARIANT InputsInWindow
