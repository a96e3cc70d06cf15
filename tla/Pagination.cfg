SPECIFICATION Spec
CONSTANTS
  Start = 2
  End = 6
  Limit = 2
  Caps = {1, 2, 3}
  WindowLen = 2
  MinDate = 2
  MaxPages = 3
  DayLen = 2
  MaxTime = 6
  MaxRepeats = 3
CHECK_DEADLOCK FALSE
INVARIANT NoHoles
INVARIANT Complete
INVARIANT CountedOnce
PROPERTY Ends
