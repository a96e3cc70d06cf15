SPECIFICATION Spec
CONSTANTS
  Domains <- oneDomain
  Assets <- onlyBTC
  Values <- twoValues
  MinCover = 1
  MinSamples = 1
  Lookback = 1
  Roc = 1
  Momentum = 2
  DayLen = 2
  SLA = 1
  MaxNow = 3
  MaxRows = 2
  MaxReplays = 1
  MaxRuns = 1
  MaxFaults = 0
INVARIANT NoLookAhead
