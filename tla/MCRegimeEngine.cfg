SPECIFICATION Spec
CONSTANTS
  Domains <- twoDomains
  Assets <- bothAssets
  MinCover = 1
  MinSamples = 2
  Lookback = 1
  Roc = 1
  Momentum = 2
  Trail = 1
  Horizon = 1000
  LastDay = 1
  MaxScores = 2
  MaxRuns = 2
  MaxFaults = 1
CHECK_DEADLOCK FALSE
INVARIANT TypeOK
INVARIANT TickCurrent
INVARIANT BackfillCurrent
INVARIANT StatesFresher
INVARIANT InputsPointInTime
