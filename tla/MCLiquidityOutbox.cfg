SPECIFICATION Spec
CONSTANTS
  Feeds <- ingestAll
  BackfillFeeds <- ingestAll
  GlobalStages <- computeGlobalFeatures
  AssetStages <- computeAssetDay
  Inputs <- gatherScoreInputs
  Assets <- onlyETH
  Foreign <- noFeeds
  Lag = 1
  Window = 2
  MinObs = 1
  Horizon = 1000
  Depth = 4
  LastDay = 1
  MidRun = TRUE
  MaxRuns = 1
  MaxBackfills = 2
  MaxRev = 1
  MaxFaults = 1
CHECK_DEADLOCK FALSE
INVARIANT OutboxAtomic
