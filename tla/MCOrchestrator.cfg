SPECIFICATION Spec
CONSTANTS
  Programs <- programs
  Setups <- setups
  Steps <- steps
  Domains <- SomeDomains
  Needs <- needs
  MinCover = 2
  MaxRev = 1
  MaxDay = 1
  MaxEvents = 1
INVARIANT RunFlowsDown
PROPERTY Converges
PROPERTY KeepsTicking
