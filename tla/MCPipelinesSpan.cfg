SPECIFICATION MCSpec
CONSTANTS
  TransitionEnter = 86
  TransitionExit = 80
  RiskOnEnter = 20
  RiskOnExit = 5
  RiskOffEnter <- riskOffEnter
  RiskOffExit <- riskOffExit
  Indicators <- indicators
  Risks = {60, 79, 80, 85, 86, 90}
  SpanDays = 0
INVARIANT ZeroSpanDisables
