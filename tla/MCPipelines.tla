---------------------------- MODULE MCPipelines ----------------------------
(***************************************************************************)
(* The four parts of the arithmetic (Classifier, RegimePipeline,           *)
(* Aggregation and Metrics), of which each behaviour runs one: part says   *)
(* which.                                                                  *)
(***************************************************************************)
EXTENDS Classifier

CONSTANT SpanDays

VARIABLES day, states, target, postETF, in, days, prices, part

pipelineVars == <<day, states>>
aggregationVars == <<target, postETF, in>>
metricsVars == <<days, prices>>

\* DefaultHysteresis, and values about its thresholds
riskOffEnter == -20
riskOffExit == -5
indicators == {-40, -21, -20, -6, -5, 0, 5, 6, 20, 21, 40}

Pipeline == INSTANCE RegimePipeline WITH
  TransitionBaseline <- 20, RocWeight <- 70, DivergenceWeight <- 30, MaxDay <- 2,
  Sums <- {-300, -110, 0, 90}, Tanhs <- {<<100, 30>>}

\* inputs of one mean, alike to those that come
alike == {"dryPowder7d", "dryPowder30d", "concentration", "dealerSkew"}

Scores == INSTANCE Aggregation WITH Values <- {-10000, 10000}, Absent <- alike

\* prices that rise and fall by different fractions
somePrices == {1, 2, 4}

Statistics == INSTANCE Metrics WITH
  ShortRun <- 1, maxGapDays <- 1, LeadDays <- 2, LagDays <- 1, CostDivisor <- 2,
  Prices <- somePrices, MaxDays <- 4, Gaps <- {1, 2}

MCInit ==
  /\ Init /\ Pipeline!Init /\ Statistics!Init
  /\ part \in {"classifier", "pipeline", "aggregation", "metrics"}
  /\ IF part = "aggregation" THEN Scores!Init
     ELSE target = "liquidity" /\ postETF = FALSE /\ in = [i \in {} |-> {}]

MCNext ==
  \/ part = "classifier"  /\ Next            /\ UNCHANGED <<pipelineVars, aggregationVars, metricsVars, part>>
  \/ part = "pipeline"    /\ Pipeline!Next   /\ UNCHANGED <<vars, aggregationVars, metricsVars, part>>
  \/ part = "aggregation" /\ Scores!Next     /\ UNCHANGED <<vars, pipelineVars, metricsVars, part>>
  \/ part = "metrics"     /\ Statistics!Next /\ UNCHANGED <<vars, pipelineVars, aggregationVars, part>>

MCSpec == MCInit /\ [][MCNext]_<<vars, pipelineVars, aggregationVars, metricsVars, part>>

(***************************************************************************)
(* A day whose normalised indicator is in range is never refused, whatever *)
(* became of the days before.                                              *)
(***************************************************************************)
ModerateDaysSaved == part = "pipeline" => Pipeline!ModerateDaysSaved

(***************************************************************************)
(* What configs/regime-engine.yaml says: a span of 0 or 1 disables the     *)
(* smoothing of the indicator before it is saved.                          *)
(***************************************************************************)
ZeroSpanDisables == part = "pipeline" => Pipeline!ZeroSpanDisables

(***************************************************************************)
(* The default weights of computeScore keep every score in [-1, 1] in      *)
(* every mode, so that clipping never hides an input.                      *)
(***************************************************************************)
ClipIdle == part = "aggregation" => Scores!ClipIdle

(***************************************************************************)
(* One input that comes or goes never moves a domain score by more than    *)
(* half of its range.                                                      *)
(***************************************************************************)
OneInputBounded == [][part = "aggregation" => Scores!OneInputBounded]_aggregationVars

(***************************************************************************)
(* With enough coverage the engine's raw indicator lies between the scores *)
(* it has, whichever domains are missing.                                  *)
(***************************************************************************)
MissingDomainsNeutral == part = "aggregation" => Scores!MissingDomainsNeutral

(***************************************************************************)
(* The statistics of a run (runs and flip-flops, lead times, filled        *)
(* prices, drawdown, the toy strategy) are what their names say, for any   *)
(* labels, gaps and missing prices.                                        *)
(***************************************************************************)
MetricsExact == part = "metrics" => Statistics!MetricsExact
=============================================================================
