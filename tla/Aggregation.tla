---------------------------- MODULE Aggregation ----------------------------
(***************************************************************************)
(* How signals are put together: computeScore of the five domain services, *)
(* and the weighted sum of the domain scores in the regime engine.         *)
(*                                                                         *)
(* Inputs come and go with the features behind them.  An input is a        *)
(* squashed z-score in units of 1/One; one that is NaN is treated as one   *)
(* that is not available.  The services take a missing component as        *)
(* neutral, the engine gives its weight to the others.                     *)
(***************************************************************************)
EXTENDS Integers, FiniteSets, FiniteSetsExt

CONSTANTS
  Values,    \* values of an input
  Absent     \* inputs that never come

One == 10000

VARIABLES
  target,    \* the service whose score it is
  postETF,   \* the day is not before ETFLaunchDate
  in         \* of each input, {} or the set of its value

vars == <<target, postETF, in>>

\* ScoreInputs of the services and the scores of the engine
ScoreInputs ==
  [liquidity     |-> {"stable", "ssr", "netflow", "tvl"},
   leverage      |-> {"oi", "funding", "basis", "liq", "oiChange", "positionSkew", "crowdDivergence",
                      "takerAggression"},
   capital_flows |-> {"etf", "lth", "miner", "velocity", "exchangeBalance", "bitfinexMargin", "dryPowder7d",
                      "dryPowder30d", "aumVelocity", "concentration", "dealerSkew"},
   market_stress |-> {"correlation", "peg", "coinbase", "leverageBasis", "bookImbalance", "futuresSpot"},
   volatility    |-> {"spread", "skewReal", "skewProxy", "vov", "termSlope", "oiVelocity", "putCall",
                      "maxPain", "gex"},
   regime        |-> {"LIQUIDITY", "LEVERAGE", "MARKET_STRESS", "CAPITAL_FLOWS", "VOLATILITY"}]

Init ==
  /\ target \in DOMAIN ScoreInputs
  /\ postETF \in IF target = "capital_flows" THEN BOOLEAN ELSE {TRUE}   \* no other service asks
  /\ in = [i \in ScoreInputs[target] |-> {}]

Arrive(i, v) == in[i] = {} /\ in' = [in EXCEPT ![i] = {v}] /\ UNCHANGED <<target, postETF>>

Drop(i) == in[i] # {} /\ in' = [in EXCEPT ![i] = {}] /\ UNCHANGED <<target, postETF>>

Next == \E i \in ScoreInputs[target] \ Absent : Drop(i) \/ \E v \in Values : Arrive(i, v)

Spec == Init /\ [][Next]_vars

-----------------------------------------------------------------------------

\* Config.Defaults: the weights, in units of 1/One, as the files of configs/ have them too
liquidityDefaults == [StablecoinCapital |-> 4000, ExchangeNetflow |-> 3500, DefiCapital |-> 2500]

leverageDefaults ==
  [Size |-> 2550, Funding |-> 1275, Basis |-> 1700, Liq |-> 1700, Momentum |-> 1275, CrowdPositioning |-> 1500]

\* there is no default for Miner and MinerPre
capitalFlowsDefaults == [ETF |-> 4160, LTH |-> 3840, Miner |-> 0, LiquidityFlow |-> 2000, LTHPre |-> 10000, MinerPre |-> 0]

marketStressDefaults ==
  [Correlation |-> 2400, Peg |-> 2000, Coinbase |-> 1200, BasisInversion |-> 2400, Microstructure |-> 2000]

volatilityDefaults ==
  [FearPremium |-> 4000, TailRisk |-> 3500, VoV |-> 2500, FearPremium4 |-> 3000, TermStructure4 |-> 3000,
   TailRisk4 |-> 2500, VoV4 |-> 1500, OptionsCrossSource |-> 2000]

has(i) == in[i] # {}

\* TanhSquash of an input, or the zero of a component that has none
tanh(i) == IF has(i) THEN CHOOSE v \in in[i] : TRUE ELSE 0

Available(inputs) == {i \in inputs : has(i)}

\* Mutant: the sum is not divided by the number of inputs.
meanOfSum(plus, minus) ==
  MapThenSumSet(tanh, Available(plus)) - MapThenSumSet(tanh, Available(minus))

\* the mean of the available inputs, those of minus with the opposite sign
mean(plus, minus) ==
  IF Available(plus \cup minus) = {} THEN 0
  ELSE (MapThenSumSet(tanh, Available(plus)) - MapThenSumSet(tanh, Available(minus)))
       \div Cardinality(Available(plus \cup minus))

stablecoinCapital ==
  IF ~has("stable") THEN 0
  ELSE IF has("ssr") THEN (tanh("stable") - tanh("ssr")) \div 2
  ELSE tanh("stable")

liquidity ==
  LET w == liquidityDefaults
  IN  w.StablecoinCapital * stablecoinCapital - w.ExchangeNetflow * tanh("netflow") + w.DefiCapital * tanh("tvl")

crowdPositioning == mean({"crowdDivergence", "takerAggression"}, {"positionSkew"})

leverage ==
  LET w == leverageDefaults
  IN  w.Funding * tanh("funding") + w.Basis * tanh("basis") + w.CrowdPositioning * crowdPositioning
        - w.Size * tanh("oi") - w.Liq * tanh("liq") - w.Momentum * tanh("oiChange")

liquidityFlow ==
  mean({"velocity", "bitfinexMargin", "dryPowder7d", "dryPowder30d", "aumVelocity", "dealerSkew"},
       {"exchangeBalance", "concentration"})

capital_flows ==
  LET w == capitalFlowsDefaults
  IN  IF postETF
      THEN w.ETF * tanh("etf") + w.LTH * tanh("lth") + w.Miner * tanh("miner") + w.LiquidityFlow * liquidityFlow
      ELSE w.LTHPre * tanh("lth") + w.MinerPre * tanh("miner")

microstructure == mean({"futuresSpot"}, {"bookImbalance"})

market_stress ==
  LET w == marketStressDefaults
  IN  -(w.Correlation * tanh("correlation") + w.Peg * tanh("peg") + w.Coinbase * tanh("coinbase")
        + w.BasisInversion * tanh("leverageBasis") + w.Microstructure * microstructure)

tailRisk == IF has("skewReal") THEN -tanh("skewReal") ELSE -tanh("skewProxy")

\* with the term structure, or without
fourOrThree ==
  LET w == volatilityDefaults
  IN  IF has("termSlope")
      THEN w.TailRisk4 * tailRisk - w.FearPremium4 * tanh("spread") - w.TermStructure4 * tanh("termSlope")
             - w.VoV4 * tanh("vov")
      ELSE w.TailRisk * tailRisk - w.FearPremium * tanh("spread") - w.VoV * tanh("vov")

optionsCross == {"oiVelocity", "putCall", "maxPain", "gex"}

\* Mutant: the options replace the rest.
volatilityReplaced ==
  IF Available(optionsCross) = {} THEN fourOrThree ELSE One * mean({}, optionsCross)

volatility ==
  LET w == volatilityDefaults.OptionsCrossSource
  IN  IF Available(optionsCross) = {} THEN fourOrThree
      ELSE (One - w) * (fourOrThree \div One) + w * mean({}, optionsCross)

nominal ==
  [LIQUIDITY |-> 2500, LEVERAGE |-> 2000, MARKET_STRESS |-> 2000, CAPITAL_FLOWS |-> 2000, VOLATILITY |-> 1500]

\* Mutant: the weights of missing domains are not given to the others.
redistributeWeightsNominal == [d \in DOMAIN nominal |-> IF has(d) THEN nominal[d] ELSE 0]

\* of the domains that have a score; those without count as nothing
redistributeWeights ==
  LET sumPresent == MapThenSumSet(LAMBDA d : nominal[d], Available(DOMAIN nominal))
  IN  IF sumPresent = 0 THEN nominal
      ELSE [d \in DOMAIN nominal |-> IF has(d) THEN (nominal[d] * One) \div sumPresent ELSE 0]

weightedSumRaw == MapThenSumSet(LAMBDA d : redistributeWeights[d] * tanh(d), DOMAIN nominal)

\* coverageFraction is at least MinCoverage, 0.6
Covered == Cardinality(Available(DOMAIN nominal)) * 10 >= 6 * Cardinality(DOMAIN nominal)

\* in units of 1 / One^2
Sum ==
  CASE target = "liquidity"     -> liquidity
    [] target = "leverage"      -> leverage
    [] target = "capital_flows" -> capital_flows
    [] target = "market_stress" -> market_stress
    [] target = "volatility"    -> volatility
    [] target = "regime"        -> weightedSumRaw

-----------------------------------------------------------------------------

(***************************************************************************)
(* The weights of every mode (before and after the ETF launch, with and    *)
(* without term structure, options or microstructure) leave the score in   *)
(* [-1, 1] by themselves: clipping it never hides an input.                *)
(***************************************************************************)
ClipIdle == Sum \in -(One * One) .. One * One

(***************************************************************************)
(* One input that arrives, or goes because its feed failed, never moves a  *)
(* score by more than half of its range, also when it changes the mode.    *)
(***************************************************************************)
OneInputBounded == target # "regime" => Sum' - Sum \in -(One * One) .. One * One

(***************************************************************************)
(* The engine's raw indicator does not shrink for want of domains: when it *)
(* has the coverage it needs, the indicator lies between the least and the *)
(* greatest score it has, up to the rounding of the weights.               *)
(***************************************************************************)
MissingDomainsNeutral ==
  target = "regime" /\ Covered =>
    LET scores == {tanh(d) : d \in Available(DOMAIN nominal)}
        slack  == One * Cardinality(DOMAIN nominal)
    IN  Sum \in Min(scores) * One - slack .. Max(scores) * One + slack
=============================================================================
