------------------------------ MODULE Leverage ------------------------------
(***************************************************************************)
(* The feeds, feature stages and score inputs of internal/leverage.        *)
(***************************************************************************)
EXTENDS Stages, Sequences

ingestExchangeOI      == << Feed("exchangeOI", "ranged", TRUE, TRUE) >>
ingestExchangeFunding == << Feed("funding", "ranged", TRUE, TRUE) >>
ingestDeribitBasis    == << Feed("deribitBasis", "today", FALSE, FALSE) >>

\* the paginated history of the aggregated open interest
backfillAggregatedOI  == Feed("cgAgg", "history", FALSE, TRUE)
\* per exchange, clipped to the requested range, and then aggregated
ingestCoinglassOI     == << Feed("cgOI", "ranged", FALSE, TRUE), backfillAggregatedOI >>

ingestCoinglassBasis  == << Feed("cgBasis", "history", FALSE, TRUE) >>

backfillAggregatedLiquidations == Feed("cgLiq", "history", TRUE, TRUE)
ingestCoinglassLiquidations    == << backfillAggregatedLiquidations >>

ingestCoinglassCrowd ==
  << Feed("longShort", "history", FALSE, TRUE), Feed("taker", "history", FALSE, TRUE),
     Feed("borrow", "history", FALSE, FALSE) >>

ingestAll ==
  ingestExchangeOI \o ingestExchangeFunding \o ingestDeribitBasis \o ingestCoinglassOI \o
  ingestCoinglassBasis \o ingestCoinglassLiquidations \o ingestCoinglassCrowd

\* the bitcoin market cap, read for every asset
foreignFeeds == {"btcMcap"}

\* AggregatedOIAsOf sums every exchange that has a row, CoinGlass' own too
AggregatedOIAsOf == << {Raw("exchangeOI"), Raw("cgOI")}, {Raw("exchangeOI")}, {Raw("cgOI")} >>

CoinglassAggregatedOIAsOf           == Raw("cgAgg")
DailyAvgFundingAsOf                 == Raw("funding")
GetCoinglassFuturesBasisAsOf        == Raw("cgBasis")
GetDeribitBasisAsOf                 == Raw("deribitBasis")
CoinglassAggregatedLiquidationsAsOf == Raw("cgLiq")
GetCoinglassLSRatioAvgAsOf          == Raw("longShort")
GetCoinglassTakerVolumeAsOf         == Raw("taker")
GetMarketCapAsOf                    == Raw("btcMcap")

\* no feed fills the table of the exchanges' own liquidations any more
DailyTotalLiquidationsAsOf == Raw("exchangeLiqs")

\* the ratio to the market cap if its series is long enough, else the raw open
\* interest against its own series
computeOIPercentile == First("oiPerc", << {Series("oiMcap")}, {Mem("oiRaw"), Grown("oiRaw")} >>)

\* each signal is computed only if its own raw rows are there
gatherCrowdInputs ==
  << From("posSkew", {GetCoinglassLSRatioAvgAsOf}), From("crowdDiv", {GetCoinglassLSRatioAvgAsOf}),
     From("takerAggr", {GetCoinglassTakerVolumeAsOf}) >>

computeAssetDay ==
  << First("oiRaw", << {CoinglassAggregatedOIAsOf} >> \o AggregatedOIAsOf),
     From("oiMcap", {Mem("oiRaw"), GetMarketCapAsOf}),
     From("fundDaily", {DailyAvgFundingAsOf}),
     From("basisApprox", {Mem("fundDaily")}),
     First("basisDaily", << {GetCoinglassFuturesBasisAsOf}, {GetDeribitBasisAsOf}, {Mem("fundDaily")} >>),
     First("liqDaily", << {CoinglassAggregatedLiquidationsAsOf}, {DailyTotalLiquidationsAsOf} >>),
     From("oiChange", {Mem("oiRaw"), PastOf("oiRaw")}),
     computeOIPercentile,
     ZScore("fundZ", "fundDaily"),
     ZScore("basisZ", "basisDaily"),
     ZScore("liqZ", "liqDaily"),
     ZScore("oiChangeZ", "oiChange") >>
  \o gatherCrowdInputs \o
  << ZScore("posSkewZ", "posSkew"), ZScore("crowdDivZ", "crowdDiv"), ZScore("takerZ", "takerAggr") >>

gatherScoreInputs ==
  {"oiPerc", "fundZ", "basisZ", "liqZ", "oiChangeZ", "posSkewZ", "crowdDivZ", "takerZ"}

assets == << "BTC", "ETH" >>
=============================================================================
