---------------------------- MODULE MarketStress ----------------------------
(***************************************************************************)
(* The feeds, feature stages and score inputs of internal/marketstress.    *)
(***************************************************************************)
EXTENDS Stages, Sequences

ingestKlines          == << Feed("klines", "padded", TRUE, TRUE) >>
ingestKrakenOHLC      == << Feed("kraken", "history", TRUE, TRUE) >>
ingestCoinbaseCandles == << Feed("coinbase", "padded", TRUE, TRUE) >>
ingestCoinbasePremium == << Feed("premium", "history", TRUE, TRUE) >>
ingestCoinglassMicro  ==
  << Feed("orderbook", "history", FALSE, TRUE), Feed("futuresSpot", "history", FALSE, TRUE) >>

ingestAll ==
  ingestKlines \o ingestKrakenOHLC \o ingestCoinbaseCandles \o ingestCoinbasePremium \o ingestCoinglassMicro

\* the basis feature of the leverage service
foreignFeeds == {"leverageBasis"}

GetBinanceKlineCloseSeries          == RawSeries("klines")
GetBinanceKlineCloseAsOf            == Raw("klines")
GetKrakenCloseAsOf                  == Raw("kraken")
GetCoinbaseCloseAsOf                == Raw("coinbase")
GetCoinglassCoinbasePremiumRateAsOf == Raw("premium")
GetLatestLeverageFeatureAnyVersion  == Raw("leverageBasis")
GetCoinglassOrderbookImbalanceAsOf  == Raw("orderbook")
GetCoinglassFuturesSpotRatioAsOf    == Raw("futuresSpot")

computeBtcAltCorrelation  == From("corr", {GetBinanceKlineCloseSeries})
computePegDeviation       == From("peg", {GetKrakenCloseAsOf})
computeCoinbasePremiumAbs == First("prem", << {GetCoinglassCoinbasePremiumRateAsOf}, {GetCoinbaseCloseAsOf, GetBinanceKlineCloseAsOf} >>)
computeBasisInversionDepth == From("basisInv", {GetLatestLeverageFeatureAnyVersion})

computeGlobalFeatures ==
  << computeBtcAltCorrelation, computePegDeviation, computeCoinbasePremiumAbs,
     ZScore("corrZ", "corr"), ZScore("pegZ", "peg"), ZScore("premZ", "prem") >>

computeAssetDay ==
  << computeBasisInversionDepth, ZScore("basisInvZ", "basisInv"),
     From("book", {GetCoinglassOrderbookImbalanceAsOf}), ZScore("bookZ", "book"),
     From("fs", {GetCoinglassFuturesSpotRatioAsOf}), ZScore("fsZ", "fs") >>

gatherScoreInputs == {"corrZ", "pegZ", "premZ", "basisInvZ", "bookZ", "fsZ"}

assets == << "BTC", "ETH" >>
=============================================================================
