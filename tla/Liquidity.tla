------------------------------ MODULE Liquidity ------------------------------
(***************************************************************************)
(* The feeds, feature stages and score inputs of internal/liquidity.       *)
(***************************************************************************)
EXTENDS Stages

ingestStablecoinSupply    == Feed("supply", "history", TRUE, TRUE)
ingestPerStablecoinSupply == Feed("perStable", "history", TRUE, TRUE)
ingestChainTVL            == Feed("tvl", "history", TRUE, TRUE)
ingestMarketCap           == Feed("ethMcap", "history", FALSE, TRUE)
ingestExchangeNetflow     == Feed("netflow", "ranged", TRUE, TRUE)

ingestAll ==
  << ingestStablecoinSupply, ingestPerStablecoinSupply, ingestChainTVL,
     ingestMarketCap, ingestExchangeNetflow >>

\* ingested by capital-flows-service and ingest-mcap
foreignFeeds == {"btcMcap"}

GetRawStablecoinSupplyAsOf == Raw("supply")
SumRawStablecoinSupplyAsOf == Raw("perStable")
GetRawChainTVLAsOf         == Raw("tvl")
Sum7dNetflow               == RawWindow("netflow")
GetMarketCapAsOf           == RawCoin

computeGlobalFeatures ==
  << From("supply", {GetRawStablecoinSupplyAsOf}),
     From("supplyMajor", {SumRawStablecoinSupplyAsOf}),
     Change("growth", "supply"),
     ZScore("growthZ", "growth"),
     From("tvl", {GetRawChainTVLAsOf}),
     Change("tvlGrowth", "tvl"),
     ZScore("tvlZ", "tvlGrowth") >>

computeAssetDay ==
  << From("netflow7", {Sum7dNetflow}),
     ZScore("netflowZ", "netflow7"),
     From("ssr", {GetMarketCapAsOf, Latest("supply")}),
     From("ssrPct", {Latest("ssr"), Series("ssr")}) >>

gatherScoreInputs == {"growthZ", "ssrPct", "netflowZ", "tvlZ"}

assets == << "BTC", "ETH" >>
=============================================================================
