----------------------------- MODULE Volatility -----------------------------
(***************************************************************************)
(* The feeds, feature stages and score inputs of internal/volatility.      *)
(***************************************************************************)
EXTENDS Stages, Sequences

ingestDVOL == << Feed("dvol", "ranged", FALSE, TRUE) >>

\* term slope and skew of a live snapshot, saved as features of the requested
\* day; the one event after both is modelled after the second
ingestOptionsSnapshot ==
  << Feed("ivTermSlope", "feature", FALSE, FALSE), Feed("ivSkew", "feature", FALSE, TRUE) >>

\* info and max pain are live snapshots filed under the requested day
ingestCoinglassOptions ==
  << Feed("optionsInfo", "asked", FALSE, FALSE), Feed("optionsOI", "history", FALSE, FALSE),
     Feed("maxPain", "asked", FALSE, FALSE) >>

ingestDeribitOptionsChain == << Feed("chain", "asked", FALSE, TRUE) >>

\* the ingestion of RunBackfill: everything but the chain
ingestBackfill == ingestDVOL \o ingestOptionsSnapshot \o ingestCoinglassOptions

\* the ingestion of RunOnce
ingestAll == ingestBackfill \o ingestDeribitOptionsChain

\* Binance klines of the market stress service
foreignFeeds == {"klines"}

GetDVOLCloseAsOf                      == Raw("dvol")
RealizedVol30d                        == RawSeries("klines")
SpotCloseAsOf                         == Raw("klines")
GetCoinglassOptionsAggregatedOIAsOf   == Raw("optionsOI")
GetCoinglassOptionsPutCallRatioAsOf   == Raw("optionsInfo")
GetCoinglassOptionsMaxPainNearestAsOf == Raw("maxPain")
GetDeribitOptionsChainAsOf            == Raw("chain")

computeGEXNetDealer == From("gex", {GetDeribitOptionsChainAsOf})

noStages == << >>

computeAssetDay ==
  << From("dvolDaily", {GetDVOLCloseAsOf}),
     From("rv", {RealizedVol30d}),
     From("spread", {Latest("dvolDaily"), Latest("rv")}),
     ZScore("vov", "dvolDaily"),
     ZScore("spreadZ", "spread"),
     ZScore("skewProxyZ", "dvolDaily"),
     ZScore("vovZ", "vov"),
     ZScore("termSlopeZ", "ivTermSlope"),
     ZScore("skewRealZ", "ivSkew"),
     From("cgOIDaily", {GetCoinglassOptionsAggregatedOIAsOf}), Change("cgOIVel", "cgOIDaily"), ZScore("cgOIVelZ", "cgOIVel"),
     From("pcr", {GetCoinglassOptionsPutCallRatioAsOf}), ZScore("pcrZ", "pcr"),
     From("mp", {GetCoinglassOptionsMaxPainNearestAsOf, SpotCloseAsOf}), ZScore("mpZ", "mp"),
     computeGEXNetDealer, ZScore("gexZ", "gex") >>

gatherScoreInputs ==
  {"spreadZ", "skewRealZ", "skewProxyZ", "vovZ", "termSlopeZ", "cgOIVelZ", "pcrZ", "mpZ", "gexZ"}

assets == << "BTC", "ETH" >>
=============================================================================
