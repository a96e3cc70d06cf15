---------------------------- MODULE CapitalFlows ----------------------------
(***************************************************************************)
(* The feeds, feature stages and score inputs of internal/capitalflows.    *)
(* Every feature is global, and so is the score.                           *)
(***************************************************************************)
EXTENDS Stages, Sequences

ingestETFFlows     == << Feed("etfFlows", "history", TRUE, TRUE) >>
ingestLTHSupply    == << Feed("lth", "history", TRUE, TRUE) >>
ingestBTCMarketCap == << Feed("btcMcap", "history", FALSE, TRUE) >>

\* the exchange balance is a live snapshot filed under the current day
ingestLiquidityFlow ==
  << Feed("stableMcap", "history", FALSE, TRUE), Feed("balance", "today", FALSE, TRUE),
     Feed("bitfinex", "history", FALSE, TRUE) >>

\* the AUM history is fetched for the tickers of the ETF list
ingestInstitutional ==
  << Leading(Feed("etfList", "today", FALSE, TRUE), 1), Feed("aumHistory", "history", FALSE, FALSE),
     Feed("maxPain", "today", FALSE, FALSE) >>

ingestAll ==
  ingestETFFlows \o ingestLTHSupply \o ingestBTCMarketCap \o ingestLiquidityFlow \o ingestInstitutional

CombinedETFFlowAsOf                         == Raw("etfFlows")
GetLTHSupplyAsOf                            == Raw("lth")
GetCoinglassExchangeBalanceChange7dSumAsOf  == Raw("balance")
GetCoinglassExchangeBalanceChange30dSumAsOf == Raw("balance")
GetCoinglassBitfinexMarginAsOf              == Raw("bitfinex")
GetCoinglassETFListAUMTotalAsOf             == Raw("etfList")
GetCoinglassETFListConcentrationHHIAsOf     == Raw("etfList")
GetCoinglassETFAUMHistoryTotalAsOf          == Raw("aumHistory")
GetCoinglassOptionsDealerSkewProxyAsOf      == Raw("maxPain")

\* of the day and of Lag days before
GetCoinglassStablecoinMcapAsOf == {Raw("stableMcap"), RawPast("stableMcap")}

tryComputeLTHChange == Change("lthChange", "lthDaily")

computeFeatures ==
  << From("etfDaily", {CombinedETFFlowAsOf}), ZScore("etfZ", "etfDaily"),
     From("lthDaily", {GetLTHSupplyAsOf}), tryComputeLTHChange, ZScore("lthZ", "lthChange"),
     From("stableVel", GetCoinglassStablecoinMcapAsOf), ZScore("stableZ", "stableVel"),
     From("exBal", {GetCoinglassExchangeBalanceChange7dSumAsOf}), ZScore("exBalZ", "exBal"),
     From("dryPowder7", {GetCoinglassExchangeBalanceChange7dSumAsOf}), ZScore("dryPowder7Z", "dryPowder7"),
     From("dryPowder30", {GetCoinglassExchangeBalanceChange30dSumAsOf}), ZScore("dryPowder30Z", "dryPowder30"),
     From("bfxSkew", {GetCoinglassBitfinexMarginAsOf}), ZScore("bfxSkewZ", "bfxSkew"),
     First("etfTotal", << {GetCoinglassETFListAUMTotalAsOf}, {GetCoinglassETFAUMHistoryTotalAsOf} >>),
     Change("etfVel", "etfTotal"), ZScore("etfVelZ", "etfVel"),
     From("hhi", {GetCoinglassETFListConcentrationHHIAsOf}), ZScore("hhiZ", "hhi"),
     From("dealer", {GetCoinglassOptionsDealerSkewProxyAsOf}), ZScore("dealerZ", "dealer") >>

\* scoreAsset computes no feature of its own
scoreAsset == << >>

gatherScoreInputs ==
  {"etfZ", "lthZ", "stableZ", "exBalZ", "dryPowder7Z", "dryPowder30Z", "bfxSkewZ",
   "etfVelZ", "hhiZ", "dealerZ"}

assets == << "GLOBAL" >>
=============================================================================
