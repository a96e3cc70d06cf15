----------------------------- MODULE MCBacktest -----------------------------
(* Two values to sweep; one domain, assets to choose from. *)
EXTENDS Backtest

oneDomain == {"LIQUIDITY"}
bothAssets == << "BTC", "ETH" >>
onlyBTC == << "BTC" >>
twoValues == << "v1", "v2" >>
=============================================================================
