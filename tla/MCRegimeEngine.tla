--------------------------- MODULE MCRegimeEngine ---------------------------
(* Two domains, one of them scored for the market as a whole. *)
EXTENDS RegimeEngine

twoDomains == {"LIQUIDITY", "CAPITAL_FLOWS"}
bothAssets == << "BTC", "ETH" >>
onlyBTC == << "BTC" >>
=============================================================================
