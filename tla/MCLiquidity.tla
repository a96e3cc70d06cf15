----------------------------- MODULE MCLiquidity -----------------------------
(* The liquidity service: DomainService with the tables of Liquidity. *)
EXTENDS DomainService, Liquidity

\* BTC reads a market cap that another service ingests, ETH one of its own
onlyBTC == << "BTC" >>
onlyETH == << "ETH" >>
noFeeds == {}
=============================================================================
