------------------------------ MODULE Programs ------------------------------
(***************************************************************************)
(* The programs under cmd/ that run services: the services each runs, in   *)
(* order, and whether it has a -daemon mode; and for each service the      *)
(* services whose rows it reads.                                           *)
(***************************************************************************)

Service(name) == [steps |-> << name >>, daemon |-> FALSE]

liquidity_service     == [Service("liquidity") EXCEPT !.daemon = TRUE]
leverage_service      == Service("leverage")
capital_flows_service == Service("capital_flows")
market_stress_service == Service("market_stress")
volatility_service    == Service("volatility")
regime_engine         == [Service("regime_engine") EXCEPT !.daemon = TRUE]

orchestrator ==
  [steps |-> << "liquidity", "leverage", "capital_flows", "market_stress", "volatility", "regime_engine" >>,
   daemon |-> TRUE]

\* the bitcoin market cap that capital flows ingests
runLiquidity    == {"capital_flows"}
runLeverage     == {"capital_flows"}
runCapitalFlows == {}
\* the basis among the leverage features
runMarketStress == {"leverage"}
\* the klines that market stress ingests
runVolatility   == {"market_stress"}

reads ==
  [liquidity |-> runLiquidity, leverage |-> runLeverage, capital_flows |-> runCapitalFlows,
   market_stress |-> runMarketStress, volatility |-> runVolatility]
=============================================================================
