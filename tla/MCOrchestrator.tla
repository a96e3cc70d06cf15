--------------------------- MODULE MCOrchestrator ---------------------------
(* The two daemons of the deployment, or the orchestrator's and two commands  *)
(* an operator may run beside it, for three of the domains.                   *)
EXTENDS Orchestrator, Programs, TLC

SomeDomains == {"leverage", "capital_flows", "market_stress"}

needs == [s \in SomeDomains |-> reads[s] \cap SomeDomains]

Runs(program) == SelectSeq(program.steps, LAMBDA s : s \in SomeDomains \cup {"regime_engine"})

steps ==
  ("orchestrator-daemon" :> Runs(orchestrator)) @@ ("regime-engine" :> Runs(regime_engine))
  @@ ("leverage-service" :> Runs(leverage_service))

programs == DOMAIN steps
\* deploy/docker-compose.yml, and one daemon with an operator beside it
deployed == [daemons : {{"orchestrator-daemon", "regime-engine"}}, commands : {{}},
             broken : {{}, {"leverage"}}]
operator == [daemons : {{"orchestrator-daemon"}}, commands : {{"regime-engine", "leverage-service"}},
             broken : {b \in SUBSET SomeDomains : Cardinality(b) <= 1}]

setups == deployed \cup operator
=============================================================================
