----------------------------- MODULE ScoreStore -----------------------------
(***************************************************************************)
(* The table domain_scores and the queries the regime engine and the       *)
(* backtest share.  A query returns rows; {} is "not found".               *)
(***************************************************************************)
EXTENDS Integers

CONSTANT Domains     \* domain codes

VARIABLES
  now,       \* the clock
  scores     \* domain_scores: rows [dom, asset, day, at]

Newest(rows) == {r \in rows : \A q \in rows : q.at <= r.at}

\* capital flows are scored for the market as a whole
queryAssetFor(a, dom) == IF dom = "CAPITAL_FLOWS" THEN "GLOBAL" ELSE a

ScoresOf(a, dom) == {r \in scores : r.dom = dom /\ r.asset = queryAssetFor(a, dom)}

\* Mutant: the condition on ingested_at is dropped.
GetDomainScoreOnDateNow(a, dom, d, c) == Newest({r \in ScoresOf(a, dom) : r.day = d})

GetDomainScoreOnDate(a, dom, d, c) == Newest({r \in ScoresOf(a, dom) : r.day = d /\ r.at <= c})

GetLatestAll(a, d, c) == UNION {GetDomainScoreOnDate(a, dom, d, c) : dom \in Domains}

\* no cutoff, and no upper bound on value_date
GetDomainScoreHistory(a, dom, since) ==
  UNION {Newest({r \in ScoresOf(a, dom) : r.day = d}) :
           d \in {r.day : r \in {r \in scores : r.day >= since}}}

DomainsOf(rows) == {r.dom : r \in rows}

ScoreRow(dom, a, d) == [dom |-> dom, asset |-> a, day |-> d, at |-> now + 1]

\* a service scores the assets of its domain
Scores(a, dom) == a = queryAssetFor(a, dom) /\ (dom # "CAPITAL_FLOWS" => a # "GLOBAL")
=============================================================================
