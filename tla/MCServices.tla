----------------------------- MODULE MCServices -----------------------------
(***************************************************************************)
(* DomainService with the tables of the five services: svc says which of   *)
(* them a behaviour is of.  Depth and the bounds on days, runs and         *)
(* backfills differ between them.                                          *)
(***************************************************************************)
EXTENDS Integers, Sequences, FiniteSetsExt

CONSTANTS Lag, Window, MinObs, Horizon, LastDay, MaxRev

VARIABLES now, today, rev, raws, feats, scores, events, mode, from, to, day,
          phase, idx, ai, cutoff, mem, faults, runs, backfills, clean, streak,
          svc

vars == <<now, today, rev, raws, feats, scores, events, mode, from, to, day,
          phase, idx, ai, cutoff, mem, faults, runs, backfills, clean, streak, svc>>

MidRun == FALSE
MaxFaults == 0

LiqTable == INSTANCE Liquidity
LevTable == INSTANCE Leverage
CapTable == INSTANCE CapitalFlows
MktTable == INSTANCE MarketStress
VolTable == INSTANCE Volatility

\* BTC, whose market cap another service ingests
Liq == INSTANCE DomainService WITH
  Feeds <- LiqTable!ingestAll, BackfillFeeds <- LiqTable!ingestAll,
  GlobalStages <- LiqTable!computeGlobalFeatures, AssetStages <- LiqTable!computeAssetDay,
  Inputs <- LiqTable!gatherScoreInputs, Assets <- << "BTC" >>,
  Foreign <- LiqTable!foreignFeeds, Depth <- 4, MaxRuns <- 5, MaxBackfills <- 0

Lev == INSTANCE DomainService WITH
  Feeds <- LevTable!ingestAll, BackfillFeeds <- LevTable!ingestAll,
  GlobalStages <- << >>, AssetStages <- LevTable!computeAssetDay,
  Inputs <- LevTable!gatherScoreInputs, Assets <- << "ETH" >>,
  Foreign <- LevTable!foreignFeeds, Depth <- 3, MaxRuns <- 4, MaxBackfills <- 0

Cap == INSTANCE DomainService WITH
  Feeds <- CapTable!ingestAll, BackfillFeeds <- CapTable!ingestAll,
  GlobalStages <- CapTable!computeFeatures, AssetStages <- CapTable!scoreAsset,
  Inputs <- CapTable!gatherScoreInputs, Assets <- CapTable!assets,
  Foreign <- {}, Depth <- 4, MaxRuns <- 5, MaxBackfills <- 1

Mkt == INSTANCE DomainService WITH
  Feeds <- MktTable!ingestAll, BackfillFeeds <- MktTable!ingestAll,
  GlobalStages <- MktTable!computeGlobalFeatures, AssetStages <- MktTable!computeAssetDay,
  Inputs <- MktTable!gatherScoreInputs, Assets <- << "BTC" >>,
  Foreign <- MktTable!foreignFeeds, Depth <- 3, MaxRuns <- 4, MaxBackfills <- 0

\* a backfill before or after another run, over three days: with gaps between the days.
\* Revisions are left to the second of them
LevBackfill == INSTANCE DomainService WITH
  Feeds <- LevTable!ingestAll, BackfillFeeds <- LevTable!ingestAll,
  GlobalStages <- << >>, AssetStages <- LevTable!computeAssetDay,
  Inputs <- LevTable!gatherScoreInputs, Assets <- << "ETH" >>,
  Foreign <- LevTable!foreignFeeds, Depth <- 3, MaxRuns <- 2, MaxBackfills <- 1, LastDay <- 2, MaxRev <- 0

MktBackfill == INSTANCE DomainService WITH
  Feeds <- MktTable!ingestAll, BackfillFeeds <- MktTable!ingestAll,
  GlobalStages <- MktTable!computeGlobalFeatures, AssetStages <- MktTable!computeAssetDay,
  Inputs <- MktTable!gatherScoreInputs, Assets <- << "BTC" >>,
  Foreign <- MktTable!foreignFeeds, Depth <- 3, MaxRuns <- 2, MaxBackfills <- 1, LastDay <- 2

Vol == INSTANCE DomainService WITH
  Feeds <- VolTable!ingestAll, BackfillFeeds <- VolTable!ingestBackfill,
  GlobalStages <- << >>, AssetStages <- VolTable!computeAssetDay,
  Inputs <- VolTable!gatherScoreInputs, Assets <- << "BTC" >>,
  Foreign <- VolTable!foreignFeeds, Depth <- 4, MaxRuns <- 5, MaxBackfills <- 0

ReadsOf(stage) == UNION {stage.alts[k] : k \in DOMAIN stage.alts}

\* the features of which every sample is of the day, found in the order of the stages
DailyOf(stages, InDay(_, _)) ==
  LET upTo[i \in 0 .. Len(stages)] ==
        IF i = 0 THEN {}
        ELSE upTo[i - 1] \cup {f \in {stages[i].out} : \A q \in ReadsOf(stages[i]) : InDay(upTo[i - 1], q)}
  IN  upTo[Len(stages)]

\* the feeds each feature can rest on
SourcesOf(stages, FeedsRead(_, _)) ==
  LET outs == {stages[i].out : i \in DOMAIN stages}
      upTo[i \in 0 .. Len(stages)] ==
        IF i = 0 THEN [f \in outs |-> {}]
        ELSE [upTo[i - 1] EXCEPT ![stages[i].out] = UNION {FeedsRead(upTo[i - 1], q) : q \in ReadsOf(stages[i])}]
  IN  upTo[Len(stages)]

\* the rank of each feature: above those whose value of the day its stage reads from the table
RanksOf(stages) ==
  LET outs == {stages[i].out : i \in DOMAIN stages}
      StoredReads(i) == {q \in ReadsOf(stages[i]) : q.read \in {"latest", "series", "grown"} /\ q.of \in outs}
      upTo[i \in 0 .. Len(stages)] ==
        IF i = 0 THEN [f \in outs |-> 0]
        ELSE [upTo[i - 1] EXCEPT ![stages[i].out] = 1 + Max({0} \cup {upTo[i - 1][q.of] : q \in StoredReads(i)})]
  IN  upTo[Len(stages)]

LiqStages == LiqTable!computeGlobalFeatures \o LiqTable!computeAssetDay
CapStages == CapTable!computeFeatures
MktStages == MktTable!computeGlobalFeatures \o MktTable!computeAssetDay
LevStages == LevTable!computeAssetDay
VolStages == VolTable!computeAssetDay

\* What the proofs about DomainService suppose of the tables.  In leverage a feature reads
\* the open interest along two paths, in market stress and volatility one is read
\* through two windows.
ASSUME TablesWellOrdered ==
  Liq!WellOrdered /\ Lev!WellOrdered /\ Cap!WellOrdered /\ Mkt!WellOrdered /\ Vol!WellOrdered

ASSUME TablesOnePath ==
  /\ Liq!OnePath(DailyOf(LiqStages, Liq!InDay), SourcesOf(LiqStages, Liq!FeedsRead))
  /\ Cap!OnePath(DailyOf(CapStages, Cap!InDay), SourcesOf(CapStages, Cap!FeedsRead))
  /\ Mkt!OnePath(DailyOf(MktStages, Mkt!InDay), SourcesOf(MktStages, Mkt!FeedsRead))
  /\ ~Lev!OnePath(DailyOf(LevStages, Lev!InDay), SourcesOf(LevStages, Lev!FeedsRead))

ASSUME TablesOneWindow ==
  /\ Window > 0
  /\ Liq!OneWindow(DailyOf(LiqStages, Liq!InDay))
  /\ Cap!OneWindow(DailyOf(CapStages, Cap!InDay))
  /\ Lev!OneWindow(DailyOf(LevStages, Lev!InDay))
  /\ ~Mkt!OneWindow(DailyOf(MktStages, Mkt!InDay))

ASSUME TablesRanked ==
  /\ Liq!Ranked(RanksOf(LiqStages)) /\ Lev!Ranked(RanksOf(LevStages)) /\ Cap!Ranked(RanksOf(CapStages))
  /\ Mkt!Ranked(RanksOf(MktStages)) /\ Vol!Ranked(RanksOf(VolStages))

Init ==
  \/ svc = "liquidity"     /\ Liq!Init
  \/ svc = "leverage"      /\ Lev!Init
  \/ svc = "leverage backfill"      /\ LevBackfill!Init
  \/ svc = "market stress backfill" /\ MktBackfill!Init
  \/ svc = "capital flows" /\ Cap!Init
  \/ svc = "market stress" /\ Mkt!Init
  \/ svc = "volatility"    /\ Vol!Init

Next ==
  \/ svc = "liquidity"     /\ Liq!Next /\ UNCHANGED svc
  \/ svc = "leverage"      /\ Lev!Next /\ UNCHANGED svc
  \/ svc = "leverage backfill"      /\ LevBackfill!Next /\ UNCHANGED svc
  \/ svc = "market stress backfill" /\ MktBackfill!Next /\ UNCHANGED svc
  \/ svc = "capital flows" /\ Cap!Next /\ UNCHANGED svc
  \/ svc = "market stress" /\ Mkt!Next /\ UNCHANGED svc
  \/ svc = "volatility"    /\ Vol!Next /\ UNCHANGED svc

Spec == Init /\ [][Next]_vars

(***************************************************************************)
(* In every service, after Depth undisturbed RunOnce ticks of today the    *)
(* newest score is up to date, although each layer of features reads the   *)
(* previous tick's.                                                        *)
(***************************************************************************)
AllConverge ==
  /\ svc = "liquidity"     => Liq!LiveConverges
  /\ svc = "leverage"      => Lev!LiveConverges
  /\ svc = "capital flows" => Cap!LiveConverges
  /\ svc = "market stress" => Mkt!LiveConverges
  /\ svc = "volatility"    => Vol!LiveConverges

(***************************************************************************)
(* One pass of RunBackfill, read as of a cutoff in the future, is enough   *)
(* also where every feature is global (capital flows), of an asset         *)
(* (leverage) or the two mix (market stress): every score it has saved is  *)
(* up to date.                                                             *)
(***************************************************************************)
BackfillsConverge ==
  /\ svc = "capital flows" => Cap!BackfillConverges
  /\ svc = "leverage backfill"      => LevBackfill!BackfillConverges
  /\ svc = "market stress backfill" => MktBackfill!BackfillConverges

(***************************************************************************)
(* No score rests on an observation out of its window.  The live snapshots *)
(* of capital flows (exchange balance, ETF list, max pain) are filed under *)
(* the current day, so a run or a backfill of an earlier day never scores  *)
(* it with them; and in the services whose features are of both kinds a    *)
(* day computed after a gap is never scored with an observation older than *)
(* the window of one series (for market stress: as long as no fetch comes  *)
(* back empty, after which a correlation rests on an earlier day).         *)
(***************************************************************************)
InputsInWindow ==
  /\ svc = "capital flows" => Cap!NoLookAhead
  /\ svc = "leverage backfill"      => LevBackfill!StalenessBounded
  /\ svc = "market stress backfill" => MktBackfill!StalenessBounded
=============================================================================
