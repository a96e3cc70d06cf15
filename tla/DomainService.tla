---------------------------- MODULE DomainService ----------------------------
(***************************************************************************)
(* A domain service (liquidity, leverage, capital flows, market stress,    *)
(* volatility): RunOnce and RunBackfill ingest the provider feeds, take a  *)
(* cutoff and compute, day by day and asset by asset, layers of features   *)
(* and a domain score, reading everything as of the cutoff.                *)
(*                                                                         *)
(* The five services share this control and differ in their feeds, their   *)
(* feature stages and the features their score reads: the tables in        *)
(* Liquidity, Leverage, CapitalFlows, MarketStress and Volatility.         *)
(*                                                                         *)
(* Values are abstracted to their provenance: the set of raw samples the   *)
(* current observation of a feature was computed from.  Each database      *)
(* transaction takes one unit of time; see Bitemporal for transactions     *)
(* that overlap.                                                           *)
(***************************************************************************)
EXTENDS Integers, Sequences, FiniteSets

CONSTANTS
  Feeds,         \* sequence of feeds, in the order RunOnce ingests them
  BackfillFeeds, \* the same for RunBackfill
  GlobalStages,  \* sequence of feature stages computed once per day
  AssetStages,   \* sequence of feature stages computed per asset
  Inputs,        \* the features gatherScoreInputs reads
  Assets,        \* sequence of assets
  Foreign,       \* feeds whose rows another service ingests
  Lag,           \* days between a sample and the past sample it is compared with
  Window,        \* days of a feature series
  MinObs,        \* observations a series must have
  Horizon,       \* how far a backfill's cutoff lies in the future
  Depth,         \* clean live ticks after which a score is up to date
  MidRun,        \* whether midnight and revisions may fall inside an ingestion
  LastDay, MaxRuns, MaxBackfills, MaxRev, MaxFaults    \* bounds

FeedType == [name : STRING, kind : {"history", "ranged", "padded", "today", "asked", "feature"},
             fatal : BOOLEAN, event : BOOLEAN, leads : Nat]

ReadKinds == {"raw", "rawPast", "rawSeries", "rawWindow", "rawCoin", "mem", "grown",
              "latest", "past", "series"}

StageType == [out : STRING, alts : Seq(SUBSET [read : ReadKinds, of : STRING])]

ASSUME DomainAssumption ==
  /\ Lag \in Nat /\ Window \in Nat /\ MinObs \in Nat /\ Horizon \in Nat /\ Depth \in Nat
  /\ LastDay \in Nat /\ MaxRuns \in Nat /\ MaxBackfills \in Nat
  /\ MaxRev \in Nat /\ MaxFaults \in Nat /\ MidRun \in BOOLEAN
  /\ Feeds \in Seq(FeedType) /\ BackfillFeeds \in Seq(FeedType)
  /\ GlobalStages \in Seq(StageType) /\ AssetStages \in Seq(StageType)
  /\ Assets \in Seq(STRING) /\ Len(Assets) > 0

VARIABLES
  now,       \* the clock
  today,     \* the current UTC day
  rev,       \* revision of the data the providers serve
  raws,      \* raw tables: rows [s |-> sample, at |-> ingested_at]
  feats,     \* feature table: rows [key, day, src, at]
  scores,    \* domain_scores: rows [asset, day, inputs, at] plus the run's cutoff and mode
  events,    \* outbox_events: [topic, of (a feed or an asset), day, at]
  mode,      \* "idle", "once" or "backfill"
  from, to, day,   \* the days of the run and the day being computed
  phase,     \* "ingest", "publish", "compute" or "announce"
  idx, ai,   \* position in the feeds or stages; asset index, 0 for the global stages
  cutoff,    \* the run's as-of cutoff
  mem,       \* values computeAssetDay keeps in local variables
  faults, runs, backfills,   \* counters of the bounds
  clean, streak     \* history: no fault or change since the run began; clean ticks in a row

world == <<today, rev>>
store == <<raws, feats, scores, events>>
span  == <<from, to>>
bound == <<faults, runs, backfills>>
clear == <<clean, streak>>
vars  == <<now, world, store, mode, span, day, phase, idx, ai, cutoff, mem, bound, clear>>

-----------------------------------------------------------------------------
(* Feature stages *)

StageSeq == IF ai = 0 THEN GlobalStages ELSE AssetStages

Outs(stages) == {stages[i].out : i \in DOMAIN stages}

\* a feature of a global stage is stored under the asset GLOBAL
Key(f, a) == IF f \in Outs(GlobalStages) THEN <<f, "GLOBAL">> ELSE <<f, a>>

Newest(rows) == {r \in rows : \A q \in rows : q.at <= r.at}

\* the option of a provenance: {} is "not found", {src} is a value
RawAsOf(feed, d, c) ==
  {{r.s} : r \in Newest({r \in raws : r.s.feed = feed /\ r.s.day = d /\ r.at <= c})}

GetLatest(k, d, c) ==
  {r.src : r \in Newest({r \in feats : r.key = k /\ r.day = d /\ r.at <= c})}

\* Mutant: the window is one day too long.
SeriesDaysLonger(k, d, c) == {x \in 0 .. d : x + Window >= d /\ GetLatest(k, x, c) # {}}

\* Mutant: the upper bound of the value_date range is dropped.
SeriesDaysNoUpper(k, d, c) == {x \in 0 .. LastDay : x + Window > d /\ GetLatest(k, x, c) # {}}

\* the value dates of GetSeries: one value per day of the window that ends on d
SeriesDays(k, d, c) == {x \in 0 .. d : x + Window > d /\ GetLatest(k, x, c) # {}}

RawDays(feed, d, c) == {x \in 0 .. d : x + Window > d /\ RawAsOf(feed, x, c) # {}}

LastDayOf(days) == {x \in days : \A y \in days : y <= x}

\* ZScoreLatest, StdDev: enough observations, and the LAST one is the value of
\* "today" whatever its date is
LastOf(k, d, c) ==
  LET days == SeriesDays(k, d, c)
  IN  UNION {GetLatest(k, x, c) : x \in IF Cardinality(days) >= MinObs THEN LastDayOf(days) ELSE {}}

LastRaw(feed, d, c) ==
  LET days == RawDays(feed, d, c)
  IN  UNION {RawAsOf(feed, x, c) : x \in IF Cardinality(days) >= MinObs THEN LastDayOf(days) ELSE {}}

Past(d) == IF d >= Lag THEN {d - Lag} ELSE {}

CoinIDForAsset(a) == IF a = "BTC" THEN "btcMcap" ELSE "ethMcap"

\* a past sample is a base of comparison, not the current observation
Base(found) == IF found = {} THEN {} ELSE {{}}

(***************************************************************************)
(* What one read of a stage finds for asset a on day d as of c.            *)
(***************************************************************************)
Found(q, a, d, c) ==
  CASE q.read = "raw"       -> RawAsOf(q.of, d, c)
    [] q.read = "rawPast"   -> Base(UNION {RawAsOf(q.of, x, c) : x \in Past(d)})
    [] q.read = "rawSeries" -> LastRaw(q.of, d, c)
    [] q.read = "rawWindow" -> IF \A x \in d - Lag .. d : RawAsOf(q.of, x, c) # {}
                                 THEN RawAsOf(q.of, d, c) ELSE {}
    [] q.read = "rawCoin"   -> RawAsOf(CoinIDForAsset(a), d, c)
    [] q.read = "mem"       -> mem[q.of]
    [] q.read = "grown"     -> IF Cardinality(SeriesDays(Key(q.of, a), d, c)) + 1 >= MinObs
                                 THEN {{}} ELSE {}
    [] q.read = "latest"    -> GetLatest(Key(q.of, a), d, c)
    [] q.read = "past"      -> Base(UNION {GetLatest(Key(q.of, a), x, c) : x \in Past(d)})
    [] q.read = "series"    -> LastOf(Key(q.of, a), d, c)

\* a stage tries its alternatives in order; one succeeds when all its reads do
StageValue(st, a, d, c) ==
  LET ok == {i \in DOMAIN st.alts : \A q \in st.alts[i] : Found(q, a, d, c) # {}}
  IN  {UNION {UNION Found(q, a, d, c) : q \in st.alts[i]} : i \in {i \in ok : \A j \in ok : i <= j}}

\* gatherScoreInputs: each final feature, or "not available"
GatherInputs(a, d, c) == [f \in Inputs |-> GetLatest(Key(f, a), d, c)]

Reads(stages) == UNION {UNION {stages[i].alts[j] : j \in DOMAIN stages[i].alts} : i \in DOMAIN stages}

\* the features some stage reads from a local variable of the same pass
MemNames ==
  {q.of : q \in {q \in Reads(GlobalStages) \cup Reads(AssetStages) : q.read = "mem"}}

NoMem == [f \in MemNames |-> {}]

-----------------------------------------------------------------------------
(* What the tables of the services have in common *)

AllOuts == Outs(GlobalStages) \cup Outs(AssetStages)

\* the features computed before stage i of a sequence
OutsBefore(stages, i) == {stages[j].out : j \in {j \in DOMAIN stages : j < i}}

RawReads == {"raw", "rawPast", "rawSeries", "rawWindow", "rawCoin"}

ReadsOnlyRaws(st) == \A k \in DOMAIN st.alts : \A q \in st.alts[k] : q.read \in RawReads

\* No feature is computed twice.  A stage reads features that are computed before it,
\* or by no stage; of those kept in local variables, only some that are computed
\* from raw tables alone.
InOrder(stages, before) ==
  /\ \A i, j \in DOMAIN stages : stages[i].out = stages[j].out => i = j
  /\ \A i \in DOMAIN stages : \A k \in DOMAIN stages[i].alts : \A q \in stages[i].alts[k] :
       /\ q.read \in {"latest", "series"} /\ q.of \in AllOuts =>
            q.of \in before \cup OutsBefore(stages, i)
       /\ q.read = "mem" =>
            \E j \in DOMAIN stages : j < i /\ stages[j].out = q.of /\ ReadsOnlyRaws(stages[j])

StagesInOrder ==
  /\ Outs(GlobalStages) \cap Outs(AssetStages) = {}
  /\ InOrder(GlobalStages, {})
  /\ InOrder(AssetStages, Outs(GlobalStages))

FeedsOf(kinds) ==
  {f.name : f \in {f \in {Feeds[i] : i \in DOMAIN Feeds}
                         \cup {BackfillFeeds[i] : i \in DOMAIN BackfillFeeds} : f.kind \in kinds}}

LiveFeatures == FeedsOf({"feature"})

RawFeeds == FeedsOf({"history", "ranged", "padded", "today", "asked"}) \cup Foreign

\* a snapshot saved as features is neither computed nor kept in a raw table
LiveFeaturesApart == LiveFeatures \cap (AllOuts \cup RawFeeds) = {}

AssetsDiffer == \A i, j \in DOMAIN Assets : Assets[i] = Assets[j] => i = j

WellOrdered == StagesInOrder /\ LiveFeaturesApart /\ AssetsDiffer

AllStages == {GlobalStages[i] : i \in DOMAIN GlobalStages} \cup {AssetStages[i] : i \in DOMAIN AssetStages}

ReadsOf(st) == UNION {st.alts[k] : k \in DOMAIN st.alts}

\* a live snapshot, or one of the given features
LiveOr(features, f) == f \in features \/ f \notin AllOuts

\* the read finds samples of the day only; daily are features of which that is known
InDay(daily, q) ==
  \/ q.read \in {"raw", "rawPast", "rawWindow", "rawCoin", "grown", "past"}
  \/ q.read = "mem" /\ q.of \in daily
  \/ q.read = "latest" /\ LiveOr(daily, q.of)

\* the read finds samples of one window
InWindow(daily, q) ==
  \/ InDay(daily, q)
  \/ q.read \in {"rawSeries", "mem"}
  \/ q.read = "series" /\ LiveOr(daily, q.of)

Daily(daily) == \A st \in AllStages : st.out \in daily => \A q \in ReadsOf(st) : InDay(daily, q)

Windowed(daily) ==
  {f \in AllOuts : \A st \in AllStages : st.out = f => \A q \in ReadsOf(st) : InWindow(daily, q)}

\* no feature is read through several windows
OneWindow(daily) ==
  /\ Daily(daily)
  /\ \A st \in AllStages : \A q \in ReadsOf(st) : InWindow(daily, q) \/ q.read = "latest"

\* a feature is ranked above those whose value of the day its stage reads from the
\* table, and the highest rank is below Depth
Ranked(ranks) ==
  /\ Depth > 0 /\ Lag > 0
  /\ \A st \in AllStages :
       /\ ranks[st.out] \in 1 .. Depth - 1
       /\ \A q \in ReadsOf(st) :
            q.read \in {"latest", "series", "grown"} /\ q.of \in AllOuts => ranks[q.of] < ranks[st.out]

\* the feeds whose samples feature f can rest on
SourcesOf(sources, f) == IF f \in AllOuts THEN sources[f] ELSE {f}

\* and those a read can find samples of
FeedsRead(sources, q) ==
  CASE q.read \in {"raw", "rawSeries", "rawWindow"} -> {q.of}
    [] q.read = "rawCoin"                            -> {"btcMcap", "ethMcap"}
    [] q.read \in {"mem", "latest", "series"}        -> SourcesOf(sources, q.of)
    [] q.read \in {"rawPast", "past", "grown"}       -> {}

\* two reads of a stage that can find samples of the same feed find them in the same row
OnePath(daily, sources) ==
  /\ Daily(daily)
  /\ \A st \in AllStages : \A q \in ReadsOf(st) :
       /\ FeedsRead(sources, q) \subseteq sources[st.out]
       /\ q.read = "series" => LiveOr(Windowed(daily), q.of)
       /\ \A p \in ReadsOf(st) :
            \/ p = q
            \/ FeedsRead(sources, p) \cap FeedsRead(sources, q) = {}
            \/ p.of = q.of /\ LiveOr(daily, p.of) /\ {p.read, q.read} = {"latest", "series"}

-----------------------------------------------------------------------------

Init ==
  /\ now = 0 /\ today = 0 /\ rev = 0
  /\ raws = {} /\ feats = {} /\ scores = {} /\ events = {}
  /\ mode = "idle" /\ from = 0 /\ to = 0 /\ day = 0
  /\ phase = "ingest" /\ idx = 1 /\ ai = 0 /\ cutoff = 0 /\ mem = NoMem
  /\ faults = 0 /\ runs = 0 /\ backfills = 0 /\ clean = FALSE /\ streak = 0

\* The outside world is read only by the ingestion: letting it change before or
\* between two fetches loses no behaviour.
Outside ==
  /\ mode = "idle" \/ (MidRun /\ phase = "ingest")
  /\ clean' = FALSE /\ streak' = 0
  /\ UNCHANGED <<mode, span, day, phase, idx, ai, cutoff, mem, bound>>

\* UTC midnight passes
NextDay ==
  /\ Outside
  /\ today < LastDay
  /\ today' = today + 1
  /\ UNCHANGED <<now, rev, store>>

\* providers revise the values they serve
Revise ==
  /\ Outside
  /\ rev < MaxRev
  /\ rev' = rev + 1
  /\ UNCHANGED <<now, today, store>>

Sample(f, d, o) == [feed |-> f, day |-> d, obs |-> o, ver |-> rev]

\* Mutant: ON CONFLICT (value_date, key) DO UPDATE.
IngestedUpsert(samples) ==
  {r \in raws : \A s \in samples : <<s.feed, s.day>> # <<r.s.feed, r.s.day>>}
    \cup {[s |-> s, at |-> now + 1] : s \in samples}

\* INSERT ... ON CONFLICT (value_date, key, payload_hash) DO NOTHING
Ingested(samples) ==
  raws \cup {[s |-> s, at |-> now + 1] : s \in samples \ {r.s : r \in raws}}

\* another service ingests a feed this service only reads
ForeignIngest(f) ==
  /\ Outside
  /\ raws' = Ingested({Sample(f, d, d) : d \in 0 .. today})
  /\ raws' # raws
  /\ now' = now + 1
  /\ UNCHANGED <<world, feats, scores, events>>

-----------------------------------------------------------------------------
(* A run *)

Begin(m, f, t) ==
  /\ mode = "idle"
  /\ runs < MaxRuns
  /\ runs' = runs + 1
  /\ mode' = m /\ from' = f /\ to' = t /\ day' = f
  /\ phase' = "ingest" /\ idx' = 1 /\ ai' = 0
  /\ clean' = (m = "backfill" \/ f = today)
  /\ UNCHANGED <<now, world, store, cutoff, mem, faults, streak>>

RunOnce(d) == Begin("once", d, d) /\ UNCHANGED backfills

\* Mutant: the range is not checked.
RunBackfillUnchecked(f, t) ==
  backfills < MaxBackfills /\ backfills' = backfills + 1 /\ Begin("backfill", f, t)

\* a range with from after to is refused and changes nothing
RunBackfill(f, t) ==
  /\ f <= t
  /\ backfills < MaxBackfills
  /\ backfills' = backfills + 1
  /\ Begin("backfill", f, t)

\* one of the failures a run meets
Fault == faults < MaxFaults /\ faults' = faults + 1 /\ clean' = FALSE

\* a save, a publish or a read fails with an error that is returned to the
\* caller, or the process dies: the run is over and what it has committed stays
Abort ==
  /\ Fault
  /\ mode # "idle"
  /\ mode' = "idle"
  /\ streak' = 0
  /\ UNCHANGED <<now, world, store, span, day, phase, idx, ai, cutoff, mem, runs, backfills>>

FeedSeq == IF mode = "backfill" THEN BackfillFeeds ELSE Feeds

AtFeed == mode # "idle" /\ phase = "ingest" /\ idx <= Len(FeedSeq)

\* Mutant: every feed files today's values under the requested day.
FetchedAsked(f) == {Sample(f.name, to, today)}

\* a live tick asks for days before the one it computes, a backfill only for its own
RangeStart == IF mode = "backfill" THEN from ELSE 0

\* the samples a fetch returns
Fetched(f) ==
  CASE f.kind = "history"            -> {Sample(f.name, d, d) : d \in 0 .. today}
    [] f.kind = "ranged"             -> {Sample(f.name, d, d) : d \in RangeStart .. to}
    [] f.kind = "padded"             -> {Sample(f.name, d, d) : d \in 0 .. to}
    [] f.kind = "today"              -> {Sample(f.name, today, today)}
    [] f.kind \in {"asked", "feature"} -> {Sample(f.name, to, today)}

\* one feed is fetched and saved in one transaction
IngestSave ==
  LET f == FeedSeq[idx]
  IN  /\ AtFeed
      /\ now' = now + 1
      /\ \/ /\ f.kind # "feature"
            /\ raws' = Ingested(Fetched(f))
            /\ UNCHANGED feats
         \/ /\ f.kind = "feature"
            /\ feats' = feats \cup {[key |-> <<f.name, Assets[i]>>, day |-> to,
                                     src |-> Fetched(f), at |-> now + 1] : i \in DOMAIN Assets}
            /\ UNCHANGED raws
      /\ phase' = IF f.event THEN "publish" ELSE "ingest"
      /\ idx' = IF f.event THEN idx ELSE idx + 1
      /\ UNCHANGED <<world, scores, events, mode, span, day, ai, cutoff, mem, bound, clear>>

\* the provider returns nothing, or its fetch fails and that is only logged: no
\* rows, no event, and on to the next feed
IngestNothing ==
  /\ AtFeed
  /\ Fault
  /\ idx' = idx + 1 + FeedSeq[idx].leads
  /\ UNCHANGED <<now, world, store, mode, span, day, phase, ai, cutoff, mem, runs, backfills, streak>>

\* the fetch of a fatal feed fails: ingestAll returns the error, no later feed is
\* ingested and nothing is computed
IngestFails ==
  /\ AtFeed
  /\ FeedSeq[idx].fatal
  /\ Fault
  /\ mode' = "idle"
  /\ streak' = 0
  /\ UNCHANGED <<now, world, store, span, day, phase, idx, ai, cutoff, mem, runs, backfills>>

\* publisher.Publish: a transaction of its own, after the one that saved the rows
IngestPublish ==
  /\ mode # "idle" /\ phase = "publish"
  /\ now' = now + 1
  /\ events' = events \cup {[topic |-> "raw", of |-> FeedSeq[idx].name, day |-> to, at |-> now + 1]}
  /\ phase' = "ingest" /\ idx' = idx + 1
  /\ UNCHANGED <<world, raws, feats, scores, mode, span, day, ai, cutoff, mem, bound, clear>>

\* Mutant: a backfill takes the cutoff of a live tick.
CutoffNow(m) == now

\* Mutant: the cutoff is the midnight the value date starts with.
CutoffMidnight(m) == IF m = "backfill" THEN now + Horizon ELSE 0

\* clock.Now(), and 24 hours more for a backfill
Cutoff(m) == IF m = "backfill" THEN now + Horizon ELSE now

TakeCutoff ==
  /\ mode # "idle" /\ phase = "ingest" /\ idx > Len(FeedSeq)
  /\ cutoff' = Cutoff(mode)
  /\ phase' = "compute" /\ idx' = 1 /\ ai' = 0 /\ mem' = NoMem
  /\ UNCHANGED <<now, world, store, mode, span, day, bound, clear>>

AtStage == mode # "idle" /\ phase = "compute" /\ idx <= Len(StageSeq)

AssetNow == IF ai = 0 THEN "GLOBAL" ELSE Assets[ai]

Remember(f, v) == mem' = IF f \in MemNames THEN [mem EXCEPT ![f] = v] ELSE mem

StageResult == StageValue(StageSeq[idx], AssetNow, day, cutoff)

SaveFeature(f, v) ==
  /\ feats' = feats \cup {[key |-> Key(f, AssetNow), day |-> day, src |-> s, at |-> now + 1] : s \in v}
  /\ now' = IF v = {} THEN now ELSE now + 1

\* Mutant: a feature that already has a row for the day is not computed again.
ComputeStageCached ==
  LET f == StageSeq[idx].out
  IN  /\ AtStage
      /\ SaveFeature(f, IF GetLatest(Key(f, AssetNow), day, cutoff) = {} THEN StageResult ELSE {})
      /\ Remember(f, StageResult)
      /\ idx' = idx + 1
      /\ UNCHANGED <<world, raws, scores, events, mode, span, day, phase, ai, cutoff, bound, clear>>

\* compute one feature as of the cutoff and, if its reads found values, save it
ComputeStage ==
  LET f == StageSeq[idx].out
  IN  /\ AtStage
      /\ SaveFeature(f, StageResult)
      /\ Remember(f, StageResult)
      /\ idx' = idx + 1
      /\ UNCHANGED <<world, raws, scores, events, mode, span, day, phase, ai, cutoff, bound, clear>>

\* saveFeature drops NaN and Inf and only logs a failed save, tryComputeX
\* swallows a failed read: no row, and the run goes on
LoseFeature ==
  /\ AtStage
  /\ StageResult # {}
  /\ Fault
  /\ Remember(StageSeq[idx].out, StageResult)
  /\ idx' = idx + 1
  /\ UNCHANGED <<now, world, store, mode, span, day, phase, ai, cutoff, runs, backfills, streak>>

\* computeDay: the global features are done, on to the first asset
EnterAssets ==
  /\ mode # "idle" /\ phase = "compute" /\ ai = 0 /\ idx > Len(GlobalStages)
  /\ ai' = 1 /\ idx' = 1 /\ mem' = NoMem
  /\ UNCHANGED <<now, world, store, mode, span, day, phase, cutoff, bound, clear>>

AtScore == mode # "idle" /\ phase = "compute" /\ ai > 0 /\ idx > Len(AssetStages)

\* Mutant: a failed score save is logged and swallowed, as saveFeature does.
SaveScoreSwallowed ==
  /\ AtScore
  /\ phase' = "announce"
  /\ now' = now + 1
  /\ UNCHANGED <<world, store, mode, span, day, idx, ai, cutoff, mem, bound, clear>>

\* Mutant: the inputs are read as of now.
SaveScoreNow ==
  /\ AtScore
  /\ scores' = scores \cup {[asset |-> Assets[ai], day |-> day, inputs |-> GatherInputs(Assets[ai], day, now),
                             cutoff |-> cutoff, mode |-> mode, at |-> now + 1]}
  /\ now' = now + 1
  /\ phase' = "announce"
  /\ UNCHANGED <<world, raws, feats, events, mode, span, day, idx, ai, cutoff, mem, bound, clear>>

\* gatherScoreInputs, computeScore and scores.Save
SaveScore ==
  /\ AtScore
  /\ scores' = scores \cup {[asset |-> Assets[ai], day |-> day, inputs |-> GatherInputs(Assets[ai], day, cutoff),
                             cutoff |-> cutoff, mode |-> mode, at |-> now + 1]}
  /\ now' = now + 1
  /\ phase' = "announce"
  /\ UNCHANGED <<world, raws, feats, events, mode, span, day, idx, ai, cutoff, mem, bound, clear>>

\* where computeDay and computeRange go after an asset's score
NextAsset == ai < Len(Assets) /\ ai' = ai + 1 /\ UNCHANGED <<day, mode, streak>>

NextValueDate ==
  ai = Len(Assets) /\ day < to /\ day' = day + 1 /\ ai' = 0 /\ UNCHANGED <<mode, streak>>

EndOfRun ==
  /\ ai = Len(Assets) /\ day = to
  /\ mode' = "idle" /\ ai' = 0
  /\ streak' = IF clean /\ mode = "once" THEN streak + 1 ELSE 0
  /\ UNCHANGED day

\* publish scores.<domain>.completed.v1 and move on
Announce ==
  /\ mode # "idle" /\ phase = "announce"
  /\ events' = events \cup {[topic |-> "score", of |-> Assets[ai], day |-> day, at |-> now + 1]}
  /\ now' = now + 1
  /\ phase' = "compute" /\ idx' = 1 /\ mem' = NoMem
  /\ NextAsset \/ NextValueDate \/ EndOfRun
  /\ UNCHANGED <<world, raws, feats, scores, span, cutoff, bound, clean>>

Next ==
  \/ NextDay \/ Revise
  \/ \E f \in Foreign : ForeignIngest(f)
  \/ \E d \in 0 .. today : RunOnce(d)
  \/ \E f, t \in 0 .. today : RunBackfill(f, t)
  \/ Abort
  \/ IngestSave \/ IngestNothing \/ IngestFails \/ IngestPublish
  \/ TakeCutoff \/ ComputeStage \/ LoseFeature \/ EnterAssets
  \/ SaveScore \/ Announce

Spec == Init /\ [][Next]_vars

-----------------------------------------------------------------------------
(* Properties *)

(***************************************************************************)
(* Types, and the two orders the loops of computeRange and computeDay      *)
(* rely on: the day being computed never passes the last day of the run,   *)
(* and no row is stamped later than the clock.                             *)
(***************************************************************************)
TypeOK ==
  /\ now \in Nat /\ today \in 0 .. LastDay /\ rev \in Nat
  /\ mode \in {"idle", "once", "backfill"}
  /\ phase \in {"ingest", "publish", "compute", "announce"}
  /\ from \in 0 .. today /\ to \in 0 .. today /\ day \in from .. to
  /\ idx \in Nat \ {0} /\ ai \in 0 .. Len(Assets) /\ cutoff \in Nat
  /\ \A r \in raws \cup feats \cup scores \cup events : r.at \in 1 .. now
  /\ faults \in Nat /\ runs \in Nat /\ backfills \in Nat
  /\ clean \in BOOLEAN /\ streak \in Nat

NewestScore(a, d) == Newest({sc \in scores : sc.asset = a /\ sc.day = d})

\* the score read the features as they are stored now, and no sample of its day
\* has a newer revision in the raw tables
UpToDate(sc) ==
  /\ sc.inputs = GatherInputs(sc.asset, sc.day, now)
  /\ \A s \in UNION UNION {sc.inputs[f] : f \in Inputs} :
       s.day = sc.day => \A r \in raws : r.s.feed = s.feed /\ r.s.day = s.day => r.s.ver <= s.ver

(***************************************************************************)
(* A live tick reads as of a cutoff taken before its own writes, so each   *)
(* layer of features sees the previous tick's.  The lag is bounded: after  *)
(* Depth undisturbed RunOnce ticks of today the newest score of every      *)
(* asset is up to date.                                                    *)
(***************************************************************************)
LiveConverges ==
  mode = "idle" /\ streak >= Depth =>
    \A i \in DOMAIN Assets : \E sc \in NewestScore(Assets[i], today) : UpToDate(sc)

\* when the run took its cutoff
TakenAt == cutoff - (Cutoff(mode) - now)

Scored(x, i) == x < day \/ (x = day /\ (i < ai \/ (i = ai /\ phase = "announce")))

(***************************************************************************)
(* A backfill reads as of a cutoff in the future, so one pass is enough:   *)
(* while it runs undisturbed, every score it has saved is up to date, but  *)
(* for those it saves when the 24 hours (Horizon) are over.                *)
(***************************************************************************)
BackfillConverges ==
  mode = "backfill" /\ clean /\ phase \in {"compute", "announce"} =>
    \A x \in from .. to : \A i \in DOMAIN Assets :
      Scored(x, i) => \E sc \in NewestScore(Assets[i], x) : sc.at > TakenAt + Horizon \/ UpToDate(sc)

Store == INSTANCE AsOfStore WITH
  rows <- raws \cup feats \cup scores \cup events, settled <- 0 .. now

(***************************************************************************)
(* The four tables together implement AsOfStore with every cutoff up to    *)
(* now for settled: runs, faults, revisions and backfills only add rows,   *)
(* each stamped after every cutoff that a run has taken from the clock.    *)
(***************************************************************************)
ImplementsStore == Store!Spec

(***************************************************************************)
(* Point-in-time correctness of live scores: whatever is ingested, revised *)
(* or backfilled later, replaying gatherScoreInputs at the cutoff of the   *)
(* tick gives the inputs the score was computed from.                      *)
(***************************************************************************)
LiveReplayable ==
  \A sc \in scores : sc.mode = "once" => GatherInputs(sc.asset, sc.day, sc.cutoff) = sc.inputs

\* s was superseded by t: another day or an older revision of the same feed
Older(s, t) == s.feed = t.feed /\ (s.day < t.day \/ (s.day = t.day /\ s.ver < t.ver))

(***************************************************************************)
(* Recomputing a day never makes its score worse: an input that was        *)
(* available stays available, and no sample is replaced by an older one.   *)
(***************************************************************************)
FreshnessMonotone ==
  \A sc, old \in scores :
    old.asset = sc.asset /\ old.day = sc.day /\ old.at < sc.at =>
      \A f \in Inputs : \A src \in old.inputs[f] :
        /\ sc.inputs[f] # {}
        /\ \A new \in sc.inputs[f] : \A s \in new, t \in src : ~Older(s, t)

(***************************************************************************)
(* No look-ahead: a score of day d is computed only from values observed   *)
(* on day d or before, whichever day it is computed on.                    *)
(***************************************************************************)
NoLookAhead ==
  \A sc \in scores : \A f \in Inputs : \A src \in sc.inputs[f] : \A s \in src : s.obs <= sc.day

(***************************************************************************)
(* ZScoreLatest and StdDev take the last value of a series for today's,    *)
(* whatever its date: after a gap a day is scored with an old observation. *)
(* Its age is bounded by the window of one series, although features of    *)
(* features are read through several.                                      *)
(***************************************************************************)
StalenessBounded ==
  \A sc \in scores : \A f \in Inputs : \A src \in sc.inputs[f] : \A s \in src :
    sc.day < s.day + Window

(***************************************************************************)
(* An event never runs ahead of the data it announces: a consumer of       *)
(* scores.<domain>.completed.v1 finds a score of that asset and day that   *)
(* was committed before the event.                                         *)
(***************************************************************************)
EventsFollowData ==
  \A e \in events : e.topic = "score" =>
    \E sc \in scores : sc.asset = e.of /\ sc.day = e.day /\ sc.at < e.at

(***************************************************************************)
(* The transactional outbox of README.md: a score and its event are        *)
(* committed together, so no score is without an event once a run is over. *)
(***************************************************************************)
OutboxAtomic ==
  mode = "idle" =>
    \A sc \in scores : \E e \in events :
      e.topic = "score" /\ e.of = sc.asset /\ e.day = sc.day /\ e.at > sc.at
=============================================================================
