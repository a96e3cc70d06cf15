------------------------------ MODULE Backtest ------------------------------
(***************************************************************************)
(* internal/backtest and cmd/backtest-runner: Replay hashes the domain     *)
(* scores of a period, records a run and recomputes the regime states of   *)
(* each day as of the day's SLA cutoff; Sweep replays the period once per  *)
(* value of a parameter, under a seed run; ComputeMetrics evaluates a run. *)
(*                                                                         *)
(* The live services save scores and states between any two of the         *)
(* runner's transactions.  As in RegimeEngine a value is the rows behind   *)
(* it; the snapshot hash is the snapshot, as SHA-256 tells snapshots apart. *)
(***************************************************************************)
EXTENDS ScoreStore, Sequences, FiniteSets

CONSTANTS
  Assets,        \* sequence of assets
  Values,        \* sequence of parameter values a sweep tries
  MinCover,      \* domains needed: at least one, as a MinCoverage of 0 becomes 0.6
  MinSamples,    \* NormMinSamples
  Lookback,      \* NormLookbackDays
  Roc, Momentum, \* days back to the scores the transition risk compares with
  DayLen,        \* units of time in a day
  SLA,           \* SLAOffsetMinutes
  MaxNow, MaxRows, MaxReplays, MaxRuns, MaxFaults      \* bounds

ASSUME BacktestAssumption ==
  /\ Domains \subseteq STRING /\ Assets \in Seq(STRING) /\ Len(Assets) > 0
  /\ Values \in Seq(STRING) /\ Len(Values) > 0
  /\ {MinSamples, Lookback, Roc, Momentum, SLA} \subseteq Nat
  /\ {MinCover, DayLen} \subseteq Nat \ {0} /\ {MaxNow, MaxRows, MaxReplays, MaxRuns, MaxFaults} \subseteq Nat

VARIABLES
  states,    \* regime_states of the live engine: rows [asset, day, at]
  runs,      \* backtest_runs, by run_id: [mode, from, to, hash, parent, status],
             \* plus, as history, the engineCfg used (a swept value is not stored),
             \* the time Replay began and whether its loop has ended
  replayed,  \* backtest_regime_states: [run, asset, day, cfg, cur, hist, past, series]
  metrics,   \* backtest_metrics: [run, asset, of], of the replayed states
  pc,        \* the next transaction of the runner, or "idle"
  from, to, day, ai,    \* the period, the day and the asset being computed
  began,     \* when Replay began
  snap,      \* the snapshot collected so far: [asset, day, rows]
  run, seed, vi,        \* run_id; seed run of a sweep or 0; index of the value swept
  cfg,       \* engineCfg: "base" or the value swept
  cur, hist, past, series,   \* what computeOne has read
  todo, got, \* assets ComputeMetrics has still to save, and the states it read
  faults     \* counter of the bound

live   == <<now, scores, states>>
tables == <<runs, replayed, metrics>>
loop   == <<from, to, day, ai>>
sweep  == <<run, seed, vi, cfg>>
reads  == <<cur, hist, past, series>>
evals  == <<todo, got>>
locals == <<loop, began, snap, sweep>>
vars   == <<live, tables, pc, locals, reads, evals, faults>>

today == now \div DayLen

SLACutoff(d) == d * DayLen + SLA

AssetSet == {Assets[i] : i \in DOMAIN Assets}

-----------------------------------------------------------------------------

Init ==
  /\ now = 0 /\ scores = {} /\ states = {}
  /\ runs = << >> /\ replayed = {} /\ metrics = {}
  /\ pc = "idle" /\ from = 0 /\ to = 0 /\ day = 0 /\ ai = 1 /\ began = 0 /\ snap = {}
  /\ run = 0 /\ seed = 0 /\ vi = 1 /\ cfg = "base"
  /\ cur = {} /\ hist = {} /\ past = {} /\ series = {}
  /\ todo = {} /\ got = {} /\ faults = 0

\* The live system

Runner == <<tables, pc, locals, reads, evals, faults>>

Tick == now < MaxNow /\ now' = now + 1 /\ UNCHANGED <<scores, states, Runner>>

RowsLeft == now < MaxNow /\ Cardinality(scores) + Cardinality(states) < MaxRows

\* a domain service saves a score
SaveDomainScore(dom, a, d) ==
  /\ RowsLeft
  /\ Scores(a, dom)
  /\ scores' = scores \cup {ScoreRow(dom, a, d)}
  /\ now' = now + 1
  /\ UNCHANGED <<states, Runner>>

\* the engine saves a state
SaveRegimeState(a, d) ==
  /\ RowsLeft
  /\ states' = states \cup {[asset |-> a, day |-> d, at |-> now + 1]}
  /\ now' = now + 1
  /\ UNCHANGED <<scores, Runner>>

-----------------------------------------------------------------------------
(* The runner *)

NewRun(m, f, t, h, p, s) ==
  [mode |-> m, from |-> f, to |-> t, cfg |-> cfg, hash |-> h, parent |-> p,
   status |-> s, began |-> began, ended |-> FALSE]

\* the command returns and its local variables go out of scope
Return ==
  /\ pc' = "idle"
  /\ from' = 0 /\ to' = 0 /\ day' = 0 /\ ai' = 1 /\ began' = 0 /\ snap' = {}
  /\ run' = 0 /\ seed' = 0 /\ vi' = 1 /\ cfg' = "base"

Continue(step) == pc' = step /\ UNCHANGED locals

\* Mutant: the period is not checked.
ReplayUnchecked(f, t) ==
  /\ pc = "idle" /\ Len(runs) < MaxReplays
  /\ from' = f /\ to' = t /\ day' = f /\ ai' = 1 /\ began' = now /\ snap' = {}
  /\ seed' = 0 /\ vi' = 1
  /\ pc' = "snapshot"
  /\ UNCHANGED <<live, tables, run, cfg, reads, evals, faults>>

\* a period with start after end is refused
Replay(f, t) ==
  /\ pc = "idle" /\ Len(runs) < MaxReplays
  /\ f <= t
  /\ from' = f /\ to' = t /\ day' = f /\ ai' = 1 /\ began' = now /\ snap' = {}
  /\ seed' = 0 /\ vi' = 1
  /\ pc' = "snapshot"
  /\ UNCHANGED <<live, tables, run, cfg, reads, evals, faults>>

\* the seed run is saved before the period is looked at
Sweep(f, t) ==
  /\ pc = "idle" /\ Len(runs) + Len(Values) < MaxRuns
  /\ from' = f /\ to' = t /\ day' = f /\ ai' = 1
  /\ runs' = Append(runs, NewRun("sensitivity", f, t, {}, 0, "running"))
  /\ seed' = Len(runs) + 1 /\ vi' = 1
  /\ pc' = "value"
  /\ UNCHANGED <<live, replayed, metrics, began, snap, run, cfg, reads, evals, faults>>

\* Replay of the next value, with the configuration changed
SweepValue ==
  /\ pc = "value" /\ from <= to
  /\ cfg' = Values[vi]
  /\ day' = from /\ ai' = 1 /\ began' = now /\ snap' = {}
  /\ pc' = "snapshot"
  /\ UNCHANGED <<live, tables, from, to, run, seed, vi, reads, evals, faults>>

\* Replay refuses the period, or the parameter is not one that can be swept:
\* Sweep returns the error
SweepRefused ==
  /\ pc = "value" /\ (from > to \/ vi = 1)
  /\ Return
  /\ UNCHANGED <<live, tables, reads, evals, faults>>

NextAsset == ai < Len(Assets) /\ ai' = ai + 1 /\ UNCHANGED day
NextValueDate == ai = Len(Assets) /\ day < to /\ day' = day + 1 /\ ai' = 1
LastAsset == ai = Len(Assets) /\ day = to

\* on to the next asset or day of the loop at the given step, or past the loop
Advance(again, after) ==
  \/ (NextAsset \/ NextValueDate) /\ pc' = again
  \/ LastAsset /\ pc' = after /\ day' = from /\ ai' = 1

Asset == Assets[ai]

\* collectSnapshot: an asset and day without scores has no entry
CollectSnapshot ==
  LET found == GetLatestAll(Asset, day, SLACutoff(day))
  IN  /\ pc = "snapshot"
      /\ snap' = IF found = {} THEN snap
                 ELSE snap \cup {[asset |-> Asset, day |-> day, rows |-> found]}
      /\ Advance("snapshot", "saveRun")
      /\ UNCHANGED <<live, tables, from, to, began, sweep, reads, evals, faults>>

\* Mutant: the run is recorded as completed when it is saved.
SaveRunCompleted ==
  /\ pc = "saveRun"
  /\ runs' = Append(runs, NewRun(IF seed = 0 THEN "replay" ELSE "sensitivity", from, to, snap, seed, "completed"))
  /\ run' = Len(runs) + 1
  /\ pc' = "scores"
  /\ UNCHANGED <<live, replayed, metrics, loop, began, snap, seed, vi, cfg, reads, evals, faults>>

SaveRun ==
  /\ pc = "saveRun"
  /\ runs' = Append(runs, NewRun(IF seed = 0 THEN "replay" ELSE "sensitivity", from, to, snap, seed, "running"))
  /\ run' = Len(runs) + 1
  /\ pc' = "scores"
  /\ UNCHANGED <<live, replayed, metrics, loop, began, snap, seed, vi, cfg, reads, evals, faults>>

Forget == cur' = {} /\ hist' = {} /\ past' = {} /\ series' = {}

\* Mutant: the live engine's cutoff is used.
ReadScoresLive ==
  LET found == GetLatestAll(Asset, day, now)
  IN  /\ pc = "scores"
      /\ Cardinality(found) >= MinCover
      /\ cur' = found
      /\ Continue("history")
      /\ UNCHANGED <<live, tables, hist, past, series, evals, faults>>

ReadScores ==
  LET found == GetLatestAll(Asset, day, SLACutoff(day))
  IN  /\ pc = "scores"
      /\ Cardinality(found) >= MinCover
      /\ cur' = found
      /\ Continue("history")
      /\ UNCHANGED <<live, tables, hist, past, series, evals, faults>>

\* Mutant: a day without coverage is tried again.
InsufficientCoverageRetried ==
  /\ pc = "scores"
  /\ Cardinality(GetLatestAll(Asset, day, SLACutoff(day))) < MinCover
  /\ Continue("scores")
  /\ UNCHANGED <<live, tables, reads, evals, faults>>

\* computeOne fails for lack of scores: the asset and day are skipped
InsufficientCoverage ==
  /\ pc = "scores"
  /\ Cardinality(GetLatestAll(Asset, day, SLACutoff(day))) < MinCover
  /\ Advance("scores", "status")
  /\ UNCHANGED <<live, tables, from, to, began, snap, sweep, reads, evals, faults>>

\* the histories by which the scores given are normalised, as of today
Histories(a, rows) ==
  UNION {h \in {GetDomainScoreHistory(a, dom, today - Lookback) : dom \in DomainsOf(rows)} :
           Cardinality(h) >= MinSamples}

ReadHistory ==
  /\ pc = "history"
  /\ hist' = Histories(Asset, cur)
  /\ Continue("past")
  /\ UNCHANGED <<live, tables, cur, past, series, evals, faults>>

\* Mutant: the states replayed so far are read, of whichever run.
GetIndicatorRawSeriesReplayed(a, d) == {b \in replayed : b.asset = a /\ b.day < d}

\* the raw indicators of the days before: the reader ignores its cutoff
GetIndicatorRawSeries(a, d) ==
  UNION {Newest({s \in states : s.asset = a /\ s.day = x}) : x \in 0 .. d - 1}

\* the scores of Roc and of Momentum days before, as of the same cutoff
ComparedScores(a, d, rows) ==
  UNION {GetDomainScoreOnDate(a, dom, x, SLACutoff(d)) :
           dom \in DomainsOf(rows), x \in {d - Roc, d - Momentum}}

\* gatherTransitionRiskInputs
ReadPast ==
  /\ pc = "past"
  /\ past' = ComparedScores(Asset, day, cur)
  /\ series' = GetIndicatorRawSeries(Asset, day)
  /\ Continue("save")
  /\ UNCHANGED <<live, tables, cur, hist, evals, faults>>

\* what computeOne returns
ComputedState ==
  [run |-> run, asset |-> Asset, day |-> day, cfg |-> cfg, cur |-> cur, hist |-> hist, past |-> past,
   series |-> series]

\* the states table of the run; unlike the engine's, it takes any indicator, and
\* no trailing states are handed to the smoothing
SaveState ==
  /\ pc = "save"
  /\ replayed' = {b \in replayed : ~(b.run = run /\ b.asset = Asset /\ b.day = day)}
                 \cup {ComputedState}
  /\ Advance("scores", "status")
  /\ Forget
  /\ UNCHANGED <<live, runs, metrics, from, to, began, snap, sweep, evals, faults>>

Fault == faults < MaxFaults /\ faults' = faults + 1

\* a query of computeOne or the save fails: the asset and day are skipped
SkipState ==
  /\ Fault
  /\ pc \in {"scores", "history", "past", "save"}
  /\ Advance("scores", "status")
  /\ Forget
  /\ UNCHANGED <<live, tables, from, to, began, snap, sweep, evals>>

\* UpdateStatus of the run, or a warning that it failed; a sweep restores its
\* configuration.  ended is history.
UpdateStatus ==
  /\ pc = "status"
  /\ \/ runs' = [runs EXCEPT ![run].status = "completed", ![run].ended = TRUE] /\ UNCHANGED faults
     \/ Fault /\ runs' = [runs EXCEPT ![run].ended = TRUE]
  /\ cfg' = "base"
  /\ pc' = "metrics"
  /\ UNCHANGED <<live, replayed, metrics, loop, began, snap, run, seed, vi, reads, evals>>

\* Mutant: a sweep goes on to its next value when Replay returns an error.
ReplayFailsContinue ==
  /\ Fault
  /\ pc \in {"snapshot", "saveRun"}
  /\ IF seed = 0 THEN Return ELSE Continue("rows")
  /\ UNCHANGED <<live, tables, reads, evals>>

\* the snapshot or the save of the run fails: Replay returns the error, and so
\* does Sweep
ReplayFails ==
  /\ Fault
  /\ pc \in {"snapshot", "saveRun"}
  /\ Return
  /\ UNCHANGED <<live, tables, reads, evals>>

-----------------------------------------------------------------------------
(* ComputeMetrics *)

\* -metrics-only, for any recorded run
MetricsOnly(r) ==
  /\ pc = "idle"
  /\ run' = r /\ seed' = 0
  /\ pc' = "metrics"
  /\ UNCHANGED <<live, tables, loop, began, snap, vi, cfg, reads, evals, faults>>

\* main returns, or a sweep collects the metrics it finds
MetricsEnd == IF seed = 0 THEN Return ELSE Continue("rows")

\* the states of the run, which it must have
GetByRun ==
  /\ pc = "metrics"
  /\ got' = {b \in replayed : b.run = run}
  /\ todo' = {b.asset : b \in got'}
  /\ IF got' = {} THEN MetricsEnd ELSE Continue("eval")
  /\ UNCHANGED <<live, tables, reads, faults>>

\* the metrics of one asset, in no particular order of assets
SaveMetrics ==
  /\ pc = "eval"
  /\ \E a \in todo :
       /\ metrics' = {m \in metrics : ~(m.run = run /\ m.asset = a)}
                     \cup {[run |-> run, asset |-> a, of |-> {b \in got : b.asset = a}]}
       /\ todo' = todo \ {a}
  /\ IF todo' = {} THEN MetricsEnd ELSE Continue("eval")
  /\ got' = IF todo' = {} THEN {} ELSE got
  /\ UNCHANGED <<live, runs, replayed, reads, faults>>

\* a query or a save fails
MetricsFail ==
  /\ Fault
  /\ pc \in {"metrics", "eval"}
  /\ todo' = {} /\ got' = {}
  /\ MetricsEnd
  /\ UNCHANGED <<live, tables, reads>>

\* the metrics are read back into a row of the sweep's report; on to the next value
SweepRow ==
  /\ pc = "rows"
  /\ \/ vi < Len(Values) /\ vi' = vi + 1 /\ pc' = "value"
     \/ vi = Len(Values) /\ UNCHANGED vi /\ pc' = "seed"
  /\ UNCHANGED <<live, tables, loop, began, snap, run, seed, cfg, reads, evals, faults>>

CompleteSeed ==
  /\ pc = "seed"
  /\ runs' = [runs EXCEPT ![seed].status = "completed"]
  /\ Return
  /\ UNCHANGED <<live, replayed, metrics, reads, evals, faults>>

\* the metrics cannot be read back, or the status not updated: Sweep returns
SweepFails ==
  /\ Fault
  /\ pc \in {"rows", "seed"}
  /\ Return
  /\ UNCHANGED <<live, tables, reads, evals>>

\* the process dies or is interrupted
Crash ==
  /\ Fault
  /\ pc # "idle"
  /\ Return /\ Forget /\ todo' = {} /\ got' = {}
  /\ UNCHANGED <<live, tables>>

\* the next transaction of a command that is under way
RunnerStep ==
  \/ SweepValue \/ SweepRefused \/ CollectSnapshot \/ SaveRun
  \/ ReadScores \/ InsufficientCoverage \/ ReadHistory \/ ReadPast \/ SaveState
  \/ UpdateStatus \/ GetByRun \/ SaveMetrics \/ SweepRow \/ CompleteSeed
  \/ SkipState \/ ReplayFails \/ MetricsFail \/ SweepFails

Next ==
  \/ Tick
  \/ \E dom \in Domains, a \in AssetSet \cup {"GLOBAL"}, d \in 0 .. today : SaveDomainScore(dom, a, d)
  \/ \E a \in AssetSet, d \in 0 .. today : SaveRegimeState(a, d)
  \/ \E f, t \in 0 .. today : Replay(f, t)
  \/ \E f, t \in 0 .. today : Sweep(f, t)
  \/ \E r \in DOMAIN runs : MetricsOnly(r)
  \/ RunnerStep
  \/ Crash

\* the runner is a sequential program whose next query returns or fails
Spec == Init /\ [][Next]_vars /\ WF_vars(RunnerStep)

-----------------------------------------------------------------------------
(* Properties *)

(***************************************************************************)
(* Types, the order of the loops of Replay, and the parent of a run, which *)
(* is an earlier run (parent_run_id is a foreign key).                     *)
(***************************************************************************)
TypeOK ==
  /\ now \in Nat /\ faults \in Nat /\ began \in 0 .. now
  /\ pc \in {"idle", "value", "snapshot", "saveRun", "scores", "history", "past", "save",
             "status", "metrics", "eval", "rows", "seed"}
  /\ {from, to, day} \subseteq 0 .. today /\ ai \in DOMAIN Assets
  /\ pc \in {"snapshot", "scores", "history", "past", "save"} => day \in from .. to
  /\ run \in 0 .. Len(runs) /\ seed \in 0 .. Len(runs) /\ vi \in DOMAIN Values
  /\ \A r \in DOMAIN runs :
       runs[r].parent \in 0 .. r - 1 /\ runs[r].status \in {"running", "completed"}

\* the cutoffs of all days of the period had passed when the run began
Settled(r) == SLACutoff(runs[r].to) <= runs[r].began

(***************************************************************************)
(* data_snapshot_hash is taken before the replay, which reads the scores   *)
(* again day by day: for a settled period, what was replayed is what was   *)
(* hashed, whatever the live services save in the meantime.                *)
(***************************************************************************)
SnapshotFaithful ==
  \A b \in replayed : Settled(b.run) =>
    [asset |-> b.asset, day |-> b.day, rows |-> b.cur] \in runs[b.run].hash

\* nothing has been saved since time t that the histories of the asset have or
\* may have, and CURRENT_DATE, from which they look back, is that of t
HistoryStill(a, t) ==
  /\ today = t \div DayLen
  /\ \A r \in scores : r.asset = queryAssetFor(a, r.dom) => r.at <= t

\* the same of the live states of the days before d
SeriesStill(a, d, t) == \A s \in states : s.asset = a /\ s.day < d => s.at <= t

(***************************************************************************)
(* The values of a sweep can be compared, and so can two replays of a      *)
(* settled day: whatever the live system does, they rest on the same       *)
(* scores of that day and of the days it is compared with; and as long as  *)
(* it saves no score of the asset and the date stays, on the same history, *)
(* which is read without a cutoff, and as long as it saves no state of an  *)
(* earlier day, on the same raw series.  What differs then is due to the   *)
(* parameter, and to nothing an earlier value or run has left behind.      *)
(***************************************************************************)
ReplaysAgree ==
  \A b, c \in replayed :
    b.asset = c.asset /\ b.day = c.day /\ Settled(b.run) /\ Settled(c.run) =>
      LET since == {runs[b.run].began, runs[c.run].began}
      IN  /\ b.cur = c.cur /\ b.past = c.past
          /\ (\A t \in since : HistoryStill(b.asset, t)) => b.hist = c.hist
          /\ (\A t \in since : SeriesStill(b.asset, b.day, t)) => b.series = c.series

(***************************************************************************)
(* A seed run is completed only when every value of the sweep has been     *)
(* replayed to the end under it, whatever has failed on the way.           *)
(***************************************************************************)
SweepComplete ==
  \A s \in DOMAIN runs :
    runs[s].mode = "sensitivity" /\ runs[s].parent = 0 /\ runs[s].status = "completed" =>
      \A i \in DOMAIN Values : \E r \in DOMAIN runs :
        runs[r].parent = s /\ runs[r].cfg = Values[i] /\ runs[r].ended

StatesOf(r) == {b \in replayed : b.run = r}

(***************************************************************************)
(* A run that says completed is final: no step changes its states.         *)
(***************************************************************************)
CompletedFinal ==
  [][\A r \in DOMAIN runs :
       runs[r].status = "completed" => StatesOf(r)' = StatesOf(r)]_vars

(***************************************************************************)
(* Every command ends, whatever is skipped or fails: Replay goes past days *)
(* without coverage and Sweep past values without metrics.                 *)
(***************************************************************************)
CommandEnds == pc # "idle" ~> pc = "idle"

(***************************************************************************)
(* What README.md says of backtests: they filter on ingested_at, so that   *)
(* the state of a day depends on nothing ingested after its cutoff.        *)
(***************************************************************************)
NoLookAhead ==
  \A b \in replayed : \A r \in b.cur \cup b.hist \cup b.past \cup b.series :
    r.at <= SLACutoff(b.day)
=============================================================================
