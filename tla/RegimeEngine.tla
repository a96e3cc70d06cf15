---------------------------- MODULE RegimeEngine ----------------------------
(***************************************************************************)
(* internal/regime: RunOnce and RunBackfill aggregate, per asset and day,  *)
(* the newest domain scores into a regime state, normalised by the score   *)
(* history and smoothed with the states of the days before.                *)
(*                                                                         *)
(* The reads and writes of computeOne are transactions of their own, and   *)
(* the domain services save scores at any time in between; the per-domain  *)
(* queries of one kind are one step.                                       *)
(*                                                                         *)
(* Values are abstracted to what they were computed from: a domain score   *)
(* is its row, a regime state holds the rows behind it.                    *)
(***************************************************************************)
EXTENDS ScoreStore, Sequences, FiniteSets

CONSTANTS
  Assets,        \* sequence of assets
  MinCover,      \* domains needed: MinCoverage of the configuration, as a count
  MinSamples,    \* NormMinSamples
  Lookback,      \* NormLookbackDays
  Roc, Momentum, \* days back to the scores the transition risk compares with
  Trail,         \* days of trailing states the smoothing reads
  Horizon,       \* how far a backfill's cutoff lies in the future
  LastDay, MaxScores, MaxRuns, MaxFaults    \* bounds

ASSUME RegimeAssumption ==
  /\ Domains \subseteq STRING /\ Assets \in Seq(STRING) /\ Len(Assets) > 0
  /\ {MinCover, MinSamples, Lookback, Roc, Momentum, Trail, Horizon} \subseteq Nat
  /\ {LastDay, MaxScores, MaxRuns, MaxFaults} \subseteq Nat

VARIABLES
  today,     \* the current UTC day
  states,    \* regime_states: rows [asset, day, cur, past, hist, trail, at], plus the run's cutoff and mode
  events,    \* outbox_events: [asset, day, at]
  mode,      \* "idle", "once" or "backfill"
  from, to, day, ai,     \* the days of the run, the day and the asset being computed
  pc,        \* the next transaction of computeOne
  cutoff,    \* the run's as-of cutoff
  cur, hist, past, trail,   \* what computeOne has read
  runs, faults,     \* counters of the bounds
  began, last, clean     \* history: start and mode of the newest run, undisturbed so far

store == <<scores, states, events>>
loop  == <<mode, from, to, day, ai, cutoff>>
reads == <<cur, hist, past, trail>>
note  == <<began, last>>
vars  == <<now, today, store, loop, pc, reads, runs, faults, note, clean>>

-----------------------------------------------------------------------------
(* Queries *)

Owners == {"GLOBAL"} \cup {Assets[i] : i \in DOMAIN Assets}

NewestState(a, d, c) == Newest({s \in states : s.asset = a /\ s.day = d /\ s.at <= c})

\* Mutant: the series does not end on the day before.
queryRegimeSeriesNoUpper(a, d) == UNION {NewestState(a, x, now) : x \in 0 .. LastDay}

\* the raw indicators of the days before, without a cutoff
queryRegimeSeries(a, d) == UNION {NewestState(a, x, now) : x \in 0 .. d - 1}

GetSmoothingTrailing(a, d, c) ==
  UNION {NewestState(a, x, c) : x \in {x \in 0 .. d - 1 : x + Trail >= d}}

\* a state's identity
Ref(s) == [day |-> s.day, at |-> s.at]

-----------------------------------------------------------------------------

Init ==
  /\ now = 0 /\ today = 0 /\ scores = {} /\ states = {} /\ events = {}
  /\ mode = "idle" /\ from = 0 /\ to = 0 /\ day = 0 /\ ai = 1
  /\ pc = "scores" /\ cutoff = 0
  /\ cur = {} /\ hist = {} /\ past = {} /\ trail = {}
  /\ runs = 0 /\ faults = 0 /\ began = 0 /\ last = "idle" /\ clean = FALSE

NextDay ==
  /\ today < LastDay
  /\ today' = today + 1
  /\ clean' = FALSE
  /\ UNCHANGED <<now, store, loop, pc, reads, runs, faults, note>>

\* a domain service saves a score
SaveDomainScore(dom, a, d) ==
  /\ Cardinality(scores) < MaxScores
  /\ Scores(a, dom)
  /\ scores' = scores \cup {ScoreRow(dom, a, d)}
  /\ now' = now + 1
  /\ clean' = FALSE
  /\ UNCHANGED <<today, states, events, loop, pc, reads, runs, faults, note>>

\* Mutant: a backfill takes the cutoff of a live tick.
CutoffNow(m) == now

\* Mutant: a live tick leaves a safety margin.
CutoffTrailing(m) == IF m = "backfill" THEN now + Horizon ELSE IF now > 3 THEN now - 3 ELSE 0

\* clock.Now(), and 24 hours more for a backfill
Cutoff(m) == IF m = "backfill" THEN now + Horizon ELSE now

Begin(m, f, t) ==
  /\ mode = "idle"
  /\ runs < MaxRuns
  /\ runs' = runs + 1
  /\ mode' = m /\ from' = f /\ to' = t /\ day' = f /\ ai' = 1 /\ cutoff' = Cutoff(m)
  /\ pc' = "scores"
  /\ began' = now /\ last' = m /\ clean' = TRUE
  /\ UNCHANGED <<now, today, store, reads, faults>>

RunOnce(d) == Begin("once", d, d)

\* Mutant: the range is not checked.
RunBackfillUnchecked(f, t) == Begin("backfill", f, t)

\* a range with from after to is refused
RunBackfill(f, t) == f <= t /\ Begin("backfill", f, t)

\* the loops over days and assets
NextAsset == ai < Len(Assets) /\ ai' = ai + 1 /\ UNCHANGED <<mode, day>>
NextValueDate == ai = Len(Assets) /\ day < to /\ day' = day + 1 /\ ai' = 1 /\ UNCHANGED mode
EndOfRun == ai = Len(Assets) /\ day = to /\ mode' = "idle" /\ UNCHANGED <<day, ai>>

\* the locals of computeOne go out of scope
Forget == pc' = "scores" /\ cur' = {} /\ hist' = {} /\ past' = {} /\ trail' = {}

Advance ==
  /\ NextAsset \/ NextValueDate \/ EndOfRun
  /\ Forget
  /\ UNCHANGED <<from, to, cutoff>>

Stop == mode' = "idle" /\ Forget /\ UNCHANGED <<from, to, day, ai, cutoff>>

\* computeOne returned an error: a backfill skips the asset and day, RunOnce
\* returns and computes no further asset
Skipped ==
  \/ mode = "backfill" /\ Advance
  \/ mode = "once" /\ Stop

-----------------------------------------------------------------------------
(* computeOne *)

At(step) == mode # "idle" /\ pc = step
Asset == Assets[ai]

\* Mutant: the scores of the first asset are read for all of them.
ReadScoresOnce ==
  LET got == GetLatestAll(Assets[1], day, cutoff)
  IN  /\ At("scores")
      /\ Cardinality(got) >= MinCover
      /\ cur' = got
      /\ pc' = "history"
      /\ UNCHANGED <<now, today, store, loop, hist, past, trail, runs, faults, note, clean>>

ReadScores ==
  LET got == GetLatestAll(Asset, day, cutoff)
  IN  /\ At("scores")
      /\ Cardinality(got) >= MinCover
      /\ cur' = got
      /\ pc' = "history"
      /\ UNCHANGED <<now, today, store, loop, hist, past, trail, runs, faults, note, clean>>

InsufficientCoverage ==
  /\ At("scores")
  /\ Cardinality(GetLatestAll(Asset, day, cutoff)) < MinCover
  /\ Skipped
  /\ clean' = (clean /\ mode = "backfill")
  /\ UNCHANGED <<now, today, store, runs, faults, note>>

\* a domain is normalised by its history if that is long enough
ReadHistory ==
  /\ At("history")
  /\ hist' = UNION {h \in {GetDomainScoreHistory(Asset, dom, today - Lookback) : dom \in DomainsOf(cur)} :
                      Cardinality(h) >= MinSamples}
  /\ pc' = "past"
  /\ UNCHANGED <<now, today, store, loop, cur, past, trail, runs, faults, note, clean>>

\* the scores of Roc and of Momentum days before, as of the cutoff; the momentum
\* loop may stop early: this is everything it may read
ComparedScores ==
  UNION {GetDomainScoreOnDate(Asset, dom, d, cutoff) :
           dom \in DomainsOf(cur), d \in {day - Roc, day - Momentum}}

\* the raw indicators of the days before rest on the scores of their day
RawIndicators == UNION {s.cur : s \in queryRegimeSeries(Asset, day)}

\* gatherTransitionRiskInputs
ReadPast ==
  /\ At("past")
  /\ past' = ComparedScores \cup RawIndicators
  /\ pc' = "trail"
  /\ UNCHANGED <<now, today, store, loop, cur, hist, trail, runs, faults, note, clean>>

ReadTrail ==
  /\ At("trail")
  /\ trail' = {Ref(s) : s \in GetSmoothingTrailing(Asset, day, cutoff)}
  /\ pc' = "save"
  /\ UNCHANGED <<now, today, store, loop, cur, hist, past, runs, faults, note, clean>>

Save ==
  /\ At("save")
  /\ states' = states \cup {[asset |-> Asset, day |-> day, cur |-> cur, past |-> past, hist |-> hist,
                             trail |-> trail, cutoff |-> cutoff, mode |-> mode, at |-> now + 1]}
  /\ now' = now + 1
  /\ pc' = "publish"
  /\ UNCHANGED <<today, scores, events, loop, reads, runs, faults, note, clean>>

\* Validate refuses an indicator outside [-1, 1].  Raw scores lie in it and so
\* does any weighted mean of them; a z-score need not.
SaveRejected ==
  /\ At("save")
  /\ hist # {}
  /\ Skipped
  /\ clean' = FALSE
  /\ UNCHANGED <<now, today, store, runs, faults, note>>

\* publisher.Publish: a transaction of its own
Publish ==
  /\ At("publish")
  /\ events' = events \cup {[asset |-> Asset, day |-> day, at |-> now + 1]}
  /\ now' = now + 1
  /\ Advance
  /\ UNCHANGED <<today, scores, states, runs, faults, note, clean>>

\* a query, the save or the publish fails
Fail ==
  /\ mode # "idle"
  /\ faults < MaxFaults
  /\ faults' = faults + 1
  /\ Skipped
  /\ clean' = FALSE
  /\ UNCHANGED <<now, today, store, runs, note>>

\* the process dies
Crash ==
  /\ mode # "idle"
  /\ faults < MaxFaults
  /\ faults' = faults + 1
  /\ Stop
  /\ clean' = FALSE
  /\ UNCHANGED <<now, today, store, runs, note>>

Next ==
  \/ NextDay
  \/ \E dom \in Domains, a \in Owners, d \in 0 .. today : SaveDomainScore(dom, a, d)
  \/ \E d \in 0 .. today : RunOnce(d)
  \/ \E f, t \in 0 .. today : RunBackfill(f, t)
  \/ ReadScores \/ InsufficientCoverage \/ ReadHistory \/ ReadPast \/ ReadTrail
  \/ Save \/ SaveRejected \/ Publish
  \/ Fail \/ Crash

Spec == Init /\ [][Next]_vars

-----------------------------------------------------------------------------
(* Properties *)

(***************************************************************************)
(* Types, the order of the loops of RunBackfill, and rows never stamped    *)
(* later than the clock.                                                   *)
(***************************************************************************)
TypeOK ==
  /\ now \in Nat /\ today \in 0 .. LastDay
  /\ mode \in {"idle", "once", "backfill"}
  /\ pc \in {"scores", "history", "past", "trail", "save", "publish"}
  /\ from \in 0 .. today /\ to \in 0 .. today /\ day \in from .. to
  /\ ai \in DOMAIN Assets /\ cutoff \in Nat
  /\ \A r \in scores \cup states \cup events : r.at \in 1 .. now
  /\ runs \in Nat /\ faults \in Nat
  /\ began \in Nat /\ last \in {"idle", "once", "backfill"} /\ clean \in BOOLEAN

\* the newest state rests on the newest scores and is smoothed with the newest
\* states of the days before
Current(a, d) ==
  \E s \in NewestState(a, d, now) :
    /\ s.at > began
    /\ s.cur = GetLatestAll(a, d, now)
    /\ s.trail = {Ref(q) : q \in GetSmoothingTrailing(a, d, now)}

(***************************************************************************)
(* A tick that ran undisturbed leaves a current state for every asset.     *)
(***************************************************************************)
TickCurrent ==
  mode = "idle" /\ last = "once" /\ clean => \A i \in DOMAIN Assets : Current(Assets[i], day)

Done(x, i) ==
  mode = "idle" \/ x < day \/ (x = day /\ (i < ai \/ (i = ai /\ pc = "publish")))

(***************************************************************************)
(* A backfill chains the smoothing: while it runs undisturbed, every asset *)
(* and day behind it whose scores cover enough domains has a current       *)
(* state, each smoothed with the states the same backfill has just         *)
(* written, and one that lacks coverage is skipped without a new state.    *)
(* Beyond its cutoff, a day after it began, its own states are too late to *)
(* be read.                                                                *)
(***************************************************************************)
BackfillCurrent ==
  last = "backfill" /\ clean /\ now <= began + Horizon =>
    \A x \in from .. to : \A i \in DOMAIN Assets : Done(x, i) =>
      IF Cardinality(GetLatestAll(Assets[i], x, now)) >= MinCover
        THEN Current(Assets[i], x)
        ELSE \A s \in states : s.asset = Assets[i] /\ s.day = x => s.at <= began

(***************************************************************************)
(* A recomputed state never rests on older scores: each domain behind the  *)
(* older state of an asset and day is behind the newer one, with the same  *)
(* score or a later one, however ticks, backfills and new scores follow    *)
(* each other.                                                             *)
(***************************************************************************)
StatesFresher ==
  \A s, q \in states : s.asset = q.asset /\ s.day = q.day /\ q.at < s.at =>
    \A r \in q.cur : \E t \in s.cur : t.dom = r.dom /\ t.at >= r.at

(***************************************************************************)
(* Apart from the normalisation history, a live state rests only on scores *)
(* of its day or before that were ingested by its cutoff, although the     *)
(* series of raw indicators is read without a cutoff.                      *)
(***************************************************************************)
InputsPointInTime ==
  \A s \in states : \A r \in s.cur \cup s.past :
    r.day <= s.day /\ (s.mode = "once" => r.at <= s.cutoff)
=============================================================================
