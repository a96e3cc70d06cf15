-------------------------- MODULE Backtest_proofs --------------------------
(***************************************************************************)
(* Proofs about the backtest runner with any domains, assets, values to    *)
(* sweep and configuration, whatever the live services save between its    *)
(* transactions and whatever of it fails.                                  *)
(***************************************************************************)
EXTENDS Backtest, FiniteSetTheorems, TLAPS

\* the rows of the tables
Row == [dom : Domains, asset : AssetSet \cup {"GLOBAL"}, day : Nat, at : Nat]
Entry == [asset : AssetSet, day : Nat, rows : SUBSET Row]
Config == {"base"} \cup {Values[i] : i \in DOMAIN Values}
Run ==
  [mode : {"replay", "sensitivity"}, from : Nat, to : Nat, cfg : Config, hash : SUBSET Entry,
   parent : Nat, status : {"running", "completed"}, began : Nat, ended : BOOLEAN]

Typed ==
  /\ scores \subseteq Row /\ snap \subseteq Entry /\ runs \in Seq(Run) /\ cfg \in Config
  /\ \A r \in scores : r.at <= now
  /\ \A r \in DOMAIN runs : runs[r].began <= now
  /\ pc = "saveRun" => day \in from .. to
  /\ pc \in {"scores", "history", "past", "save", "status"} => run # 0
  /\ pc \in {"value", "rows", "seed"} => seed # 0

-----------------------------------------------------------------------------
(* What a replay rests on *)

\* a run with states of its own; the seed run of a sweep has none
IsReplay(r) == runs[r].mode = "replay" \/ runs[r].parent # 0

\* the run under way is the one that was saved for it
CurrentRun ==
  pc \in {"scores", "history", "past", "save", "status"} =>
    /\ run \in DOMAIN runs /\ IsReplay(run) /\ runs[run].status = "running"
    /\ runs[run].from = from /\ runs[run].to = to /\ runs[run].began = began
    /\ seed # 0 => runs[run].parent = seed /\ runs[run].cfg = cfg

LatestOf(a, d) == GetLatestAll(a, d, SLACutoff(d))

\* the hash h has what there was of asset a and day d
Hashed(h, a, d) ==
  LatestOf(a, d) # {} => [asset |-> a, day |-> d, rows |-> LatestOf(a, d)] \in h

\* the cutoffs of the period under way had passed when Replay began
SettledNow == SLACutoff(to) <= began

SnapshotTaken ==
  pc \in {"snapshot", "saveRun"} /\ SettledNow =>
    \A x \in from .. to : \A i \in DOMAIN Assets :
      pc = "saveRun" \/ x < day \/ (x = day /\ i < ai) => Hashed(snap, Assets[i], x)

HashComplete ==
  \A r \in DOMAIN runs : IsReplay(r) /\ Settled(r) =>
    \A x \in runs[r].from .. runs[r].to : \A a \in AssetSet : Hashed(runs[r].hash, a, x)

ReadsSettled ==
  pc \in {"history", "past", "save"} /\ SettledNow =>
    /\ cur # {} /\ cur = LatestOf(Asset, day)
    /\ pc = "save" => past = ComparedScores(Asset, day, cur)

\* a replayed state of a settled period rests on what there was at its cutoff
Rests(b) ==
  /\ b.run \in DOMAIN runs /\ IsReplay(b.run)
  /\ b.asset \in AssetSet /\ b.day \in runs[b.run].from .. runs[b.run].to
  /\ Settled(b.run) => /\ b.cur # {} /\ b.cur = LatestOf(b.asset, b.day)
                       /\ b.past = ComparedScores(b.asset, b.day, b.cur)

ReplayedRest == \A b \in replayed : Rests(b)

-----------------------------------------------------------------------------
(* How far a sweep is *)

\* value v has been replayed to the end under seed run s
Under(s, v) == \E r \in DOMAIN runs : runs[r].parent = s /\ runs[r].cfg = v /\ runs[r].ended

Swept(i) == Under(seed, Values[i])

Progress ==
  /\ seed # 0 /\ pc \in {"snapshot", "saveRun", "scores", "history", "past", "save", "status"} =>
       cfg = Values[vi]
  /\ seed # 0 => \A i \in DOMAIN Values :
       i < vi \/ pc = "seed" \/ (i = vi /\ pc \in {"metrics", "eval", "rows"}) => Swept(i)

-----------------------------------------------------------------------------
(* What a step may change *)

\* the configuration, one parameter at a time
LEMMA Params ==
  /\ DOMAIN Assets = 1 .. Len(Assets) /\ Len(Assets) \in Nat \ {0}
  /\ DOMAIN Values = 1 .. Len(Values) /\ Len(Values) \in Nat \ {0}
  /\ \A i \in DOMAIN Assets : Assets[i] \in STRING
  /\ \A i \in DOMAIN Values : Values[i] \in STRING
  /\ MinCover \in Nat \ {0} /\ Roc \in Nat /\ Momentum \in Nat /\ SLA \in Nat /\ DayLen \in Nat \ {0}
BY BacktestAssumption

\* division keeps the order
LEMMA QuotientOrder ==
  ASSUME NEW D \in Nat \ {0}, NEW n \in Nat, NEW m \in Nat, n <= m
  PROVE  n \div D \in Nat /\ m \div D \in Nat /\ n \div D <= m \div D
<1>1. n = D * (n \div D) + (n % D) /\ n % D \in 0 .. D - 1 /\ n \div D \in Int
  OBVIOUS
<1>2. m = D * (m \div D) + (m % D) /\ m % D \in 0 .. D - 1 /\ m \div D \in Int
  OBVIOUS
<1>3. n \div D <= m \div D
  BY <1>1, <1>2
<1>4. n \div D \in Nat
  OBVIOUS
<1>5. QED
  BY <1>1, <1>2, <1>3, <1>4

\* there is a date
LEMMA TodayNat ==
  ASSUME now \in Nat
  PROVE  today \in Nat
<1>1. PICK n \in Nat, D \in Nat \ {0} : n = now /\ D = DayLen
  BY Params
<1>2. n \div D \in Nat
  BY QuotientOrder
<1>3. QED
  BY <1>1, <1>2 DEF today

\* the date does not go back
LEMMA Today ==
  ASSUME now \in Nat, now' \in {now, now + 1}
  PROVE  today \in Nat /\ today' \in Nat /\ today <= today'
<1>1. PICK n \in Nat, m \in Nat, D \in Nat \ {0} : n = now /\ m = now' /\ n <= m /\ D = DayLen
  BY Params
<1>2. today = n \div D /\ today' = m \div D
  BY <1>1 DEF today
<1>3. QED
  BY <1>1, <1>2, QuotientOrder

\* and so does multiplication
LEMMA ProductOrder ==
  ASSUME NEW d \in Nat, NEW e \in Nat, NEW n \in Nat, d <= e
  PROVE  d * n \in Nat /\ e * n \in Nat /\ d * n <= e * n
OBVIOUS

\* a later day has a later cutoff
LEMMA CutoffOrder ==
  ASSUME NEW d \in Nat, NEW e \in Nat, d <= e
  PROVE  SLACutoff(d) \in Nat /\ SLACutoff(d) <= SLACutoff(e)
<1>1. PICK n \in Nat, k \in Nat : n = DayLen /\ k = SLA
  BY Params
<1>2. PICK p \in Nat, q \in Nat : p = d * n /\ q = e * n /\ p <= q
  BY ProductOrder
<1>3. SLACutoff(d) = p + k /\ SLACutoff(e) = q + k
  BY <1>1, <1>2 DEF SLACutoff
<1>4. QED
  BY <1>2, <1>3

\* either the live system or the runner takes the step; a score and a state carry the
\* new time
LiveStep ==
  /\ UNCHANGED Runner
  /\ now' = now + 1
  /\ scores' = scores \/ \E dom \in Domains, a \in AssetSet \cup {"GLOBAL"}, d \in 0 .. today :
                           scores' = scores \cup {ScoreRow(dom, a, d)}
  /\ states' = states \/ \E a \in AssetSet, d \in 0 .. today :
                           states' = states \cup {[asset |-> a, day |-> d, at |-> now + 1]}

RunnerMoves ==
  \/ \E f, t \in 0 .. today : Replay(f, t)
  \/ \E f, t \in 0 .. today : Sweep(f, t)
  \/ \E r \in DOMAIN runs : MetricsOnly(r)
  \/ RunnerStep
  \/ Crash

\* a step is the live system's or the runner's
LEMMA StepCases ==
  ASSUME [Next]_vars
  PROVE  LiveStep \/ (RunnerMoves /\ UNCHANGED live) \/ UNCHANGED vars
<1>1. CASE \/ Tick
           \/ \E dom \in Domains, a \in AssetSet \cup {"GLOBAL"}, d \in 0 .. today : SaveDomainScore(dom, a, d)
           \/ \E a \in AssetSet, d \in 0 .. today : SaveRegimeState(a, d)
  BY <1>1 DEF LiveStep, Tick, SaveDomainScore, SaveRegimeState
<1>2. RunnerStep => UNCHANGED live
  BY DEF RunnerStep, SweepValue, SweepRefused, CollectSnapshot, SaveRun, ReadScores, InsufficientCoverage,
         ReadHistory, ReadPast, SaveState, UpdateStatus, GetByRun, SaveMetrics, SweepRow, CompleteSeed,
         SkipState, ReplayFails, MetricsFail, SweepFails
<1>3. RunnerMoves => UNCHANGED live
  BY <1>2 DEF RunnerMoves, Replay, Sweep, MetricsOnly, Crash
<1>4. QED
  BY <1>1, <1>3 DEF Next, RunnerMoves

-----------------------------------------------------------------------------
(* Types *)

Types == TypeOK /\ Typed

Loops == {"snapshot", "saveRun", "scores", "history", "past", "save"}

\* what a live step leaves typed
LEMMA TypesLive ==
  ASSUME Types, LiveStep
  PROVE  Types'
<1> USE DEF Types, Runner, tables, locals, loop, sweep, reads, evals
<1> now \in Nat /\ now' = now + 1
  BY DEF TypeOK, LiveStep
<1>1. today' \in Nat /\ today \in Nat /\ today <= today'
  BY Today
<1>2. TypeOK'
  <2>1. began' \in 0 .. now' /\ now' \in Nat /\ {from', to', day'} \subseteq 0 .. today'
    BY <1>1 DEF LiveStep, TypeOK
  <2>2. QED
    BY <2>1 DEF LiveStep, TypeOK
<1>3. scores' \subseteq Row /\ \A r \in scores' : r.at <= now'
  <2>1. CASE scores' = scores
    BY <2>1 DEF Typed, Row
  <2>2. ASSUME NEW dom \in Domains, NEW a \in AssetSet \cup {"GLOBAL"}, NEW d \in 0 .. today,
               scores' = scores \cup {ScoreRow(dom, a, d)}
        PROVE  scores' \subseteq Row /\ \A r \in scores' : r.at <= now'
    <3>1. d \in Nat
      BY <1>1
    <3>2. ScoreRow(dom, a, d) \in Row /\ ScoreRow(dom, a, d).at = now + 1
      BY <3>1 DEF ScoreRow, Row
    <3>3. QED
      BY <2>2, <3>2 DEF Typed, Row
  <2>3. QED
    BY <2>1, <2>2 DEF LiveStep
<1>4. \A r \in DOMAIN runs' : runs'[r].began <= now'
  <2>1. \A r \in DOMAIN runs : runs[r] \in Run
    BY DEF Typed
  <2>2. \A r \in DOMAIN runs : runs[r].began \in Nat
    BY <2>1 DEF Run
  <2>3. QED
    BY <2>2 DEF Typed, LiveStep
<1>5. QED
  BY <1>2, <1>3, <1>4 DEF LiveStep, Typed

\* saving a run
LEMMA RunsAppend ==
  ASSUME runs \in Seq(Run), NEW e \in Run, runs' = Append(runs, e)
  PROVE  /\ runs' \in Seq(Run) /\ Len(runs') = Len(runs) + 1 /\ Len(runs) \in Nat
         /\ DOMAIN runs = 1 .. Len(runs) /\ DOMAIN runs' = 1 .. Len(runs) + 1
         /\ \A r \in DOMAIN runs : runs'[r] = runs[r]
         /\ runs'[Len(runs) + 1] = e
OBVIOUS

\* replacing a run
LEMMA RunsReplace ==
  ASSUME runs \in Seq(Run), NEW r \in DOMAIN runs, NEW x \in Run, runs' = [runs EXCEPT ![r] = x]
  PROVE  /\ runs' \in Seq(Run) /\ Len(runs') = Len(runs) /\ Len(runs) \in Nat
         /\ DOMAIN runs = 1 .. Len(runs) /\ DOMAIN runs' = DOMAIN runs
         /\ \A q \in DOMAIN runs : q # r => runs'[q] = runs[q]
         /\ runs'[r] = x
OBVIOUS

\* updating the status of a run, and its history
LEMMA RunsUpdate ==
  ASSUME runs \in Seq(Run), NEW r \in DOMAIN runs, NEW st \in {"running", "completed"}, NEW en \in BOOLEAN,
         runs' = [runs EXCEPT ![r].status = st, ![r].ended = en]
  PROVE  /\ runs' \in Seq(Run) /\ Len(runs') = Len(runs) /\ Len(runs) \in Nat
         /\ DOMAIN runs = 1 .. Len(runs) /\ DOMAIN runs' = DOMAIN runs
         /\ \A q \in DOMAIN runs : q # r => runs'[q] = runs[q]
         /\ runs'[r] = [runs[r] EXCEPT !.status = st, !.ended = en]
<1> DEFINE e == [runs[r] EXCEPT !.status = st, !.ended = en]
<1>1. runs[r] \in Run
  OBVIOUS
<1>2. e \in Run
  BY <1>1, Zenon DEF Run
<1>3. PICK x \in Run : x = e
  BY <1>2
<1>4. runs' = [runs EXCEPT ![r] = x]
  BY <1>3
<1>5. /\ runs' \in Seq(Run) /\ Len(runs') = Len(runs) /\ Len(runs) \in Nat
      /\ DOMAIN runs = 1 .. Len(runs) /\ DOMAIN runs' = DOMAIN runs
      /\ \A q \in DOMAIN runs : q # r => runs'[q] = runs[q]
      /\ runs'[r] = x
  BY <1>4, RunsReplace
<1>6. QED
  BY <1>3, <1>5

\* going on, or past the loop
LEMMA AdvanceType ==
  ASSUME Types, pc \in Loops, NEW again, NEW after, Advance(again, after)
  PROVE  day' \in from .. to /\ ai' \in DOMAIN Assets /\ pc' \in {again, after}
<1> USE Params DEF Types
<1>1. /\ ai \in 1 .. Len(Assets) /\ DOMAIN Assets = 1 .. Len(Assets) /\ Len(Assets) \in Nat
      /\ day \in from .. to /\ from \in Int /\ to \in Int
  <2>1. today \in Nat
    BY TodayNat DEF TypeOK
  <2>2. QED
    BY <2>1 DEF TypeOK, Typed, Loops
<1>2. CASE NextAsset /\ pc' = again
  BY <1>1, <1>2 DEF NextAsset
<1>3. CASE NextValueDate /\ pc' = again
  BY <1>1, <1>3 DEF NextValueDate
<1>4. CASE LastAsset /\ pc' = after /\ day' = from /\ ai' = 1
  BY <1>1, <1>4
<1>5. QED
  BY <1>2, <1>3, <1>4 DEF Advance

\* the scores found are rows of the table
LEMMA LatestRows ==
  ASSUME Types, NEW a, NEW d, NEW c
  PROVE  GetLatestAll(a, d, c) \subseteq Row
BY DEF Types, Typed, GetLatestAll, GetDomainScoreOnDate, Newest, ScoresOf

\* a step of the runner that saves or updates no run
LEMMA TypesLocal ==
  ASSUME Types, UNCHANGED <<live, runs>>, faults' \in Nat, began' \in 0 .. now,
         pc' \in Loops \cup {"idle", "value", "status", "metrics", "eval", "rows", "seed"},
         {from', to', day'} \subseteq 0 .. today, ai' \in DOMAIN Assets,
         pc' \in Loops => day' \in from' .. to',
         run' \in 0 .. Len(runs), seed' \in 0 .. Len(runs), vi' \in DOMAIN Values,
         pc' \in {"scores", "history", "past", "save", "status"} => run' # 0,
         pc' \in {"value", "rows", "seed"} => seed' # 0,
         snap' \subseteq Entry, cfg' \in Config
  PROVE  Types'
BY DEF Types, TypeOK, Typed, Loops, live, today

\* the runner goes to its loop or to the end of a command, and has no phase left
LEMMA TypesReturn ==
  ASSUME Types, UNCHANGED live, Return, runs' \in Seq(Run), faults' \in Nat,
         \A r \in DOMAIN runs' :
            runs'[r].parent \in 0 .. r - 1 /\ runs'[r].status \in {"running", "completed"}
            /\ runs'[r].began <= now
  PROVE  Types'
<1>1. today \in Nat /\ now \in Nat /\ today' = today /\ now' = now /\ scores' = scores
  BY TodayNat DEF Types, TypeOK, live, today
<1>2. Len(runs') \in Nat
  OBVIOUS
<1>3. TypeOK'
  BY <1>1, <1>2, Params DEF Types, TypeOK, Return
<1>4. Typed'
  BY <1>1 DEF Types, Typed, Return, Config
<1>5. QED
  BY <1>3, <1>4 DEF Types

\* what the type invariant says of the loop and of the runs
LEMMA TypeFacts ==
  ASSUME Types
  PROVE  /\ now \in Nat /\ today \in Nat /\ began \in 0 .. now /\ faults \in Nat
         /\ {from, to, day} \subseteq 0 .. today /\ ai \in DOMAIN Assets /\ vi \in DOMAIN Values
         /\ runs \in Seq(Run) /\ Len(runs) \in Nat /\ DOMAIN runs = 1 .. Len(runs)
         /\ run \in 0 .. Len(runs) /\ seed \in 0 .. Len(runs)
         /\ snap \subseteq Entry /\ cfg \in Config
         /\ pc \in Loops => day \in from .. to
         /\ pc \in {"scores", "history", "past", "save", "status"} => run # 0
         /\ pc \in {"value", "rows", "seed"} => seed # 0
         /\ \A r \in DOMAIN runs : /\ runs[r] \in Run /\ runs[r].parent \in 0 .. r - 1
                                   /\ runs[r].status \in {"running", "completed"} /\ runs[r].began \in 0 .. now
                                   /\ runs[r].began <= now
<1>1. now \in Nat /\ today \in Nat
  BY TodayNat DEF Types, TypeOK
<1>2. runs \in Seq(Run) /\ Len(runs) \in Nat /\ DOMAIN runs = 1 .. Len(runs) /\ \A r \in DOMAIN runs : runs[r] \in Run
  BY DEF Types, Typed
<1>3. \A r \in DOMAIN runs : runs[r].began \in Nat
  BY <1>2 DEF Run
<1>4. QED
  BY <1>1, <1>2, <1>3 DEF Types, TypeOK, Typed, Loops

\* a run is saved, under an earlier one or none
LEMMA TypesAppend ==
  ASSUME Types, UNCHANGED <<live, began, snap, cfg, faults>>, vi' \in DOMAIN Values,
         NEW m \in {"replay", "sensitivity"}, NEW h \in SUBSET Entry, NEW p \in 0 .. Len(runs),
         NEW f \in Nat, NEW t \in Nat, runs' = Append(runs, NewRun(m, f, t, h, p, "running")),
         pc' \in {"value", "scores"}, {from', to', day'} \subseteq 0 .. today, ai' \in DOMAIN Assets,
         pc' = "scores" => day' \in from' .. to',
         run' \in 0 .. Len(runs) + 1, seed' \in 0 .. Len(runs) + 1,
         IF pc' = "scores" THEN run' # 0 ELSE seed' # 0
  PROVE  Types'
<1>1. PICK e : e = NewRun(m, f, t, h, p, "running")
  OBVIOUS
<1>2. PICK n \in Nat : n = Len(runs)
  BY TypeFacts
<1>3. began \in Nat /\ now \in Nat /\ began <= now
  BY TypeFacts
<1>4. e \in Run /\ e.parent = p /\ e.status = "running" /\ e.began = began
  <2>1. FALSE \in BOOLEAN /\ cfg \in Config
    BY TypeFacts
  <2>2. QED
    BY <1>1, <1>3, <2>1 DEF NewRun, Run
<1>5. /\ runs' \in Seq(Run) /\ Len(runs') = n + 1 /\ DOMAIN runs' = 1 .. n + 1 /\ DOMAIN runs = 1 .. n
      /\ \A r \in DOMAIN runs : runs'[r] = runs[r]
      /\ runs'[n + 1] = e
  BY <1>1, <1>2, <1>4, RunsAppend, TypeFacts
<1>6. ASSUME NEW r \in DOMAIN runs'
      PROVE  runs'[r].parent \in 0 .. r - 1 /\ runs'[r].status \in {"running", "completed"} /\ runs'[r].began <= now
  <2>1. CASE r \in DOMAIN runs
    <3>1. runs[r].parent \in 0 .. r - 1 /\ runs[r].status \in {"running", "completed"} /\ runs[r].began <= now
      <4> HIDE <1>1, <1>4, <1>5
      <4>1. QED
        BY <2>1, TypeFacts
    <3>2. QED
      BY <1>5, <2>1, <3>1
  <2>2. CASE r = n + 1
    BY <1>2, <1>3, <1>4, <1>5, <2>2
  <2>3. QED
    BY <1>5, <2>1, <2>2
<1>7. now' = now /\ scores' = scores /\ today' = today
  BY DEF live, today
<1>8. QED
  BY <1>2, <1>5, <1>6, <1>7, TypeFacts DEF Types, TypeOK, Typed

\* a run is updated
LEMMA TypesUpdate ==
  ASSUME Types, NEW r \in DOMAIN runs, NEW st \in {"running", "completed"}, NEW en \in BOOLEAN,
         runs' = [runs EXCEPT ![r].status = st, ![r].ended = en]
  PROVE  /\ runs' \in Seq(Run) /\ Len(runs') = Len(runs) /\ DOMAIN runs' = DOMAIN runs
         /\ \A q \in DOMAIN runs :
              /\ runs'[q].mode = runs[q].mode /\ runs'[q].from = runs[q].from /\ runs'[q].to = runs[q].to
              /\ runs'[q].cfg = runs[q].cfg /\ runs'[q].hash = runs[q].hash
              /\ runs'[q].parent = runs[q].parent /\ runs'[q].began = runs[q].began
              /\ runs'[q].status = (IF q = r THEN st ELSE runs[q].status)
              /\ runs'[q].ended = (IF q = r THEN en ELSE runs[q].ended)
<1>1. /\ runs' \in Seq(Run) /\ Len(runs') = Len(runs) /\ DOMAIN runs' = DOMAIN runs
      /\ \A q \in DOMAIN runs : q # r => runs'[q] = runs[q]
      /\ runs'[r] = [runs[r] EXCEPT !.status = st, !.ended = en]
  BY TypeFacts, RunsUpdate
<1>2. runs[r] \in Run
  BY TypeFacts
<1>3. /\ runs'[r].mode = runs[r].mode /\ runs'[r].from = runs[r].from /\ runs'[r].to = runs[r].to
      /\ runs'[r].cfg = runs[r].cfg /\ runs'[r].hash = runs[r].hash
      /\ runs'[r].parent = runs[r].parent /\ runs'[r].began = runs[r].began
      /\ runs'[r].status = st /\ runs'[r].ended = en
  BY <1>1, <1>2 DEF Run
<1>4. QED
  BY <1>1, <1>3

\* the run under way ends, completed or not
LEMMA StatusUpdate ==
  ASSUME Types, UpdateStatus
  PROVE  /\ run \in DOMAIN runs
         /\ \E st \in {"running", "completed"} :
              runs' = [runs EXCEPT ![run].status = st, ![run].ended = TRUE]
<1>1. run \in DOMAIN runs /\ runs[run] \in Run /\ runs[run].status \in {"running", "completed"}
  BY TypeFacts DEF UpdateStatus
<1>2. CASE runs' = [runs EXCEPT ![run].status = "completed", ![run].ended = TRUE]
  BY <1>1, <1>2
<1>3. CASE runs' = [runs EXCEPT ![run].ended = TRUE]
  <2>1. [runs[run] EXCEPT !.status = runs[run].status, !.ended = TRUE] = [runs[run] EXCEPT !.ended = TRUE]
    BY <1>1 DEF Run
  <2>2. QED
    BY <1>1, <1>3, <2>1
<1>4. QED
  BY <1>2, <1>3 DEF UpdateStatus

\* nothing else of it changes, nor of other runs
LEMMA StatusEffect ==
  ASSUME Types, UpdateStatus
  PROVE  /\ run \in DOMAIN runs /\ DOMAIN runs' = DOMAIN runs
         /\ \A q \in DOMAIN runs : q # run => runs'[q] = runs[q]
         /\ runs'[run].mode = runs[run].mode /\ runs'[run].parent = runs[run].parent
         /\ runs'[run].cfg = runs[run].cfg /\ runs'[run].ended = TRUE
<1>1. PICK st \in {"running", "completed"} : runs' = [runs EXCEPT ![run].status = st, ![run].ended = TRUE]
  BY StatusUpdate
<1>2. run \in DOMAIN runs /\ runs[run] \in Run
  BY StatusUpdate, TypeFacts
<1>3. /\ DOMAIN runs' = DOMAIN runs
      /\ \A q \in DOMAIN runs : q # run => runs'[q] = runs[q]
      /\ runs'[run] = [runs[run] EXCEPT !.status = st, !.ended = TRUE]
  BY <1>1, <1>2
<1>4. runs'[run].mode = runs[run].mode /\ runs'[run].parent = runs[run].parent /\ runs'[run].cfg = runs[run].cfg
  BY <1>2, <1>3 DEF Run
<1>5. runs'[run].ended = TRUE
  BY <1>2, <1>3 DEF Run
<1>6. QED
  BY <1>2, <1>3, <1>4, <1>5

\* the seed run is completed
LEMMA SeedUpdate ==
  ASSUME Types, CompleteSeed
  PROVE  /\ seed \in DOMAIN runs
         /\ \E en \in BOOLEAN : /\ en = runs[seed].ended
                                /\ runs' = [runs EXCEPT ![seed].status = "completed", ![seed].ended = en]
         /\ \A r \in DOMAIN runs : runs'[r].ended = runs[r].ended
<1>1. seed \in DOMAIN runs /\ runs[seed] \in Run
  BY TypeFacts DEF CompleteSeed
<1>2. runs[seed].ended \in BOOLEAN
  BY <1>1 DEF Run
<1>3. runs' = [runs EXCEPT ![seed].status = "completed"]
  BY DEF CompleteSeed
<1>4. [runs[seed] EXCEPT !.status = "completed", !.ended = runs[seed].ended] = [runs[seed] EXCEPT !.status = "completed"]
  BY <1>1 DEF Run
<1>5. runs'[seed] = [runs[seed] EXCEPT !.status = "completed"]
  BY <1>1, <1>3
<1>6. \A r \in DOMAIN runs : runs'[r].ended = runs[r].ended
  <2>1. runs'[seed].ended = runs[seed].ended
    BY <1>1, <1>5 DEF Run
  <2>2. \A r \in DOMAIN runs : r # seed => runs'[r] = runs[r]
    BY <1>3
  <2>3. QED
    BY <2>1, <2>2
<1>7. QED
  BY <1>1, <1>2, <1>3, <1>4, <1>6

\* the steps of the runner, and the variables they leave alone
LEMMA TypesRunner ==
  ASSUME Types, RunnerMoves, UNCHANGED live
  PROVE  Types'
<1> USE Params DEF locals, loop, sweep, tables, Continue, Fault
<1>1. now \in Nat /\ today \in Nat
  BY TypeFacts
<1>2. ASSUME NEW f \in 0 .. today, NEW t \in 0 .. today, Replay(f, t)
      PROVE  Types'
  BY <1>1, <1>2, TypeFacts, TypesLocal DEF Replay, Loops
<1>3. ASSUME NEW f \in 0 .. today, NEW t \in 0 .. today, Sweep(f, t)
      PROVE  Types'
  <2>1. {} \in SUBSET Entry /\ 0 \in 0 .. Len(runs) /\ f \in Nat /\ t \in Nat
    BY <1>1, TypeFacts
  <2>2. runs' = Append(runs, NewRun("sensitivity", f, t, {}, 0, "running"))
    BY <1>3 DEF Sweep
  <2>3. /\ UNCHANGED <<live, began, snap, cfg, faults>> /\ vi' \in DOMAIN Values
        /\ pc' = "value" /\ {from', to', day'} \subseteq 0 .. today /\ ai' \in DOMAIN Assets
        /\ run' \in 0 .. Len(runs) + 1 /\ seed' \in 0 .. Len(runs) + 1 /\ seed' # 0
    <3>1. Len(runs) \in Nat /\ DOMAIN Assets = 1 .. Len(Assets) /\ Len(Assets) \in Nat \ {0}
      BY TypeFacts
    <3>2. 1 \in DOMAIN Assets
      BY <3>1
    <3>3. run \in 0 .. Len(runs)
      BY TypeFacts
    <3>4. /\ from' = f /\ to' = t /\ day' = f /\ ai' = 1 /\ seed' = Len(runs) + 1 /\ run' = run
          /\ UNCHANGED <<live, began, snap, cfg, faults>> /\ vi' = 1 /\ pc' = "value"
      BY <1>3 DEF Sweep
    <3>5. vi' \in DOMAIN Values
      BY <3>4
    <3>6. QED
      BY <1>1, <3>1, <3>2, <3>3, <3>4
  <2>4. QED
    BY <2>1, <2>2, <2>3, TypesAppend
<1>4. ASSUME NEW r \in DOMAIN runs, MetricsOnly(r)
      PROVE  Types'
  BY <1>4, TypeFacts, TypesLocal DEF MetricsOnly, Loops
<1>5. CASE SweepValue
  BY <1>5, TypeFacts, TypesLocal DEF SweepValue, Loops, Config
<1>6. CASE CollectSnapshot
  <2>1. day' \in from .. to /\ ai' \in DOMAIN Assets /\ pc' \in {"snapshot", "saveRun"}
    BY <1>6, AdvanceType DEF CollectSnapshot, Loops
  <2>2. day \in Nat /\ Asset \in AssetSet
    BY TypeFacts DEF Asset, AssetSet
  <2>3. snap' \subseteq Entry
    BY <1>6, <2>2, TypeFacts, LatestRows DEF CollectSnapshot, Entry
  <2>4. QED
    BY <1>6, <2>1, <2>3, TypeFacts, TypesLocal DEF CollectSnapshot, Loops
<1>7. CASE SaveRun
  <2>1. PICK m \in {"replay", "sensitivity"} : runs' = Append(runs, NewRun(m, from, to, snap, seed, "running"))
    BY <1>7 DEF SaveRun
  <2>2. snap \in SUBSET Entry /\ seed \in 0 .. Len(runs) /\ from \in Nat /\ to \in Nat
    BY <1>1, TypeFacts
  <2>3. /\ UNCHANGED <<live, began, snap, cfg, faults>> /\ vi' \in DOMAIN Values
        /\ pc' = "scores" /\ {from', to', day'} \subseteq 0 .. today /\ ai' \in DOMAIN Assets
        /\ day' \in from' .. to'
        /\ run' \in 0 .. Len(runs) + 1 /\ seed' \in 0 .. Len(runs) + 1 /\ run' # 0
    BY <1>1, <1>7, TypeFacts DEF SaveRun, Loops
  <2>4. QED
    BY <2>1, <2>2, <2>3, TypesAppend
<1>8. CASE ReadScores \/ ReadHistory \/ ReadPast
  BY <1>8, TypeFacts, TypesLocal DEF ReadScores, ReadHistory, ReadPast, Loops
<1>9. ASSUME pc \in Loops, Advance("scores", "status"), run # 0, faults' \in Nat,
             UNCHANGED <<runs, from, to, began, snap, sweep>>
      PROVE  Types'
  <2>1. day' \in from .. to /\ ai' \in DOMAIN Assets /\ pc' \in {"scores", "status"}
    BY <1>9, AdvanceType
  <2>2. QED
    BY <1>9, <2>1, TypeFacts, TypesLocal DEF Loops
<1>10. CASE InsufficientCoverage
  BY <1>9, <1>10, TypeFacts DEF InsufficientCoverage, Loops
<1>11. CASE SaveState
  BY <1>9, <1>11, TypeFacts DEF SaveState, Loops
<1>12. CASE SkipState
  BY <1>9, <1>12, TypeFacts DEF SkipState, Loops
<1>13. ASSUME Return, runs' = runs, faults' \in Nat
       PROVE  Types'
  BY <1>13, TypesReturn, TypeFacts
<1>14. CASE SweepRefused \/ ReplayFails \/ SweepFails \/ Crash
  BY <1>13, <1>14, TypeFacts DEF SweepRefused, ReplayFails, SweepFails, Crash
<1>15. CASE UpdateStatus
  <2>1. /\ runs' \in Seq(Run) /\ Len(runs') = Len(runs) /\ DOMAIN runs' = DOMAIN runs
        /\ \A q \in DOMAIN runs :
             /\ runs'[q].parent = runs[q].parent /\ runs'[q].began = runs[q].began
             /\ runs'[q].status \in {"running", "completed"}
    BY <1>15, StatusUpdate, TypesUpdate, TypeFacts
  <2>2. faults' \in {faults, faults + 1} /\ cfg' = "base" /\ pc' = "metrics"
    BY <1>15 DEF UpdateStatus
  <2>3. faults' \in Nat /\ cfg' \in Config
    BY <2>2, TypeFacts DEF Config
  <2>4. QED
    BY <1>15, <2>1, <2>2, <2>3, TypeFacts DEF UpdateStatus, Types, TypeOK, Typed, live, today
<1>16. CASE CompleteSeed
  <2>1. /\ runs' \in Seq(Run) /\ Len(runs') = Len(runs) /\ DOMAIN runs' = DOMAIN runs
        /\ \A q \in DOMAIN runs :
             /\ runs'[q].parent = runs[q].parent /\ runs'[q].began = runs[q].began
             /\ runs'[q].status \in {"running", "completed"}
    BY <1>16, SeedUpdate, TypesUpdate, TypeFacts
  <2>2. Return /\ faults' = faults
    BY <1>16 DEF CompleteSeed
  <2>3. \A q \in DOMAIN runs : runs[q].parent \in 0 .. q - 1 /\ runs[q].began <= now
    BY <1>1, TypeFacts
  <2>4. QED
    BY <2>1, <2>2, <2>3, TypeFacts, TypesReturn
<1>17. ASSUME pc \in {"metrics", "eval"}, UNCHANGED runs, faults' \in Nat,
              MetricsEnd \/ Continue("eval")
       PROVE  Types'
  <2>1. CASE Return
    BY <1>13, <1>17, <2>1
  <2>2. CASE Continue("eval") \/ (seed # 0 /\ Continue("rows"))
    BY <1>17, <2>2, TypeFacts, TypesLocal DEF Loops
  <2>3. QED
    BY <1>17, <2>1, <2>2 DEF MetricsEnd
<1>18. CASE GetByRun \/ SaveMetrics \/ MetricsFail
  BY <1>17, <1>18, TypeFacts DEF GetByRun, SaveMetrics, MetricsFail
<1>19. CASE SweepRow
  BY <1>19, TypeFacts, TypesLocal DEF SweepRow, Loops
<1>20. QED
  BY <1>2, <1>3, <1>4, <1>5, <1>6, <1>7, <1>8, <1>10, <1>11, <1>12, <1>14, <1>15, <1>16, <1>18, <1>19
     DEF RunnerMoves, RunnerStep

\* every step keeps the types
LEMMA TypesStep ==
  ASSUME Types, [Next]_vars
  PROVE  Types'
<1>1. CASE UNCHANGED vars
  BY <1>1, TypeFacts DEF vars, live, tables, locals, loop, sweep, reads, evals, Types, TypeOK, Typed, today
<1>2. QED
  BY <1>1, StepCases, TypesLive, TypesRunner

\* so the types hold in every state
LEMMA TypesInvariant == Spec => []Types
<1>1. Init => Types
  BY Params, TodayNat DEF Init, Types, TypeOK, Typed, Config, Run, Entry
<1>2. Types /\ [Next]_vars => Types'
  BY TypesStep
<1>3. QED
  BY <1>1, <1>2, PTL DEF Spec

(***************************************************************************)
(* The loops of Replay stay within its period, the assets and the values,  *)
(* and the parent of every run is one saved before it.                     *)
(***************************************************************************)
THEOREM TypeCorrect == Spec => []TypeOK
<1>1. Types => TypeOK
  BY DEF Types
<1>2. QED
  BY <1>1, TypesInvariant, PTL

-----------------------------------------------------------------------------
(* What is recorded *)

\* the steps that write to backtest_runs
LEMMA RunsWritten ==
  ASSUME Types, RunnerMoves
  PROVE  \/ UNCHANGED runs
         \/ (\E f, t \in 0 .. today : Sweep(f, t)) \/ SaveRun \/ UpdateStatus \/ CompleteSeed
BY DEF RunnerMoves, RunnerStep, tables, Replay, MetricsOnly, Crash, SweepValue, SweepRefused, CollectSnapshot,
       ReadScores, InsufficientCoverage, ReadHistory, ReadPast, SaveState, GetByRun, SaveMetrics, SweepRow,
       SkipState, ReplayFails, MetricsFail, SweepFails

\* a run that is saved leaves the others alone
LEMMA RunSaved ==
  ASSUME Types, NEW e, runs' = Append(runs, e)
  PROVE  /\ DOMAIN runs' = 1 .. Len(runs) + 1 /\ DOMAIN runs = 1 .. Len(runs) /\ Len(runs) \in Nat
         /\ \A r \in DOMAIN runs : runs'[r] = runs[r]
         /\ runs'[Len(runs) + 1] = e
<1>1. runs \in Seq(Run)
  BY TypeFacts
<1>2. QED
  BY <1>1

\* no recorded run disappears, and only its status changes
LEMMA RunsKept ==
  ASSUME Types, RunnerMoves, NEW r \in DOMAIN runs
  PROVE  /\ r \in DOMAIN runs'
         /\ runs'[r].mode = runs[r].mode /\ runs'[r].from = runs[r].from /\ runs'[r].to = runs[r].to
         /\ runs'[r].cfg = runs[r].cfg /\ runs'[r].hash = runs[r].hash
         /\ runs'[r].parent = runs[r].parent /\ runs'[r].began = runs[r].began
         /\ runs[r].ended => runs'[r].ended
<1> DEFINE Same(q) == /\ runs'[q].mode = runs[q].mode /\ runs'[q].from = runs[q].from /\ runs'[q].to = runs[q].to
                      /\ runs'[q].cfg = runs[q].cfg /\ runs'[q].hash = runs[q].hash
                      /\ runs'[q].parent = runs[q].parent /\ runs'[q].began = runs[q].began
<1>1. CASE UNCHANGED runs
  BY <1>1
<1>2. ASSUME NEW e, runs' = Append(runs, e)
      PROVE  r \in DOMAIN runs' /\ runs'[r] = runs[r]
  BY <1>2, RunSaved
<1>3. CASE \E f, t \in 0 .. today : Sweep(f, t)
  BY <1>2, <1>3 DEF Sweep
<1>4. CASE SaveRun
  BY <1>2, <1>4 DEF SaveRun
<1>5. CASE UpdateStatus
  <2>1. PICK st \in {"running", "completed"} : runs' = [runs EXCEPT ![run].status = st, ![run].ended = TRUE]
    BY <1>5, StatusUpdate
  <2>2. run \in DOMAIN runs /\ TRUE \in BOOLEAN
    BY <1>5, StatusUpdate
  <2>3. DOMAIN runs' = DOMAIN runs /\ Same(r)
    BY <2>1, <2>2, TypesUpdate
  <2>4. runs'[r].ended = (IF r = run THEN TRUE ELSE runs[r].ended)
    BY <2>1, <2>2, TypesUpdate
  <2>5. runs[r].ended => runs'[r].ended
    BY <2>4, Zenon
  <2>6. QED
    BY <2>3, <2>5
<1>6. CASE CompleteSeed
  <2>1. PICK en \in BOOLEAN : /\ en = runs[seed].ended
                              /\ runs' = [runs EXCEPT ![seed].status = "completed", ![seed].ended = en]
    BY <1>6, SeedUpdate
  <2>2. seed \in DOMAIN runs /\ "completed" \in {"running", "completed"}
    BY <1>6, SeedUpdate
  <2>3. DOMAIN runs' = DOMAIN runs /\ Same(r)
    BY <2>1, <2>2, TypesUpdate
  <2>4. runs'[r].ended = runs[r].ended
    BY <1>6, SeedUpdate
  <2>5. runs[r].ended => runs'[r].ended
    BY <2>1, <2>4, Zenon
  <2>6. QED
    BY <2>3, <2>5
<1>7. QED
  BY <1>1, <1>3, <1>4, <1>5, <1>6, RunsWritten

\* the steps of the loop over days and assets
Looping ==
  \/ ReadScores \/ ReadHistory \/ ReadPast
  \/ InsufficientCoverage \/ SaveState \/ SkipState

\* they leave the run as it is
LEMMA LoopSteps ==
  ASSUME Looping
  PROVE  /\ pc \in {"scores", "history", "past", "save"}
         /\ pc' \in {"scores", "history", "past", "save", "status"}
         /\ UNCHANGED <<live, runs, from, to, began, snap, sweep>>
BY DEF Looping, ReadScores, ReadHistory, ReadPast, InsufficientCoverage, SaveState, SkipState, Continue,
       Advance, locals, loop, tables

\* all other steps of the runner but SaveRun lead out of the loop, or stay out of it
LEMMA OtherSteps ==
  ASSUME RunnerMoves, ~Looping, ~SaveRun
  PROVE  pc' \notin {"scores", "history", "past", "save", "status"}
BY DEF Looping, RunnerMoves, RunnerStep, Replay, Sweep, MetricsOnly, Crash, SweepValue, SweepRefused,
       CollectSnapshot, UpdateStatus, GetByRun, SaveMetrics, SweepRow, CompleteSeed, ReplayFails, MetricsFail,
       SweepFails, Continue, Return, Advance, MetricsEnd

\* a run is saved for the loop that follows
LEMMA CurrentStep ==
  ASSUME Types, CurrentRun, [Next]_vars
  PROVE  CurrentRun'
<1>1. CASE LiveStep
  BY <1>1 DEF CurrentRun, LiveStep, Runner, tables, locals, loop, sweep, IsReplay
<1>2. CASE UNCHANGED vars
  BY <1>2 DEF CurrentRun, vars, tables, locals, loop, sweep, IsReplay
<1>3. CASE Looping
  BY <1>3, LoopSteps DEF CurrentRun, IsReplay, sweep
<1>4. CASE SaveRun
  <2>1. PICK e : /\ e = NewRun(IF seed = 0 THEN "replay" ELSE "sensitivity", from, to, snap, seed, "running")
                 /\ runs' = Append(runs, e)
    BY <1>4 DEF SaveRun
  <2>2. run' = Len(runs) + 1 /\ run' \in DOMAIN runs' /\ runs'[run'] = e
    BY <1>4, <2>1, RunSaved DEF SaveRun
  <2>3. e.mode = "replay" \/ e.parent # 0
    BY <2>1 DEF NewRun
  <2>4. e.status = "running" /\ e.from = from /\ e.to = to /\ e.began = began /\ e.parent = seed /\ e.cfg = cfg
    BY <2>1 DEF NewRun
  <2>5. UNCHANGED <<from, to, began, seed, cfg>>
    BY <1>4 DEF SaveRun, loop
  <2>6. QED
    BY <2>2, <2>3, <2>4, <2>5 DEF CurrentRun, IsReplay
<1>5. CASE RunnerMoves /\ ~Looping /\ ~SaveRun
  BY <1>5, OtherSteps DEF CurrentRun
<1>6. QED
  BY <1>1, <1>2, <1>3, <1>4, <1>5, StepCases

\* replayed states are saved for the run under way only
LEMMA ReplayedWritten ==
  ASSUME [Next]_vars
  PROVE  UNCHANGED replayed \/ SaveState
<1> SUFFICES ASSUME ~UNCHANGED replayed, ~SaveState
             PROVE  FALSE
  OBVIOUS
<1>1. ~UNCHANGED vars
  BY DEF vars, tables
<1>2. ~LiveStep
  BY DEF LiveStep, Runner, tables
<1>3. ~RunnerMoves
  BY DEF RunnerMoves, RunnerStep, tables, Replay, Sweep, MetricsOnly, Crash, SweepValue, SweepRefused, CollectSnapshot,
         SaveRun, ReadScores, InsufficientCoverage, ReadHistory, ReadPast, UpdateStatus, GetByRun, SaveMetrics,
         SweepRow, CompleteSeed, SkipState, ReplayFails, MetricsFail, SweepFails
<1>4. QED
  BY <1>1, <1>2, <1>3, StepCases

\* the current run is the one the process created last, and is running
LEMMA CurrentInvariant == Spec => []CurrentRun
<1>1. Init => CurrentRun
  BY DEF Init, CurrentRun
<1>2. Types /\ CurrentRun /\ [Next]_vars => CurrentRun'
  BY CurrentStep
<1>3. QED
  BY <1>1, <1>2, TypesInvariant, PTL DEF Spec

(***************************************************************************)
(* A run that says completed is final.  The only step that writes replayed *)
(* states is that of the run under way, which UpdateStatus marks at the    *)
(* end of the loop and which nothing can enter again: a later Replay is    *)
(* saved as a run of its own, and the seed of a sweep has no states.       *)
(***************************************************************************)
THEOREM CompletedRunsFinal == Spec => CompletedFinal
<1> DEFINE Final == \A r \in DOMAIN runs : runs[r].status = "completed" => StatesOf(r)' = StatesOf(r)
<1>1. CurrentRun /\ [Next]_vars => [Final]_vars
  <2>1. SUFFICES ASSUME CurrentRun, [Next]_vars, NEW r \in DOMAIN runs, runs[r].status = "completed"
                 PROVE  StatesOf(r)' = StatesOf(r)
    OBVIOUS
  <2>2. CASE UNCHANGED replayed
    BY <2>2 DEF StatesOf
  <2>3. CASE SaveState
    <3>1. run # r
      BY <2>1, <2>3 DEF CurrentRun, SaveState
    <3>2. ComputedState.run = run
      BY DEF ComputedState
    <3>3. PICK new : new = ComputedState /\ new.run # r
      BY <3>1, <3>2
    <3>4. replayed' = {b \in replayed : ~(b.run = run /\ b.asset = Asset /\ b.day = day)} \cup {new}
      BY <2>3, <3>3 DEF SaveState
    <3>5. QED
      BY <3>1, <3>3, <3>4 DEF StatesOf
  <2>4. QED
    BY <2>1, <2>2, <2>3, ReplayedWritten
<1>2. QED
  BY <1>1, CurrentInvariant, PTL DEF Spec, CompletedFinal

-----------------------------------------------------------------------------
(* What was hashed is what is replayed *)

\* what a query finds as of a time that has passed, no later score changes
LEMMA FrozenDate ==
  ASSUME Types, LiveStep, NEW a, NEW dom, NEW x, NEW c \in Nat, c <= now
  PROVE  GetDomainScoreOnDate(a, dom, x, c)' = GetDomainScoreOnDate(a, dom, x, c)
<1> DEFINE Found == {r \in ScoresOf(a, dom) : r.day = x /\ r.at <= c}
<1>1. Found' = Found
  <2>1. CASE scores' = scores
    BY <2>1 DEF ScoresOf
  <2>2. ASSUME NEW e \in Domains, NEW b \in AssetSet \cup {"GLOBAL"}, NEW d \in 0 .. today,
               scores' = scores \cup {ScoreRow(e, b, d)}
        PROVE  Found' = Found
    <3>1. now \in Nat
      BY TypeFacts
    <3>2. PICK new : new = ScoreRow(e, b, d)
      OBVIOUS
    <3>3. new.at = now + 1
      BY <3>2 DEF ScoreRow
    <3>4. ~(new.at <= c)
      BY <3>1, <3>3
    <3>5. scores' = scores \cup {new}
      BY <2>2, <3>2
    <3>6. QED
      BY <3>4, <3>5 DEF ScoresOf
  <2>3. QED
    BY <2>1, <2>2 DEF LiveStep
<1>2. GetDomainScoreOnDate(a, dom, x, c) = Newest(Found)
  BY DEF GetDomainScoreOnDate
<1>3. GetDomainScoreOnDate(a, dom, x, c)' = Newest(Found')
  BY DEF GetDomainScoreOnDate, Newest
<1>4. QED
  BY <1>1, <1>2, <1>3

\* so that neither the scores of a day past its cutoff nor those it is compared
\* with change
LEMMA FrozenDay ==
  ASSUME Types, LiveStep \/ UNCHANGED scores, NEW d \in Nat, SLACutoff(d) <= now, NEW a
  PROVE  /\ LatestOf(a, d)' = LatestOf(a, d)
         /\ \A rows : ComparedScores(a, d, rows)' = ComparedScores(a, d, rows)
<1>1. CASE UNCHANGED scores
  BY <1>1 DEF LatestOf, ComparedScores, GetLatestAll, GetDomainScoreOnDate, Newest, ScoresOf
<1>2. CASE LiveStep
  <2>1. PICK c \in Nat : c = SLACutoff(d) /\ c <= now
    BY CutoffOrder
  <2>2. \A dom, x : GetDomainScoreOnDate(a, dom, x, c)' = GetDomainScoreOnDate(a, dom, x, c)
    BY <1>2, <2>1, FrozenDate
  <2>3. LatestOf(a, d) = GetLatestAll(a, d, c) /\ LatestOf(a, d)' = GetLatestAll(a, d, c)'
    BY <2>1 DEF LatestOf, SLACutoff
  <2>4. GetLatestAll(a, d, c)' = GetLatestAll(a, d, c)
    BY <2>2 DEF GetLatestAll
  <2>5. ASSUME NEW rows
        PROVE  ComparedScores(a, d, rows)' = ComparedScores(a, d, rows)
    BY <2>1, <2>2, SMT DEF ComparedScores, SLACutoff
  <2>6. QED
    BY <2>3, <2>4, <2>5
<1>3. QED
  BY <1>1, <1>2

Faithful == SnapshotTaken /\ HashComplete /\ ReadsSettled /\ ReplayedRest

\* the cutoffs of all days of a period are before that of its last one
LEMMA WithinPeriod ==
  ASSUME NEW f \in Nat, NEW t \in Nat, NEW d \in f .. t, NEW b \in Nat, NEW n \in Nat,
         SLACutoff(t) <= b, b <= n
  PROVE  d \in Nat /\ SLACutoff(d) <= n
<1>1. d \in Nat /\ d <= t
  OBVIOUS
<1>2. SLACutoff(d) \in Nat /\ SLACutoff(d) <= SLACutoff(t) /\ SLACutoff(t) \in Nat
  BY <1>1, CutoffOrder
<1>3. QED
  BY <1>1, <1>2

\* the same, of the period under way and of a recorded one
LEMMA PeriodPassed ==
  ASSUME Types
  PROVE  /\ \A d \in from .. to : SettledNow => d \in Nat /\ SLACutoff(d) <= now
         /\ \A r \in DOMAIN runs : \A d \in runs[r].from .. runs[r].to :
              Settled(r) => d \in Nat /\ SLACutoff(d) <= now
<1>1. now \in Nat /\ began \in Nat /\ from \in Nat /\ to \in Nat /\ began <= now
  BY TypeFacts
<1>2. \A r \in DOMAIN runs : runs[r].from \in Nat /\ runs[r].to \in Nat /\ runs[r].began \in Nat /\ runs[r].began <= now
  <2>1. \A r \in DOMAIN runs : runs[r] \in Run /\ runs[r].began <= now
    BY TypeFacts
  <2>2. QED
    BY <2>1 DEF Run
<1>3. ASSUME NEW d \in from .. to, SettledNow
      PROVE  d \in Nat /\ SLACutoff(d) <= now
  BY <1>1, <1>3, WithinPeriod DEF SettledNow
<1>4. ASSUME NEW r \in DOMAIN runs, NEW d \in runs[r].from .. runs[r].to, Settled(r)
      PROVE  d \in Nat /\ SLACutoff(d) <= now
  BY <1>1, <1>2, <1>4, WithinPeriod DEF Settled
<1>5. QED
  BY <1>3, <1>4

\* a live step
LEMMA FaithfulLive ==
  ASSUME Types, Faithful, LiveStep
  PROVE  Faithful'
<1> USE DEF Runner, tables, locals, loop, sweep, reads, LiveStep
<1>1. \A d \in Nat : SLACutoff(d) <= now => \A a :
        /\ LatestOf(a, d)' = LatestOf(a, d)
        /\ \A rows : ComparedScores(a, d, rows)' = ComparedScores(a, d, rows)
  BY FrozenDay
<1>2. SnapshotTaken'
  <2>1. ASSUME NEW x \in from .. to, SettledNow, NEW a
        PROVE  Hashed(snap, a, x)' <=> Hashed(snap, a, x)
    BY <1>1, <2>1, PeriodPassed DEF Hashed
  <2>2. SettledNow' <=> SettledNow
    BY DEF SettledNow, SLACutoff
  <2>3. QED
    BY <2>1, <2>2 DEF Faithful, SnapshotTaken
<1>3. HashComplete'
  <2>1. ASSUME NEW r \in DOMAIN runs, NEW x \in runs[r].from .. runs[r].to, Settled(r), NEW a
        PROVE  Hashed(runs[r].hash, a, x)' <=> Hashed(runs[r].hash, a, x)
    BY <1>1, <2>1, PeriodPassed DEF Hashed
  <2>2. \A r \in DOMAIN runs : (Settled(r)' <=> Settled(r)) /\ (IsReplay(r)' <=> IsReplay(r))
    BY DEF Settled, SLACutoff, IsReplay
  <2>3. QED
    BY <2>1, <2>2 DEF Faithful, HashComplete, AssetSet
<1>4. ReadsSettled'
  <2>1. ASSUME SettledNow, pc \in {"history", "past", "save"}
        PROVE  /\ LatestOf(Asset, day)' = LatestOf(Asset, day)
               /\ ComparedScores(Asset, day, cur)' = ComparedScores(Asset, day, cur)
    <3>1. PICK a, d, c : a = Asset /\ d = day /\ c = cur
      OBVIOUS
    <3>2. d \in Nat /\ SLACutoff(d) <= now
      BY <2>1, <3>1, PeriodPassed, TypeFacts DEF Loops
    <3>3. LatestOf(a, d)' = LatestOf(a, d) /\ ComparedScores(a, d, c)' = ComparedScores(a, d, c)
      BY <1>1, <3>2
    <3>4. Asset' = a /\ day' = d /\ cur' = c
      BY <3>1 DEF Asset
    <3>5. LatestOf(Asset, day)' = LatestOf(a, d)' /\ ComparedScores(Asset, day, cur)' = ComparedScores(a, d, c)'
      BY <3>4 DEF LatestOf, ComparedScores, SLACutoff
    <3>6. QED
      BY <3>1, <3>3, <3>5
  <2>2. SettledNow' <=> SettledNow
    BY DEF SettledNow, SLACutoff
  <2>3. QED
    BY <2>1, <2>2 DEF Faithful, ReadsSettled
<1>5. ReplayedRest'
  <2>1. ASSUME NEW b \in replayed
        PROVE  Rests(b)'
    <3>1. Rests(b) /\ (Settled(b.run)' <=> Settled(b.run)) /\ (IsReplay(b.run)' <=> IsReplay(b.run))
      BY DEF Faithful, ReplayedRest, Settled, SLACutoff, IsReplay
    <3>2. Settled(b.run) => /\ LatestOf(b.asset, b.day)' = LatestOf(b.asset, b.day)
                            /\ ComparedScores(b.asset, b.day, b.cur)' = ComparedScores(b.asset, b.day, b.cur)
      BY <1>1, <3>1, PeriodPassed DEF Rests
    <3>3. QED
      BY <3>1, <3>2 DEF Rests, AssetSet
  <2>2. QED
    BY <2>1 DEF ReplayedRest
<1>6. QED
  BY <1>2, <1>3, <1>4, <1>5 DEF Faithful

\* the snapshot grows with the loop over days and assets
LEMMA SnapshotStep ==
  ASSUME Types, SnapshotTaken, RunnerMoves, UNCHANGED live
  PROVE  SnapshotTaken'
<1> USE DEF live, loop, tables, sweep, locals
<1>0. /\ from \in Nat /\ to \in Nat /\ today \in Nat
      /\ DOMAIN Assets = 1 .. Len(Assets) /\ Len(Assets) \in Nat \ {0}
  BY TypeFacts, Params
<1>2. ASSUME pc' = "snapshot", from' \in Nat, day' = from', ai' = 1
      PROVE  SnapshotTaken'
  BY <1>0, <1>2 DEF SnapshotTaken
<1>3. ASSUME NEW f \in 0 .. today, NEW t \in 0 .. today, Replay(f, t)
      PROVE  SnapshotTaken'
  BY <1>0, <1>2, <1>3 DEF Replay
<1>4. CASE SweepValue
  BY <1>0, <1>2, <1>4 DEF SweepValue
<1>5. CASE CollectSnapshot
  <2>1. pc = "snapshot" /\ day \in from .. to /\ ai \in 1 .. Len(Assets)
        /\ UNCHANGED <<from, to, began>> /\ (SettledNow' <=> SettledNow)
    BY <1>5, TypeFacts DEF CollectSnapshot, Loops, SettledNow, SLACutoff
  <2>2. ASSUME NEW a, NEW x, Hashed(snap, a, x)
        PROVE  Hashed(snap', a, x)
    BY <1>5, <2>2 DEF CollectSnapshot, Hashed
  <2>3. Hashed(snap', Asset, day)
    BY <1>5 DEF CollectSnapshot, Hashed, LatestOf
  <2>4. SUFFICES ASSUME SettledNow, NEW x \in from .. to, NEW i \in DOMAIN Assets,
                        pc' = "saveRun" \/ x < day' \/ (x = day' /\ i < ai')
                 PROVE  Hashed(snap', Assets[i], x)
    <3>1. ASSUME NEW h, h = snap', NEW x, NEW a
          PROVE  Hashed(snap, a, x)' <=> Hashed(snap', a, x)
      BY DEF Hashed, LatestOf, GetLatestAll, GetDomainScoreOnDate, Newest, ScoresOf, SLACutoff
    <3>2. QED
      BY <2>1, <3>1 DEF SnapshotTaken
  <2>5. x < day \/ (x = day /\ i < ai) \/ (x = day /\ i = ai)
    <3>1. x \in Int /\ i \in 1 .. Len(Assets) /\ day \in Int /\ ai \in Int
      BY <1>0, <2>1
    <3>2. CASE NextAsset /\ pc' = "snapshot"
      BY <2>4, <3>1, <3>2 DEF NextAsset
    <3>3. CASE NextValueDate /\ pc' = "snapshot"
      BY <1>0, <2>4, <3>1, <3>3 DEF NextValueDate
    <3>4. CASE LastAsset
      BY <1>0, <3>1, <3>4 DEF LastAsset
    <3>5. QED
      BY <1>5, <3>2, <3>3, <3>4 DEF CollectSnapshot, Advance
  <2>6. CASE x < day \/ (x = day /\ i < ai)
    BY <2>1, <2>2, <2>4, <2>6 DEF SnapshotTaken
  <2>7. QED
    BY <2>3, <2>5, <2>6 DEF Asset
<1>6. CASE /\ ~CollectSnapshot /\ ~SweepValue
           /\ ~\E f, t \in 0 .. today : Replay(f, t)
  <2>1. pc' \notin {"snapshot", "saveRun"}
    BY <1>6 DEF RunnerMoves, RunnerStep, Sweep, MetricsOnly, Crash, SweepRefused, SaveRun, ReadScores,
             InsufficientCoverage, ReadHistory, ReadPast, SaveState, UpdateStatus, GetByRun, SaveMetrics, SweepRow,
             CompleteSeed, SkipState, ReplayFails, MetricsFail, SweepFails, Continue, Return, Advance, MetricsEnd
  <2>2. QED
    BY <2>1 DEF SnapshotTaken
<1>7. QED
  BY <1>3, <1>4, <1>5, <1>6

\* a run is saved with the snapshot of its whole period
LEMMA HashStep ==
  ASSUME Types, SnapshotTaken, HashComplete, RunnerMoves, UNCHANGED live
  PROVE  HashComplete'
<1> USE DEF live
<1>2. SUFFICES ASSUME NEW r \in DOMAIN runs', IsReplay(r)', Settled(r)',
                      NEW x \in runs'[r].from .. runs'[r].to, NEW a \in AssetSet
               PROVE  Hashed(runs'[r].hash, a, x)
  <2>1. ASSUME NEW r, NEW h, h = runs'[r].hash, NEW a, NEW x
        PROVE  Hashed(runs[r].hash, a, x)' <=> Hashed(h, a, x)
    BY <2>1 DEF Hashed, LatestOf, GetLatestAll, GetDomainScoreOnDate, Newest, ScoresOf, SLACutoff
  <2>2. QED
    BY <2>1 DEF HashComplete, AssetSet
<1>3. CASE r \in DOMAIN runs
  <2>1. /\ runs'[r].mode = runs[r].mode /\ runs'[r].from = runs[r].from /\ runs'[r].to = runs[r].to
        /\ runs'[r].hash = runs[r].hash /\ runs'[r].parent = runs[r].parent /\ runs'[r].began = runs[r].began
    BY <1>3, RunsKept
  <2>2. IsReplay(r) /\ Settled(r)
    BY <1>2, <2>1 DEF IsReplay, Settled, SLACutoff
  <2>3. QED
    BY <1>2, <1>3, <2>1, <2>2 DEF HashComplete
<1>4. CASE r \notin DOMAIN runs
  <2>1. (\E f, t \in 0 .. today : Sweep(f, t)) \/ SaveRun
    <3>1. DOMAIN runs' # DOMAIN runs
      BY <1>2, <1>4
    <3>2. ~UNCHANGED runs /\ ~UpdateStatus /\ ~CompleteSeed
      <4>1. UpdateStatus => DOMAIN runs' = DOMAIN runs
        BY DEF UpdateStatus
      <4>2. CompleteSeed => DOMAIN runs' = DOMAIN runs
        BY DEF CompleteSeed
      <4>3. QED
        BY <3>1, <4>1, <4>2
    <3>3. QED
      BY <3>2, RunsWritten
  <2>2. ASSUME NEW f, NEW t, Sweep(f, t)
        PROVE  FALSE
    <3>1. PICK e : e = NewRun("sensitivity", f, t, {}, 0, "running") /\ runs' = Append(runs, e)
      BY <2>2 DEF Sweep
    <3>2. r = Len(runs) + 1 /\ runs'[r] = e
      BY <1>2, <1>4, <3>1, RunSaved
    <3>3. e.mode = "sensitivity" /\ e.parent = 0
      BY <3>1 DEF NewRun
    <3>4. QED
      BY <1>2, <3>2, <3>3 DEF IsReplay
  <2>3. CASE SaveRun
    <3>1. PICK e : /\ e = NewRun(IF seed = 0 THEN "replay" ELSE "sensitivity", from, to, snap, seed, "running")
                   /\ runs' = Append(runs, e)
      BY <2>3 DEF SaveRun
    <3>2. r = Len(runs) + 1 /\ runs'[r] = e
      BY <1>2, <1>4, <3>1, RunSaved
    <3>3. e.from = from /\ e.to = to /\ e.began = began /\ e.hash = snap
      BY <3>1 DEF NewRun
    <3>4. x \in from .. to /\ SettledNow /\ pc = "saveRun"
      BY <1>2, <2>3, <3>2, <3>3 DEF Settled, SettledNow, SLACutoff, SaveRun
    <3>5. PICK i \in DOMAIN Assets : a = Assets[i]
      BY DEF AssetSet
    <3>6. QED
      BY <3>2, <3>3, <3>4, <3>5 DEF SnapshotTaken
  <2>4. QED
    BY <2>1, <2>2, <2>3
<1>5. QED
  BY <1>3, <1>4

\* enough scores are some
LEMMA CoveredSome ==
  ASSUME NEW rows, Cardinality(rows) >= MinCover
  PROVE  rows # {}
<1>1. MinCover \in Nat \ {0} /\ Cardinality({}) = 0
  BY Params, FS_EmptySet
<1>2. QED
  BY <1>1

\* what computeOne reads on the way
LEMMA ReadsStep ==
  ASSUME Types, ReadsSettled, RunnerMoves, UNCHANGED live
  PROVE  ReadsSettled'
<1> USE DEF live, locals, loop, sweep, Continue
<1>1. ASSUME UNCHANGED <<day, ai, to, began>>
      PROVE  /\ LatestOf(Asset, day)' = LatestOf(Asset, day)
             /\ SettledNow' <=> SettledNow
  BY <1>1 DEF LatestOf, GetLatestAll, GetDomainScoreOnDate, Newest, ScoresOf, SLACutoff, Asset, SettledNow
<1>2. CASE ReadScores
  BY <1>1, <1>2, CoveredSome DEF ReadScores, ReadsSettled, LatestOf
<1>3. CASE ReadHistory
  BY <1>1, <1>3 DEF ReadHistory, ReadsSettled
<1>4. CASE ReadPast
  <2>1. ComparedScores(Asset, day, cur)' = ComparedScores(Asset, day, cur)
    BY <1>4 DEF ReadPast, ComparedScores, GetDomainScoreOnDate, Newest, ScoresOf, SLACutoff, Asset
  <2>2. QED
    BY <1>1, <1>4, <2>1 DEF ReadPast, ReadsSettled
<1>5. CASE ~ReadScores /\ ~ReadHistory /\ ~ReadPast
  <2>1. pc' \notin {"history", "past", "save"}
    BY <1>5 DEF RunnerMoves, RunnerStep, Replay, Sweep, MetricsOnly, Crash, SweepValue, SweepRefused, CollectSnapshot,
             SaveRun, InsufficientCoverage, SaveState, UpdateStatus, GetByRun, SaveMetrics, SweepRow,
             CompleteSeed, SkipState, ReplayFails, MetricsFail, SweepFails, Return, Advance, MetricsEnd
  <2>2. QED
    BY <2>1 DEF ReadsSettled
<1>6. QED
  BY <1>2, <1>3, <1>4, <1>5

\* what a state replayed rests on
LEMMA RestStep ==
  ASSUME Types, CurrentRun, ReadsSettled, ReplayedRest, RunnerMoves, UNCHANGED live
  PROVE  ReplayedRest'
<1> USE DEF live
<1>1. ASSUME NEW b, Rests(b)
      PROVE  Rests(b)'
  <2>1. b.run \in DOMAIN runs
    BY <1>1 DEF Rests
  <2>2. PICK r : r = b.run
    OBVIOUS
  <2>3. /\ r \in DOMAIN runs'
        /\ runs'[r].mode = runs[r].mode /\ runs'[r].from = runs[r].from /\ runs'[r].to = runs[r].to
        /\ runs'[r].parent = runs[r].parent /\ runs'[r].began = runs[r].began
    BY <2>1, <2>2, RunsKept
  <2>4. (IsReplay(r)' <=> IsReplay(r)) /\ (Settled(r)' <=> Settled(r))
    BY <2>3 DEF IsReplay, Settled, SLACutoff
  <2>5. /\ LatestOf(b.asset, b.day)' = LatestOf(b.asset, b.day)
        /\ ComparedScores(b.asset, b.day, b.cur)' = ComparedScores(b.asset, b.day, b.cur)
    BY DEF LatestOf, ComparedScores, GetLatestAll, GetDomainScoreOnDate, Newest, ScoresOf, SLACutoff
  <2>6. QED
    BY <1>1, <2>2, <2>3, <2>4, <2>5 DEF Rests, AssetSet
<1>2. CASE UNCHANGED replayed
  BY <1>1, <1>2 DEF ReplayedRest
<1>3. CASE SaveState
  <2>1. PICK new : new = ComputedState
    OBVIOUS
  <2>2. replayed' = {b \in replayed : ~(b.run = run /\ b.asset = Asset /\ b.day = day)} \cup {new}
    BY <1>3, <2>1 DEF SaveState
  <2>3. new.run = run /\ new.asset = Asset /\ new.day = day /\ new.cur = cur /\ new.past = past
    BY <2>1 DEF ComputedState
  <2>4. /\ run \in DOMAIN runs /\ IsReplay(run) /\ runs[run].from = from /\ runs[run].to = to
        /\ Settled(run) <=> SettledNow
    BY <1>3 DEF CurrentRun, SaveState, Settled, SettledNow
  <2>5. Asset \in AssetSet /\ day \in from .. to
    BY <1>3, TypeFacts DEF SaveState, Asset, AssetSet, Loops
  <2>6. SettledNow => cur # {} /\ cur = LatestOf(Asset, day) /\ past = ComparedScores(Asset, day, cur)
    BY <1>3 DEF ReadsSettled, SaveState
  <2>7. Rests(new)
    BY <2>3, <2>4, <2>5, <2>6 DEF Rests
  <2>8. QED
    BY <1>1, <2>2, <2>7 DEF ReplayedRest
<1>4. QED
  <2>1. [Next]_vars
    BY DEF RunnerMoves, Next
  <2>2. QED
    BY <1>2, <1>3, <2>1, ReplayedWritten

\* what a run recorded of its inputs stays what it read
LEMMA FaithfulInvariant == Spec => []Faithful
<1>1. Init => Faithful
  <2>1. SUFFICES ASSUME Init PROVE Faithful
    OBVIOUS
  <2>2. SnapshotTaken /\ ReadsSettled /\ ReplayedRest
    BY <2>1 DEF Init, SnapshotTaken, ReadsSettled, ReplayedRest
  <2>3. HashComplete
    BY <2>1 DEF Init, HashComplete
  <2>4. QED
    BY <2>2, <2>3 DEF Faithful
<1>2. Types /\ CurrentRun /\ Faithful /\ [Next]_vars => Faithful'
  <2>1. SUFFICES ASSUME Types, CurrentRun, Faithful, [Next]_vars
                 PROVE  Faithful'
    OBVIOUS
  <2>2. CASE LiveStep
    BY <2>1, <2>2, FaithfulLive
  <2>3. CASE RunnerMoves /\ UNCHANGED live
    BY <2>1, <2>3, SnapshotStep, HashStep, ReadsStep, RestStep DEF Faithful
  <2>4. CASE UNCHANGED vars
    <3>1. UNCHANGED <<now, scores, runs, replayed, pc, from, to, day, ai, began, snap, run, seed, cfg, cur, past>>
      BY <2>4 DEF vars, live, tables, locals, loop, sweep, reads
    <3> USE <3>1 DEF GetLatestAll, GetDomainScoreOnDate, Newest, ScoresOf, SLACutoff
    <3>2. SnapshotTaken'
      BY <2>1 DEF Faithful, SnapshotTaken, Hashed, SettledNow, LatestOf
    <3>3. HashComplete'
      BY <2>1 DEF Faithful, HashComplete, Hashed, IsReplay, Settled, LatestOf, AssetSet
    <3>4. ReadsSettled'
      BY <2>1 DEF Faithful, ReadsSettled, SettledNow, LatestOf, ComparedScores, Asset
    <3>5. ReplayedRest'
      <4>1. ASSUME NEW b \in replayed
            PROVE  Rests(b)'
        <5>1. Rests(b)
          BY <2>1 DEF Faithful, ReplayedRest
        <5>2. /\ LatestOf(b.asset, b.day)' = LatestOf(b.asset, b.day)
              /\ ComparedScores(b.asset, b.day, b.cur)' = ComparedScores(b.asset, b.day, b.cur)
          BY DEF LatestOf, ComparedScores
        <5>3. QED
          BY <5>1, <5>2 DEF Rests, IsReplay, Settled, AssetSet
      <4>2. QED
        BY <4>1 DEF ReplayedRest
    <3>6. QED
      BY <3>2, <3>3, <3>4, <3>5 DEF Faithful
  <2>5. QED
    BY <2>1, <2>2, <2>3, <2>4, StepCases
<1>3. QED
  BY <1>1, <1>2, TypesInvariant, CurrentInvariant, PTL DEF Spec

(***************************************************************************)
(* data_snapshot_hash is taken before the loop that reads the scores again *)
(* day by day.  For a period whose cutoffs had passed when Replay began    *)
(* the two agree, whatever the live services have saved in between, for    *)
(* what a query finds as of a past time no later row changes.              *)
(***************************************************************************)
THEOREM HashFaithful == Spec => []SnapshotFaithful
<1>1. Faithful => SnapshotFaithful
  BY DEF Faithful, ReplayedRest, Rests, HashComplete, Hashed, SnapshotFaithful
<1>2. QED
  BY <1>1, FaithfulInvariant, PTL

-----------------------------------------------------------------------------
(* What is read without a cutoff *)

\* it is still what computeOne would read, if nothing has come in since Replay began
ReadsStill ==
  pc \in {"past", "save"} =>
    /\ HistoryStill(Asset, began) => hist = Histories(Asset, cur)
    /\ pc = "save" /\ SeriesStill(Asset, day, began) => series = GetIndicatorRawSeries(Asset, day)

RestsStill(b) ==
  /\ HistoryStill(b.asset, runs[b.run].began) => b.hist = Histories(b.asset, b.cur)
  /\ SeriesStill(b.asset, b.day, runs[b.run].began) => b.series = GetIndicatorRawSeries(b.asset, b.day)

ReplayedStill == \A b \in replayed : b.run \in DOMAIN runs /\ b.day \in Nat /\ RestsStill(b)

Still == ReadsStill /\ ReplayedStill

\* the newest score of each day, among the scores T of an asset and domain; the days
\* are those of all scores S
HistoryIn(S, T, since) ==
  UNION {Newest({r \in T : r.day = d}) : d \in {r.day : r \in {r \in S : r.day >= since}}}

\* scores of other assets and domains add nothing to a history
LEMMA HistoryRows ==
  ASSUME NEW S, NEW R, NEW T, T \subseteq S, T \subseteq R, NEW since
  PROVE  HistoryIn(S, T, since) = HistoryIn(R, T, since)
<1> DEFINE On(d) == {r \in T : r.day = d}
           Days(X) == {r.day : r \in {r \in X : r.day >= since}}
<1>1. ASSUME NEW X, T \subseteq X, NEW r
      PROVE  r \in UNION {Newest(On(d)) : d \in Days(X)} <=>
               r \in T /\ r.day >= since /\ \A q \in T : q.day = r.day => q.at <= r.at
  <2>1. r \in UNION {Newest(On(d)) : d \in Days(X)} <=> \E d \in Days(X) : r \in Newest(On(d))
    OBVIOUS
  <2>2. ASSUME NEW d
        PROVE  r \in Newest(On(d)) <=> r \in T /\ r.day = d /\ \A q \in T : q.day = r.day => q.at <= r.at
    BY DEF Newest
  <2>3. r \in T => (r.day \in Days(X) <=> r.day >= since)
    BY <1>1
  <2>4. QED
    BY <2>1, <2>2, <2>3
<1>2. /\ HistoryIn(S, T, since) = UNION {Newest(On(d)) : d \in Days(S)}
      /\ HistoryIn(R, T, since) = UNION {Newest(On(d)) : d \in Days(R)}
  BY DEF HistoryIn
<1> HIDE DEF On, Days
<1>3. QED
  BY <1>1, <1>2

\* a live step that does not change the histories of an asset since a time past
LEMMA HistoryKept ==
  ASSUME Types, LiveStep, NEW a, NEW t \in Nat, t <= now, HistoryStill(a, t)'
  PROVE  HistoryStill(a, t) /\ \A rows : Histories(a, rows)' = Histories(a, rows)
<1>1. now \in Nat /\ now' = now + 1
  BY TypeFacts DEF LiveStep
<1>2. today' = today /\ today = t \div DayLen
  <2>1. today' = t \div DayLen
    BY DEF HistoryStill
  <2>2. PICK n \in Nat, D \in Nat \ {0} : n = now /\ D = DayLen /\ t <= n
    BY <1>1, Params
  <2>3. t \div D \in Nat /\ n \div D \in Nat /\ t \div D <= n \div D /\ today = n \div D
    BY <2>2, QuotientOrder DEF today
  <2>4. today \in Nat /\ today' \in Nat /\ today <= today'
    BY <1>1, Today
  <2>5. QED
    BY <2>1, <2>2, <2>3, <2>4
<1>3. ASSUME NEW r, r.asset = queryAssetFor(a, r.dom)
      PROVE  r \in scores' <=> r \in scores
  <2>1. CASE scores' = scores
    BY <2>1
  <2>2. ASSUME NEW dom \in Domains, NEW b \in AssetSet \cup {"GLOBAL"}, NEW d \in 0 .. today,
               scores' = scores \cup {ScoreRow(dom, b, d)}
        PROVE  r \in scores' <=> r \in scores
    <3>1. PICK new : new = ScoreRow(dom, b, d)
      OBVIOUS
    <3>2. new.at = now + 1
      BY <3>1 DEF ScoreRow
    <3>3. r \in scores' => r.at <= t
      BY <1>3 DEF HistoryStill, queryAssetFor
    <3>4. r # new \/ r \notin scores'
      BY <1>1, <3>2, <3>3
    <3>5. QED
      BY <2>2, <3>1, <3>4
  <2>3. QED
    BY <2>1, <2>2 DEF LiveStep
<1>4. HistoryStill(a, t)
  BY <1>2, <1>3 DEF HistoryStill, queryAssetFor
<1>5. ASSUME NEW dom
      PROVE  ScoresOf(a, dom)' = ScoresOf(a, dom)
  BY <1>3 DEF ScoresOf, queryAssetFor
<1>6. ASSUME NEW dom, NEW since
      PROVE  GetDomainScoreHistory(a, dom, since)' = GetDomainScoreHistory(a, dom, since)
  <2>1. PICK S, T, R : S = scores /\ R = scores' /\ T = ScoresOf(a, dom)
    OBVIOUS
  <2>2. T \subseteq S /\ T \subseteq R /\ ScoresOf(a, dom)' = T
    BY <1>5, <2>1 DEF ScoresOf
  <2>3. GetDomainScoreHistory(a, dom, since) = HistoryIn(S, T, since)
    BY <2>1, Zenon DEF GetDomainScoreHistory, HistoryIn
  <2>4. GetDomainScoreHistory(a, dom, since)' = HistoryIn(R, T, since)
    <3>1. GetDomainScoreHistory(a, dom, since)' = HistoryIn(scores', ScoresOf(a, dom)', since)
      BY Zenon DEF GetDomainScoreHistory, HistoryIn, Newest
    <3>2. QED
      BY <2>1, <2>2, <3>1, Zenon
  <2>5. HistoryIn(S, T, since) = HistoryIn(R, T, since)
    BY <2>2, HistoryRows
  <2>6. QED
    BY <2>3, <2>4, <2>5, Zenon
<1>7. ASSUME NEW rows
      PROVE  Histories(a, rows)' = Histories(a, rows)
  BY <1>2, <1>6 DEF Histories
<1>8. QED
  BY <1>4, <1>7

\* or the raw series of a day
LEMMA SeriesKept ==
  ASSUME Types, LiveStep, NEW a, NEW d \in Nat, NEW t \in Nat, t <= now, SeriesStill(a, d, t)'
  PROVE  SeriesStill(a, d, t) /\ GetIndicatorRawSeries(a, d)' = GetIndicatorRawSeries(a, d)
<1>1. now \in Nat
  BY TypeFacts
<1>2. ASSUME NEW s, s.asset = a, s.day < d
      PROVE  s \in states' <=> s \in states
  <2>1. CASE states' = states
    BY <2>1
  <2>2. ASSUME NEW b \in AssetSet, NEW e \in 0 .. today,
               states' = states \cup {[asset |-> b, day |-> e, at |-> now + 1]}
        PROVE  s \in states' <=> s \in states
    <3>1. s \in states' => s.at <= t
      BY <1>2 DEF SeriesStill
    <3>2. s # [asset |-> b, day |-> e, at |-> now + 1] \/ s \notin states'
      BY <1>1, <3>1
    <3>3. QED
      BY <2>2, <3>2
  <2>3. QED
    BY <2>1, <2>2 DEF LiveStep
<1>3. SeriesStill(a, d, t)
  BY <1>2 DEF SeriesStill
<1>4. ASSUME NEW x \in 0 .. d - 1
      PROVE  {s \in states : s.asset = a /\ s.day = x}' = {s \in states : s.asset = a /\ s.day = x}
  BY <1>2
<1>5. QED
  BY <1>3, <1>4 DEF GetIndicatorRawSeries, Newest

\* a live step
LEMMA StillLive ==
  ASSUME Types, CurrentRun, Still, LiveStep
  PROVE  Still'
<1> USE DEF Runner, tables, locals, loop, sweep, reads, LiveStep
<1>1. ReadsStill'
  <2>1. SUFFICES ASSUME pc \in {"past", "save"}
                 PROVE  ReadsStill'
    BY DEF ReadsStill
  <2>2. PICK a, d, t, c : a = Asset /\ d = day /\ t = began /\ c = cur
    OBVIOUS
  <2>3. t \in Nat /\ t <= now /\ d \in Nat
    BY <2>2, TypeFacts
  <2>4. Asset' = a /\ day' = d /\ began' = t /\ cur' = c
    BY <2>2 DEF Asset
  <2>5. ASSUME HistoryStill(Asset, began)'
        PROVE  hist = Histories(a, c)'
    <3>1. HistoryStill(a, t)'
      BY <2>4, <2>5 DEF HistoryStill
    <3>2. HistoryStill(a, t) /\ Histories(a, c)' = Histories(a, c)
      BY <2>3, <3>1, HistoryKept
    <3>3. QED
      BY <2>1, <2>2, <3>2 DEF Still, ReadsStill
  <2>6. ASSUME SeriesStill(Asset, day, began)', pc = "save"
        PROVE  series = GetIndicatorRawSeries(a, d)'
    <3>1. SeriesStill(a, d, t)'
      BY <2>4, <2>6 DEF SeriesStill
    <3>2. SeriesStill(a, d, t) /\ GetIndicatorRawSeries(a, d)' = GetIndicatorRawSeries(a, d)
      BY <2>3, <3>1, SeriesKept
    <3>3. QED
      BY <2>2, <2>6, <3>2 DEF Still, ReadsStill
  <2>7. /\ Histories(Asset, cur)' = Histories(a, c)'
        /\ GetIndicatorRawSeries(Asset, day)' = GetIndicatorRawSeries(a, d)'
    BY <2>4 DEF Histories, GetIndicatorRawSeries
  <2>8. QED
    BY <2>5, <2>6, <2>7 DEF ReadsStill
<1>2. ASSUME NEW b \in replayed
      PROVE  b.run \in DOMAIN runs' /\ RestsStill(b)'
  <2>1. PICK t : t = runs[b.run].began
    OBVIOUS
  <2>2. b.run \in DOMAIN runs /\ b.day \in Nat /\ t \in Nat /\ t <= now /\ RestsStill(b)
    BY <2>1, TypeFacts DEF Still, ReplayedStill
  <2>3. ASSUME HistoryStill(b.asset, t)'
        PROVE  HistoryStill(b.asset, t) /\ Histories(b.asset, b.cur)' = Histories(b.asset, b.cur)
    BY <2>2, <2>3, HistoryKept
  <2>4. ASSUME SeriesStill(b.asset, b.day, t)'
        PROVE  /\ SeriesStill(b.asset, b.day, t)
               /\ GetIndicatorRawSeries(b.asset, b.day)' = GetIndicatorRawSeries(b.asset, b.day)
    BY <2>2, <2>4, SeriesKept
  <2>5. /\ HistoryStill(b.asset, runs[b.run].began)' <=> HistoryStill(b.asset, t)'
        /\ SeriesStill(b.asset, b.day, runs[b.run].began)' <=> SeriesStill(b.asset, b.day, t)'
    BY <2>1 DEF HistoryStill, SeriesStill
  <2>6. QED
    BY <2>1, <2>2, <2>3, <2>4, <2>5 DEF RestsStill
<1>3. QED
  BY <1>1, <1>2 DEF Still, ReplayedStill

\* what is read depends on the tables, and on the date
LEMMA StillReads ==
  ASSUME UNCHANGED live
  PROVE  \A a, d, t, rows :
           /\ HistoryStill(a, t)' <=> HistoryStill(a, t)
           /\ SeriesStill(a, d, t)' <=> SeriesStill(a, d, t)
           /\ Histories(a, rows)' = Histories(a, rows)
           /\ GetIndicatorRawSeries(a, d)' = GetIndicatorRawSeries(a, d)
BY DEF live, today, HistoryStill, SeriesStill, Histories, GetDomainScoreHistory, ScoresOf, Newest,
       GetIndicatorRawSeries

\* what computeOne has read
LEMMA ReadsStillStep ==
  ASSUME Types, ReadsStill, RunnerMoves, UNCHANGED live
  PROVE  ReadsStill'
<1> USE DEF locals, loop, sweep, Continue
<1>1. ASSUME UNCHANGED <<day, ai, began, cur>>
      PROVE  /\ HistoryStill(Asset, began)' <=> HistoryStill(Asset, began)
             /\ SeriesStill(Asset, day, began)' <=> SeriesStill(Asset, day, began)
             /\ Histories(Asset, cur)' = Histories(Asset, cur)
             /\ GetIndicatorRawSeries(Asset, day)' = GetIndicatorRawSeries(Asset, day)
  <2>1. PICK a, d, t, c : a = Asset /\ d = day /\ t = began /\ c = cur
    OBVIOUS
  <2>2. Asset' = a /\ day' = d /\ began' = t /\ cur' = c
    BY <1>1, <2>1 DEF Asset
  <2>3. /\ HistoryStill(Asset, began)' <=> HistoryStill(a, t)'
        /\ SeriesStill(Asset, day, began)' <=> SeriesStill(a, d, t)'
        /\ Histories(Asset, cur)' = Histories(a, c)'
        /\ GetIndicatorRawSeries(Asset, day)' = GetIndicatorRawSeries(a, d)'
    BY <2>2 DEF HistoryStill, SeriesStill, Histories, GetIndicatorRawSeries
  <2>4. QED
    BY <2>1, <2>3, StillReads
<1>2. CASE ReadHistory
  BY <1>1, <1>2 DEF ReadHistory, ReadsStill
<1>3. CASE ReadPast
  BY <1>1, <1>3 DEF ReadPast, ReadsStill
<1>4. CASE ~ReadHistory /\ ~ReadPast
  <2>1. pc' \notin {"past", "save"}
    BY <1>4 DEF RunnerMoves, RunnerStep, Replay, Sweep, MetricsOnly, Crash, SweepValue, SweepRefused, CollectSnapshot,
             SaveRun, ReadScores, InsufficientCoverage, SaveState, UpdateStatus, GetByRun, SaveMetrics, SweepRow,
             CompleteSeed, SkipState, ReplayFails, MetricsFail, SweepFails, Return, Advance, MetricsEnd
  <2>2. QED
    BY <2>1 DEF ReadsStill
<1>5. QED
  BY <1>2, <1>3, <1>4

\* what a state rests on is there while the tables are unchanged
LEMMA RestsKept ==
  ASSUME UNCHANGED live, NEW b, RestsStill(b), runs'[b.run].began = runs[b.run].began
  PROVE  RestsStill(b)'
<1>1. PICK t : t = runs[b.run].began
  OBVIOUS
<1>2. /\ HistoryStill(b.asset, runs[b.run].began)' <=> HistoryStill(b.asset, t)'
      /\ SeriesStill(b.asset, b.day, runs[b.run].began)' <=> SeriesStill(b.asset, b.day, t)'
  BY <1>1 DEF HistoryStill, SeriesStill
<1>3. QED
  BY <1>1, <1>2, StillReads DEF RestsStill

\* and what it has saved
LEMMA ReplayedStillStep ==
  ASSUME Types, CurrentRun, Still, RunnerMoves, UNCHANGED live
  PROVE  ReplayedStill'
<1>1. ASSUME NEW b, b.run \in DOMAIN runs, RestsStill(b)
      PROVE  b.run \in DOMAIN runs' /\ RestsStill(b)'
  <2>1. b.run \in DOMAIN runs' /\ runs'[b.run].began = runs[b.run].began
    BY <1>1, RunsKept
  <2>2. QED
    BY <1>1, <2>1, RestsKept
<1>2. CASE UNCHANGED replayed
  BY <1>1, <1>2 DEF Still, ReplayedStill
<1>3. CASE SaveState
  <2>1. PICK new : new = ComputedState
    OBVIOUS
  <2>2. replayed' = {b \in replayed : ~(b.run = run /\ b.asset = Asset /\ b.day = day)} \cup {new}
    BY <1>3, <2>1 DEF SaveState
  <2>3. /\ new.run = run /\ new.asset = Asset /\ new.day = day
        /\ new.cur = cur /\ new.hist = hist /\ new.series = series
    BY <2>1 DEF ComputedState
  <2>4. run \in DOMAIN runs /\ runs[run].began = began /\ pc = "save" /\ day \in Nat
    BY <1>3, TypeFacts DEF CurrentRun, SaveState
  <2>5. RestsStill(new)
    BY <2>3, <2>4 DEF Still, ReadsStill, RestsStill
  <2>6. QED
    BY <1>1, <2>2, <2>3, <2>4, <2>5 DEF Still, ReplayedStill
<1>4. QED
  <2>1. [Next]_vars
    BY DEF RunnerMoves, Next
  <2>2. QED
    BY <1>2, <1>3, <2>1, ReplayedWritten

\* what a replay has read without a cutoff is there as long as nothing comes in
LEMMA StillInvariant == Spec => []Still
<1>1. Init => Still
  BY DEF Init, Still, ReadsStill, ReplayedStill
<1>2. Types /\ CurrentRun /\ Still /\ [Next]_vars => Still'
  <2>1. SUFFICES ASSUME Types, CurrentRun, Still, [Next]_vars
                 PROVE  Still'
    OBVIOUS
  <2>2. CASE LiveStep
    BY <2>1, <2>2, StillLive
  <2>3. CASE RunnerMoves /\ UNCHANGED live
    BY <2>1, <2>3, ReadsStillStep, ReplayedStillStep DEF Still
  <2>4. CASE UNCHANGED vars
    <3>1. UNCHANGED <<live, runs, replayed, pc, day, ai, began, cur, hist, series>>
      BY <2>4 DEF vars, tables, locals, loop, reads
    <3>2. ReadsStill'
      BY <2>1, <3>1 DEF Still, ReadsStill, Asset, live, today, HistoryStill, SeriesStill, Histories,
                        GetDomainScoreHistory, ScoresOf, Newest, GetIndicatorRawSeries
    <3>3. ASSUME NEW b \in replayed
          PROVE  RestsStill(b)'
      BY <2>1, <3>1, RestsKept DEF Still, ReplayedStill
    <3>4. QED
      BY <2>1, <3>1, <3>2, <3>3 DEF Still, ReplayedStill
  <2>5. QED
    BY <2>1, <2>2, <2>3, <2>4, StepCases
<1>3. QED
  BY <1>1, <1>2, TypesInvariant, CurrentInvariant, PTL DEF Spec

(***************************************************************************)
(* Two replays of a settled day, of two values of a sweep or of two runs   *)
(* far apart, rest on the same inputs: on the same scores of the day and   *)
(* of the days it is compared with in any case, and on the same history    *)
(* and the same raw series, which computeOne reads without a cutoff, if    *)
(* the live system has saved nothing they hold since the two began.        *)
(***************************************************************************)
THEOREM ReplaysRepeat == Spec => []ReplaysAgree
<1>1. Faithful /\ Still => ReplaysAgree
  <2>1. SUFFICES ASSUME Faithful, Still, NEW b \in replayed, NEW c \in replayed,
                        b.asset = c.asset, b.day = c.day, Settled(b.run), Settled(c.run)
                 PROVE  /\ b.cur = c.cur /\ b.past = c.past
                        /\ (\A t \in {runs[b.run].began, runs[c.run].began} : HistoryStill(b.asset, t)) =>
                             b.hist = c.hist
                        /\ (\A t \in {runs[b.run].began, runs[c.run].began} : SeriesStill(b.asset, b.day, t)) =>
                             b.series = c.series
    BY DEF ReplaysAgree
  <2>2. b.cur = c.cur /\ b.past = c.past
    BY <2>1 DEF Faithful, ReplayedRest, Rests
  <2>3. RestsStill(b) /\ RestsStill(c)
    BY <2>1 DEF Still, ReplayedStill
  <2>4. QED
    BY <2>1, <2>2, <2>3 DEF RestsStill
<1>2. QED
  BY <1>1, FaithfulInvariant, StillInvariant, PTL

-----------------------------------------------------------------------------
(* A completed sweep has tried every value *)

\* what has been replayed under a seed run remains so
LEMMA UnderKept ==
  ASSUME Types, RunnerMoves, NEW s, NEW v, Under(s, v)
  PROVE  Under(s, v)'
<1>1. PICK r \in DOMAIN runs : runs[r].parent = s /\ runs[r].cfg = v /\ runs[r].ended
  BY DEF Under
<1>2. r \in DOMAIN runs' /\ runs'[r].parent = s /\ runs'[r].cfg = v /\ runs'[r].ended
  BY <1>1, RunsKept
<1>3. QED
  BY <1>2 DEF Under

\* the same, of the sweep under way
LEMMA SweptKept ==
  ASSUME Types, RunnerMoves, seed' = seed, NEW i, Swept(i)
  PROVE  Swept(i)'
<1>1. PICK s, v : s = seed /\ v = Values[i]
  OBVIOUS
<1>2. Under(s, v)'
  BY <1>1, UnderKept DEF Swept
<1>3. QED
  BY <1>1, <1>2 DEF Swept, Under

\* a run that ends has replayed the value the sweep is at
LEMMA SweptEnded ==
  ASSUME Types, CurrentRun, Progress, UpdateStatus, seed # 0
  PROVE  Swept(vi)'
<1>1. run \in DOMAIN runs /\ runs[run].parent = seed /\ runs[run].cfg = cfg /\ cfg = Values[vi]
  BY DEF CurrentRun, Progress, UpdateStatus
<1>4. DOMAIN runs' = DOMAIN runs /\ runs'[run].parent = seed /\ runs'[run].cfg = cfg
  BY <1>1, StatusEffect
<1>5. runs'[run].ended = TRUE
  BY StatusEffect
<1>6. runs'[run].ended
  BY <1>5, Zenon
<1>7. seed' = seed /\ vi' = vi
  BY DEF UpdateStatus
<1>8. QED
  BY <1>1, <1>4, <1>6, <1>7 DEF Swept, Under

\* a sweep goes on value by value
LEMMA ProgressRunner ==
  ASSUME Types, CurrentRun, Progress, RunnerMoves, UNCHANGED live
  PROVE  Progress'
<1> USE DEF locals, loop, sweep, Continue
<1> DEFINE Replays == {"snapshot", "saveRun", "scores", "history", "past", "save", "status"}
           Evals == {"metrics", "eval", "rows"}
<1>1. CASE Return
  BY <1>1 DEF Return, Progress
<1>2. CASE seed' = 0
  BY <1>2 DEF Progress
<1>3. ASSUME UNCHANGED <<seed, vi, cfg>>, pc \in Replays, pc' \in Replays
      PROVE  Progress'
  BY <1>3, SweptKept DEF Progress
<1>4. CASE Looping
  BY <1>3, <1>4, LoopSteps
<1>5. CASE CollectSnapshot
  BY <1>3, <1>5 DEF CollectSnapshot, Advance
<1>6. CASE SaveRun
  BY <1>3, <1>6 DEF SaveRun
<1>7. CASE \E f, t \in 0 .. today : Sweep(f, t)
  <2>1. vi' = 1 /\ pc' = "value" /\ DOMAIN Values \subseteq Nat \ {0}
    BY <1>7, Params DEF Sweep
  <2>2. QED
    BY <2>1 DEF Progress
<1>8. CASE SweepValue
  <2>1. UNCHANGED <<seed, vi>> /\ pc = "value" /\ pc' = "snapshot" /\ cfg' = Values[vi]
    BY <1>8 DEF SweepValue
  <2>2. QED
    BY <2>1, SweptKept DEF Progress
<1>9. CASE UpdateStatus
  <2>1. UNCHANGED <<seed, vi>> /\ pc = "status" /\ pc' = "metrics"
    BY <1>9 DEF UpdateStatus
  <2>2. QED
    BY <1>9, <2>1, SweptKept, SweptEnded DEF Progress
<1>10. ASSUME UNCHANGED <<seed, vi>>, pc \in Evals, pc' \in Evals
       PROVE  Progress'
  BY <1>10, SweptKept DEF Progress
<1>11. CASE GetByRun \/ SaveMetrics \/ MetricsFail
  <2>1. MetricsEnd \/ Continue("eval")
    BY <1>11 DEF GetByRun, SaveMetrics, MetricsFail
  <2>2. pc \in Evals
    BY <1>11 DEF GetByRun, SaveMetrics, MetricsFail
  <2>3. QED
    BY <1>1, <1>10, <2>1, <2>2 DEF MetricsEnd
<1>12. CASE SweepRow
  <2>1. vi \in 1 .. Len(Values) /\ DOMAIN Values = 1 .. Len(Values) /\ Len(Values) \in Nat
    BY TypeFacts, Params
  <2>2. UNCHANGED seed /\ pc = "rows"
    BY <1>12 DEF SweepRow
  <2>3. CASE vi < Len(Values) /\ vi' = vi + 1 /\ pc' = "value"
    <3>1. \A i \in DOMAIN Values : i < vi' => i < vi \/ i = vi
      BY <2>1, <2>3
    <3>2. QED
      BY <2>2, <2>3, <3>1, SweptKept DEF Progress
  <2>4. CASE vi = Len(Values) /\ UNCHANGED vi /\ pc' = "seed"
    <3>1. \A i \in DOMAIN Values : i < vi \/ i = vi
      BY <2>1, <2>4
    <3>2. QED
      BY <2>2, <2>4, <3>1, SweptKept DEF Progress
  <2>5. QED
    BY <1>12, <2>3, <2>4 DEF SweepRow
<1>13. CASE \/ \E f, t \in 0 .. today : Replay(f, t)
            \/ \E r \in DOMAIN runs : MetricsOnly(r)
  BY <1>2, <1>13 DEF Replay, MetricsOnly
<1>14. CASE SweepRefused \/ ReplayFails \/ SweepFails \/ CompleteSeed \/ Crash
  BY <1>1, <1>14 DEF SweepRefused, ReplayFails, SweepFails, CompleteSeed, Crash
<1>15. QED
  BY <1>4, <1>5, <1>6, <1>7, <1>8, <1>9, <1>11, <1>12, <1>13, <1>14 DEF RunnerMoves, RunnerStep, Looping

\* a run that is completed by this step
LEMMA NewlyCompleted ==
  ASSUME Types, CurrentRun, RunnerMoves, NEW s \in DOMAIN runs', runs'[s].status = "completed",
         runs'[s].parent = 0, runs'[s].mode = "sensitivity"
  PROVE  s \in DOMAIN runs /\ (runs[s].status = "completed" \/ (CompleteSeed /\ s = seed))
<1>1. CASE UNCHANGED runs
  BY <1>1
<1>2. ASSUME NEW e, runs' = Append(runs, e), e.status = "running"
      PROVE  s \in DOMAIN runs /\ runs[s].status = "completed"
  BY <1>2, RunSaved
<1>3. CASE \E f, t \in 0 .. today : Sweep(f, t)
  <2>1. PICK f, t : runs' = Append(runs, NewRun("sensitivity", f, t, {}, 0, "running"))
    BY <1>3 DEF Sweep
  <2>2. PICK e : e = NewRun("sensitivity", f, t, {}, 0, "running")
    OBVIOUS
  <2>3. e.status = "running"
    BY <2>2 DEF NewRun
  <2>4. QED
    BY <1>2, <2>1, <2>2, <2>3
<1>4. CASE SaveRun
  <2>1. PICK e : /\ e = NewRun(IF seed = 0 THEN "replay" ELSE "sensitivity", from, to, snap, seed, "running")
                 /\ runs' = Append(runs, e)
    BY <1>4 DEF SaveRun
  <2>2. e.status = "running"
    BY <2>1 DEF NewRun
  <2>3. QED
    BY <1>2, <2>1, <2>2
<1>5. CASE UpdateStatus
  <2>1. IsReplay(run)
    BY <1>5 DEF CurrentRun, UpdateStatus
  <2>2. s \in DOMAIN runs /\ (s # run => runs'[s] = runs[s])
    BY <1>5, StatusEffect
  <2>3. s # run
    BY <1>5, <2>1, StatusEffect DEF IsReplay
  <2>4. QED
    BY <2>2, <2>3
<1>6. CASE CompleteSeed
  <2>1. seed \in DOMAIN runs /\ runs' = [runs EXCEPT ![seed].status = "completed"]
    BY <1>6, SeedUpdate DEF CompleteSeed
  <2>2. QED
    BY <1>6, <2>1
<1>7. QED
  BY <1>1, <1>3, <1>4, <1>5, <1>6, RunsWritten

SweepInv == Progress /\ SweepComplete

\* and a sweep that completed has its rows
LEMMA SweepInvariant == Spec => []SweepInv
<1>1. Init => SweepInv
  BY DEF Init, SweepInv, Progress, SweepComplete
<1>2. Types /\ CurrentRun /\ SweepInv /\ [Next]_vars => SweepInv'
  <2>1. SUFFICES ASSUME Types, CurrentRun, SweepInv, [Next]_vars
                 PROVE  SweepInv'
    OBVIOUS
  <2>2. CASE UNCHANGED <<runs, pc, seed, vi, cfg>>
    BY <2>1, <2>2 DEF SweepInv, Progress, Swept, Under, SweepComplete
  <2>3. CASE RunnerMoves /\ UNCHANGED live
    <3>1. Progress'
      BY <2>1, <2>3, ProgressRunner DEF SweepInv
    <3>2. ASSUME NEW s \in DOMAIN runs', runs'[s].mode = "sensitivity", runs'[s].parent = 0,
                 runs'[s].status = "completed", NEW i \in DOMAIN Values
          PROVE  Under(s, Values[i])'
      <4>1. s \in DOMAIN runs /\ runs[s].mode = "sensitivity" /\ runs[s].parent = 0
        BY <2>1, <2>3, <3>2, NewlyCompleted, RunsKept
      <4>2. CASE runs[s].status = "completed"
        <5>1. Under(s, Values[i])
          BY <2>1, <4>1, <4>2 DEF SweepInv, SweepComplete, Under
        <5>2. QED
          BY <2>1, <2>3, <5>1, UnderKept
      <4>3. CASE CompleteSeed /\ s = seed
        <5>1. seed # 0 /\ pc = "seed"
          BY <2>1, <4>3, TypeFacts DEF CompleteSeed
        <5>2. Under(s, Values[i])
          BY <2>1, <4>3, <5>1 DEF SweepInv, Progress, Swept
        <5>3. QED
          BY <2>1, <2>3, <5>2, UnderKept
      <4>4. QED
        BY <2>1, <2>3, <3>2, <4>2, <4>3, NewlyCompleted
    <3>3. SweepComplete'
      BY <3>2 DEF SweepComplete, Under
    <3>4. QED
      BY <3>1, <3>3 DEF SweepInv
  <2>4. LiveStep \/ UNCHANGED vars => UNCHANGED <<runs, pc, seed, vi, cfg>>
    BY DEF LiveStep, Runner, vars, tables, locals, sweep
  <2>5. QED
    BY <2>1, <2>2, <2>3, <2>4, StepCases
<1>3. QED
  BY <1>1, <1>2, TypesInvariant, CurrentInvariant, PTL DEF Spec

(***************************************************************************)
(* A completed seed run stands for the whole sweep: only the last row of   *)
(* the report leads to CompleteSeed, a row is written only after the run   *)
(* of its value has ended, and no UpdateStatus of a replay, late or        *)
(* failed, can complete a seed run.                                        *)
(***************************************************************************)
THEOREM SweepsComplete == Spec => []SweepComplete
<1>1. SweepInv => SweepComplete
  BY DEF SweepInv
<1>2. QED
  BY <1>1, SweepInvariant, PTL
=============================================================================
