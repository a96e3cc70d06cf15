------------------------ MODULE RegimeEngine_proofs ------------------------
(***************************************************************************)
(* Proofs about the regime engine with any domains, any assets and any     *)
(* configuration, however ticks, backfills, new scores and faults follow   *)
(* each other.                                                             *)
(***************************************************************************)
EXTENDS RegimeEngine, Maxima

\* the newest run, whose locals are empty once it is over
RunClock ==
  /\ began <= now
  /\ mode \in {"idle", last}
  /\ mode = "idle" => cur = {} /\ past = {}
  /\ last = "once" => cutoff = began /\ from = to
  /\ last = "backfill" => cutoff = began + Horizon

\* the scores a computation for asset a and day d as of cutoff c may rest on
Rests(rows, a, d, c) ==
  \A r \in rows : /\ r \in scores /\ r.dom \in Domains /\ r.asset = queryAssetFor(a, r.dom)
                  /\ r.day = d /\ r.at <= c

ReadsRest ==
  /\ Rests(cur, Asset, day, cutoff)
  /\ \A r \in past : r.day <= day /\ (mode = "once" => r.at <= cutoff)

\* the states, and what the newest run has saved among them
StateRests(s) ==
  /\ Rests(s.cur, s.asset, s.day, s.cutoff)
  /\ \A r \in s.cur : r.at <= s.at
  /\ s.at > began => s.cutoff = cutoff /\ (last = "once" => s.day = day)

StatesRest == \A s \in states : StateRests(s)

\* rows t go at least as far as rows s
Covers(t, s) == \A r \in s : \E q \in t : q.dom = r.dom /\ q.at >= r.at

\* the scores read are at least as new as those behind every state so far
ReadsFresher ==
  mode # "idle" /\ pc \in {"history", "past", "trail", "save"} =>
    \A q \in states : q.asset = Asset /\ q.day = day => Covers(cur, q.cur)

-----------------------------------------------------------------------------
(* What an undisturbed run leaves behind *)

\* no score has been saved since the run began, which has not been cut short
Undisturbed ==
  clean => /\ last # "idle" /\ \A r \in scores : r.at <= began
           /\ mode = "idle" => day = to

\* a run is within its horizon until its own saves pass its cutoff
Within == last = "backfill" => now <= cutoff

Covered(a, d) == Cardinality(GetLatestAll(a, d, now)) >= MinCover

CleanReads ==
  mode # "idle" /\ clean /\ Within =>
    /\ pc \in {"history", "past", "trail", "save"} =>
         cur = GetLatestAll(Asset, day, now) /\ Covered(Asset, day)
    /\ pc = "save" => trail = {Ref(q) : q \in GetSmoothingTrailing(Asset, day, now)}

\* an asset and day behind the run: computed, or skipped by a backfill
Finished(x, i) ==
  IF Covered(Assets[i], x) THEN Current(Assets[i], x) ELSE last = "backfill"

CleanStates ==
  clean /\ Within =>
    /\ \A s \in states : s.at > began => Covered(s.asset, s.day)
    /\ \A x \in from .. to : \A i \in DOMAIN Assets : Done(x, i) => Finished(x, i)

-----------------------------------------------------------------------------
(* Types *)

\* the configuration, one parameter at a time
LEMMA Params ==
  /\ DOMAIN Assets = 1 .. Len(Assets) /\ Len(Assets) \in Nat \ {0}
  /\ MinCover \in Nat /\ Roc \in Nat /\ Momentum \in Nat /\ Horizon \in Nat /\ LastDay \in Nat
BY RegimeAssumption

\* what a step that goes on to the next asset or day, or ends the run, does
LEMMA LeaveType ==
  ASSUME TypeOK, mode # "idle", Advance \/ Stop
  PROVE  /\ mode' \in {mode, "idle"} /\ pc' = "scores"
         /\ from' = from /\ to' = to /\ day' \in from .. to /\ ai' \in DOMAIN Assets
         /\ cutoff' = cutoff
         /\ cur' = {} /\ hist' = {} /\ past' = {} /\ trail' = {}
<1> USE Params
<1>1. CASE Stop
  BY <1>1 DEF TypeOK, Stop, Forget
<1>2. CASE Advance
  <2>1. ai \in 1 .. Len(Assets) /\ DOMAIN Assets = 1 .. Len(Assets) /\ Len(Assets) \in Nat
    BY DEF TypeOK
  <2>2. CASE NextAsset
    BY <1>2, <2>1, <2>2 DEF TypeOK, Advance, NextAsset, Forget
  <2>3. CASE NextValueDate
    BY <1>2, <2>1, <2>3 DEF TypeOK, Advance, NextValueDate, Forget
  <2>4. CASE EndOfRun
    BY <1>2, <2>1, <2>4 DEF TypeOK, Advance, EndOfRun, Forget
  <2>5. QED
    BY <1>2, <2>2, <2>3, <2>4 DEF Advance
<1>3. QED
  BY <1>1, <1>2

\* every step keeps the types
LEMMA TypeStep ==
  ASSUME TypeOK, [Next]_vars
  PROVE  TypeOK'
<1> USE DEF TypeOK, store, loop, reads, note
<1>1. CASE NextDay
  <2>1. /\ today' \in 0 .. LastDay
        /\ from' \in 0 .. today' /\ to' \in 0 .. today' /\ day' \in from' .. to'
    BY <1>1, Params DEF NextDay
  <2>2. clean' \in BOOLEAN
    BY <1>1 DEF NextDay
  <2>3. QED
    BY <1>1, <2>1, <2>2 DEF NextDay
<1>2. ASSUME NEW dom \in Domains, NEW a \in Owners, NEW d \in 0 .. today, SaveDomainScore(dom, a, d)
      PROVE  TypeOK'
  <2>1. scores' = scores \cup {ScoreRow(dom, a, d)} /\ ScoreRow(dom, a, d).at = now + 1 /\ now' = now + 1
    BY <1>2 DEF SaveDomainScore, ScoreRow
  <2>2. \A r \in (scores \cup states \cup events)' : r.at \in 1 .. now'
    BY <1>2, <2>1 DEF SaveDomainScore
  <2>3. clean' \in BOOLEAN
    BY <1>2, Zenon DEF SaveDomainScore
  <2>4. QED
    BY <1>2, <2>2, <2>3 DEF SaveDomainScore
<1>3. ASSUME NEW m \in {"once", "backfill"}, NEW f \in 0 .. today, NEW t \in 0 .. today,
             f <= t, Begin(m, f, t)
      PROVE  TypeOK'
  BY <1>3, Params DEF Begin, Cutoff
<1>4. CASE \E d \in 0 .. today : RunOnce(d)
  BY <1>3, <1>4 DEF RunOnce
<1>5. CASE \E f, t \in 0 .. today : RunBackfill(f, t)
  BY <1>3, <1>5 DEF RunBackfill
<1>6. CASE ReadScores \/ ReadHistory \/ ReadPast \/ ReadTrail
  BY <1>6 DEF ReadScores, ReadHistory, ReadPast, ReadTrail
<1>7. CASE Save
  BY <1>7 DEF Save
<1>8. ASSUME mode # "idle", Advance \/ Stop, now' \in {now, now + 1}, today' = today,
             scores' = scores, states' = states,
             \A r \in events' \ events : r.at = now + 1 /\ now' = now + 1,
             runs' = runs, faults' \in Nat, note' = note, clean' \in BOOLEAN
      PROVE  TypeOK'
  BY <1>8, LeaveType
<1>9. CASE InsufficientCoverage
  BY <1>8, <1>9 DEF InsufficientCoverage, At, Skipped
<1>10. CASE SaveRejected
  BY <1>8, <1>10 DEF SaveRejected, At, Skipped
<1>11. CASE Publish
  BY <1>8, <1>11 DEF Publish, At
<1>12. CASE Fail
  <2>1. clean' \in BOOLEAN
    BY <1>12, Zenon DEF Fail
  <2>2. QED
    BY <1>8, <1>12, <2>1 DEF Fail, Skipped
<1>13. CASE Crash
  <2>1. clean' \in BOOLEAN
    BY <1>13, Zenon DEF Crash
  <2>2. QED
    BY <1>8, <1>13, <2>1 DEF Crash
<1>14. CASE UNCHANGED vars
  BY <1>14 DEF vars
<1>15. QED
  BY <1>1, <1>2, <1>4, <1>5, <1>6, <1>7, <1>9, <1>10, <1>11, <1>12, <1>13, <1>14 DEF Next

(***************************************************************************)
(* The loops over days and assets stay in their ranges, and no row is      *)
(* stamped later than the clock.                                           *)
(***************************************************************************)
THEOREM TypeCorrect == Spec => []TypeOK
<1>1. Init => TypeOK
  <2>1. SUFFICES ASSUME Init PROVE TypeOK
    OBVIOUS
  <2>2. ai \in DOMAIN Assets /\ today \in 0 .. LastDay
    BY <2>1, Params DEF Init
  <2>3. clean \in BOOLEAN
    BY <2>1, Zenon DEF Init
  <2>4. QED
    BY <2>1, <2>2, <2>3 DEF Init, TypeOK
<1>2. TypeOK /\ [Next]_vars => TypeOK'
  BY TypeStep
<1>3. QED
  BY <1>1, <1>2, PTL DEF Spec

-----------------------------------------------------------------------------
(* What computations rest on *)

Inputs == RunClock /\ ReadsRest /\ StatesRest

\* GetLatestAll returns scores of its asset and day as of its cutoff
LEMMA LatestRests ==
  ASSUME NEW a, NEW d, NEW c
  PROVE  Rests(GetLatestAll(a, d, c), a, d, c)
BY DEF Rests, GetLatestAll, GetDomainScoreOnDate, Newest, ScoresOf

(***************************************************************************)
(* What the transition risk is compared with lies on the day or before,    *)
(* and a live run finds no raw indicator that rests on a score later than  *)
(* its cutoff: the states of the days before are older than the run.       *)
(***************************************************************************)
LEMMA PastRests ==
  ASSUME TypeOK, Inputs, ReadPast
  PROVE  \A r \in past' : r.day <= day /\ (mode = "once" => r.at <= cutoff)
<1> SUFFICES ASSUME NEW r \in past'
             PROVE  r.day <= day /\ (mode = "once" => r.at <= cutoff)
  OBVIOUS
<1> day \in Nat /\ began \in Nat /\ now \in Nat /\ cutoff \in Nat
  BY DEF TypeOK
<1>1. CASE r \in ComparedScores
  <2>1. PICK dom \in DomainsOf(cur), d \in {day - Roc, day - Momentum} :
               r \in GetDomainScoreOnDate(Asset, dom, d, cutoff)
    BY <1>1 DEF ComparedScores
  <2>2. QED
    BY <2>1, Params DEF GetDomainScoreOnDate, Newest
<1>2. CASE r \in RawIndicators
  <2>1. PICK s \in queryRegimeSeries(Asset, day) : r \in s.cur
    BY <1>2 DEF RawIndicators
  <2>2. PICK x \in 0 .. day - 1 : s \in NewestState(Asset, x, now)
    BY <2>1 DEF queryRegimeSeries
  <2>3. s \in states /\ s.day = x /\ s.at \in Nat
    BY <2>2 DEF NewestState, Newest, TypeOK
  <2>4. r \in scores /\ r.day = s.day /\ r.at <= s.at /\ r.at \in Nat
    BY <2>1, <2>3 DEF Inputs, StatesRest, StateRests, Rests, TypeOK
  <2>5. mode = "once" => r.at <= cutoff
    BY <2>2, <2>3, <2>4 DEF Inputs, StatesRest, StateRests, RunClock
  <2>6. QED
    BY <2>2, <2>3, <2>4, <2>5
<1>3. QED
  BY <1>1, <1>2 DEF ReadPast

\* a step that touches neither the run nor its states
LEMMA InputsWorld ==
  ASSUME TypeOK, Inputs, scores \subseteq scores', now' \in Nat, now <= now',
         UNCHANGED <<states, loop, cur, past, note>>
  PROVE  Inputs'
<1> USE DEF loop, note
<1> now \in Nat /\ began \in Nat
  BY DEF TypeOK
<1>1. RunClock'
  BY DEF Inputs, RunClock
<1>2. ReadsRest'
  BY DEF Inputs, ReadsRest, Rests, Asset
<1>3. StatesRest'
  BY DEF Inputs, StatesRest, StateRests, Rests
<1>4. QED
  BY <1>1, <1>2, <1>3 DEF Inputs

\* a run begins with empty locals, and no state is later than its beginning
LEMMA InputsBegin ==
  ASSUME TypeOK, Inputs, NEW m \in {"once", "backfill"}, NEW f, NEW t, m = "once" => f = t,
         Begin(m, f, t)
  PROVE  Inputs'
<1> USE DEF Begin, store, reads
<1>1. RunClock'
  BY Params DEF TypeOK, Inputs, RunClock, Cutoff
<1>2. ReadsRest'
  BY DEF Inputs, RunClock, ReadsRest, Rests
<1>3. StatesRest'
  BY DEF TypeOK, Inputs, StatesRest, StateRests, Rests
<1>4. QED
  BY <1>1, <1>2, <1>3 DEF Inputs

\* what is read stays within the run's cutoff
LEMMA InputsRead ==
  ASSUME TypeOK, Inputs, ReadScores \/ ReadHistory \/ ReadPast \/ ReadTrail
  PROVE  Inputs'
<1> USE DEF store, loop, note, At
<1>1. RunClock' /\ StatesRest'
  BY DEF Inputs, RunClock, StatesRest, StateRests, Rests, ReadScores, ReadHistory, ReadPast, ReadTrail
<1>2. CASE ReadScores
  <2>1. Rests(cur', Asset, day, cutoff)
    BY <1>2, LatestRests DEF ReadScores
  <2>2. QED
    BY <1>1, <1>2, <2>1 DEF ReadScores, Inputs, ReadsRest, Rests, Asset
<1>3. CASE ReadPast
  BY <1>1, <1>3, PastRests DEF ReadPast, Inputs, ReadsRest, Rests, Asset
<1>4. CASE ReadHistory \/ ReadTrail
  BY <1>1, <1>4 DEF ReadHistory, ReadTrail, Inputs, ReadsRest, Rests, Asset
<1>5. QED
  BY <1>2, <1>3, <1>4

\* the state that Save adds
Computed ==
  [asset |-> Asset, day |-> day, cur |-> cur, past |-> past, hist |-> hist,
   trail |-> trail, cutoff |-> cutoff, mode |-> mode, at |-> now + 1]

\* the saved state carries the inputs the engine holds
LEMMA InputsSave ==
  ASSUME TypeOK, Inputs, Save
  PROVE  Inputs'
<1> USE DEF loop, note, reads
<1> now \in Nat /\ began \in Nat /\ now' = now + 1 /\ states' = states \cup {Computed}
  BY DEF TypeOK, Save, Computed
<1>1. RunClock'
  BY DEF Save, Inputs, RunClock
<1>2. ReadsRest'
  BY DEF Save, Inputs, ReadsRest, Rests, Asset
<1>3. StatesRest'
  <2>1. ASSUME NEW s \in states PROVE StateRests(s)'
    BY DEF Save, Inputs, StatesRest, StateRests, Rests
  <2>2. Rests(cur, Asset, day, cutoff) /\ \A r \in cur : r.at <= now + 1
    BY DEF Inputs, ReadsRest, Rests, TypeOK
  <2>3. ASSUME NEW s, s = Computed PROVE StateRests(s)'
    <3>1. s.cur = cur /\ s.asset = Asset /\ s.day = day /\ s.cutoff = cutoff /\ s.at = now + 1
      BY <2>3 DEF Computed
    <3>2. QED
      BY <2>2, <3>1 DEF Save, StateRests, Rests
  <2>4. QED
    BY <2>1, <2>3 DEF StatesRest
<1>4. QED
  BY <1>1, <1>2, <1>3 DEF Inputs

\* going on, or ending the run, empties the locals
LEMMA InputsLeave ==
  ASSUME TypeOK, Inputs, mode # "idle", Advance \/ Stop, now' \in {now, now + 1},
         UNCHANGED <<scores, states, note>>
  PROVE  Inputs'
<1> USE LeaveType DEF note
<1>1. RunClock'
  BY DEF TypeOK, Inputs, RunClock
<1>2. ReadsRest'
  BY DEF ReadsRest, Rests
<1>3. StatesRest'
  <2>1. last = "once" => day' = day
    BY DEF TypeOK, Inputs, RunClock
  <2>2. QED
    BY <2>1 DEF Inputs, StatesRest, StateRests, Rests
<1>4. QED
  BY <1>1, <1>2, <1>3 DEF Inputs

\* every step keeps the inputs within what was there to read
LEMMA InputsStep ==
  ASSUME TypeOK, Inputs, [Next]_vars
  PROVE  Inputs'
<1> USE DEF store, note, At, Skipped
<1>1. CASE NextDay
  BY <1>1, InputsWorld DEF NextDay, TypeOK, reads
<1>2. ASSUME NEW dom \in Domains, NEW a \in Owners, NEW d \in 0 .. today, SaveDomainScore(dom, a, d)
      PROVE  Inputs'
  BY <1>2, InputsWorld DEF SaveDomainScore, TypeOK, reads
<1>3. CASE \E d \in 0 .. today : RunOnce(d)
  BY <1>3, InputsBegin DEF RunOnce
<1>4. CASE \E f, t \in 0 .. today : RunBackfill(f, t)
  BY <1>4, InputsBegin DEF RunBackfill
<1>5. CASE ReadScores \/ ReadHistory \/ ReadPast \/ ReadTrail
  BY <1>5, InputsRead
<1>6. CASE Save
  BY <1>6, InputsSave
<1>7. CASE InsufficientCoverage
  BY <1>7, InputsLeave DEF InsufficientCoverage
<1>8. CASE SaveRejected
  BY <1>8, InputsLeave DEF SaveRejected
<1>9. CASE Publish
  BY <1>9, InputsLeave DEF Publish
<1>10. CASE Fail
  BY <1>10, InputsLeave DEF Fail
<1>11. CASE Crash
  BY <1>11, InputsLeave DEF Crash
<1>12. CASE UNCHANGED vars
  BY <1>12, InputsWorld DEF vars, TypeOK, reads
<1>13. QED
  BY <1>1, <1>2, <1>3, <1>4, <1>5, <1>6, <1>7, <1>8, <1>9, <1>10, <1>11, <1>12 DEF Next

\* every reachable state is typed, and what has been read and saved rests on its inputs
LEMMA InputsInvariant == Spec => [](TypeOK /\ Inputs)
<1>1. Init => Inputs
  BY DEF Init, Inputs, RunClock, ReadsRest, Rests, StatesRest
<1>2. TypeOK /\ Inputs /\ [Next]_vars => Inputs'
  BY InputsStep
<1>3. QED
  BY <1>1, <1>2, TypeCorrect, PTL DEF Spec

-----------------------------------------------------------------------------
(* Point in time *)

\* only Save changes the states
LEMMA StatesStep ==
  ASSUME TypeOK, [Next]_vars
  PROVE  \/ states' = states
         \/ Save /\ states' = states \cup {Computed}
<1> USE DEF store
<1>1. CASE Save
  BY <1>1 DEF Save, Computed
<1>2. CASE UNCHANGED vars
  BY <1>2 DEF vars
<1>3. CASE NextDay \/ ReadScores \/ InsufficientCoverage \/ ReadHistory \/ ReadPast \/ ReadTrail
           \/ SaveRejected \/ Publish \/ Fail \/ Crash
  BY <1>3 DEF NextDay, ReadScores, InsufficientCoverage, ReadHistory, ReadPast, ReadTrail,
              SaveRejected, Publish, Fail, Crash
<1>4. CASE \/ \E dom \in Domains, a \in Owners, d \in 0 .. today : SaveDomainScore(dom, a, d)
           \/ \E d \in 0 .. today : RunOnce(d)
           \/ \E f, t \in 0 .. today : RunBackfill(f, t)
  BY <1>4 DEF SaveDomainScore, RunOnce, RunBackfill, Begin
<1>5. QED
  BY <1>1, <1>2, <1>3, <1>4 DEF Next

(***************************************************************************)
(* Apart from the normalisation history, a live state rests only on scores *)
(* of its day or before that were ingested by its cutoff.                  *)
(***************************************************************************)
THEOREM PointInTime == Spec => []InputsPointInTime
<1>1. Init => InputsPointInTime
  BY DEF Init, InputsPointInTime
<1>2. ASSUME TypeOK, Inputs, InputsPointInTime, [Next]_vars PROVE InputsPointInTime'
  <2>1. CASE states' = states
    BY <1>2, <2>1 DEF InputsPointInTime
  <2>2. CASE Save /\ states' = states \cup {Computed}
    <3>1. \A r \in cur \cup past : r.day <= day /\ (mode = "once" => r.at <= cutoff)
      BY <1>2 DEF Inputs, ReadsRest, Rests, TypeOK
    <3>2. QED
      BY <1>2, <2>2, <3>1 DEF InputsPointInTime, Computed
  <2>3. QED
    BY <1>2, <2>1, <2>2, StatesStep
<1>3. QED
  BY <1>1, <1>2, InputsInvariant, PTL DEF Spec

-----------------------------------------------------------------------------
(* Recomputed states *)

(***************************************************************************)
(* GetLatestAll finds, for every domain that has a score of the day, one   *)
(* at least as late as any that was ingested by the cutoff.                *)
(***************************************************************************)
LEMMA LatestCovers ==
  ASSUME TypeOK, NEW a, NEW d, NEW c \in Nat, NEW r \in scores, r.dom \in Domains,
         r.asset = queryAssetFor(a, r.dom), r.day = d, r.at <= c
  PROVE  \E q \in GetLatestAll(a, d, c) : q.dom = r.dom /\ q.at >= r.at
<1> DEFINE rows == {q \in ScoresOf(a, r.dom) : q.day = d /\ q.at <= c}
<1>1. r \in rows /\ \A q \in rows : q.at \in 0 .. now /\ q.dom = r.dom
  BY DEF ScoresOf, TypeOK
<1>2. PICK q \in rows : \A x \in rows : x.at <= q.at
  <2> now \in Nat
    BY DEF TypeOK
  <2> HIDE DEF rows
  <2>1. QED
    BY <1>1, NewestExists
<1>3. q \in GetDomainScoreOnDate(a, r.dom, d, c)
  BY <1>2 DEF GetDomainScoreOnDate, Newest
<1>4. q \in GetLatestAll(a, d, c)
  BY <1>3 DEF GetLatestAll
<1>5. QED
  BY <1>1, <1>2, <1>4

(***************************************************************************)
(* A computation reads scores at least as late as those behind any state   *)
(* of its asset and day: that state is older than the run, or was computed *)
(* as of the same cutoff.                                                  *)
(***************************************************************************)
LEMMA ReadScoresFresher ==
  ASSUME TypeOK, Inputs, ReadScores, NEW q \in states, q.asset = Asset, q.day = day
  PROVE  Covers(cur', q.cur)
<1> SUFFICES ASSUME NEW r \in q.cur
             PROVE  \E x \in cur' : x.dom = r.dom /\ x.at >= r.at
  BY DEF Covers
<1>1. /\ r \in scores /\ r.dom \in Domains /\ r.asset = queryAssetFor(Asset, r.dom)
      /\ r.day = day /\ r.at <= q.cutoff /\ r.at <= q.at
  BY DEF Inputs, StatesRest, StateRests, Rests
<1>2. r.at <= cutoff
  <2>1. r.at \in Nat /\ q.at \in Nat /\ began \in Nat /\ cutoff \in Nat /\ began <= cutoff
    BY <1>1, Params DEF TypeOK, Inputs, RunClock, ReadScores, At
  <2>2. CASE q.at > began
    BY <1>1, <2>2 DEF Inputs, StatesRest, StateRests
  <2>3. CASE q.at <= began
    BY <1>1, <2>1, <2>3
  <2>4. QED
    BY <2>1, <2>2, <2>3
<1>3. cutoff \in Nat /\ cur' = GetLatestAll(Asset, day, cutoff)
  BY DEF TypeOK, ReadScores
<1>4. QED
  BY <1>1, <1>2, <1>3, LatestCovers

\* what has been read covers the states of its asset and day until the next is saved
LEMMA ReadsFresherStep ==
  ASSUME TypeOK, Inputs, ReadsFresher, [Next]_vars
  PROVE  ReadsFresher'
<1> USE DEF ReadsFresher, store, loop, reads
<1>1. CASE ReadScores
  BY <1>1, ReadScoresFresher DEF ReadScores, Asset
<1>2. CASE ReadHistory \/ ReadPast \/ ReadTrail
  BY <1>2 DEF ReadHistory, ReadPast, ReadTrail, Asset, At
<1>3. CASE NextDay \/ UNCHANGED vars
  BY <1>3 DEF NextDay, vars, Asset
<1>4. CASE \E dom \in Domains, a \in Owners, d \in 0 .. today : SaveDomainScore(dom, a, d)
  BY <1>4 DEF SaveDomainScore, Asset
<1>5. CASE (\E d \in 0 .. today : RunOnce(d)) \/ (\E f, t \in 0 .. today : RunBackfill(f, t))
  BY <1>5 DEF RunOnce, RunBackfill, Begin
<1>6. CASE Save
  BY <1>6 DEF Save
<1>7. CASE InsufficientCoverage \/ SaveRejected \/ Publish \/ Fail \/ Crash
  BY <1>7, LeaveType DEF InsufficientCoverage, SaveRejected, Publish, Fail, Crash, Skipped, At
<1>8. QED
  BY <1>1, <1>2, <1>3, <1>4, <1>5, <1>6, <1>7 DEF Next

(***************************************************************************)
(* A recomputed state never rests on older scores.                         *)
(***************************************************************************)
THEOREM RecomputedFresher == Spec => []StatesFresher
<1> DEFINE Fresher == ReadsFresher /\ StatesFresher
<1>1. Init => Fresher
  BY DEF Init, ReadsFresher, StatesFresher
<1>2. ASSUME TypeOK, Inputs, Fresher, [Next]_vars PROVE Fresher'
  <2>1. ReadsFresher'
    BY <1>2, ReadsFresherStep
  <2>2. CASE states' = states
    BY <1>2, <2>1, <2>2 DEF StatesFresher
  <2>3. CASE Save /\ states' = states \cup {Computed}
    <3>1. \A q \in states : q.asset = Asset /\ q.day = day => Covers(cur, q.cur)
      BY <1>2, <2>3 DEF ReadsFresher, Save, At
    <3>2. \A q \in states : q.at \in Nat /\ q.at < Computed.at
      BY <1>2 DEF TypeOK, Computed
    <3>3. ASSUME NEW s \in states', NEW q \in states', s.asset = q.asset, s.day = q.day, q.at < s.at
          PROVE  Covers(s.cur, q.cur)
      <4>1. CASE q \in states /\ s \in states
        BY <1>2, <3>3, <4>1 DEF StatesFresher, Covers
      <4>2. CASE q \in states /\ s = Computed
        BY <3>1, <3>3, <4>2 DEF Computed
      <4>3. q # Computed
        BY <1>2, <2>3, <3>2, <3>3 DEF Computed, TypeOK
      <4>4. QED
        BY <2>3, <3>3, <4>1, <4>2, <4>3
    <3>4. StatesFresher'
      BY <3>3 DEF StatesFresher, Covers
    <3>5. QED
      BY <2>1, <3>4
  <2>4. QED
    BY <1>2, <2>2, <2>3, StatesStep
<1>3. Fresher => StatesFresher
  OBVIOUS
<1>4. QED
  BY <1>1, <1>2, <1>3, InputsInvariant, PTL DEF Spec

-----------------------------------------------------------------------------
(* Undisturbed runs *)

\* while no score is saved it does not matter as of when scores are read
LEMMA LatestSame ==
  ASSUME NEW a, NEW d, NEW c, NEW e, \A r \in scores : r.at <= c /\ r.at <= e
  PROVE  GetLatestAll(a, d, c) = GetLatestAll(a, d, e)
<1>1. ASSUME NEW dom
      PROVE  GetDomainScoreOnDate(a, dom, d, c) = GetDomainScoreOnDate(a, dom, d, e)
  <2>1. {r \in ScoresOf(a, dom) : r.day = d /\ r.at <= c}
        = {r \in ScoresOf(a, dom) : r.day = d /\ r.at <= e}
    BY DEF ScoresOf
  <2>2. QED
    BY <2>1 DEF GetDomainScoreOnDate
<1>2. QED
  BY <1>1 DEF GetLatestAll

\* nor as of when the trailing states are, if none of them is later
LEMMA TrailSame ==
  ASSUME NEW a, NEW d \in Nat, NEW c, NEW e,
         \A s \in states : s.day < d => s.at <= c /\ s.at <= e
  PROVE  GetSmoothingTrailing(a, d, c) = GetSmoothingTrailing(a, d, e)
<1>1. ASSUME NEW x \in 0 .. d - 1
      PROVE  NewestState(a, x, c) = NewestState(a, x, e)
  <2>1. {s \in states : s.asset = a /\ s.day = x /\ s.at <= c}
        = {s \in states : s.asset = a /\ s.day = x /\ s.at <= e}
    OBVIOUS
  <2>2. QED
    BY <2>1 DEF NewestState
<1>2. QED
  BY <1>1 DEF GetSmoothingTrailing

\* a step of the run finds the scores as they were
LEMMA LatestKept ==
  ASSUME TypeOK, TypeOK', scores' = scores, \A r \in scores : r.at <= now, now <= now',
         NEW a, NEW x
  PROVE  /\ GetLatestAll(a, x, now)' = GetLatestAll(a, x, now)
         /\ Covered(a, x)' = Covered(a, x)
<1>1. \A r \in scores : r.at <= now' /\ r.at <= now
  BY DEF TypeOK
<1>2. PICK t : t = now'
  OBVIOUS
<1>3. GetLatestAll(a, x, t) = GetLatestAll(a, x, now)
  BY <1>1, <1>2, LatestSame
<1>4. GetLatestAll(a, x, now)' = GetLatestAll(a, x, t)
  BY <1>2 DEF GetLatestAll, GetDomainScoreOnDate, ScoresOf
<1>5. QED
  BY <1>3, <1>4 DEF Covered

\* a step that adds no state of an asset and day, or only of a later one, keeps the
\* newest state, and the trailing states of the days up to its own
LEMMA NewestKept ==
  ASSUME TypeOK, TypeOK', now <= now', NEW a, NEW x,
         states' = states \/ (states' = states \cup {Computed} /\ ~(Asset = a /\ day = x))
  PROVE  NewestState(a, x, now)' = NewestState(a, x, now)
<1>1. {s \in states' : s.asset = a /\ s.day = x /\ s.at <= now'}
      = {s \in states : s.asset = a /\ s.day = x /\ s.at <= now}
  BY DEF TypeOK, Computed
<1>2. QED
  BY <1>1 DEF NewestState, Newest

\* a state saved for a day leaves the smoothing window of that day as it was
LEMMA TrailKept ==
  ASSUME TypeOK, TypeOK', now <= now', NEW a, NEW x \in 0 .. day,
         states' = states \/ states' = states \cup {Computed}
  PROVE  GetSmoothingTrailing(a, x, now)' = GetSmoothingTrailing(a, x, now)
<1>1. ASSUME NEW y \in 0 .. x - 1
      PROVE  NewestState(a, y, now)' = NewestState(a, y, now)
  <2>1. day # y
    BY DEF TypeOK
  <2>2. QED
    BY <2>1, NewestKept
<1>2. QED
  BY <1>1 DEF GetSmoothingTrailing

\* a state stays current while the run goes on
LEMMA CurrentKept ==
  ASSUME TypeOK, TypeOK', scores' = scores, \A r \in scores : r.at <= now, now <= now',
         began' = began, NEW a, NEW x \in 0 .. day, Current(a, x),
         states' = states \/ (states' = states \cup {Computed} /\ ~(Asset = a /\ day = x))
  PROVE  Current(a, x)'
<1>1. NewestState(a, x, now)' = NewestState(a, x, now)
  BY NewestKept
<1>2. GetLatestAll(a, x, now)' = GetLatestAll(a, x, now)
  BY LatestKept
<1>3. GetSmoothingTrailing(a, x, now)' = GetSmoothingTrailing(a, x, now)
  BY TrailKept
<1>4. QED
  BY <1>1, <1>2, <1>3 DEF Current

\* the state that is saved is current
LEMMA CurrentSaved ==
  ASSUME TypeOK, TypeOK', RunClock, Save, \A r \in scores : r.at <= now,
         cur = GetLatestAll(Asset, day, now),
         trail = {Ref(q) : q \in GetSmoothingTrailing(Asset, day, now)},
         NEW a, a = Asset, NEW x, x = day
  PROVE  Current(a, x)'
<1> now \in Nat /\ began \in Nat /\ x \in 0 .. day
  BY DEF TypeOK
<1>1. /\ scores' = scores /\ now' = now + 1 /\ began' = began
      /\ states' = states \cup {Computed}
  BY DEF Save, Computed, store, note
<1>2. PICK s : s = Computed
  OBVIOUS
<1>3. /\ s.asset = a /\ s.day = x /\ s.at = now + 1 /\ s.at > began
      /\ s.cur = cur /\ s.trail = trail
  BY <1>2 DEF Computed, RunClock
<1>4. s \in NewestState(a, x, now)'
  <2>1. s \in states' /\ \A q \in states' : q.at <= s.at
    BY <1>1, <1>2, <1>3 DEF TypeOK
  <2>2. QED
    BY <1>1, <1>3, <2>1 DEF NewestState, Newest
<1>5. s.cur = GetLatestAll(a, x, now)'
  BY <1>1, <1>3, LatestKept
<1>6. s.trail = {Ref(q) : q \in GetSmoothingTrailing(a, x, now)'}
  BY <1>1, <1>3, TrailKept
<1>7. QED
  BY <1>1, <1>3, <1>4, <1>5, <1>6 DEF Current, Ref

\* the scores no step of an undisturbed run has changed
LEMMA UndisturbedStep ==
  ASSUME TypeOK, RunClock, Undisturbed, [Next]_vars
  PROVE  Undisturbed'
<1> USE DEF Undisturbed, store, loop, note
<1>1. CASE NextDay \/ \E dom \in Domains, a \in Owners, d \in 0 .. today : SaveDomainScore(dom, a, d)
  BY <1>1 DEF NextDay, SaveDomainScore
<1>2. CASE (\E d \in 0 .. today : RunOnce(d)) \/ (\E f, t \in 0 .. today : RunBackfill(f, t))
  BY <1>2 DEF RunOnce, RunBackfill, Begin, TypeOK
<1>3. CASE ReadScores \/ ReadHistory \/ ReadPast \/ ReadTrail \/ Save \/ UNCHANGED vars
  BY <1>3 DEF ReadScores, ReadHistory, ReadPast, ReadTrail, Save, vars
<1>4. CASE InsufficientCoverage \/ Publish
  BY <1>4 DEF InsufficientCoverage, Publish, Skipped, Advance, NextAsset, NextValueDate, EndOfRun, At
<1>5. CASE SaveRejected \/ Fail \/ Crash
  BY <1>5 DEF SaveRejected, Fail, Crash
<1>6. QED
  BY <1>1, <1>2, <1>3, <1>4, <1>5 DEF Next

\* an undisturbed run finds all the scores there are by now
LEMMA ScoresSeen ==
  ASSUME TypeOK, RunClock, Undisturbed, clean
  PROVE  \A r \in scores : r.at <= began /\ r.at <= now /\ (mode # "idle" => r.at <= cutoff)
BY Params DEF TypeOK, RunClock, Undisturbed

\* a run within its horizon reads all the states of the days before
LEMMA TrailSeen ==
  ASSUME TypeOK, Inputs, Within, mode # "idle"
  PROVE  \A s \in states : s.day < day => s.at <= cutoff /\ s.at <= now
<1> SUFFICES ASSUME NEW s \in states, s.day < day
             PROVE  s.at <= cutoff /\ s.at <= now
  OBVIOUS
<1>1. s.at \in Nat /\ s.at <= now /\ now \in Nat /\ began \in Nat /\ cutoff \in Nat /\ day \in Nat
  BY DEF TypeOK
<1>2. CASE last = "backfill"
  BY <1>1, <1>2 DEF Within
<1>3. CASE last = "once"
  <2>1. s.day # day
    BY <1>1
  <2>2. s.at <= began
    BY <1>1, <1>3, <2>1 DEF Inputs, StatesRest, StateRests
  <2>3. QED
    BY <1>1, <1>3, <2>2 DEF Inputs, RunClock
<1>4. QED
  BY <1>2, <1>3 DEF Inputs, RunClock, TypeOK

\* a step of computeOne that only reads
LEMMA QueriesSame ==
  ASSUME UNCHANGED <<now, store, loop, note>>
  PROVE  /\ GetLatestAll(Asset, day, now)' = GetLatestAll(Asset, day, now)
         /\ GetSmoothingTrailing(Asset, day, now)' = GetSmoothingTrailing(Asset, day, now)
         /\ {Ref(q) : q \in GetSmoothingTrailing(Asset, day, now)}'
            = {Ref(q) : q \in GetSmoothingTrailing(Asset, day, now)}
         /\ Covered(Asset, day)' = Covered(Asset, day)
         /\ Within' = Within
<1> USE DEF store, loop, note
<1>1. GetLatestAll(Asset, day, now)' = GetLatestAll(Asset, day, now)
  BY DEF GetLatestAll, GetDomainScoreOnDate, ScoresOf, Asset
<1>2. GetSmoothingTrailing(Asset, day, now)' = GetSmoothingTrailing(Asset, day, now)
  BY DEF GetSmoothingTrailing, NewestState, Asset
<1>3. QED
  BY <1>1, <1>2 DEF Covered, Within, Ref

\* what an undisturbed run has read is what there is by now
LEMMA CleanReadsStep ==
  ASSUME TypeOK, Inputs, Undisturbed, CleanReads, [Next]_vars
  PROVE  CleanReads'
<1> USE DEF store, loop, reads, note, At
<1>1. CASE NextDay \/ \E dom \in Domains, a \in Owners, d \in 0 .. today : SaveDomainScore(dom, a, d)
  BY <1>1 DEF NextDay, SaveDomainScore, CleanReads
<1>2. CASE (\E d \in 0 .. today : RunOnce(d)) \/ (\E f, t \in 0 .. today : RunBackfill(f, t))
  BY <1>2 DEF RunOnce, RunBackfill, Begin, CleanReads
<1>3. CASE ReadScores
  <2>1. ASSUME clean PROVE cur' = GetLatestAll(Asset, day, now) /\ Covered(Asset, day)
    <3>1. GetLatestAll(Asset, day, cutoff) = GetLatestAll(Asset, day, now)
      BY <1>3, <2>1, ScoresSeen, LatestSame DEF ReadScores, Inputs
    <3>2. QED
      BY <1>3, <3>1 DEF ReadScores, Covered
  <2>2. QED
    BY <1>3, <2>1, QueriesSame DEF ReadScores, CleanReads
<1>4. CASE ReadHistory \/ ReadPast
  BY <1>4, QueriesSame DEF ReadHistory, ReadPast, CleanReads
<1>5. CASE ReadTrail
  <2>1. ASSUME clean, Within
        PROVE  trail' = {Ref(q) : q \in GetSmoothingTrailing(Asset, day, now)}
    <3>1. day \in Nat
      BY DEF TypeOK
    <3>2. GetSmoothingTrailing(Asset, day, cutoff) = GetSmoothingTrailing(Asset, day, now)
      BY <1>5, <2>1, <3>1, TrailSeen, TrailSame DEF ReadTrail
    <3>3. QED
      BY <1>5, <3>2 DEF ReadTrail
  <2>2. QED
    BY <1>5, <2>1, QueriesSame DEF ReadTrail, CleanReads
<1>6. CASE Save
  BY <1>6 DEF Save, CleanReads
<1>7. CASE InsufficientCoverage \/ SaveRejected \/ Publish \/ Fail \/ Crash
  BY <1>7, LeaveType DEF InsufficientCoverage, SaveRejected, Publish, Fail, Crash, Skipped, CleanReads
<1>8. CASE UNCHANGED vars
  BY <1>8, QueriesSame DEF vars, CleanReads
<1>9. QED
  BY <1>1, <1>2, <1>3, <1>4, <1>5, <1>6, <1>7, <1>8 DEF Next

\* the loops put exactly the asset and day they leave behind the run
LEMMA DoneAdvance ==
  ASSUME TypeOK, mode # "idle", Advance, NEW x \in from .. to, NEW i \in DOMAIN Assets, Done(x, i)'
  PROVE  x <= day /\ (x < day \/ i <= ai)
<1> x \in Int /\ day \in Int /\ to \in Int /\ ai \in 1 .. Len(Assets) /\ i \in 1 .. Len(Assets)
    /\ Len(Assets) \in Nat
  BY Params DEF TypeOK
<1>1. pc' = "scores"
  BY DEF Advance, Forget
<1>2. CASE NextAsset
  BY <1>1, <1>2 DEF NextAsset, Done
<1>3. CASE NextValueDate
  BY <1>1, <1>3 DEF NextValueDate, Done
<1>4. CASE EndOfRun
  BY <1>4 DEF EndOfRun
<1>5. QED
  BY <1>2, <1>3, <1>4 DEF Advance

\* what is behind the run stays so
LEMMA FinishedKept ==
  ASSUME TypeOK, TypeOK', RunClock, Undisturbed, clean, scores' = scores, now <= now',
         began' = began, last' = last, NEW x \in 0 .. day, NEW i \in DOMAIN Assets, Finished(x, i),
         states' = states \/ (states' = states \cup {Computed} /\ ~(Asset = Assets[i] /\ day = x))
  PROVE  Finished(x, i)'
<1>1. \A r \in scores : r.at <= now
  BY ScoresSeen
<1>2. PICK a : a = Assets[i]
  OBVIOUS
<1>3. Covered(a, x)' = Covered(a, x)
  BY <1>1, LatestKept
<1>4. Current(a, x) => Current(a, x)'
  BY <1>1, <1>2, CurrentKept
<1>5. QED
  BY <1>2, <1>3, <1>4 DEF Finished

\* a step that saves no state
LEMMA CleanStatesKept ==
  ASSUME TypeOK, TypeOK', RunClock, Undisturbed, CleanStates, clean,
         UNCHANGED <<scores, states, from, to, cutoff, note>>, now <= now',
         \A x \in from .. to, i \in DOMAIN Assets :
           Done(x, i)' => x <= day /\ (Done(x, i) \/ (Within => Finished(x, i)))
  PROVE  CleanStates'
<1> SUFFICES ASSUME Within'
             PROVE  /\ \A s \in states : s.at > began => Covered(s.asset, s.day)'
                    /\ \A x \in from .. to : \A i \in DOMAIN Assets : Done(x, i)' => Finished(x, i)'
  BY DEF CleanStates, note
<1>1. Within
  BY DEF Within, note, TypeOK
<1>2. ASSUME NEW s \in states, s.at > began PROVE Covered(s.asset, s.day)'
  <2>1. Covered(s.asset, s.day)
    BY <1>1, <1>2 DEF CleanStates
  <2>2. PICK a, x : a = s.asset /\ x = s.day
    OBVIOUS
  <2>3. Covered(a, x)' = Covered(a, x)
    BY ScoresSeen, LatestKept
  <2>4. QED
    BY <2>1, <2>2, <2>3
<1>3. ASSUME NEW x \in from .. to, NEW i \in DOMAIN Assets, Done(x, i)' PROVE Finished(x, i)'
  <2>1. x \in 0 .. day
    BY <1>3 DEF TypeOK
  <2>2. Finished(x, i)
    BY <1>1, <1>3 DEF CleanStates
  <2>3. QED
    BY <2>1, <2>2, FinishedKept DEF note
<1>4. QED
  BY <1>2, <1>3

\* Save
LEMMA CleanStatesSave ==
  ASSUME TypeOK, TypeOK', Inputs, Undisturbed, CleanReads, CleanStates, Save
  PROVE  CleanStates'
<1> USE DEF loop, note
<1>1. /\ scores' = scores /\ now' = now + 1 /\ UNCHANGED <<loop, note, clean>> /\ mode # "idle"
      /\ states' = states \cup {Computed} /\ pc = "save" /\ pc' = "publish"
  BY DEF Save, Computed, store, At
<1> SUFFICES ASSUME clean, Within'
             PROVE  /\ \A s \in states' : s.at > began => Covered(s.asset, s.day)'
                    /\ \A x \in from .. to : \A i \in DOMAIN Assets : Done(x, i)' => Finished(x, i)'
  BY <1>1 DEF CleanStates
<1>2. Within /\ now \in Nat /\ now <= now'
  BY <1>1 DEF Within, TypeOK
<1>3. RunClock /\ \A r \in scores : r.at <= now
  BY ScoresSeen DEF Inputs
<1>4. /\ cur = GetLatestAll(Asset, day, now) /\ Covered(Asset, day)
      /\ trail = {Ref(q) : q \in GetSmoothingTrailing(Asset, day, now)}
  BY <1>1, <1>2 DEF CleanReads
<1>5. ASSUME NEW s \in states', s.at > began PROVE Covered(s.asset, s.day)'
  <2>1. Covered(s.asset, s.day)
    BY <1>1, <1>2, <1>4, <1>5 DEF CleanStates, Computed
  <2>2. PICK a, x : a = s.asset /\ x = s.day
    OBVIOUS
  <2>3. Covered(a, x)' = Covered(a, x)
    BY <1>1, <1>2, <1>3, LatestKept
  <2>4. QED
    BY <2>1, <2>2, <2>3
<1>6. ASSUME NEW x \in from .. to, NEW i \in DOMAIN Assets, Done(x, i)' PROVE Finished(x, i)'
  <2> i \in 1 .. Len(Assets) /\ ai \in 1 .. Len(Assets) /\ Len(Assets) \in Nat
    BY Params DEF TypeOK
  <2>1. x \in 0 .. day /\ (Done(x, i) \/ (x = day /\ i = ai))
    BY <1>1, <1>6 DEF TypeOK, Done
  <2>2. CASE Asset = Assets[i] /\ day = x
    <3>1. PICK a : a = Assets[i]
      OBVIOUS
    <3>2. Current(a, x)'
      BY <1>1, <1>3, <1>4, <2>2, <3>1, CurrentSaved
    <3>3. Covered(a, x)'
      BY <1>1, <1>2, <1>3, <1>4, <2>2, <3>1, LatestKept
    <3>4. QED
      BY <3>1, <3>2, <3>3 DEF Finished
  <2>3. CASE ~(Asset = Assets[i] /\ day = x)
    <3>1. Finished(x, i)
      BY <1>2, <1>6, <2>1, <2>3 DEF CleanStates, Asset
    <3>2. QED
      BY <1>1, <1>2, <1>3, <2>1, <2>3, <3>1, FinishedKept
  <2>4. QED
    BY <2>2, <2>3
<1>7. QED
  BY <1>5, <1>6

\* there are finitely many scores, so that coverage is a number
LEMMA ScoresFinite == Spec => []IsFiniteSet(scores)
<1>1. Init => IsFiniteSet(scores)
  BY FS_EmptySet DEF Init
<1>2. ASSUME TypeOK, IsFiniteSet(scores), [Next]_vars PROVE IsFiniteSet(scores)'
  <2>1. scores' = scores \/ \E dom \in Domains, a \in Owners, d \in 0 .. today : SaveDomainScore(dom, a, d)
    <3>1. CASE \/ NextDay \/ UNCHANGED vars
               \/ \E d \in 0 .. today : RunOnce(d)
               \/ \E f, t \in 0 .. today : RunBackfill(f, t)
      BY <3>1 DEF NextDay, vars, RunOnce, RunBackfill, Begin, store
    <3>2. CASE ReadScores \/ InsufficientCoverage \/ ReadHistory \/ ReadPast \/ ReadTrail \/ Save
               \/ SaveRejected \/ Publish \/ Fail \/ Crash
      BY <3>2 DEF ReadScores, InsufficientCoverage, ReadHistory, ReadPast, ReadTrail, Save,
                  SaveRejected, Publish, Fail, Crash, store
    <3>3. QED
      BY <1>2, <3>1, <3>2 DEF Next
  <2>2. ASSUME NEW dom \in Domains, NEW a \in Owners, NEW d \in 0 .. today, SaveDomainScore(dom, a, d)
        PROVE  IsFiniteSet(scores')
    BY <1>2, <2>2, FS_AddElement DEF SaveDomainScore
  <2>3. QED
    BY <1>2, <2>1, <2>2
<1>3. QED
  BY <1>1, <1>2, TypeCorrect, PTL DEF Spec

\* the coverage of a day counts finitely many rows
LEMMA CoverageNumber ==
  ASSUME IsFiniteSet(scores), NEW a, NEW d, NEW c
  PROVE  Cardinality(GetLatestAll(a, d, c)) \in Nat
<1>1. GetLatestAll(a, d, c) \in SUBSET scores
  BY DEF GetLatestAll, GetDomainScoreOnDate, Newest, ScoresOf
<1>2. IsFiniteSet(GetLatestAll(a, d, c))
  BY <1>1, FS_Subset
<1>3. QED
  BY <1>2, FS_CardinalityType

\* what is behind an undisturbed run is finished
LEMMA CleanStatesStep ==
  ASSUME TypeOK, TypeOK', IsFiniteSet(scores), Inputs, Undisturbed, CleanReads, CleanStates, [Next]_vars
  PROVE  CleanStates'
<1> USE DEF store, note, At
<1> ai \in 1 .. Len(Assets) /\ Len(Assets) \in Nat /\ DOMAIN Assets = 1 .. Len(Assets) /\ RunClock
  BY Params DEF TypeOK, Inputs
<1>1. CASE \/ NextDay \/ SaveRejected \/ Fail \/ Crash
           \/ \E dom \in Domains, a \in Owners, d \in 0 .. today : SaveDomainScore(dom, a, d)
  BY <1>1 DEF NextDay, SaveDomainScore, SaveRejected, Fail, Crash, CleanStates
<1>2. ASSUME NEW m \in {"once", "backfill"}, NEW f \in 0 .. today, NEW t \in 0 .. today, Begin(m, f, t)
      PROVE  CleanStates'
  <2>1. \A s \in states' : ~(s.at > began')
    BY <1>2 DEF Begin, TypeOK
  <2>2. ASSUME NEW x \in f .. t, NEW i \in DOMAIN Assets PROVE ~Done(x, i)'
    BY <1>2, <2>2 DEF Begin, Done
  <2>3. QED
    BY <1>2, <2>1, <2>2 DEF Begin, CleanStates
<1>3. CASE (\E d \in 0 .. today : RunOnce(d)) \/ (\E f, t \in 0 .. today : RunBackfill(f, t))
  BY <1>2, <1>3 DEF RunOnce, RunBackfill
<1>4. CASE ReadScores \/ ReadHistory \/ ReadPast \/ ReadTrail \/ UNCHANGED vars
  <2>1. /\ UNCHANGED <<now, scores, states, from, to, cutoff, note, clean>>
        /\ \A x \in from .. to, i \in DOMAIN Assets : Done(x, i)' => Done(x, i)
    BY <1>4 DEF ReadScores, ReadHistory, ReadPast, ReadTrail, vars, loop, Done
  <2>2. CASE ~clean
    BY <2>1, <2>2 DEF CleanStates
  <2>3. CASE clean
    <3>1. \A x \in from .. to, i \in DOMAIN Assets : Done(x, i) => x <= day
      BY <2>3 DEF Undisturbed, Done, TypeOK
    <3>2. QED
      BY <2>1, <2>3, <3>1, CleanStatesKept DEF TypeOK
  <2>4. QED
    BY <2>2, <2>3
<1>5. CASE Publish
  <2>1. CASE ~clean
    BY <1>5, <2>1 DEF Publish, CleanStates
  <2>2. CASE clean
    <3>1. ASSUME NEW x \in from .. to, NEW i \in DOMAIN Assets, Done(x, i)'
          PROVE  x <= day /\ Done(x, i)
      <4>1. x <= day /\ (x < day \/ i <= ai)
        BY <1>5, <3>1, DoneAdvance DEF Publish
      <4>2. QED
        BY <1>5, <4>1 DEF Publish, Done, TypeOK
    <3>2. QED
      BY <1>5, <2>2, <3>1, CleanStatesKept DEF Publish, Advance, TypeOK
  <2>3. QED
    BY <2>1, <2>2
<1>6. CASE InsufficientCoverage
  <2>1. CASE ~(clean /\ mode = "backfill")
    BY <1>6, <2>1 DEF InsufficientCoverage, CleanStates
  <2>2. CASE clean /\ mode = "backfill"
    <3>1. Advance /\ UNCHANGED <<scores, states, note, now>> /\ mode # "idle"
      BY <1>6, <2>2 DEF InsufficientCoverage, Skipped
    <3>2. ~Covered(Asset, day)
      <4>1. GetLatestAll(Asset, day, cutoff) = GetLatestAll(Asset, day, now)
        BY <2>2, <3>1, ScoresSeen, LatestSame
      <4>2. QED
        BY <1>6, <4>1, CoverageNumber, Params DEF InsufficientCoverage, Covered
    <3>3. Finished(day, ai)
      BY <2>2, <3>2 DEF Finished, Asset, RunClock
    <3>4. ASSUME NEW x \in from .. to, NEW i \in DOMAIN Assets, Done(x, i)'
          PROVE  x <= day /\ (Done(x, i) \/ Finished(x, i))
      <4>1. x <= day /\ (x < day \/ i <= ai)
        BY <3>1, <3>4, DoneAdvance
      <4>2. x < day \/ (x = day /\ i < ai) \/ (x = day /\ i = ai)
        <5>1. x \in Int /\ day \in Int /\ i \in Int /\ ai \in Int
          BY DEF TypeOK
        <5>2. QED
          BY <4>1, <5>1
      <4>3. QED
        BY <3>3, <4>1, <4>2 DEF Done
    <3>5. QED
      BY <2>2, <3>1, <3>4, CleanStatesKept DEF Advance, TypeOK
  <2>3. QED
    BY <2>1, <2>2
<1>7. CASE Save
  BY <1>7, CleanStatesSave
<1>8. QED
  BY <1>1, <1>3, <1>4, <1>5, <1>6, <1>7 DEF Next

CleanRun == Undisturbed /\ CleanReads /\ CleanStates

\* a backfill that nothing else writes beside holds its chain
LEMMA UndisturbedInvariant == Spec => []CleanRun
<1>1. Init => CleanRun
  BY DEF Init, CleanRun, Undisturbed, CleanReads, CleanStates
<1>2. TypeOK /\ Inputs /\ IsFiniteSet(scores) /\ CleanRun /\ [Next]_vars => CleanRun'
  BY TypeStep, UndisturbedStep, CleanReadsStep, CleanStatesStep DEF CleanRun, Inputs
<1>3. QED
  BY <1>1, <1>2, InputsInvariant, ScoresFinite, PTL DEF Spec

(***************************************************************************)
(* A tick that ran undisturbed leaves a current state for every asset.     *)
(***************************************************************************)
THEOREM TickLeavesCurrent == Spec => []TickCurrent
<1>1. TypeOK /\ Inputs /\ CleanRun => TickCurrent
  <2>1. SUFFICES ASSUME TypeOK, Inputs, CleanRun, mode = "idle", last = "once", clean,
                        NEW i \in DOMAIN Assets
                 PROVE  Current(Assets[i], day)
    BY DEF TickCurrent
  <2>2. day \in from .. to /\ Done(day, i) /\ Within
    BY <2>1 DEF TypeOK, Done, Within
  <2>3. Finished(day, i)
    BY <2>1, <2>2 DEF CleanRun, CleanStates
  <2>4. QED
    BY <2>1, <2>3 DEF Finished
<1>2. QED
  BY <1>1, InputsInvariant, UndisturbedInvariant, PTL

(***************************************************************************)
(* A backfill chains the smoothing, as long as its own saves stay within   *)
(* its cutoff, a day after its beginning.                                  *)
(***************************************************************************)
THEOREM BackfillChains == Spec => []BackfillCurrent
<1>1. TypeOK /\ Inputs /\ IsFiniteSet(scores) /\ CleanRun => BackfillCurrent
  <2>1. SUFFICES ASSUME TypeOK, Inputs, IsFiniteSet(scores), CleanRun,
                        last = "backfill", clean, now <= began + Horizon,
                        NEW x \in from .. to, NEW i \in DOMAIN Assets, Done(x, i)
                 PROVE  IF Covered(Assets[i], x) THEN Current(Assets[i], x)
                        ELSE \A s \in states : s.asset = Assets[i] /\ s.day = x => s.at <= began
    BY DEF BackfillCurrent, Covered
  <2>2. Within
    BY <2>1 DEF Within, Inputs, RunClock
  <2>3. CASE Covered(Assets[i], x)
    BY <2>1, <2>2, <2>3 DEF CleanRun, CleanStates, Finished
  <2>4. CASE ~Covered(Assets[i], x)
    <3>1. SUFFICES ASSUME NEW s \in states, s.asset = Assets[i], s.day = x
                   PROVE  s.at <= began
      BY <2>4
    <3>2. ~(s.at > began)
      BY <2>1, <2>2, <2>4, <3>1 DEF CleanRun, CleanStates
    <3>3. QED
      BY <2>1, <3>2 DEF TypeOK
  <2>5. QED
    BY <2>3, <2>4
<1>2. QED
  BY <1>1, InputsInvariant, ScoresFinite, UndisturbedInvariant, PTL
=============================================================================
