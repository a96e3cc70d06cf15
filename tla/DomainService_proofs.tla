------------------------ MODULE DomainService_proofs ------------------------
(***************************************************************************)
(* Proofs about a domain service with any feeds, any feature stages and    *)
(* any assets.                                                             *)
(***************************************************************************)
EXTENDS DomainService, Maxima, FiniteSetTheorems, TLAPS

Rows == raws \cup feats \cup scores \cup events

\* nothing is stamped later than the clock
Stamped == \A r \in Rows : r.at \in 1 .. now

\* a table keeps its rows, and the rows it gains carry the new time
Grows(old, new) == old \subseteq new /\ \A r \in new \ old : r.at = now + 1 /\ now' = now + 1

Appends ==
  /\ now' \in {now, now + 1}
  /\ Grows(raws, raws') /\ Grows(feats, feats')
  /\ Grows(scores, scores') /\ Grows(events, events')

Control ==
  /\ now \in Nat /\ today \in 0 .. LastDay /\ rev \in Nat
  /\ mode \in {"idle", "once", "backfill"}
  /\ phase \in {"ingest", "publish", "compute", "announce"}
  /\ from \in 0 .. today /\ to \in 0 .. today /\ day \in from .. to
  /\ idx \in Nat \ {0} /\ ai \in 0 .. Len(Assets) /\ cutoff \in Nat
  /\ faults \in Nat /\ runs \in Nat /\ backfills \in Nat /\ streak \in Nat

-----------------------------------------------------------------------------

(***************************************************************************)
(* Time moves by at most one unit, and only forward; each table only       *)
(* grows, and what it gains carries the new time.                          *)
(***************************************************************************)
LEMMA AppendOnly ==
  ASSUME now \in Nat, [Next]_vars
  PROVE  Appends
<1> USE DEF Appends, Grows, store, world, span, bound, clear
<1>1. CASE NextDay
  BY <1>1 DEF NextDay
<1>2. CASE Revise
  BY <1>2 DEF Revise
<1>3. ASSUME NEW f \in Foreign, ForeignIngest(f) PROVE Appends
  BY <1>3 DEF ForeignIngest, Ingested
<1>4. ASSUME NEW d \in 0 .. today, RunOnce(d) PROVE Appends
  BY <1>4 DEF RunOnce, Begin
<1>5. ASSUME NEW f \in 0 .. today, NEW t \in 0 .. today, RunBackfill(f, t) PROVE Appends
  BY <1>5 DEF RunBackfill, Begin
<1>6. CASE Abort
  BY <1>6 DEF Abort
<1>7. CASE IngestSave
  BY <1>7 DEF IngestSave, Ingested
<1>8. CASE IngestNothing
  BY <1>8 DEF IngestNothing
<1>9. CASE IngestFails
  BY <1>9 DEF IngestFails
<1>10. CASE IngestPublish
  BY <1>10 DEF IngestPublish
<1>11. CASE TakeCutoff
  BY <1>11 DEF TakeCutoff
<1>12. CASE ComputeStage
  BY <1>12 DEF ComputeStage, SaveFeature
<1>13. CASE LoseFeature
  BY <1>13 DEF LoseFeature
<1>14. CASE EnterAssets
  BY <1>14 DEF EnterAssets
<1>15. CASE SaveScore
  BY <1>15 DEF SaveScore
<1>16. CASE Announce
  BY <1>16 DEF Announce
<1>17. CASE UNCHANGED vars
  BY <1>17 DEF vars
<1>18. QED
  BY <1>1, <1>2, <1>3, <1>4, <1>5, <1>6, <1>7, <1>8, <1>9, <1>10, <1>11, <1>12, <1>13,
     <1>14, <1>15, <1>16, <1>17 DEF Next

\* the rows stay stamped with times the clock has reached
LEMMA StampedStep ==
  ASSUME now \in Nat, Stamped, [Next]_vars
  PROVE  Stamped'
<1>1. Appends
  BY AppendOnly
<1>2. now' \in Nat /\ now <= now'
  BY <1>1 DEF Appends
<1>3. ASSUME NEW r \in Rows' PROVE r.at \in 1 .. now'
  <2>1. CASE r \in Rows
    BY <1>2, <2>1 DEF Stamped
  <2>2. CASE r \notin Rows
    <3>1. r.at = now + 1 /\ now' = now + 1
      BY <1>1, <2>2 DEF Appends, Grows, Rows
    <3>2. QED
      BY <3>1
  <2>3. QED
    BY <2>1, <2>2
<1>4. QED
  BY <1>3 DEF Stamped

\* a feed of either sequence is a feed
LEMMA FeedSeqType == ASSUME AtFeed, idx \in Nat \ {0} PROVE FeedSeq[idx] \in FeedType
  BY DomainAssumption DEF AtFeed, FeedSeq

\* the program counter of a run stays in its ranges
LEMMA ControlStep ==
  ASSUME Control, [Next]_vars
  PROVE  Control'
<1> USE DomainAssumption DEF Control, store, world, span, bound, clear
<1>1. CASE NextDay
  BY <1>1 DEF NextDay, Outside
<1>2. CASE Revise
  BY <1>2 DEF Revise, Outside
<1>3. ASSUME NEW f \in Foreign, ForeignIngest(f) PROVE Control'
  BY <1>3 DEF ForeignIngest, Outside
<1>4. ASSUME NEW d \in 0 .. today, RunOnce(d) PROVE Control'
  BY <1>4 DEF RunOnce, Begin
<1>5. ASSUME NEW f \in 0 .. today, NEW t \in 0 .. today, RunBackfill(f, t) PROVE Control'
  BY <1>5 DEF RunBackfill, Begin
<1>6. CASE Abort
  BY <1>6 DEF Abort, Fault
<1>7. CASE IngestSave
  BY <1>7 DEF IngestSave
<1>8. CASE IngestNothing
  <2>1. FeedSeq[idx].leads \in Nat
    BY <1>8, FeedSeqType DEF IngestNothing, FeedType
  <2>2. QED
    BY <1>8, <2>1 DEF IngestNothing, Fault
<1>9. CASE IngestFails
  BY <1>9 DEF IngestFails, Fault
<1>10. CASE IngestPublish
  BY <1>10 DEF IngestPublish
<1>11. CASE TakeCutoff
  BY <1>11 DEF TakeCutoff, Cutoff
<1>12. CASE ComputeStage
  BY <1>12 DEF ComputeStage, SaveFeature
<1>13. CASE LoseFeature
  BY <1>13 DEF LoseFeature, Fault
<1>14. CASE EnterAssets
  BY <1>14 DEF EnterAssets
<1>15. CASE SaveScore
  BY <1>15 DEF SaveScore
<1>16. CASE Announce
  BY <1>16 DEF Announce, NextAsset, NextValueDate, EndOfRun
<1>17. CASE UNCHANGED vars
  BY <1>17 DEF vars
<1>18. QED
  BY <1>1, <1>2, <1>3, <1>4, <1>5, <1>6, <1>7, <1>8, <1>9, <1>10, <1>11, <1>12, <1>13,
     <1>14, <1>15, <1>16, <1>17 DEF Next

\* the history variable clean stays a truth value
LEMMA CleanStep ==
  ASSUME clean \in BOOLEAN, [Next]_vars
  PROVE  clean' \in BOOLEAN
<1>1. (clean' = FALSE) \/ clean' = clean \/ \E m, f : clean' = (m = "backfill" \/ f = today)
  BY DEF Next, NextDay, Revise, ForeignIngest, Outside, RunOnce, RunBackfill, Begin, Abort, Fault,
    IngestSave, IngestNothing, IngestFails, IngestPublish, TakeCutoff, ComputeStage, LoseFeature,
    EnterAssets, SaveScore, Announce, clear, vars
<1>2. QED
  BY <1>1

\* the parts of the type invariant that are proved separately
LEMMA TypeSplit == TypeOK <=> Control /\ Stamped /\ clean \in BOOLEAN
  BY DEF TypeOK, Control, Stamped, Rows

\* every step keeps the types
LEMMA TypeStep ==
  ASSUME TypeOK, [Next]_vars
  PROVE  TypeOK'
<1>1. Control' /\ Stamped' /\ clean' \in BOOLEAN
  BY TypeSplit, ControlStep, StampedStep, CleanStep DEF Control
<1>2. QED
  BY <1>1 DEF TypeOK, Control, Stamped, Rows

\* the initial state is well typed
LEMMA TypeInit == ASSUME Init PROVE TypeOK
<1>1. Control
  BY DomainAssumption DEF Init, Control
<1>2. Stamped
  BY DEF Init, Stamped, Rows
<1>3. clean \in BOOLEAN
  BY DEF Init
<1>4. QED
  BY <1>1, <1>2, <1>3, TypeSplit

(***************************************************************************)
(* RunOnce and RunBackfill keep the program counter and the time stamps in *)
(* their ranges: computeRange never leaves the requested days.             *)
(***************************************************************************)
THEOREM TypeCorrect == Spec => []TypeOK
<1>1. Init => TypeOK
  BY TypeInit
<1>2. TypeOK /\ [Next]_vars => TypeOK'
  BY TypeStep
<1>3. QED
  BY <1>1, <1>2, PTL DEF Spec

-----------------------------------------------------------------------------

(***************************************************************************)
(* The tables of a service implement the store its readers rely on: every  *)
(* cutoff that the clock has reached is settled.                           *)
(***************************************************************************)
THEOREM ServiceImplementsAsOf == Spec => ImplementsStore
<1>1. Init => Store!Init
  BY DEF Init, Store!Init
<1>2. now \in Nat /\ [Next]_vars => [Store!Next]_(Store!vars)
  <2> SUFFICES ASSUME now \in Nat, [Next]_vars PROVE Store!Next
    BY DEF Store!vars
  <2>1. Appends
    BY AppendOnly
  <2>2. Rows \subseteq Rows' /\ \A r \in Rows' \ Rows : r.at = now + 1
    BY <2>1 DEF Appends, Grows, Rows
  <2>3. 0 .. now \subseteq 0 .. now'
    BY <2>1 DEF Appends
  <2>4. \A r \in Rows' \ Rows : \A c \in 0 .. now : ~(r.at <= c)
    BY <2>2
  <2> QED
    BY <2>2, <2>3, <2>4 DEF Store!Next, Rows
<1>3. TypeOK => now \in Nat
  BY DEF TypeOK
<1> QED
  BY <1>1, <1>2, <1>3, TypeCorrect, PTL DEF Spec, ImplementsStore, Store!Spec

(***************************************************************************)
(* So a read as of any cutoff up to now has its final answer: what is      *)
(* ingested, revised or backfilled later does not change it.               *)
(***************************************************************************)
THEOREM ReadsAreFinal == Spec => Store!SettledAnswersFinal
<1>1. [Store!Next]_(Store!vars) => [\A c \in 0 .. now : Store!AsOf(c)' = Store!AsOf(c)]_(Store!vars)
  BY DEF Store!Next, Store!AsOf, Store!vars
<1>2. QED
  BY <1>1, ServiceImplementsAsOf, PTL DEF ImplementsStore, Store!Spec, Store!SettledAnswersFinal

-----------------------------------------------------------------------------
(* Live scores are replayable *)

\* a live run reads as of a time that has passed, and so did every live score
CutoffPast ==
  /\ mode = "once" /\ phase \in {"compute", "announce"} => cutoff <= now
  /\ \A sc \in scores : sc.mode = "once" => sc.cutoff \in Nat /\ sc.cutoff <= now

\* what is written after a cutoff does not change what is read at it
LEMMA GatherStable ==
  ASSUME now \in Nat, [Next]_vars, NEW a, NEW d, NEW c \in Nat, c <= now
  PROVE  GatherInputs(a, d, c)' = GatherInputs(a, d, c)
<1>1. Grows(feats, feats')
  BY AppendOnly DEF Appends
<1>2. ASSUME NEW k PROVE GetLatest(k, d, c)' = GetLatest(k, d, c)
  <2>1. {r \in feats' : r.key = k /\ r.day = d /\ r.at <= c}
          = {r \in feats : r.key = k /\ r.day = d /\ r.at <= c}
    BY <1>1 DEF Grows
  <2>2. QED
    BY <2>1 DEF GetLatest, Newest
<1>3. QED
  BY <1>2 DEF GatherInputs, Key, Outs

\* a live cutoff, and those of live scores, stay behind the clock
LEMMA CutoffPastStep ==
  ASSUME TypeOK, CutoffPast, [Next]_vars
  PROVE  CutoffPast'
<1>1. now \in Nat /\ now' \in Nat /\ now <= now' /\ cutoff \in Nat
  BY AppendOnly DEF TypeOK, Appends
<1> USE DEF CutoffPast, store, world, span, bound, clear
<1>2. CASE SaveScore
  BY <1>1, <1>2 DEF SaveScore, AtScore
<1>3. CASE TakeCutoff
  BY <1>1, <1>3 DEF TakeCutoff, Cutoff
<1>4. CASE UNCHANGED <<scores, cutoff, mode, phase>>
  BY <1>1, <1>4
<1>5. CASE scores' = scores /\ cutoff' = cutoff /\ (mode' = "idle" \/ phase' \in {"ingest", "publish"})
  BY <1>1, <1>5
<1>6. CASE Announce
  BY <1>1, <1>6 DEF Announce, NextAsset, NextValueDate, EndOfRun
<1>7. CASE NextDay \/ Revise \/ (\E f \in Foreign : ForeignIngest(f))
  BY <1>1, <1>4, <1>7 DEF NextDay, Revise, ForeignIngest, Outside
<1>8. CASE (\E d \in 0 .. today : RunOnce(d)) \/ (\E f, t \in 0 .. today : RunBackfill(f, t))
  BY <1>1, <1>5, <1>8 DEF RunOnce, RunBackfill, Begin
<1>9. CASE Abort \/ IngestFails \/ IngestNothing \/ IngestSave \/ IngestPublish
  BY <1>1, <1>4, <1>5, <1>9 DEF Abort, IngestFails, IngestNothing, IngestSave, IngestPublish, AtFeed
<1>10. CASE ComputeStage \/ LoseFeature \/ EnterAssets \/ UNCHANGED vars
  BY <1>1, <1>4, <1>10 DEF ComputeStage, LoseFeature, EnterAssets, vars
<1>11. QED
  BY <1>2, <1>3, <1>6, <1>7, <1>8, <1>9, <1>10 DEF Next

\* only SaveScore writes a score
LEMMA ScoresStep ==
  ASSUME [Next]_vars
  PROVE  scores' = scores \/ SaveScore
BY DEF Next, NextDay, Revise, ForeignIngest, RunOnce, RunBackfill, Begin, Abort, IngestSave,
  IngestNothing, IngestFails, IngestPublish, TakeCutoff, ComputeStage, LoseFeature, EnterAssets,
  Announce, vars, store

(***************************************************************************)
(* Whatever the feeds and the stages of a service are: the inputs of a     *)
(* score that RunOnce saved can be read back at the cutoff of the tick for *)
(* ever.                                                                   *)
(***************************************************************************)
THEOREM LiveScoresReplayable == Spec => []LiveReplayable
<1> DEFINE Inv == TypeOK /\ CutoffPast /\ LiveReplayable
<1>1. Init => Inv
  BY TypeInit DEF Init, CutoffPast, LiveReplayable
<1>2. Inv /\ [Next]_vars => Inv'
  <2> SUFFICES ASSUME Inv, [Next]_vars PROVE Inv'
    OBVIOUS
  <2>1. TypeOK'
    BY TypeStep
  <2>2. CutoffPast'
    BY CutoffPastStep
  <2>3. LiveReplayable'
    <3> SUFFICES ASSUME NEW sc \in scores', sc.mode = "once"
                 PROVE  GatherInputs(sc.asset, sc.day, sc.cutoff)' = sc.inputs
      BY DEF LiveReplayable
    <3>1. CASE sc \in scores
      <4>1. sc.cutoff \in Nat /\ sc.cutoff <= now /\ now \in Nat
        BY <3>1 DEF CutoffPast, TypeOK
      <4>2. GatherInputs(sc.asset, sc.day, sc.cutoff)' = GatherInputs(sc.asset, sc.day, sc.cutoff)
        BY <4>1, GatherStable
      <4>3. QED
        BY <3>1, <4>2 DEF LiveReplayable
    <3>2. CASE sc \notin scores
      <4>1. SaveScore
        BY <3>2, ScoresStep
      <4>2. /\ sc.cutoff = cutoff /\ sc.mode = mode
            /\ sc.inputs = GatherInputs(sc.asset, sc.day, cutoff)
        BY <3>2, <4>1 DEF SaveScore
      <4>3. cutoff \in Nat /\ cutoff <= now /\ now \in Nat
        BY <4>1, <4>2 DEF CutoffPast, TypeOK, SaveScore, AtScore
      <4>4. GatherInputs(sc.asset, sc.day, cutoff)' = GatherInputs(sc.asset, sc.day, cutoff)
        <5>1. feats' = feats
          BY <4>1 DEF SaveScore
        <5>2. cutoff' = cutoff
          BY <4>1 DEF SaveScore
        <5>3. QED
          BY <5>1, <5>2 DEF GatherInputs, GetLatest, Newest, Key, Outs
      <4>5. QED
        BY <4>1, <4>2, <4>4 DEF SaveScore
    <3>3. QED
      BY <3>1, <3>2
  <2>4. QED
    BY <2>1, <2>2, <2>3
<1>3. QED
  BY <1>1, <1>2, PTL DEF Spec

-----------------------------------------------------------------------------
(* Events follow data *)

\* between the save of a score and its event, the score is in the table
Announcing ==
  mode # "idle" /\ phase = "announce" =>
    \E sc \in scores : sc.asset = Assets[ai] /\ sc.day = day

\* a saved score stays saved until its event is published
LEMMA AnnouncingStep ==
  ASSUME TypeOK, Announcing, [Next]_vars
  PROVE  Announcing'
<1> USE DEF Announcing, store, world, span, bound, clear
<1>1. CASE SaveScore
  <2> DEFINE row == [asset |-> Assets[ai], day |-> day, inputs |-> GatherInputs(Assets[ai], day, cutoff),
                     cutoff |-> cutoff, mode |-> mode, at |-> now + 1]
  <2>1. row \in scores' /\ ai' = ai /\ day' = day
    BY <1>1 DEF SaveScore
  <2>2. row.asset = Assets[ai] /\ row.day = day
    OBVIOUS
  <2> HIDE DEF row
  <2>3. QED
    BY <2>1, <2>2
<1>2. CASE mode' = "idle" \/ phase' # "announce"
  BY <1>2
<1>3. CASE UNCHANGED <<scores, mode, phase, ai, day>>
  BY <1>3
<1>4. CASE NextDay \/ Revise \/ (\E f \in Foreign : ForeignIngest(f))
  BY <1>3, <1>4 DEF NextDay, Revise, ForeignIngest, Outside
<1>5. CASE (\E d \in 0 .. today : RunOnce(d)) \/ (\E f, t \in 0 .. today : RunBackfill(f, t))
  BY <1>2, <1>5 DEF RunOnce, RunBackfill, Begin
<1>6. CASE Abort \/ IngestFails \/ IngestNothing \/ IngestSave \/ IngestPublish
  BY <1>2, <1>3, <1>6 DEF Abort, IngestFails, IngestNothing, IngestSave, IngestPublish, AtFeed
<1>7. CASE TakeCutoff \/ ComputeStage \/ LoseFeature \/ EnterAssets \/ Announce
  BY <1>2, <1>7 DEF TakeCutoff, ComputeStage, LoseFeature, EnterAssets, Announce, AtStage
<1>8. CASE UNCHANGED vars
  BY <1>3, <1>8 DEF vars
<1>9. QED
  BY <1>1, <1>4, <1>5, <1>6, <1>7, <1>8 DEF Next

\* only IngestPublish and Announce write to the outbox
LEMMA EventsStep ==
  ASSUME [Next]_vars
  PROVE  events' = events \/ IngestPublish \/ Announce
BY DEF Next, NextDay, Revise, ForeignIngest, RunOnce, RunBackfill, Begin, Abort, IngestSave,
  IngestNothing, IngestFails, TakeCutoff, ComputeStage, LoseFeature, EnterAssets,
  SaveScore, vars, store

(***************************************************************************)
(* For every service: when scores.<domain>.completed.v1 is published, the  *)
(* score it announces was committed earlier, whatever crashes and errors   *)
(* came before.                                                            *)
(***************************************************************************)
THEOREM EventsComeAfterScores == Spec => []EventsFollowData
<1> DEFINE Inv == TypeOK /\ Announcing /\ EventsFollowData
<1>1. Init => Inv
  BY TypeInit DEF Init, Announcing, EventsFollowData
<1>2. Inv /\ [Next]_vars => Inv'
  <2> SUFFICES ASSUME Inv, [Next]_vars PROVE Inv'
    OBVIOUS
  <2>1. TypeOK' /\ Announcing'
    BY TypeStep, AnnouncingStep
  <2>2. EventsFollowData'
    <3> SUFFICES ASSUME NEW e \in events', e.topic = "score"
                 PROVE  \E sc \in scores' : sc.asset = e.of /\ sc.day = e.day /\ sc.at < e.at
      BY DEF EventsFollowData
    <3>1. scores \subseteq scores'
      BY AppendOnly DEF TypeOK, Appends, Grows
    <3>2. CASE e \in events
      BY <3>1, <3>2 DEF EventsFollowData
    <3>3. CASE e \notin events
      <4>1. Announce
        BY <3>3, EventsStep DEF IngestPublish
      <4>2. e.of = Assets[ai] /\ e.day = day /\ e.at = now + 1
        BY <3>3, <4>1 DEF Announce
      <4>3. PICK sc \in scores : sc.asset = Assets[ai] /\ sc.day = day
        BY <4>1 DEF Announcing, Announce
      <4>4. sc.at \in 1 .. now /\ now \in Nat
        BY DEF TypeOK
      <4>5. QED
        BY <3>1, <4>2, <4>3, <4>4
    <3>4. QED
      BY <3>2, <3>3
  <2>3. QED
    BY <2>1, <2>2
<1>3. QED
  BY <1>1, <1>2, PTL DEF Spec

-----------------------------------------------------------------------------
(* No look-ahead *)

\* no feed files a live snapshot under the day that was asked for: what holds of
\* every service but volatility
TimelyFeeds ==
  \A fs \in {Feeds, BackfillFeeds} : \A i \in DOMAIN fs :
    fs[i].kind \in {"history", "ranged", "padded", "today"}

\* the two times of a sample: the day it is filed under, and the day it was observed
Times == {"day", "obs"}

\* what is filed under a day was observed by then; trivial for the filing itself
Timely(time) == time = "obs" => TimelyFeeds

\* every sample is of day d or before
Seen(src, d, time) == \A s \in src : s[time] \in Nat /\ s[time] <= d

RawSeen(time) == \A r \in raws : r.s.day \in Nat /\ Seen({r.s}, r.s.day, time)

FeatSeen(time) == \A r \in feats : r.day \in Nat /\ Seen(r.src, r.day, time)

MemSeen(time) ==
  /\ DOMAIN mem = MemNames
  /\ mode # "idle" /\ phase = "compute" => \A f \in MemNames : \A src \in mem[f] : Seen(src, day, time)

ScoreSeen(time) == \A sc \in scores : \A f \in Inputs : \A src \in sc.inputs[f] : Seen(src, sc.day, time)

\* an as-of read of a raw table finds values observed by the day it reads
LEMMA RawAsOfSeen ==
  ASSUME NEW time \in Times, RawSeen(time), NEW feed, NEW d \in Nat, NEW x \in Nat, x <= d, NEW c,
         NEW src \in RawAsOf(feed, x, c)
  PROVE  Seen(src, d, time)
<1>1. PICK r \in raws : r.s.day = x /\ src = {r.s}
  BY DEF RawAsOf, Newest
<1>2. QED
  BY <1>1 DEF RawSeen, Seen

\* an as-of read of the feature table finds values observed by the day it reads
LEMMA GetLatestSeen ==
  ASSUME NEW time \in Times, FeatSeen(time), NEW k, NEW d \in Nat, NEW x \in Nat, x <= d, NEW c,
         NEW src \in GetLatest(k, x, c)
  PROVE  Seen(src, d, time)
<1>1. PICK r \in feats : r.day = x /\ src = r.src
  BY DEF GetLatest, Newest
<1>2. QED
  BY <1>1 DEF FeatSeen, Seen

\* whatever a stage reads for day d was observed by then
LEMMA FoundSeen ==
  ASSUME NEW time \in Times, RawSeen(time), FeatSeen(time), day \in Nat, Lag \in Nat,
         \A f \in MemNames : \A src \in mem[f] : Seen(src, day, time),
         NEW q, q.read \in ReadKinds, q.read = "mem" => q.of \in MemNames,
         NEW a, NEW c, NEW src \in Found(q, a, day, c)
  PROVE  Seen(src, day, time)
<1>1. CASE q.read \in {"raw", "rawWindow"}
  <2>1. src \in RawAsOf(q.of, day, c)
    BY <1>1 DEF Found
  <2>2. QED
    BY <2>1, RawAsOfSeen
<1>2. CASE q.read = "rawCoin"
  <2>1. src \in RawAsOf(CoinIDForAsset(a), day, c)
    BY <1>2 DEF Found
  <2>2. QED
    BY <2>1, RawAsOfSeen
<1>3. CASE q.read = "rawSeries"
  <2>1. PICK x \in RawDays(q.of, day, c) : src \in RawAsOf(q.of, x, c)
    BY <1>3 DEF Found, LastRaw, LastDayOf
  <2>2. x \in Nat /\ x <= day
    BY DEF RawDays
  <2>3. QED
    BY <2>1, <2>2, RawAsOfSeen
<1>4. CASE q.read \in {"rawPast", "past", "grown"}
  <2>1. src = {}
    BY <1>4 DEF Found, Base
  <2>2. QED
    BY <2>1 DEF Seen
<1>5. CASE q.read = "mem"
  BY <1>5 DEF Found
<1>6. CASE q.read = "latest"
  <2>1. src \in GetLatest(Key(q.of, a), day, c)
    BY <1>6 DEF Found
  <2>2. QED
    BY <2>1, GetLatestSeen
<1>7. CASE q.read = "series"
  <2>1. PICK x \in SeriesDays(Key(q.of, a), day, c) : src \in GetLatest(Key(q.of, a), x, c)
    BY <1>7 DEF Found, LastOf, LastDayOf
  <2>2. x \in Nat /\ x <= day
    BY DEF SeriesDays
  <2>3. QED
    BY <2>1, <2>2, GetLatestSeen
<1>8. QED
  BY <1>1, <1>2, <1>3, <1>4, <1>5, <1>6, <1>7 DEF ReadKinds

\* a feature computed for a day was observed by then
LEMMA StageSeen ==
  ASSUME NEW time \in Times, TypeOK, RawSeen(time), FeatSeen(time), MemSeen(time), AtStage, NEW src \in StageResult
  PROVE  Seen(src, day, time)
<1> DEFINE st == StageSeq[idx]
<1>1. st \in StageType /\ idx \in DOMAIN StageSeq
  BY DomainAssumption DEF TypeOK, AtStage, StageSeq
<1>2. \A i \in DOMAIN st.alts : \A q \in st.alts[i] : q \in Reads(StageSeq)
  BY <1>1 DEF Reads
<1>3. \A q \in Reads(StageSeq) : q.read = "mem" => q.of \in MemNames
  BY DEF MemNames, StageSeq
<1>4. \A i \in DOMAIN st.alts : \A q \in st.alts[i] : q.read \in ReadKinds
  BY <1>1 DEF StageType
<1>5. day \in Nat /\ Lag \in Nat /\ \A f \in MemNames : \A v \in mem[f] : Seen(v, day, time)
  BY DomainAssumption DEF TypeOK, MemSeen, AtStage
<1>6. PICK i \in DOMAIN st.alts : src = UNION {UNION Found(q, AssetNow, day, cutoff) : q \in st.alts[i]}
  BY DEF StageResult, StageValue
<1>7. \A q \in st.alts[i] : \A v \in Found(q, AssetNow, day, cutoff) : Seen(v, day, time)
  BY <1>2, <1>3, <1>4, <1>5, FoundSeen
<1>8. QED
  BY <1>6, <1>7 DEF Seen

\* the feed being ingested files values under the day they were observed on
LEMMA TimelyKind ==
  ASSUME TypeOK, TimelyFeeds, AtFeed
  PROVE  FeedSeq[idx].kind \in {"history", "ranged", "padded", "today"}
BY DomainAssumption DEF TypeOK, AtFeed, FeedSeq, TimelyFeeds

\* the samples of a timely feed were observed on the day they are filed under
LEMMA FetchedSeen ==
  ASSUME NEW time \in Times, TypeOK, Timely(time), AtFeed, NEW s \in Fetched(FeedSeq[idx])
  PROVE  s.day \in Nat /\ Seen({s}, s.day, time)
<1>1. FeedSeq[idx].kind \in {"history", "ranged", "padded", "today", "asked", "feature"}
  BY FeedSeqType DEF TypeOK, FeedType
<1>2. s.day \in Nat
  BY <1>1 DEF Fetched, RangeStart, Sample, TypeOK
<1>3. time = "obs" => FeedSeq[idx].kind \in {"history", "ranged", "padded", "today"}
  BY TimelyKind DEF Timely
<1>4. time = "obs" => s.obs = s.day
  BY <1>3 DEF Fetched, RangeStart, Sample
<1>5. QED
  BY <1>2, <1>4 DEF Seen, Times

\* no ingestion files a sample under a day before it was observed
LEMMA RawSeenStep ==
  ASSUME NEW time \in Times, TypeOK, Timely(time), RawSeen(time), [Next]_vars
  PROVE  RawSeen(time)'
<1> USE DEF store, world
<1>1. CASE raws' = raws
  BY <1>1 DEF RawSeen, Seen
<1>2. ASSUME NEW samples, raws' = Ingested(samples),
             \A s \in samples : s.day \in Nat /\ Seen({s}, s.day, time)
      PROVE  RawSeen(time)'
  BY <1>2 DEF RawSeen, Seen, Ingested
<1>3. ASSUME NEW f \in Foreign, ForeignIngest(f) PROVE RawSeen(time)'
  <2>1. \A s \in {Sample(f, d, d) : d \in 0 .. today} : s.day \in Nat /\ Seen({s}, s.day, time)
    BY DEF Sample, Seen, TypeOK, Times
  <2>2. QED
    BY <1>2, <1>3, <2>1 DEF ForeignIngest
<1>4. CASE IngestSave
  <2>1. AtFeed /\ (raws' = raws \/ raws' = Ingested(Fetched(FeedSeq[idx])))
    BY <1>4 DEF IngestSave
  <2>2. \A s \in Fetched(FeedSeq[idx]) : s.day \in Nat /\ Seen({s}, s.day, time)
    BY <2>1, FetchedSeen
  <2>3. QED
    BY <1>1, <1>2, <2>1, <2>2
<1>5. CASE ~IngestSave /\ ~\E f \in Foreign : ForeignIngest(f)
  <2>1. raws' = raws
    BY <1>5 DEF Next, NextDay, Revise, RunOnce, RunBackfill, Begin, Abort, IngestNothing,
      IngestFails, IngestPublish, TakeCutoff, ComputeStage, LoseFeature, EnterAssets,
      SaveScore, Announce, vars
  <2>2. QED
    BY <1>1, <2>1
<1>6. QED
  BY <1>3, <1>4, <1>5

\* no stage stores a feature that looks ahead
LEMMA FeatSeenStep ==
  ASSUME NEW time \in Times, TypeOK, Timely(time), RawSeen(time), FeatSeen(time), MemSeen(time), [Next]_vars
  PROVE  FeatSeen(time)'
<1> USE DEF store, world
<1>1. CASE feats' = feats
  BY <1>1 DEF FeatSeen, Seen
<1>2. CASE ComputeStage
  <2>1. AtStage /\ day \in Nat
    BY <1>2 DEF ComputeStage, TypeOK
  <2>2. \A r \in feats' : r \in feats \/ (r.day = day /\ r.src \in StageResult)
    BY <1>2 DEF ComputeStage, SaveFeature
  <2>3. \A src \in StageResult : Seen(src, day, time)
    BY <2>1, StageSeen
  <2>4. QED
    BY <2>1, <2>2, <2>3 DEF FeatSeen, Seen
<1>3. CASE IngestSave
  <2>1. CASE FeedSeq[idx].kind # "feature"
    BY <1>1, <1>3, <2>1 DEF IngestSave
  <2>2. CASE FeedSeq[idx].kind = "feature"
    <3>1. AtFeed /\ to \in Nat
      BY <1>3 DEF IngestSave, TypeOK
    <3>2. \A s \in Fetched(FeedSeq[idx]) : s.day = to /\ Seen({s}, s.day, time)
      <4>1. \A s \in Fetched(FeedSeq[idx]) : s.day = to
        BY <2>2 DEF Fetched, Sample
      <4>2. QED
        BY <3>1, <4>1, FetchedSeen
    <3>3. \A r \in feats' : r \in feats \/ (r.day = to /\ r.src = Fetched(FeedSeq[idx]))
      BY <1>3, <2>2 DEF IngestSave
    <3>4. QED
      BY <3>1, <3>2, <3>3 DEF FeatSeen, Seen
  <2>3. QED
    BY <2>1, <2>2
<1>4. CASE ~IngestSave /\ ~ComputeStage
  <2>1. feats' = feats
    BY <1>4 DEF Next, NextDay, Revise, ForeignIngest, RunOnce, RunBackfill, Begin, Abort,
      IngestNothing, IngestFails, IngestPublish, TakeCutoff, LoseFeature, EnterAssets,
      SaveScore, Announce, vars
  <2>2. QED
    BY <1>1, <2>1
<1>5. QED
  BY <1>2, <1>3, <1>4

\* the local values of computeAssetDay do not look ahead
LEMMA MemSeenStep ==
  ASSUME NEW time \in Times, TypeOK, RawSeen(time), FeatSeen(time), MemSeen(time), [Next]_vars
  PROVE  MemSeen(time)'
<1> USE DEF store, world, span, bound, clear
<1>1. CASE UNCHANGED <<mode, phase, day, mem>>
  BY <1>1 DEF MemSeen, Seen
<1>2. CASE UNCHANGED mem /\ (mode' = "idle" \/ phase' # "compute")
  BY <1>2 DEF MemSeen
<1>3. CASE mem' = NoMem
  BY <1>3 DEF MemSeen, NoMem
<1>4. CASE ComputeStage \/ LoseFeature
  <2>1. /\ AtStage /\ UNCHANGED <<mode, phase, day>>
        /\ Remember(StageSeq[idx].out, StageResult)
    BY <1>4 DEF ComputeStage, LoseFeature
  <2>2. \A src \in StageResult : Seen(src, day, time)
    BY <2>1, StageSeen
  <2>3. /\ DOMAIN mem' = MemNames
        /\ \A f \in MemNames : mem'[f] = mem[f] \/ mem'[f] = StageResult
    BY <2>1 DEF Remember, MemSeen
  <2>4. \A f \in MemNames : \A src \in mem'[f] : Seen(src, day, time)
    BY <2>1, <2>2, <2>3 DEF MemSeen, AtStage
  <2>5. QED
    BY <2>1, <2>3, <2>4 DEF MemSeen, Seen
<1>5. CASE NextDay \/ Revise \/ (\E f \in Foreign : ForeignIngest(f))
  BY <1>1, <1>5 DEF NextDay, Revise, ForeignIngest, Outside
<1>6. CASE (\E d \in 0 .. today : RunOnce(d)) \/ (\E f, t \in 0 .. today : RunBackfill(f, t))
  BY <1>2, <1>6 DEF RunOnce, RunBackfill, Begin
<1>7. CASE Abort \/ IngestFails \/ IngestNothing \/ IngestSave \/ IngestPublish \/ SaveScore
  BY <1>1, <1>2, <1>7 DEF Abort, IngestFails, IngestNothing, IngestSave, IngestPublish, AtFeed, SaveScore
<1>8. CASE TakeCutoff \/ EnterAssets \/ Announce
  BY <1>3, <1>8 DEF TakeCutoff, EnterAssets, Announce
<1>9. CASE UNCHANGED vars
  BY <1>1, <1>9 DEF vars
<1>10. QED
  BY <1>4, <1>5, <1>6, <1>7, <1>8, <1>9 DEF Next

\* no score looks ahead
LEMMA ScoreSeenStep ==
  ASSUME NEW time \in Times, TypeOK, FeatSeen(time), ScoreSeen(time), [Next]_vars
  PROVE  ScoreSeen(time)'
<1> SUFFICES ASSUME NEW sc \in scores', NEW f \in Inputs, NEW src \in sc.inputs[f]
             PROVE  Seen(src, sc.day, time)
  BY DEF ScoreSeen, Seen
<1>1. CASE sc \in scores
  BY <1>1 DEF ScoreSeen
<1>2. CASE sc \notin scores
  <2>1. SaveScore
    BY <1>2, ScoresStep
  <2>2. sc.day = day /\ sc.inputs = GatherInputs(Assets[ai], day, cutoff)
    BY <1>2, <2>1 DEF SaveScore
  <2>3. src \in GetLatest(Key(f, Assets[ai]), day, cutoff)
    BY <2>2 DEF GatherInputs
  <2>4. day \in Nat
    BY DEF TypeOK
  <2>5. QED
    BY <2>2, <2>3, <2>4, GetLatestSeen
<1>3. QED
  BY <1>1, <1>2

(***************************************************************************)
(* For every service whose feeds file a value under the day it was         *)
(* observed on: however ticks, backfills of past ranges, revisions, faults *)
(* and crashes interleave, no score of a day depends on a value observed   *)
(* later.  The hypothesis is what volatility's ingestOptionsSnapshot and   *)
(* ingestCoinglassOptions break.                                           *)
(***************************************************************************)
THEOREM TimelyScoresDoNotLookAhead == TimelyFeeds => (Spec => []NoLookAhead)
<1> SUFFICES ASSUME TimelyFeeds PROVE Spec => []NoLookAhead
  OBVIOUS
<1> DEFINE Inv == TypeOK /\ RawSeen("obs") /\ FeatSeen("obs") /\ MemSeen("obs") /\ ScoreSeen("obs")
<1>1. Init => Inv
  BY TypeInit DEF Init, RawSeen, FeatSeen, MemSeen, ScoreSeen, NoMem
<1>2. Inv /\ [Next]_vars => Inv'
  BY TypeStep, RawSeenStep, FeatSeenStep, MemSeenStep, ScoreSeenStep DEF Times, Timely
<1>3. Inv => NoLookAhead
  BY DEF ScoreSeen, Seen, NoLookAhead
<1>4. QED
  BY <1>1, <1>2, <1>3, PTL DEF Spec

-----------------------------------------------------------------------------
(* A backfill is up to date after one pass *)

\* no raw row has a newer version of a sample of day d than src has
Fresh(src, d) ==
  \A s \in src : s.day = d =>
    \A r \in raws : r.s.feed = s.feed /\ r.s.day = s.day => r.s.ver <= s.ver

\* a later row of a raw table has no earlier version
RawOrdered ==
  /\ \A r \in raws : r.s.ver \in Nat /\ r.s.ver <= rev /\ r.s.feed \in RawFeeds
  /\ \A r, q \in raws : r.at <= q.at => r.s.ver <= q.s.ver

HasRaw(feed, d) == \E r \in raws : r.s.feed = feed /\ r.s.day = d

HasFeat(k, d) == \E r \in feats : r.key = k /\ r.day = d

\* enough days of a window
Enough(days) == days # {} /\ Cardinality(days) >= MinObs

WindowOf(d) == {x \in 0 .. d : x + Window > d}

\* a read of a raw table finds a value once every row can be seen
HasRawRead(q, a, d) ==
  \/ q.read = "raw"       /\ HasRaw(q.of, d)
  \/ q.read = "rawPast"   /\ \E x \in Past(d) : HasRaw(q.of, x)
  \/ q.read = "rawSeries" /\ Enough({x \in WindowOf(d) : HasRaw(q.of, x)})
  \/ q.read = "rawWindow" /\ \A x \in d - Lag .. d : HasRaw(q.of, x)
  \/ q.read = "rawCoin"   /\ HasRaw(CoinIDForAsset(a), d)

\* an alternative of st that reads only raw tables finds what it reads
HasRaws(st, a, d) ==
  \E k \in DOMAIN st.alts : \A q \in st.alts[k] : HasRawRead(q, a, d)

\* any read of a stage of the given sequence finds a value
HasRead(stages, q, a, d) ==
  \/ HasRawRead(q, a, d)
  \/ q.read = "mem"    /\ \E j \in DOMAIN stages : stages[j].out = q.of /\ HasRaws(stages[j], a, d)
  \/ q.read = "grown"  /\ Cardinality({x \in WindowOf(d) : HasFeat(Key(q.of, a), x)}) + 1 >= MinObs
  \/ q.read = "latest" /\ HasFeat(Key(q.of, a), d)
  \/ q.read = "past"   /\ \E x \in Past(d) : HasFeat(Key(q.of, a), x)
  \/ q.read = "series" /\ Enough({x \in WindowOf(d) : HasFeat(Key(q.of, a), x)})

HasReads(stages, st, a, d) ==
  \E k \in DOMAIN st.alts : \A q \in st.alts[k] : HasRead(stages, q, a, d)

\* what was computed once can be computed again
Recomputable ==
  \A r \in feats :
    /\ r.key[1] \notin AllOuts => \A s \in r.src : s.feed \in LiveFeatures
    /\ \A i \in DOMAIN GlobalStages :
         r.key[1] = GlobalStages[i].out => HasReads(GlobalStages, GlobalStages[i], "GLOBAL", r.day)
    /\ \A i \in DOMAIN AssetStages :
         r.key[1] = AssetStages[i].out => HasReads(AssetStages, AssetStages[i], r.key[2], r.day)

\* and so are the values kept in local variables
MemRecomputable ==
  mode # "idle" /\ phase = "compute" =>
    \A g \in MemNames : mem[g] # {} =>
      \E j \in DOMAIN StageSeq : StageSeq[j].out = g /\ HasRaws(StageSeq[j], AssetNow, day)

\* an undisturbed backfill that has taken its cutoff
CleanPass == mode = "backfill" /\ clean /\ phase \in {"compute", "announce"}

\* the features computed so far for the day and the asset
DoneOuts ==
  IF ai = 0 THEN OutsBefore(GlobalStages, idx)
  ELSE Outs(GlobalStages) \cup OutsBefore(AssetStages, idx)

\* while it sees its own writes, what it has computed for the day is of the newest versions
PassFresh ==
  CleanPass /\ now <= cutoff =>
    \A f \in DoneOuts : \A src \in GetLatest(Key(f, AssetNow), day, cutoff) : Fresh(src, day)

MemFresh ==
  CleanPass /\ phase = "compute" /\ now <= cutoff =>
    /\ \A g \in MemNames : \A src \in mem[g] : Fresh(src, day)
    /\ \A j \in DOMAIN StageSeq :
         j < idx /\ StageSeq[j].out \in MemNames /\ HasRaws(StageSeq[j], AssetNow, day) =>
           mem[StageSeq[j].out] # {}

\* the first day of a run is still ahead while it ingests; a score is of an asset
Ahead ==
  /\ mode # "idle" /\ phase \in {"ingest", "publish"} => day = from /\ ai = 0
  /\ mode # "idle" /\ phase = "announce" => ai > 0

\* the score of asset i for day x stays up to date until the pass is over
ScoredUpToDate(x, i) ==
  \E sc \in NewestScore(Assets[i], x) : sc.at > cutoff \/ UpToDate(sc)

PassUpToDate ==
  CleanPass => \A x \in from .. to : \A i \in DOMAIN Assets : Scored(x, i) => ScoredUpToDate(x, i)

\* the inductive invariant of BackfillConverges
PassInv ==
  /\ TypeOK /\ RawSeen("day") /\ FeatSeen("day") /\ MemSeen("day")
  /\ RawOrdered /\ Recomputable /\ MemRecomputable /\ Ahead
  /\ PassFresh /\ MemFresh /\ PassUpToDate

\* a table that has rows has a newest one
LEMMA NewestThere ==
  ASSUME NEW rows, rows # {}, now \in Nat, \A r \in rows : r.at \in 1 .. now
  PROVE  Newest(rows) # {}
<1>1. \A r \in rows : r.at \in 0 .. now
  OBVIOUS
<1>2. QED
  BY <1>1, NewestExists DEF Newest

\* an as-of read of a raw table finds a row only if there is one
LEMMA RawAsOfHas ==
  ASSUME NEW feed, NEW d, NEW c, RawAsOf(feed, d, c) # {}
  PROVE  HasRaw(feed, d)
BY DEF RawAsOf, Newest, HasRaw

\* and finds one when no row is hidden from it
LEMMA RawAsOfFinds ==
  ASSUME Stamped, now \in Nat, NEW feed, NEW d, NEW c \in Nat, now <= c, HasRaw(feed, d)
  PROVE  RawAsOf(feed, d, c) # {}
<1> DEFINE rows == {r \in raws : r.s.feed = feed /\ r.s.day = d /\ r.at <= c}
<1>1. \A r \in raws : r.at \in 1 .. now
  BY DEF Stamped, Rows
<1>2. rows # {} /\ \A r \in rows : r.at \in 1 .. now
  BY <1>1 DEF HasRaw
<1>3. Newest(rows) # {}
  <2> HIDE DEF rows
  <2>1. QED
    BY <1>2, NewestThere
<1>4. QED
  BY <1>3 DEF RawAsOf

\* the same of the feature table
LEMMA GetLatestHas ==
  ASSUME NEW k, NEW d, NEW c, GetLatest(k, d, c) # {}
  PROVE  HasFeat(k, d)
BY DEF GetLatest, Newest, HasFeat

LEMMA GetLatestFinds ==
  ASSUME Stamped, now \in Nat, NEW k, NEW d, NEW c \in Nat, now <= c, HasFeat(k, d)
  PROVE  GetLatest(k, d, c) # {}
<1> DEFINE rows == {r \in feats : r.key = k /\ r.day = d /\ r.at <= c}
<1>1. \A r \in feats : r.at \in 1 .. now
  BY DEF Stamped, Rows
<1>2. rows # {} /\ \A r \in rows : r.at \in 1 .. now
  BY <1>1 DEF HasFeat
<1>3. Newest(rows) # {}
  <2> HIDE DEF rows
  <2>1. QED
    BY <1>2, NewestThere
<1>4. QED
  BY <1>3 DEF GetLatest

\* a set of days has a last one
LEMMA LastDayThere ==
  ASSUME NEW d \in Nat, NEW days \in SUBSET (0 .. d), days # {}
  PROVE  LastDayOf(days) # {}
<1>1. days \in SUBSET Nat /\ \A x \in days : x <= d
  OBVIOUS
<1>2. QED
  BY <1>1, GreatestExists DEF LastDayOf

\* more days are more observations
LEMMA MoreDays ==
  ASSUME NEW d \in Nat, NEW all \in SUBSET (0 .. d), NEW days \in SUBSET all
  PROVE  Cardinality(days) \in Nat /\ Cardinality(all) \in Nat /\ Cardinality(days) <= Cardinality(all)
<1>1. IsFiniteSet(0 .. d)
  BY FS_Interval
<1>2. IsFiniteSet(all)
  BY <1>1, FS_Subset
<1>3. IsFiniteSet(days) /\ Cardinality(days) <= Cardinality(all)
  BY <1>2, FS_Subset
<1>4. QED
  BY <1>2, <1>3, FS_CardinalityType

\* enough days stay enough when days are added
LEMMA EnoughMore ==
  ASSUME NEW d \in Nat, NEW all \in SUBSET (0 .. d), NEW days \in SUBSET all, Enough(days)
  PROVE  Enough(all)
<1>1. Cardinality(days) \in Nat /\ Cardinality(all) \in Nat /\ Cardinality(days) <= Cardinality(all)
  BY MoreDays
<1>2. MinObs \in Nat
  BY DomainAssumption
<1>3. days # {} /\ Cardinality(days) >= MinObs
  BY DEF Enough
<1>4. all # {}
  BY <1>3
<1>5. Cardinality(all) >= MinObs
  BY <1>1, <1>2, <1>3
<1>6. QED
  BY <1>4, <1>5 DEF Enough

-----------------------------------------------------------------------------
(* What a stage finds *)

(***************************************************************************)
(* A read that found something, as of whatever cutoff, finds something     *)
(* among all the rows there are.                                           *)
(***************************************************************************)
LEMMA FoundHas ==
  ASSUME NEW stages, NEW q, q.read \in ReadKinds, NEW a, NEW d \in Nat, NEW c,
         Found(q, a, d, c) # {}, q.read = "mem" => HasRead(stages, q, a, d)
  PROVE  HasRead(stages, q, a, d)
<1>1. CASE q.read = "raw"
  BY <1>1, RawAsOfHas DEF Found, HasRead, HasRawRead
<1>2. CASE q.read = "rawPast"
  <2>1. Base(UNION {RawAsOf(q.of, x, c) : x \in Past(d)}) # {}
    BY <1>2 DEF Found
  <2>2. PICK x \in Past(d) : RawAsOf(q.of, x, c) # {}
    BY <2>1 DEF Base
  <2>3. QED
    BY <1>2, <2>2, RawAsOfHas DEF HasRead, HasRawRead
<1>3. CASE q.read = "rawSeries"
  <2>1. LastRaw(q.of, d, c) # {}
    BY <1>3 DEF Found
  <2>2. Enough(RawDays(q.of, d, c))
    BY <2>1 DEF LastRaw, LastDayOf, Enough
  <2>3. RawDays(q.of, d, c) \subseteq {x \in WindowOf(d) : HasRaw(q.of, x)}
    BY RawAsOfHas DEF RawDays, WindowOf
  <2>4. {x \in WindowOf(d) : HasRaw(q.of, x)} \subseteq 0 .. d
    BY DEF WindowOf
  <2>5. Enough({x \in WindowOf(d) : HasRaw(q.of, x)})
    BY <2>2, <2>3, <2>4, EnoughMore
  <2>6. QED
    BY <1>3, <2>5 DEF HasRead, HasRawRead
<1>4. CASE q.read = "rawWindow"
  <2>1. \A x \in d - Lag .. d : RawAsOf(q.of, x, c) # {}
    BY <1>4 DEF Found
  <2>2. QED
    BY <1>4, <2>1, RawAsOfHas DEF HasRead, HasRawRead
<1>5. CASE q.read = "rawCoin"
  BY <1>5, RawAsOfHas DEF Found, HasRead, HasRawRead
<1>6. CASE q.read = "mem"
  BY <1>6
<1>7. CASE q.read = "grown"
  <2>1. Cardinality(SeriesDays(Key(q.of, a), d, c)) + 1 >= MinObs
    BY <1>7 DEF Found
  <2>2. SeriesDays(Key(q.of, a), d, c) \subseteq {x \in WindowOf(d) : HasFeat(Key(q.of, a), x)}
    BY GetLatestHas DEF SeriesDays, WindowOf
  <2>3. {x \in WindowOf(d) : HasFeat(Key(q.of, a), x)} \subseteq 0 .. d
    BY DEF WindowOf
  <2>4. /\ Cardinality(SeriesDays(Key(q.of, a), d, c)) \in Nat
        /\ Cardinality({x \in WindowOf(d) : HasFeat(Key(q.of, a), x)}) \in Nat
        /\ Cardinality(SeriesDays(Key(q.of, a), d, c))
             <= Cardinality({x \in WindowOf(d) : HasFeat(Key(q.of, a), x)})
    BY <2>2, <2>3, MoreDays
  <2>5. Cardinality({x \in WindowOf(d) : HasFeat(Key(q.of, a), x)}) + 1 >= MinObs
    BY <2>1, <2>4, DomainAssumption
  <2>6. QED
    BY <1>7, <2>5 DEF HasRead
<1>8. CASE q.read = "latest"
  BY <1>8, GetLatestHas DEF Found, HasRead
<1>9. CASE q.read = "past"
  <2>1. Base(UNION {GetLatest(Key(q.of, a), x, c) : x \in Past(d)}) # {}
    BY <1>9 DEF Found
  <2>2. PICK x \in Past(d) : GetLatest(Key(q.of, a), x, c) # {}
    BY <2>1 DEF Base
  <2>3. QED
    BY <1>9, <2>2, GetLatestHas DEF HasRead
<1>10. CASE q.read = "series"
  <2>1. LastOf(Key(q.of, a), d, c) # {}
    BY <1>10 DEF Found
  <2>2. Enough(SeriesDays(Key(q.of, a), d, c))
    BY <2>1 DEF LastOf, LastDayOf, Enough
  <2>3. SeriesDays(Key(q.of, a), d, c) \subseteq {x \in WindowOf(d) : HasFeat(Key(q.of, a), x)}
    BY GetLatestHas DEF SeriesDays, WindowOf
  <2>4. {x \in WindowOf(d) : HasFeat(Key(q.of, a), x)} \subseteq 0 .. d
    BY DEF WindowOf
  <2>5. Enough({x \in WindowOf(d) : HasFeat(Key(q.of, a), x)})
    BY <2>2, <2>3, <2>4, EnoughMore
  <2>6. QED
    BY <1>10, <2>5 DEF HasRead
<1>11. QED
  BY <1>1, <1>2, <1>3, <1>4, <1>5, <1>6, <1>7, <1>8, <1>9, <1>10 DEF ReadKinds

(***************************************************************************)
(* A cutoff no row lies behind hides nothing: what is there is found.      *)
(***************************************************************************)
LEMMA HasFound ==
  ASSUME Stamped, now \in Nat, NEW stages, NEW q, NEW a, NEW d \in Nat, NEW c \in Nat, now <= c,
         HasRead(stages, q, a, d), q.read = "mem" => mem[q.of] # {}
  PROVE  Found(q, a, d, c) # {}
<1> DEFINE k == Key(q.of, a)
<1>1. CASE q.read = "raw" /\ HasRaw(q.of, d)
  BY <1>1, RawAsOfFinds DEF Found
<1>2. CASE q.read = "rawPast" /\ \E x \in Past(d) : HasRaw(q.of, x)
  <2>1. PICK x \in Past(d) : RawAsOf(q.of, x, c) # {}
    BY <1>2, RawAsOfFinds
  <2>2. Base(UNION {RawAsOf(q.of, y, c) : y \in Past(d)}) # {}
    BY <2>1 DEF Base
  <2>3. QED
    BY <1>2, <2>2 DEF Found
<1>3. CASE q.read = "rawSeries" /\ Enough({x \in WindowOf(d) : HasRaw(q.of, x)})
  <2>1. RawDays(q.of, d, c) = {x \in WindowOf(d) : HasRaw(q.of, x)}
    BY RawAsOfFinds, RawAsOfHas DEF RawDays, WindowOf
  <2>2. Enough(RawDays(q.of, d, c)) /\ RawDays(q.of, d, c) \subseteq 0 .. d
    BY <1>3, <2>1 DEF RawDays
  <2>3. PICK x \in LastDayOf(RawDays(q.of, d, c)) : TRUE
    BY <2>2, LastDayThere DEF Enough
  <2>4. RawAsOf(q.of, x, c) # {}
    BY <2>3 DEF LastDayOf, RawDays
  <2>5. LastRaw(q.of, d, c) # {}
    BY <2>2, <2>3, <2>4 DEF LastRaw, Enough
  <2>6. QED
    BY <1>3, <2>5 DEF Found
<1>4. CASE q.read = "rawWindow" /\ \A x \in d - Lag .. d : HasRaw(q.of, x)
  <2>1. \A x \in d - Lag .. d : RawAsOf(q.of, x, c) # {}
    BY <1>4, RawAsOfFinds
  <2>2. d \in d - Lag .. d
    BY DomainAssumption
  <2>3. QED
    BY <1>4, <2>1, <2>2 DEF Found
<1>5. CASE q.read = "rawCoin" /\ HasRaw(CoinIDForAsset(a), d)
  BY <1>5, RawAsOfFinds DEF Found
<1>6. CASE q.read = "mem"
  BY <1>6 DEF Found
<1>7. CASE q.read = "grown" /\ Cardinality({x \in WindowOf(d) : HasFeat(k, x)}) + 1 >= MinObs
  <2>1. SeriesDays(k, d, c) = {x \in WindowOf(d) : HasFeat(k, x)}
    BY GetLatestFinds, GetLatestHas DEF SeriesDays, WindowOf
  <2>2. QED
    BY <1>7, <2>1 DEF Found
<1>8. CASE q.read = "latest" /\ HasFeat(k, d)
  BY <1>8, GetLatestFinds DEF Found
<1>9. CASE q.read = "past" /\ \E x \in Past(d) : HasFeat(k, x)
  <2>1. PICK x \in Past(d) : GetLatest(k, x, c) # {}
    BY <1>9, GetLatestFinds
  <2>2. Base(UNION {GetLatest(k, y, c) : y \in Past(d)}) # {}
    BY <2>1 DEF Base
  <2>3. QED
    BY <1>9, <2>2 DEF Found
<1>10. CASE q.read = "series" /\ Enough({x \in WindowOf(d) : HasFeat(k, x)})
  <2>1. SeriesDays(k, d, c) = {x \in WindowOf(d) : HasFeat(k, x)}
    BY GetLatestFinds, GetLatestHas DEF SeriesDays, WindowOf
  <2>2. Enough(SeriesDays(k, d, c)) /\ SeriesDays(k, d, c) \subseteq 0 .. d
    BY <1>10, <2>1 DEF SeriesDays
  <2>3. PICK x \in LastDayOf(SeriesDays(k, d, c)) : TRUE
    BY <2>2, LastDayThere DEF Enough
  <2>4. GetLatest(k, x, c) # {}
    BY <2>3 DEF LastDayOf, SeriesDays
  <2>5. LastOf(k, d, c) # {}
    BY <2>2, <2>3, <2>4 DEF LastOf, Enough
  <2>6. QED
    BY <1>10, <2>5 DEF Found
<1> HIDE DEF k
<1>11. QED
  BY <1>1, <1>2, <1>3, <1>4, <1>5, <1>6, <1>7, <1>8, <1>9, <1>10 DEF HasRead, HasRawRead, k

\* rows are never deleted, so what is there stays there
LEMMA HasRawReadStays ==
  ASSUME raws \subseteq raws', NEW q, NEW a, NEW d \in Nat, HasRawRead(q, a, d)
  PROVE  HasRawRead(q, a, d)'
<1>1. \A feed, x : HasRaw(feed, x) => HasRaw(feed, x)'
  BY DEF HasRaw
<1>2. CASE q.read = "rawSeries" /\ Enough({x \in WindowOf(d) : HasRaw(q.of, x)})
  <2>1. {x \in WindowOf(d) : HasRaw(q.of, x)} \subseteq {x \in WindowOf(d) : HasRaw(q.of, x)'}
    BY <1>1
  <2>2. {x \in WindowOf(d) : HasRaw(q.of, x)'} \subseteq 0 .. d
    BY DEF WindowOf
  <2>3. Enough({x \in WindowOf(d) : HasRaw(q.of, x)'})
    BY <1>2, <2>1, <2>2, EnoughMore
  <2>4. QED
    BY <1>2, <2>3 DEF HasRawRead
<1>3. QED
  BY <1>1, <1>2 DEF HasRawRead

LEMMA HasReadStays ==
  ASSUME raws \subseteq raws', feats \subseteq feats', NEW stages, NEW q, NEW a, NEW d \in Nat,
         HasRead(stages, q, a, d)
  PROVE  HasRead(stages, q, a, d)'
<1>1. \A k, x : HasFeat(k, x) => HasFeat(k, x)'
  BY DEF HasFeat
<1>2. CASE HasRawRead(q, a, d)
  BY <1>2, HasRawReadStays DEF HasRead
<1>3. CASE q.read = "mem" /\ \E j \in DOMAIN stages : stages[j].out = q.of /\ HasRaws(stages[j], a, d)
  <2>1. PICK j \in DOMAIN stages : stages[j].out = q.of /\ HasRaws(stages[j], a, d)
    BY <1>3
  <2>2. HasRaws(stages[j], a, d)'
    BY <2>1, HasRawReadStays DEF HasRaws
  <2>3. QED
    BY <1>3, <2>1, <2>2 DEF HasRead
<1>4. CASE q.read = "grown" /\ Cardinality({x \in WindowOf(d) : HasFeat(Key(q.of, a), x)}) + 1 >= MinObs
  <2>1. {x \in WindowOf(d) : HasFeat(Key(q.of, a), x)} \subseteq {x \in WindowOf(d) : HasFeat(Key(q.of, a), x)'}
    BY <1>1
  <2>2. {x \in WindowOf(d) : HasFeat(Key(q.of, a), x)'} \subseteq 0 .. d
    BY DEF WindowOf
  <2>3. /\ Cardinality({x \in WindowOf(d) : HasFeat(Key(q.of, a), x)}) \in Nat
        /\ Cardinality({x \in WindowOf(d) : HasFeat(Key(q.of, a), x)'}) \in Nat
        /\ Cardinality({x \in WindowOf(d) : HasFeat(Key(q.of, a), x)})
             <= Cardinality({x \in WindowOf(d) : HasFeat(Key(q.of, a), x)'})
    BY <2>1, <2>2, MoreDays
  <2>4. Cardinality({x \in WindowOf(d) : HasFeat(Key(q.of, a), x)'}) + 1 >= MinObs
    BY <1>4, <2>3, DomainAssumption
  <2>5. QED
    BY <1>4, <2>4 DEF HasRead, Key
<1>5. CASE q.read = "series" /\ Enough({x \in WindowOf(d) : HasFeat(Key(q.of, a), x)})
  <2>1. {x \in WindowOf(d) : HasFeat(Key(q.of, a), x)} \subseteq {x \in WindowOf(d) : HasFeat(Key(q.of, a), x)'}
    BY <1>1
  <2>2. {x \in WindowOf(d) : HasFeat(Key(q.of, a), x)'} \subseteq 0 .. d
    BY DEF WindowOf
  <2>3. Enough({x \in WindowOf(d) : HasFeat(Key(q.of, a), x)'})
    BY <1>5, <2>1, <2>2, EnoughMore
  <2>4. QED
    BY <1>5, <2>3 DEF HasRead, Key
<1>6. CASE q.read = "latest" /\ HasFeat(Key(q.of, a), d)
  BY <1>1, <1>6 DEF HasRead, Key
<1>7. CASE q.read = "past" /\ \E x \in Past(d) : HasFeat(Key(q.of, a), x)
  <2>1. PICK x \in Past(d) : HasFeat(Key(q.of, a), x)'
    BY <1>1, <1>7
  <2>2. QED
    BY <1>7, <2>1 DEF HasRead, Key
<1>8. QED
  BY <1>2, <1>3, <1>4, <1>5, <1>6, <1>7 DEF HasRead

\* a stage whose reads all find something has a value
LEMMA StageFinds ==
  ASSUME NEW st \in StageType, NEW a, NEW d, NEW c, NEW k \in DOMAIN st.alts,
         \A q \in st.alts[k] : Found(q, a, d, c) # {}
  PROVE  StageValue(st, a, d, c) # {}
<1> DEFINE ok == {i \in DOMAIN st.alts : \A q \in st.alts[i] : Found(q, a, d, c) # {}}
<1>1. ok \in SUBSET Nat /\ ok # {}
  <2>1. st.alts \in Seq(SUBSET [read : ReadKinds, of : STRING])
    BY DEF StageType
  <2>2. DOMAIN st.alts \subseteq Nat
    BY <2>1
  <2>3. QED
    BY <2>2
<1>2. PICK m \in ok : \A i \in ok : m <= i
  <2> HIDE DEF ok
  <2>1. QED
    BY <1>1, LeastExists
<1>3. QED
  BY <1>2 DEF StageValue

\* and the alternative it takes has found all its reads
LEMMA StageTook ==
  ASSUME NEW st, NEW a, NEW d, NEW c, NEW src \in StageValue(st, a, d, c)
  PROVE  \E k \in DOMAIN st.alts :
           /\ \A q \in st.alts[k] : Found(q, a, d, c) # {}
           /\ src = UNION {UNION Found(q, a, d, c) : q \in st.alts[k]}
BY DEF StageValue

\* the stage at hand is one of the tables
LEMMA StageTypeAt ==
  ASSUME TypeOK, AtStage
  PROVE  /\ idx \in DOMAIN StageSeq /\ StageSeq[idx] \in StageType
         /\ StageSeq \in {GlobalStages, AssetStages}
         /\ \A k \in DOMAIN StageSeq[idx].alts : \A q \in StageSeq[idx].alts[k] :
              /\ q.read \in ReadKinds
              /\ q.read = "mem" => q.of \in MemNames
<1>1. idx \in DOMAIN StageSeq /\ StageSeq[idx] \in StageType /\ StageSeq \in {GlobalStages, AssetStages}
  BY DomainAssumption DEF TypeOK, AtStage, StageSeq
<1>2. \A k \in DOMAIN StageSeq[idx].alts : \A q \in StageSeq[idx].alts[k] : q \in Reads(StageSeq)
  BY <1>1 DEF Reads
<1>3. \A q \in Reads(StageSeq) : q.read = "mem" => q.of \in MemNames
  BY <1>1 DEF MemNames
<1>4. \A k \in DOMAIN StageSeq[idx].alts : \A q \in StageSeq[idx].alts[k] : q.read \in ReadKinds
  BY <1>1 DEF StageType
<1>5. QED
  BY <1>1, <1>2, <1>3, <1>4

\* the features that are done when a sequence of stages begins
Before == IF ai = 0 THEN {} ELSE Outs(GlobalStages)

\* the tables keep their order
LEMMA OrderAt ==
  ASSUME StagesInOrder
  PROVE  InOrder(StageSeq, Before)
BY DEF StagesInOrder, StageSeq, Before

\* a stage with a value has what it reads among the rows there are
LEMMA StageHas ==
  ASSUME TypeOK, MemRecomputable, AtStage, StageResult # {}
  PROVE  HasReads(StageSeq, StageSeq[idx], AssetNow, day)
<1> DEFINE st == StageSeq[idx]
<1>1. PICK k \in DOMAIN st.alts : \A q \in st.alts[k] : Found(q, AssetNow, day, cutoff) # {}
  BY StageTook DEF StageResult
<1>2. day \in Nat
  BY DEF TypeOK
<1>3. ASSUME NEW q \in st.alts[k] PROVE HasRead(StageSeq, q, AssetNow, day)
  <2>1. q.read \in ReadKinds /\ (q.read = "mem" => q.of \in MemNames)
    BY StageTypeAt
  <2>2. Found(q, AssetNow, day, cutoff) # {}
    BY <1>1
  <2>3. ASSUME q.read = "mem" PROVE HasRead(StageSeq, q, AssetNow, day)
    <3>1. mem[q.of] # {} /\ q.of \in MemNames
      BY <2>1, <2>2, <2>3 DEF Found
    <3>2. PICK j \in DOMAIN StageSeq : StageSeq[j].out = q.of /\ HasRaws(StageSeq[j], AssetNow, day)
      BY <3>1 DEF MemRecomputable, AtStage
    <3>3. QED
      BY <2>3, <3>2 DEF HasRead
  <2>4. QED
    BY <1>2, <2>1, <2>2, <2>3, FoundHas
<1>4. QED
  BY <1>1, <1>3 DEF HasReads

(***************************************************************************)
(* While a backfill sees its own writes, a stage that has what it reads    *)
(* has a value.                                                            *)
(***************************************************************************)
LEMMA StageHasValue ==
  ASSUME TypeOK, StagesInOrder, CleanPass, now <= cutoff, MemFresh, AtStage,
         HasReads(StageSeq, StageSeq[idx], AssetNow, day)
  PROVE  StageResult # {}
<1> DEFINE st == StageSeq[idx]
<1>1. PICK k \in DOMAIN st.alts : \A q \in st.alts[k] : HasRead(StageSeq, q, AssetNow, day)
  BY DEF HasReads
<1>2. Stamped /\ now \in Nat /\ cutoff \in Nat /\ day \in Nat
  BY TypeSplit DEF TypeOK
<1>3. idx \in DOMAIN StageSeq /\ st \in StageType
  BY StageTypeAt
<1>4. ASSUME NEW q \in st.alts[k] PROVE Found(q, AssetNow, day, cutoff) # {}
  <2>1. ASSUME q.read = "mem" PROVE mem[q.of] # {}
    <3>1. PICK i \in DOMAIN StageSeq : StageSeq[i].out = q.of /\ HasRaws(StageSeq[i], AssetNow, day)
      BY <1>1, <2>1 DEF HasRead, HasRawRead
    <3>2. PICK j \in DOMAIN StageSeq : j < idx /\ StageSeq[j].out = q.of
      BY <1>3, <2>1, OrderAt DEF InOrder
    <3>3. i = j
      BY <3>1, <3>2, OrderAt DEF InOrder
    <3>4. q.of \in MemNames
      BY <2>1, StageTypeAt
    <3>5. QED
      BY <3>1, <3>2, <3>3, <3>4 DEF MemFresh, AtStage
  <2>2. HasRead(StageSeq, q, AssetNow, day)
    BY <1>1
  <2>3. QED
    BY <1>2, <2>1, <2>2, HasFound
<1>5. QED
  BY <1>3, <1>4, StageFinds DEF StageResult

\* the newest row of a raw table has the newest version
LEMMA RawFresh ==
  ASSUME Stamped, RawOrdered, NEW feed, NEW x, NEW c \in Nat, now \in Nat, now <= c, NEW d,
         NEW src \in RawAsOf(feed, x, c)
  PROVE  Fresh(src, d)
<1>1. PICK r \in raws : /\ src = {r.s} /\ r.s.feed = feed /\ r.s.day = x
                        /\ \A q \in {q \in raws : q.s.feed = feed /\ q.s.day = x /\ q.at <= c} : q.at <= r.at
  BY DEF RawAsOf, Newest
<1>2. ASSUME NEW q \in raws, q.s.feed = feed, q.s.day = x PROVE q.s.ver <= r.s.ver
  <2>1. q.at <= c
    BY DEF Stamped, Rows
  <2>2. q.at <= r.at
    BY <1>1, <1>2, <2>1
  <2>3. QED
    BY <2>2 DEF RawOrdered
<1>3. QED
  BY <1>1, <1>2 DEF Fresh

\* what a backfill reads of the features of the day is of the newest versions
LEMMA LatestFresh ==
  ASSUME TypeOK, LiveFeaturesApart, RawOrdered, Recomputable, PassFresh, CleanPass, now <= cutoff,
         NEW f, f \in AllOuts => f \in DoneOuts, NEW src \in GetLatest(Key(f, AssetNow), day, cutoff)
  PROVE  Fresh(src, day)
<1>1. CASE f \in AllOuts
  BY <1>1 DEF PassFresh
<1>2. CASE f \notin AllOuts
  <2>1. PICK r \in feats : r.key = Key(f, AssetNow) /\ r.src = src
    BY DEF GetLatest, Newest
  <2>2. r.key[1] = f
    BY <2>1 DEF Key
  <2>3. \A s \in src : s.feed \in LiveFeatures
    BY <1>2, <2>1, <2>2 DEF Recomputable
  <2>4. \A q \in raws : q.s.feed \notin LiveFeatures
    BY DEF RawOrdered, LiveFeaturesApart
  <2>5. QED
    BY <2>3, <2>4 DEF Fresh
<1>3. QED
  BY <1>1, <1>2

\* what a stage reads of a feature was computed in this pass
LEMMA ReadsDone ==
  ASSUME TypeOK, StagesInOrder, AtStage, NEW k \in DOMAIN StageSeq[idx].alts, NEW q \in StageSeq[idx].alts[k],
         q.read \in {"latest", "series"}, q.of \in AllOuts
  PROVE  q.of \in DoneOuts
<1>1. q.of \in Before \cup OutsBefore(StageSeq, idx)
  BY OrderAt, StageTypeAt DEF InOrder
<1>2. QED
  BY <1>1 DEF Before, DoneOuts, StageSeq

(***************************************************************************)
(* So what a stage computes has no older version of a sample of the day    *)
(* than the raw tables have.                                               *)
(***************************************************************************)
LEMMA StageFresh ==
  ASSUME TypeOK, StagesInOrder, LiveFeaturesApart, FeatSeen("day"), RawOrdered, Recomputable,
         PassFresh, MemFresh, CleanPass, now <= cutoff, AtStage, NEW src \in StageResult
  PROVE  Fresh(src, day)
<1> DEFINE st == StageSeq[idx]
<1>1. PICK k \in DOMAIN st.alts : src = UNION {UNION Found(q, AssetNow, day, cutoff) : q \in st.alts[k]}
  BY StageTook DEF StageResult
<1>2. Stamped /\ now \in Nat /\ cutoff \in Nat /\ day \in Nat
  BY TypeSplit DEF TypeOK
<1>3. ASSUME NEW q \in st.alts[k], NEW v \in Found(q, AssetNow, day, cutoff) PROVE Fresh(v, day)
  <2>1. q.read \in ReadKinds /\ (q.read = "mem" => q.of \in MemNames)
    BY StageTypeAt
  <2>2. CASE q.read \in {"raw", "rawWindow"}
    <3>1. v \in RawAsOf(q.of, day, cutoff)
      BY <2>2 DEF Found
    <3>2. QED
      BY <1>2, <3>1, RawFresh
  <2>3. CASE q.read = "rawCoin"
    <3>1. v \in RawAsOf(CoinIDForAsset(AssetNow), day, cutoff)
      BY <2>3 DEF Found
    <3>2. QED
      BY <1>2, <3>1, RawFresh
  <2>4. CASE q.read = "rawSeries"
    <3>1. PICK x : v \in RawAsOf(q.of, x, cutoff)
      BY <2>4 DEF Found, LastRaw
    <3>2. QED
      BY <1>2, <3>1, RawFresh
  <2>5. CASE q.read \in {"rawPast", "past", "grown"}
    <3>1. v = {}
      BY <2>5 DEF Found, Base
    <3>2. QED
      BY <3>1 DEF Fresh
  <2>6. CASE q.read = "mem"
    <3>1. v \in mem[q.of]
      BY <2>6 DEF Found
    <3>2. QED
      BY <2>1, <2>6, <3>1 DEF MemFresh, AtStage
  <2>7. CASE q.read = "latest"
    <3>1. v \in GetLatest(Key(q.of, AssetNow), day, cutoff)
      BY <2>7 DEF Found
    <3>2. q.of \in AllOuts => q.of \in DoneOuts
      BY <2>7, ReadsDone
    <3>3. QED
      BY <3>1, <3>2, LatestFresh
  <2>8. CASE q.read = "series"
    <3>1. PICK x \in SeriesDays(Key(q.of, AssetNow), day, cutoff) :
            v \in GetLatest(Key(q.of, AssetNow), x, cutoff)
      BY <2>8 DEF Found, LastOf, LastDayOf
    <3>2. x \in Nat /\ x <= day
      BY DEF SeriesDays
    <3>3. CASE x = day
      <4>1. q.of \in AllOuts => q.of \in DoneOuts
        BY <2>8, ReadsDone
      <4>2. QED
        BY <3>1, <3>3, <4>1, LatestFresh
    <3>4. CASE x < day
      <4>1. Seen(v, x, "day")
        BY <3>1, <3>2, GetLatestSeen DEF Times
      <4>2. \A s \in v : s.day < day
        BY <1>2, <3>2, <3>4, <4>1 DEF Seen
      <4>3. QED
        BY <1>2, <4>1, <4>2 DEF Fresh, Seen
    <3>5. QED
      BY <1>2, <3>2, <3>3, <3>4
  <2>9. QED
    BY <2>1, <2>2, <2>3, <2>4, <2>5, <2>6, <2>7, <2>8 DEF ReadKinds
<1>4. QED
  BY <1>1, <1>3 DEF Fresh

-----------------------------------------------------------------------------
(* The invariant of a pass is kept *)

\* only ingestions write raw rows, of the versions the providers serve
LEMMA RawsStep ==
  ASSUME TypeOK, [Next]_vars
  PROVE  \/ raws' = raws
         \/ \E samples : /\ raws' = Ingested(samples) /\ now' = now + 1
                         /\ \A s \in samples : s.ver = rev /\ s.feed \in RawFeeds
<1> USE DEF store, world
<1>1. ASSUME NEW f \in Foreign, ForeignIngest(f)
      PROVE  \E samples : /\ raws' = Ingested(samples) /\ now' = now + 1
                          /\ \A s \in samples : s.ver = rev /\ s.feed \in RawFeeds
  <2>1. \A s \in {Sample(f, d, d) : d \in 0 .. today} : s.ver = rev /\ s.feed \in RawFeeds
    BY DEF Sample, RawFeeds
  <2>2. QED
    BY <1>1, <2>1 DEF ForeignIngest
<1>2. ASSUME IngestSave, raws' # raws
      PROVE  \E samples : /\ raws' = Ingested(samples) /\ now' = now + 1
                          /\ \A s \in samples : s.ver = rev /\ s.feed \in RawFeeds
  <2> DEFINE f == FeedSeq[idx]
  <2>1. f.kind # "feature" /\ raws' = Ingested(Fetched(f)) /\ now' = now + 1 /\ AtFeed
    BY <1>2 DEF IngestSave
  <2>2. f \in FeedType
    BY <2>1, FeedSeqType DEF TypeOK
  <2>3. f.kind \in {"history", "ranged", "padded", "today", "asked"}
    BY <2>1, <2>2 DEF FeedType
  <2>4. f \in {Feeds[i] : i \in DOMAIN Feeds} \cup {BackfillFeeds[i] : i \in DOMAIN BackfillFeeds}
    BY <2>1, DomainAssumption DEF TypeOK, AtFeed, FeedSeq
  <2>5. f.name \in RawFeeds
    BY <2>3, <2>4 DEF RawFeeds, FeedsOf
  <2> HIDE DEF f
  <2>6. \A s \in Fetched(f) : s.ver = rev /\ s.feed = f.name
    BY <2>3 DEF Fetched, Sample
  <2>7. QED
    BY <2>1, <2>5, <2>6
<1>3. CASE ~IngestSave /\ ~\E f \in Foreign : ForeignIngest(f)
  BY <1>3 DEF Next, NextDay, Revise, RunOnce, RunBackfill, Begin, Abort, IngestNothing,
    IngestFails, IngestPublish, TakeCutoff, ComputeStage, LoseFeature, EnterAssets,
    SaveScore, Announce, vars
<1>4. QED
  BY <1>1, <1>2, <1>3

\* providers revise what they serve, never back
LEMMA RevStep ==
  ASSUME TypeOK, [Next]_vars
  PROVE  rev' = rev \/ rev' = rev + 1
BY DEF Next, NextDay, Revise, ForeignIngest, RunOnce, RunBackfill, Begin, Abort, IngestSave,
  IngestNothing, IngestFails, IngestPublish, TakeCutoff, ComputeStage, LoseFeature, EnterAssets,
  SaveScore, Announce, vars, world

\* later rows have later versions
LEMMA RawOrderedStep ==
  ASSUME TypeOK, RawOrdered, [Next]_vars
  PROVE  RawOrdered'
<1>1. rev \in Nat /\ rev' \in Nat /\ rev <= rev' /\ now \in Nat
  BY RevStep DEF TypeOK
<1>2. \A r \in raws : r.at \in 1 .. now
  BY DEF TypeOK
<1>3. CASE raws' = raws
  BY <1>1, <1>3 DEF RawOrdered
<1>4. ASSUME NEW samples, raws' = Ingested(samples), now' = now + 1,
             \A s \in samples : s.ver = rev /\ s.feed \in RawFeeds
      PROVE  RawOrdered'
  <2>1. \A r \in raws' : r \in raws \/ (r.at = now + 1 /\ r.s.ver = rev /\ r.s.feed \in RawFeeds)
    BY <1>4 DEF Ingested
  <2>2. \A r \in raws' : r.s.ver \in Nat /\ r.s.ver <= rev /\ r.s.feed \in RawFeeds
    BY <1>1, <2>1 DEF RawOrdered
  <2>3. ASSUME NEW r \in raws', NEW q \in raws', r.at <= q.at PROVE r.s.ver <= q.s.ver
    <3>1. CASE q \in raws /\ r \in raws
      BY <2>3, <3>1 DEF RawOrdered
    <3>2. CASE q \notin raws
      BY <2>1, <2>2, <3>2
    <3>3. CASE q \in raws /\ r \notin raws
      BY <1>1, <1>2, <2>1, <2>3, <3>3
    <3>4. QED
      BY <3>1, <3>2, <3>3
  <2>4. \A r \in raws' : r.s.ver <= rev'
    BY <1>1, <2>2
  <2>5. QED
    BY <2>2, <2>3, <2>4 DEF RawOrdered
<1>5. QED
  BY <1>3, <1>4, RawsStep

\* only a stage and the live snapshots write features
LEMMA FeatsStep ==
  ASSUME [Next]_vars
  PROVE  feats' = feats \/ ComputeStage \/ (IngestSave /\ FeedSeq[idx].kind = "feature")
BY DEF Next, NextDay, Revise, ForeignIngest, RunOnce, RunBackfill, Begin, Abort, IngestSave,
  IngestNothing, IngestFails, IngestPublish, TakeCutoff, LoseFeature, EnterAssets,
  SaveScore, Announce, vars, store

\* a live feature is the feature of a feed, and holds nothing else
LEMMA LiveFeatureRow ==
  ASSUME TypeOK, IngestSave, FeedSeq[idx].kind = "feature", NEW r \in feats', r \notin feats
  PROVE  /\ r.key[1] \in LiveFeatures /\ r.day = to
         /\ \A s \in r.src : s.feed = r.key[1]
<1> DEFINE f == FeedSeq[idx]
<1>1. AtFeed
  BY DEF IngestSave
<1>2. f \in {Feeds[i] : i \in DOMAIN Feeds} \cup {BackfillFeeds[i] : i \in DOMAIN BackfillFeeds}
  <2>1. Feeds \in Seq(FeedType) /\ BackfillFeeds \in Seq(FeedType) /\ FeedSeq \in {Feeds, BackfillFeeds}
    BY DomainAssumption DEF FeedSeq
  <2>2. idx \in DOMAIN FeedSeq
    BY <1>1, <2>1 DEF TypeOK, AtFeed
  <2>3. QED
    BY <2>1, <2>2
<1>3. f.name \in LiveFeatures
  BY <1>2 DEF LiveFeatures, FeedsOf
<1>4. r.key[1] = f.name /\ r.day = to /\ r.src = Fetched(f)
  BY DEF IngestSave
<1>5. \A s \in Fetched(f) : s.feed = f.name
  BY DEF Fetched, Sample
<1>6. QED
  BY <1>3, <1>4, <1>5

\* what was computed once can be computed again, whatever is written later
LEMMA RecomputableStep ==
  ASSUME TypeOK, StagesInOrder, LiveFeaturesApart, FeatSeen("day"), MemRecomputable, Recomputable,
         [Next]_vars
  PROVE  Recomputable'
<1>1. raws \subseteq raws' /\ feats \subseteq feats'
  BY AppendOnly DEF TypeOK, Appends, Grows
<1>2. ASSUME NEW stages, NEW st, NEW a, NEW d \in Nat, HasReads(stages, st, a, d)
      PROVE  HasReads(stages, st, a, d)'
  BY <1>1, <1>2, HasReadStays DEF HasReads
<1> DEFINE Old(r) ==
      /\ r.key[1] \notin AllOuts => \A s \in r.src : s.feed \in LiveFeatures
      /\ \A i \in DOMAIN GlobalStages :
           r.key[1] = GlobalStages[i].out => HasReads(GlobalStages, GlobalStages[i], "GLOBAL", r.day)
      /\ \A i \in DOMAIN AssetStages :
           r.key[1] = AssetStages[i].out => HasReads(AssetStages, AssetStages[i], r.key[2], r.day)
<1>3. ASSUME NEW r, r.day \in Nat, Old(r)
      PROVE  /\ r.key[1] \notin AllOuts => \A s \in r.src : s.feed \in LiveFeatures
             /\ \A i \in DOMAIN GlobalStages :
                  r.key[1] = GlobalStages[i].out => HasReads(GlobalStages, GlobalStages[i], "GLOBAL", r.day)'
             /\ \A i \in DOMAIN AssetStages :
                  r.key[1] = AssetStages[i].out => HasReads(AssetStages, AssetStages[i], r.key[2], r.day)'
  BY <1>2, <1>3
<1>4. ASSUME NEW r \in feats' PROVE r.day \in Nat /\ Old(r)
  <2>1. CASE r \in feats
    BY <2>1 DEF Recomputable, FeatSeen
  <2>2. CASE r \notin feats /\ IngestSave /\ FeedSeq[idx].kind = "feature"
    <3>1. r.key[1] \in LiveFeatures /\ r.day = to /\ \A s \in r.src : s.feed = r.key[1]
      BY <2>2, LiveFeatureRow
    <3>2. r.key[1] \notin AllOuts
      BY <3>1 DEF LiveFeaturesApart
    <3>3. \A i \in DOMAIN GlobalStages : GlobalStages[i].out \in AllOuts
      BY DEF AllOuts, Outs
    <3>4. \A i \in DOMAIN AssetStages : AssetStages[i].out \in AllOuts
      BY DEF AllOuts, Outs
    <3>5. QED
      BY <3>1, <3>2, <3>3, <3>4 DEF TypeOK
  <2>3. CASE r \notin feats /\ ComputeStage
    <3>1. /\ AtStage /\ r.key = Key(StageSeq[idx].out, AssetNow) /\ r.day = day
          /\ StageResult # {}
      BY <2>3 DEF ComputeStage, SaveFeature
    <3>2. HasReads(StageSeq, StageSeq[idx], AssetNow, day) /\ idx \in DOMAIN StageSeq
      BY <3>1, StageHas, StageTypeAt
    <3>3. r.key[1] = StageSeq[idx].out
      BY <3>1 DEF Key
    <3>4. CASE ai = 0
      <4>1. StageSeq = GlobalStages /\ AssetNow = "GLOBAL"
        BY <3>4 DEF StageSeq, AssetNow
      <4>2. r.key[1] \in Outs(GlobalStages)
        BY <3>2, <3>3, <4>1 DEF Outs
      <4>3. \A i \in DOMAIN AssetStages : r.key[1] # AssetStages[i].out
        BY <4>2 DEF StagesInOrder, Outs
      <4>4. \A i \in DOMAIN GlobalStages : r.key[1] = GlobalStages[i].out => i = idx
        BY <3>2, <3>3, <4>1 DEF StagesInOrder, InOrder
      <4>5. QED
        BY <3>1, <3>2, <4>1, <4>2, <4>3, <4>4 DEF AllOuts, TypeOK
    <3>5. CASE ai # 0
      <4>1. StageSeq = AssetStages
        BY <3>5 DEF StageSeq
      <4>2. r.key[1] \in Outs(AssetStages)
        BY <3>2, <3>3, <4>1 DEF Outs
      <4>3. \A i \in DOMAIN GlobalStages : r.key[1] # GlobalStages[i].out
        BY <4>2 DEF StagesInOrder, Outs
      <4>4. \A i \in DOMAIN AssetStages : r.key[1] = AssetStages[i].out => i = idx
        BY <3>2, <3>3, <4>1 DEF StagesInOrder, InOrder
      <4>5. r.key[2] = AssetNow
        BY <3>1, <3>3, <4>3 DEF Key, Outs
      <4>6. QED
        BY <3>1, <3>2, <4>1, <4>2, <4>3, <4>4, <4>5 DEF AllOuts, TypeOK
    <3>6. QED
      BY <3>4, <3>5
  <2>4. QED
    BY <2>1, <2>2, <2>3, FeatsStep
<1> HIDE DEF Old
<1>5. QED
  BY <1>3, <1>4 DEF Recomputable

\* the steps that lead to the computation of a feature or of a score
LEMMA ComputeSteps ==
  ASSUME [Next]_vars, mode' # "idle", phase' = "compute"
  PROVE  TakeCutoff \/ EnterAssets \/ Announce \/ ComputeStage \/ LoseFeature \/ UNCHANGED vars
<1>1. ~NextDay /\ ~Revise /\ ~\E f \in Foreign : ForeignIngest(f)
  BY DEF NextDay, Revise, ForeignIngest, Outside
<1>2. ~(\E d \in 0 .. today : RunOnce(d)) /\ ~\E f, t \in 0 .. today : RunBackfill(f, t)
  BY DEF RunOnce, RunBackfill, Begin
<1>3. ~Abort /\ ~IngestFails /\ ~IngestNothing /\ ~IngestSave /\ ~IngestPublish /\ ~SaveScore
  BY DEF Abort, IngestFails, IngestNothing, IngestSave, IngestPublish, AtFeed, SaveScore
<1>4. QED
  BY <1>1, <1>2, <1>3 DEF Next

\* the steps of an undisturbed backfill once it has its cutoff
LEMMA PassSteps ==
  ASSUME [Next]_vars, CleanPass'
  PROVE  \/ TakeCutoff
         \/ CleanPass /\ (EnterAssets \/ Announce \/ ComputeStage \/ SaveScore \/ UNCHANGED vars)
<1>1. ~NextDay /\ ~Revise /\ ~\E f \in Foreign : ForeignIngest(f)
  BY DEF NextDay, Revise, ForeignIngest, Outside, CleanPass
<1>2. ~(\E d \in 0 .. today : RunOnce(d)) /\ ~\E f, t \in 0 .. today : RunBackfill(f, t)
  BY DEF RunOnce, RunBackfill, Begin, CleanPass
<1>3. ~Abort /\ ~IngestFails /\ ~IngestNothing /\ ~IngestSave /\ ~IngestPublish /\ ~LoseFeature
  BY DEF Abort, IngestFails, IngestNothing, IngestSave, IngestPublish, AtFeed, LoseFeature, Fault, CleanPass
<1>4. CASE EnterAssets
  BY <1>4 DEF EnterAssets, CleanPass, clear
<1>5. CASE Announce
  BY <1>5 DEF Announce, CleanPass, NextAsset, NextValueDate, EndOfRun
<1>6. CASE ComputeStage \/ SaveScore
  BY <1>6 DEF ComputeStage, SaveScore, AtStage, AtScore, CleanPass, clear
<1>7. CASE UNCHANGED vars
  BY <1>7 DEF vars, clear, CleanPass
<1>8. QED
  BY <1>1, <1>2, <1>3, <1>4, <1>5, <1>6, <1>7 DEF Next

\* a stage whose value is kept in a local variable reads only raw tables
LEMMA MemStages ==
  ASSUME StagesInOrder, NEW j \in DOMAIN StageSeq, StageSeq[j].out \in MemNames
  PROVE  ReadsOnlyRaws(StageSeq[j])
<1>1. PICK q \in Reads(GlobalStages) \cup Reads(AssetStages) : q.read = "mem" /\ q.of = StageSeq[j].out
  BY DEF MemNames
<1>2. CASE q \in Reads(GlobalStages)
  <2>1. PICK i \in DOMAIN GlobalStages : \E k \in DOMAIN GlobalStages[i].alts : q \in GlobalStages[i].alts[k]
    BY <1>2 DEF Reads
  <2>2. PICK m \in DOMAIN GlobalStages : GlobalStages[m].out = q.of /\ ReadsOnlyRaws(GlobalStages[m])
    BY <1>1, <2>1 DEF StagesInOrder, InOrder
  <2>3. StageSeq = GlobalStages
    BY <1>1, <2>2 DEF StagesInOrder, StageSeq, Outs
  <2>4. m = j
    BY <1>1, <2>2, <2>3 DEF StagesInOrder, InOrder
  <2>5. QED
    BY <2>2, <2>3, <2>4
<1>3. CASE q \in Reads(AssetStages)
  <2>1. PICK i \in DOMAIN AssetStages : \E k \in DOMAIN AssetStages[i].alts : q \in AssetStages[i].alts[k]
    BY <1>3 DEF Reads
  <2>2. PICK m \in DOMAIN AssetStages : AssetStages[m].out = q.of /\ ReadsOnlyRaws(AssetStages[m])
    BY <1>1, <2>1 DEF StagesInOrder, InOrder
  <2>3. StageSeq = AssetStages
    BY <1>1, <2>2 DEF StagesInOrder, StageSeq, Outs
  <2>4. m = j
    BY <1>1, <2>2, <2>3 DEF StagesInOrder, InOrder
  <2>5. QED
    BY <2>2, <2>3, <2>4
<1>4. QED
  BY <1>2, <1>3

\* what such a stage reads does not change while the raw tables do not
LEMMA HasRawsSame ==
  ASSUME raws' = raws, NEW st, NEW a, NEW d
  PROVE  HasRaws(st, a, d)' <=> HasRaws(st, a, d)
<1>1. \A feed, x : HasRaw(feed, x)' <=> HasRaw(feed, x)
  BY DEF HasRaw
<1>2. ASSUME NEW q PROVE HasRawRead(q, a, d)' <=> HasRawRead(q, a, d)
  BY <1>1 DEF HasRawRead
<1>3. QED
  BY <1>2 DEF HasRaws

\* a stage that reads only raw tables has them when it has its reads
LEMMA RawReadsOnly ==
  ASSUME NEW stages, NEW st, ReadsOnlyRaws(st), NEW a, NEW d
  PROVE  HasReads(stages, st, a, d) <=> HasRaws(st, a, d)
<1>1. ASSUME NEW q, q.read \in RawReads PROVE HasRead(stages, q, a, d) <=> HasRawRead(q, a, d)
  BY <1>1 DEF HasRead, RawReads
<1>2. QED
  BY <1>1 DEF HasReads, HasRaws, ReadsOnlyRaws

\* the values in local variables can be computed again
LEMMA MemRecomputableStep ==
  ASSUME TypeOK, StagesInOrder, MemSeen("day"), MemRecomputable, [Next]_vars
  PROVE  MemRecomputable'
<1> SUFFICES ASSUME mode' # "idle", phase' = "compute", NEW g \in MemNames, mem'[g] # {}
             PROVE  (\E j \in DOMAIN StageSeq : StageSeq[j].out = g /\ HasRaws(StageSeq[j], AssetNow, day))'
  BY DEF MemRecomputable
<1> USE DEF store, world, span, bound, clear
<1>1. mem' # NoMem
  BY DEF NoMem
<1>2. CASE UNCHANGED vars
  <2>1. \E j \in DOMAIN StageSeq : StageSeq[j].out = g /\ HasRaws(StageSeq[j], AssetNow, day)
    BY <1>2 DEF vars, MemRecomputable
  <2>2. raws' = raws /\ UNCHANGED <<StageSeq, AssetNow, day>>
    BY <1>2 DEF vars, StageSeq, AssetNow
  <2>3. QED
    BY <2>1, <2>2, HasRawsSame
<1>3. CASE ComputeStage \/ LoseFeature
  <2>1. /\ AtStage /\ UNCHANGED <<raws, mode, phase, day, ai>>
        /\ Remember(StageSeq[idx].out, StageResult)
    BY <1>3 DEF ComputeStage, LoseFeature
  <2>2. UNCHANGED <<StageSeq, AssetNow>>
    BY <2>1 DEF StageSeq, AssetNow
  <2>3. PICK j \in DOMAIN StageSeq : StageSeq[j].out = g /\ HasRaws(StageSeq[j], AssetNow, day)
    <3>1. CASE mem'[g] = mem[g]
      BY <2>1, <3>1 DEF MemRecomputable, AtStage
    <3>2. CASE mem'[g] # mem[g]
      <4>1. StageSeq[idx].out = g /\ StageResult # {}
        BY <2>1, <3>2 DEF Remember, MemSeen
      <4>2. HasReads(StageSeq, StageSeq[idx], AssetNow, day) /\ idx \in DOMAIN StageSeq
        BY <2>1, <4>1, StageHas, StageTypeAt
      <4>3. HasRaws(StageSeq[idx], AssetNow, day)
        BY <4>1, <4>2, MemStages, RawReadsOnly
      <4>4. QED
        BY <4>1, <4>2, <4>3
    <3>3. QED
      BY <3>1, <3>2
  <2>4. HasRaws(StageSeq[j], AssetNow, day)'
    BY <2>1, <2>2, <2>3, HasRawsSame
  <2>5. QED
    BY <2>2, <2>3, <2>4
<1>4. ~TakeCutoff /\ ~EnterAssets /\ ~Announce
  BY <1>1 DEF TakeCutoff, EnterAssets, Announce
<1>5. QED
  BY <1>2, <1>3, <1>4, ComputeSteps

\* a run ingests before its first day
LEMMA AheadStep ==
  ASSUME TypeOK, Ahead, [Next]_vars
  PROVE  Ahead'
<1> USE DEF Ahead, store, world, span, bound, clear
<1>1. CASE UNCHANGED <<mode, phase, day, from, ai>>
  BY <1>1
<1>2. CASE mode' = "idle" \/ phase' = "compute"
  BY <1>2
<1>3. CASE NextDay \/ Revise \/ (\E f \in Foreign : ForeignIngest(f))
  BY <1>1, <1>3 DEF NextDay, Revise, ForeignIngest, Outside
<1>4. CASE (\E d \in 0 .. today : RunOnce(d)) \/ (\E f, t \in 0 .. today : RunBackfill(f, t))
  BY <1>4 DEF RunOnce, RunBackfill, Begin
<1>5. CASE Abort \/ IngestFails
  BY <1>2, <1>5 DEF Abort, IngestFails
<1>6. CASE IngestNothing \/ IngestSave \/ IngestPublish
  BY <1>6 DEF IngestNothing, IngestSave, IngestPublish, AtFeed
<1>7. CASE TakeCutoff \/ ComputeStage \/ LoseFeature \/ EnterAssets \/ Announce
  BY <1>2, <1>7 DEF TakeCutoff, ComputeStage, LoseFeature, EnterAssets, Announce, AtStage
<1>8. CASE SaveScore
  BY <1>8 DEF SaveScore, AtScore
<1>9. CASE UNCHANGED vars
  BY <1>1, <1>9 DEF vars
<1>10. QED
  BY <1>3, <1>4, <1>5, <1>6, <1>7, <1>8, <1>9 DEF Next

\* what is fresh stays fresh while nothing is ingested
LEMMA FreshSame ==
  ASSUME raws' = raws, NEW src, NEW d
  PROVE  Fresh(src, d)' <=> Fresh(src, d)
BY DEF Fresh

\* the local values of a pass are of the newest versions, and there when they can be
LEMMA MemFreshStep ==
  ASSUME TypeOK, StagesInOrder, LiveFeaturesApart, FeatSeen("day"), MemSeen("day"), RawOrdered,
         Recomputable, PassFresh, MemFresh, [Next]_vars
  PROVE  MemFresh'
<1> SUFFICES ASSUME CleanPass', phase' = "compute", now' <= cutoff'
             PROVE  /\ \A g \in MemNames : \A src \in mem'[g] : Fresh(src, day)'
                    /\ \A j \in DOMAIN StageSeq' :
                         (j < idx /\ StageSeq[j].out \in MemNames /\ HasRaws(StageSeq[j], AssetNow, day))' =>
                            (mem[StageSeq[j].out] # {})'
  BY DEF MemFresh
<1> USE DEF store, world, span, bound, clear
<1>1. CASE mem' = NoMem /\ idx' = 1
  <2>1. \A j \in DOMAIN StageSeq' : ~(j < 1)
    BY DomainAssumption DEF StageSeq
  <2>2. QED
    BY <1>1, <2>1 DEF NoMem
<1>2. CASE TakeCutoff \/ EnterAssets \/ Announce
  BY <1>1, <1>2 DEF TakeCutoff, EnterAssets, Announce
<1>3. CASE CleanPass /\ ComputeStage
  <2>1. /\ AtStage /\ UNCHANGED <<raws, mode, phase, day, ai, cutoff>> /\ idx' = idx + 1
        /\ Remember(StageSeq[idx].out, StageResult) /\ now' \in {now, now + 1}
    BY <1>3 DEF ComputeStage, SaveFeature
  <2>2. now <= cutoff
    BY <2>1 DEF TypeOK
  <2>3. UNCHANGED <<StageSeq, AssetNow>> /\ phase = "compute"
    BY <2>1 DEF StageSeq, AssetNow, AtStage
  <2>4. \A g \in MemNames : mem'[g] = mem[g] \/ mem'[g] = StageResult
    BY <2>1 DEF Remember, MemSeen
  <2>5. \A src \in StageResult : Fresh(src, day)
    BY <1>3, <2>1, <2>2, StageFresh
  <2>6. ASSUME NEW g \in MemNames, NEW src \in mem'[g] PROVE Fresh(src, day)'
    <3>1. Fresh(src, day)
      BY <1>3, <2>2, <2>3, <2>4, <2>5 DEF MemFresh
    <3>2. QED
      BY <2>1, <3>1 DEF Fresh
  <2>7. ASSUME NEW j \in DOMAIN StageSeq, j < idx', StageSeq[j].out \in MemNames,
               HasRaws(StageSeq[j], AssetNow, day)
        PROVE  mem'[StageSeq[j].out] # {}
    <3>1. j \in Nat /\ idx \in Nat /\ idx \in DOMAIN StageSeq
      BY <2>1, StageTypeAt, DomainAssumption DEF StageSeq, TypeOK
    <3>2. CASE j = idx
      <4>1. HasReads(StageSeq, StageSeq[idx], AssetNow, day)
        BY <2>7, <3>1, <3>2, MemStages, RawReadsOnly
      <4>2. StageResult # {}
        BY <1>3, <2>1, <2>2, <4>1, StageHasValue
      <4>3. QED
        BY <2>1, <2>7, <3>2, <4>2 DEF Remember, MemSeen
    <3>3. CASE j < idx
      <4>1. StageSeq[j].out # StageSeq[idx].out
        BY <3>1, <3>3, OrderAt DEF InOrder
      <4>2. mem[StageSeq[j].out] # {}
        BY <1>3, <2>2, <2>3, <2>7, <3>3 DEF MemFresh
      <4>3. QED
        BY <2>1, <2>7, <4>1, <4>2 DEF Remember, MemSeen
    <3>4. QED
      BY <2>1, <2>7, <3>1, <3>2, <3>3
  <2>8. ASSUME NEW j, HasRaws(StageSeq[j], AssetNow, day)' PROVE HasRaws(StageSeq[j], AssetNow, day)
    <3>1. HasRaws(StageSeq[j], AssetNow, day)' <=> HasRaws(StageSeq[j], AssetNow, day)
      BY <2>1, <2>3 DEF HasRaws, HasRawRead, HasRaw
    <3>2. QED
      BY <2>8, <3>1
  <2>9. QED
    BY <2>3, <2>6, <2>7, <2>8
<1>4. CASE UNCHANGED vars
  <2>1. UNCHANGED <<raws, mem, mode, clean, phase, now, cutoff, day, ai, idx>>
    BY <1>4 DEF vars
  <2>2. CleanPass /\ phase = "compute" /\ now <= cutoff /\ UNCHANGED <<StageSeq, AssetNow>>
    BY <2>1 DEF CleanPass, StageSeq, AssetNow
  <2>3. \A j : HasRaws(StageSeq[j], AssetNow, day)' <=> HasRaws(StageSeq[j], AssetNow, day)
    BY <2>1, <2>2 DEF HasRaws, HasRawRead, HasRaw
  <2>4. QED
    BY <2>1, <2>2, <2>3 DEF MemFresh, Fresh
<1>5. ~SaveScore
  BY DEF SaveScore
<1>6. QED
  BY <1>2, <1>3, <1>4, <1>5, PassSteps

\* a feature that finds nothing has no row of the day that could be stale
LEMMA NothingStored ==
  ASSUME TypeOK, StagesInOrder, Recomputable, MemFresh, CleanPass, now <= cutoff, AtStage, StageResult = {}
  PROVE  GetLatest(Key(StageSeq[idx].out, AssetNow), day, cutoff) = {}
<1> SUFFICES ASSUME GetLatest(Key(StageSeq[idx].out, AssetNow), day, cutoff) # {} PROVE FALSE
  OBVIOUS
<1>1. PICK r \in feats : r.key = Key(StageSeq[idx].out, AssetNow) /\ r.day = day
  BY GetLatestHas DEF HasFeat
<1>2. r.key[1] = StageSeq[idx].out /\ idx \in DOMAIN StageSeq
  BY <1>1, StageTypeAt DEF Key
<1>3. CASE ai = 0
  <2>1. StageSeq = GlobalStages /\ AssetNow = "GLOBAL"
    BY <1>3 DEF StageSeq, AssetNow
  <2>2. HasReads(StageSeq, StageSeq[idx], AssetNow, day)
    BY <1>1, <1>2, <2>1 DEF Recomputable
  <2>3. QED
    BY <2>2, StageHasValue
<1>4. CASE ai # 0
  <2>1. StageSeq = AssetStages
    BY <1>4 DEF StageSeq
  <2>2. StageSeq[idx].out \notin Outs(GlobalStages)
    BY <1>2, <2>1 DEF StagesInOrder, Outs
  <2>3. r.key[2] = AssetNow
    BY <1>1, <2>2 DEF Key
  <2>4. HasReads(StageSeq, StageSeq[idx], AssetNow, day)
    BY <1>1, <1>2, <2>1, <2>3 DEF Recomputable
  <2>5. QED
    BY <2>4, StageHasValue
<1>5. QED
  BY <1>3, <1>4

\* a read of the features does not see rows of other features or other days
LEMMA LatestSame ==
  ASSUME feats \subseteq feats', NEW k, NEW d, NEW c,
         \A r \in feats' : r \in feats \/ r.key # k \/ r.day # d
  PROVE  GetLatest(k, d, c)' = GetLatest(k, d, c)
<1>1. {r \in feats' : r.key = k /\ r.day = d /\ r.at <= c} = {r \in feats : r.key = k /\ r.day = d /\ r.at <= c}
  OBVIOUS
<1>2. QED
  BY <1>1 DEF GetLatest

\* and finds the row that was written last
LEMMA LatestNew ==
  ASSUME Stamped, now \in Nat, NEW k, NEW d, NEW c, NEW v, v # {},
         feats' = feats \cup {[key |-> k, day |-> d, src |-> s, at |-> now + 1] : s \in v}
  PROVE  \A src \in GetLatest(k, d, c)' : now + 1 <= c => src \in v
<1> SUFFICES ASSUME NEW src \in GetLatest(k, d, c)', now + 1 <= c PROVE src \in v
  OBVIOUS
<1>1. PICK r \in feats' : /\ r.src = src /\ r.key = k /\ r.day = d
                          /\ \A q \in {q \in feats' : q.key = k /\ q.day = d /\ q.at <= c} : q.at <= r.at
  BY DEF GetLatest, Newest
<1>2. PICK s \in v : TRUE
  OBVIOUS
<1>3. [key |-> k, day |-> d, src |-> s, at |-> now + 1] \in {q \in feats' : q.key = k /\ q.day = d /\ q.at <= c}
  OBVIOUS
<1>4. now + 1 <= r.at
  BY <1>1, <1>3
<1>5. r \notin feats
  BY <1>4 DEF Stamped, Rows
<1>6. QED
  BY <1>1, <1>5

\* what a pass has computed of the day so far is of the newest versions
LEMMA PassFreshStep ==
  ASSUME TypeOK, StagesInOrder, LiveFeaturesApart, FeatSeen("day"), RawOrdered, Recomputable,
         MemFresh, Ahead, PassFresh, [Next]_vars
  PROVE  PassFresh'
<1> SUFFICES ASSUME CleanPass', now' <= cutoff', NEW f \in DoneOuts',
                    NEW src \in GetLatest(Key(f, AssetNow), day, cutoff)'
             PROVE  Fresh(src, day)'
  BY DEF PassFresh
<1> USE DEF store, world, span, bound, clear
<1>1. \A stages \in {GlobalStages, AssetStages} : OutsBefore(stages, 1) = {}
  BY DomainAssumption DEF OutsBefore
<1>2. Stamped /\ now \in Nat /\ cutoff \in Nat
  BY TypeSplit DEF TypeOK
<1>3. CASE TakeCutoff
  BY <1>1, <1>3 DEF TakeCutoff, DoneOuts
<1>4. CASE CleanPass /\ (EnterAssets \/ Announce)
  <2>1. UNCHANGED <<raws, feats, cutoff>> /\ now <= now' /\ now' \in Nat
    BY <1>2, <1>4 DEF EnterAssets, Announce
  <2>2. f \in Outs(GlobalStages) /\ f \in DoneOuts /\ UNCHANGED day
    <3>1. CASE EnterAssets
      <4>1. OutsBefore(GlobalStages, idx) = Outs(GlobalStages)
        BY <3>1, DomainAssumption DEF EnterAssets, OutsBefore, Outs, TypeOK
      <4>2. DoneOuts' = Outs(GlobalStages)
        BY <1>1, <3>1 DEF EnterAssets, DoneOuts
      <4>3. QED
        BY <3>1, <4>1, <4>2 DEF EnterAssets, DoneOuts
    <3>2. CASE Announce /\ ai' = 0
      BY <1>1, <3>2 DEF Announce, DoneOuts
    <3>3. CASE Announce /\ ai' # 0
      <4>1. UNCHANGED day /\ ai > 0 /\ idx' = 1
        BY <3>3 DEF Announce, NextAsset, NextValueDate, EndOfRun, Ahead
      <4>2. DoneOuts' = Outs(GlobalStages)
        BY <1>1, <3>3, <4>1 DEF DoneOuts
      <4>3. QED
        BY <4>1, <4>2 DEF DoneOuts
    <3>4. QED
      BY <1>4, <3>1, <3>2, <3>3
  <2>3. Key(f, AssetNow)' = Key(f, AssetNow)
    BY <2>2 DEF Key
  <2>4. src \in GetLatest(Key(f, AssetNow), day, cutoff)
    BY <2>1, <2>2, <2>3 DEF GetLatest
  <2>5. now <= cutoff
    BY <1>2, <2>1
  <2>6. QED
    BY <1>4, <2>1, <2>2, <2>4, <2>5 DEF PassFresh, Fresh
<1>5. CASE CleanPass /\ ComputeStage
  <2> DEFINE out == StageSeq[idx].out
  <2>1. /\ AtStage /\ UNCHANGED <<raws, day, ai, cutoff>> /\ idx' = idx + 1
        /\ SaveFeature(out, StageResult) /\ now' \in {now, now + 1}
    BY <1>5 DEF ComputeStage, SaveFeature
  <2>2. UNCHANGED AssetNow /\ now <= cutoff /\ feats \subseteq feats'
    BY <1>2, <2>1 DEF AssetNow, SaveFeature
  <2>3. f = out \/ f \in DoneOuts
    <3>1. \A stages \in {GlobalStages, AssetStages} :
            \A g \in OutsBefore(stages, idx + 1) : g = stages[idx].out \/ g \in OutsBefore(stages, idx)
      <4>1. \A stages \in {GlobalStages, AssetStages} : stages \in Seq(StageType)
        BY DomainAssumption
      <4>2. \A stages \in {GlobalStages, AssetStages} : \A j \in DOMAIN stages : j < idx + 1 => j = idx \/ j < idx
        BY <4>1 DEF TypeOK
      <4>3. QED
        BY <4>2 DEF OutsBefore
    <3>2. CASE ai = 0
      <4>1. DoneOuts' = OutsBefore(GlobalStages, idx + 1) /\ DoneOuts = OutsBefore(GlobalStages, idx)
        BY <2>1, <3>2 DEF DoneOuts
      <4>2. QED
        BY <3>1, <3>2, <4>1 DEF StageSeq
    <3>3. CASE ai # 0
      <4>1. /\ DoneOuts' = Outs(GlobalStages) \cup OutsBefore(AssetStages, idx + 1)
            /\ DoneOuts = Outs(GlobalStages) \cup OutsBefore(AssetStages, idx)
        BY <2>1, <3>3 DEF DoneOuts
      <4>2. QED
        BY <3>1, <3>3, <4>1 DEF StageSeq
    <3>4. QED
      BY <3>2, <3>3
  <2>4. CASE f = out
    <3>1. CASE StageResult = {}
      <4>1. feats' = feats
        BY <2>1, <3>1 DEF SaveFeature
      <4>2. src \in GetLatest(Key(out, AssetNow), day, cutoff)
        BY <2>1, <2>2, <2>4, <4>1 DEF GetLatest, Key
      <4>3. QED
        BY <1>5, <2>1, <2>2, <3>1, <4>2, NothingStored
    <3>2. CASE StageResult # {}
      <4> HIDE DEF out
      <4> DEFINE k == Key(f, AssetNow)
      <4>1. feats' = feats \cup {[key |-> k, day |-> day, src |-> s, at |-> now + 1] : s \in StageResult}
        BY <2>1, <2>4 DEF SaveFeature
      <4>2. now' = now + 1
        BY <2>1, <3>2 DEF SaveFeature
      <4>4. PICK key, d, c, v : key = k /\ d = day /\ c = cutoff /\ v = StageResult
        OBVIOUS
      <4>5. feats' = feats \cup {[key |-> key, day |-> d, src |-> s, at |-> now + 1] : s \in v}
        BY <4>1, <4>4
      <4>6. k' = k
        BY <2>2 DEF Key
      <4>7. src \in GetLatest(key, d, c)'
        BY <2>1, <4>4, <4>6 DEF GetLatest
      <4>8. now + 1 <= c
        BY <2>1, <4>2, <4>4
      <4>9. src \in StageResult
        BY <1>2, <3>2, <4>4, <4>5, <4>7, <4>8, LatestNew
      <4>10. Fresh(src, day)
        BY <1>5, <2>1, <2>2, <4>9, StageFresh
      <4>11. QED
        BY <2>1, <4>10 DEF Fresh
    <3>3. QED
      BY <3>1, <3>2
  <2>5. CASE f # out /\ f \in DoneOuts
    <3>1. PICK key, d, c : key = Key(f, AssetNow) /\ d = day /\ c = cutoff
      OBVIOUS
    <3>2. \A r \in feats' : r \in feats \/ r.key # key \/ r.day # d
      BY <2>1, <2>5, <3>1 DEF SaveFeature, Key
    <3>3. GetLatest(key, d, c)' = GetLatest(key, d, c)
      BY <2>2, <3>2, LatestSame
    <3>4. src \in GetLatest(key, d, c)'
      BY <2>1, <2>2, <3>1 DEF Key, GetLatest
    <3>5. src \in GetLatest(Key(f, AssetNow), day, cutoff)
      BY <3>1, <3>3, <3>4
    <3>6. QED
      BY <1>5, <2>1, <2>2, <2>5, <3>5 DEF PassFresh, Fresh
  <2>6. QED
    BY <2>3, <2>4, <2>5
<1>6. CASE CleanPass /\ (SaveScore \/ UNCHANGED vars)
  <2>1. UNCHANGED <<raws, feats, cutoff, day, ai, idx>> /\ now <= now' /\ now' \in Nat
    BY <1>2, <1>6 DEF SaveScore, vars
  <2>2. UNCHANGED <<DoneOuts, AssetNow>> /\ now <= cutoff
    BY <1>2, <2>1 DEF DoneOuts, AssetNow
  <2>3. src \in GetLatest(Key(f, AssetNow), day, cutoff)
    BY <2>1, <2>2 DEF GetLatest, Key
  <2>4. QED
    BY <1>6, <2>1, <2>2, <2>3 DEF PassFresh, Fresh
<1>7. QED
  BY <1>3, <1>4, <1>5, <1>6, PassSteps

\* every cutoff the clock has not passed reads the same features
LEMMA GatherNow ==
  ASSUME Stamped, now \in Nat, NEW a, NEW d, NEW c \in Nat, now <= c
  PROVE  GatherInputs(a, d, c) = GatherInputs(a, d, now)
<1>1. \A r \in feats : r.at <= c /\ r.at <= now
  BY DEF Stamped, Rows
<1>2. \A k : GetLatest(k, d, c) = GetLatest(k, d, now)
  <2> TAKE k
  <2>1. {r \in feats : r.key = k /\ r.day = d /\ r.at <= c} = {r \in feats : r.key = k /\ r.day = d /\ r.at <= now}
    BY <1>1
  <2>2. QED
    BY <2>1 DEF GetLatest
<1>3. QED
  BY <1>2 DEF GatherInputs

\* a score stays up to date while nothing is written that it reads
LEMMA UpToDateStays ==
  ASSUME TypeOK, TypeOK', now <= now', raws' = raws, feats \subseteq feats', NEW sc, UpToDate(sc),
         \A r \in feats' : r \in feats \/ r.day # sc.day \/ \A f \in Inputs : r.key # Key(f, sc.asset)
  PROVE  UpToDate(sc)'
<1>1. PICK c : c = now'
  OBVIOUS
<1>2. GatherInputs(sc.asset, sc.day, c)' = GatherInputs(sc.asset, sc.day, c)
  <2>1. ASSUME NEW f \in Inputs
        PROVE  GetLatest(Key(f, sc.asset), sc.day, c)' = GetLatest(Key(f, sc.asset), sc.day, c)
    <3>1. PICK k : k = Key(f, sc.asset)
      OBVIOUS
    <3>2. GetLatest(k, sc.day, c)' = GetLatest(k, sc.day, c)
      BY <3>1, LatestSame
    <3>3. Key(f, sc.asset)' = Key(f, sc.asset)
      BY DEF Key
    <3>4. QED
      BY <3>1, <3>2, <3>3 DEF GetLatest
  <2>2. QED
    BY <2>1 DEF GatherInputs
<1>3. GatherInputs(sc.asset, sc.day, c) = GatherInputs(sc.asset, sc.day, now)
  <2>1. Stamped /\ now \in Nat /\ c \in Nat /\ now <= c
    BY <1>1, TypeSplit DEF TypeOK
  <2>2. QED
    BY <2>1, GatherNow
<1>4. GatherInputs(sc.asset, sc.day, now)' = GatherInputs(sc.asset, sc.day, c)'
  BY <1>1 DEF GatherInputs, GetLatest
<1>5. QED
  BY <1>2, <1>3, <1>4 DEF UpToDate

\* and the newest score of a day stays so while no other is saved
LEMMA ScoredStays ==
  ASSUME TypeOK, TypeOK', now <= now', raws' = raws, feats \subseteq feats', scores \subseteq scores',
         cutoff' = cutoff, NEW x, NEW i, ScoredUpToDate(x, i),
         \A r \in feats' : r \in feats \/ r.day # x \/ \A f \in Inputs : r.key # Key(f, Assets[i]),
         \A r \in scores' : r \in scores \/ r.day # x \/ r.asset # Assets[i]
  PROVE  ScoredUpToDate(x, i)'
<1>1. {sc \in scores' : sc.asset = Assets[i] /\ sc.day = x} = {sc \in scores : sc.asset = Assets[i] /\ sc.day = x}
  OBVIOUS
<1>2. NewestScore(Assets[i], x)' = NewestScore(Assets[i], x)
  BY <1>1 DEF NewestScore
<1>3. PICK sc \in NewestScore(Assets[i], x) : sc.at > cutoff \/ UpToDate(sc)
  BY DEF ScoredUpToDate
<1>4. sc.asset = Assets[i] /\ sc.day = x
  BY <1>3 DEF NewestScore, Newest
<1>5. UpToDate(sc) => UpToDate(sc)'
  BY <1>4, UpToDateStays
<1>6. QED
  BY <1>2, <1>3, <1>5 DEF ScoredUpToDate

\* the score a pass saves is up to date, or saved when its cutoff is over
LEMMA SavedUpToDate ==
  ASSUME TypeOK, TypeOK', StagesInOrder, LiveFeaturesApart, RawOrdered, Recomputable, PassFresh,
         CleanPass, SaveScore
  PROVE  ScoredUpToDate(day, ai)'
<1>1. PICK a, d, new : /\ a = Assets[ai] /\ d = day
                        /\ new = [asset |-> a, day |-> d, inputs |-> GatherInputs(a, d, cutoff),
                                  cutoff |-> cutoff, mode |-> mode, at |-> now + 1]
  OBVIOUS
<1>2. /\ AtScore /\ scores' = scores \cup {new} /\ now' = now + 1
      /\ UNCHANGED <<raws, feats, cutoff, day, ai>>
  BY <1>1 DEF SaveScore, world, span
<1>3. now \in Nat /\ cutoff \in Nat /\ Stamped /\ \A r \in scores : r.at \in 1 .. now
  BY TypeSplit DEF TypeOK
<1>4. new.asset = a /\ new.day = d /\ new.at = now + 1 /\ new.inputs = GatherInputs(a, d, cutoff)
  BY <1>1
<1>5. new \in NewestScore(a, d)'
  <2>1. \A r \in scores' : r.at <= new.at
    BY <1>2, <1>3, <1>4
  <2>2. QED
    BY <1>2, <1>4, <2>1 DEF NewestScore, Newest
<1>6. ASSUME now + 1 <= cutoff PROVE UpToDate(new)'
  <2>1. now <= cutoff /\ now + 1 \in Nat /\ now <= now + 1
    BY <1>3, <1>6
  <2>2. GatherInputs(a, d, cutoff) = GatherInputs(a, d, now)
    BY <1>3, <2>1, GatherNow
  <2>3. GatherInputs(a, d, now + 1) = GatherInputs(a, d, now)
    BY <1>3, <2>1, GatherNow
  <2>4. GatherInputs(a, d, now)' = GatherInputs(a, d, now + 1)
    BY <1>2 DEF GatherInputs, GetLatest, Key
  <2>5. AssetNow = a /\ ai # 0 /\ idx > Len(AssetStages)
    BY <1>1, <1>2 DEF AtScore, AssetNow, TypeOK
  <2>6. \A j \in DOMAIN AssetStages : j < idx
    <3>1. AssetStages \in Seq(StageType)
      BY DomainAssumption
    <3>2. idx \in Nat
      BY DEF TypeOK
    <3>3. QED
      BY <2>5, <3>1, <3>2
  <2>7. AllOuts = DoneOuts
    BY <2>5, <2>6 DEF AllOuts, DoneOuts, OutsBefore, Outs
  <2>8. ASSUME NEW f \in Inputs, NEW src \in new.inputs[f] PROVE Fresh(src, d)
    <3>1. src \in GetLatest(Key(f, AssetNow), day, cutoff)
      BY <1>1, <1>4, <2>5, <2>8 DEF GatherInputs
    <3>2. QED
      BY <1>1, <2>1, <2>7, <3>1, LatestFresh
  <2>9. \A s \in UNION UNION {new.inputs[f] : f \in Inputs} :
          s.day = d => \A r \in raws : r.s.feed = s.feed /\ r.s.day = s.day => r.s.ver <= s.ver
    BY <2>8 DEF Fresh
  <2>10. new.inputs = GatherInputs(new.asset, new.day, now)'
    <3>1. GatherInputs(new.asset, new.day, now)' = GatherInputs(a, d, now)'
      BY <1>4 DEF GatherInputs, GetLatest, Key
    <3>2. QED
      BY <1>4, <2>2, <2>3, <2>4, <3>1
  <2>11. QED
    BY <1>2, <1>4, <2>9, <2>10 DEF UpToDate
<1>7. new.at > cutoff \/ UpToDate(new)'
  BY <1>3, <1>4, <1>6
<1>8. Assets[ai]' = a /\ day' = d /\ cutoff' = cutoff
  BY <1>1, <1>2
<1>9. QED
  BY <1>5, <1>7, <1>8 DEF ScoredUpToDate, NewestScore

\* a stage of another asset or another day writes nothing that a score of x has read
LEMMA StageApart ==
  ASSUME TypeOK, StagesInOrder, AssetsDiffer, ComputeStage, NEW x, NEW i \in DOMAIN Assets, Scored(x, i)
  PROVE  \A r \in feats' : r \in feats \/ r.day # x \/ \A f \in Inputs : r.key # Key(f, Assets[i])
<1> SUFFICES ASSUME NEW r \in feats', r \notin feats, r.day = x, NEW f \in Inputs, r.key = Key(f, Assets[i])
             PROVE  FALSE
  OBVIOUS
<1>1. AtStage /\ r.key = Key(StageSeq[idx].out, AssetNow) /\ r.day = day
  BY DEF ComputeStage, SaveFeature
<1>2. i < ai
  BY <1>1 DEF Scored, AtStage, TypeOK
<1>3. ai # 0 /\ ai \in DOMAIN Assets /\ AssetNow = Assets[ai] /\ StageSeq = AssetStages /\ i # ai
  BY <1>2, DomainAssumption DEF TypeOK, AssetNow, StageSeq
<1>4. StageSeq[idx].out \in Outs(AssetStages)
  BY <1>1, <1>3, StageTypeAt DEF Outs
<1>5. StageSeq[idx].out \notin Outs(GlobalStages)
  BY <1>4 DEF StagesInOrder
<1>6. r.key = <<StageSeq[idx].out, Assets[ai]>>
  BY <1>1, <1>3, <1>5 DEF Key
<1>7. f = StageSeq[idx].out /\ r.key = <<f, Assets[i]>>
  BY <1>5, <1>6 DEF Key
<1>8. QED
  BY <1>3, <1>6, <1>7 DEF AssetsDiffer

(***************************************************************************)
(* Every score an undisturbed pass has saved is up to date, but for those  *)
(* it saves when its cutoff is over.                                       *)
(***************************************************************************)
LEMMA PassUpToDateStep ==
  ASSUME TypeOK, TypeOK', WellOrdered, RawOrdered, Recomputable, PassFresh, Ahead, PassUpToDate,
         [Next]_vars
  PROVE  PassUpToDate'
<1> SUFFICES ASSUME CleanPass', NEW x \in (from .. to)', NEW i \in DOMAIN Assets, Scored(x, i)'
             PROVE  ScoredUpToDate(x, i)'
  BY DEF PassUpToDate
<1> USE DEF store, world, span, bound, clear, WellOrdered
<1>1. i \in Nat /\ i >= 1 /\ i <= Len(Assets)
  BY DomainAssumption
<1>2. CASE TakeCutoff
  <2>1. day' = from' /\ ai' = 0 /\ phase' = "compute"
    BY <1>2 DEF TakeCutoff, Ahead
  <2>2. from' \in Nat /\ to' \in Nat
    BY DEF TypeOK
  <2>3. x \in Int /\ x >= from'
    BY <2>2
  <2>4. ~Scored(x, i)'
    BY <1>1, <2>1, <2>2, <2>3 DEF Scored
  <2>5. QED
    BY <2>4
<1>3. ASSUME CleanPass, UNCHANGED <<raws, cutoff, from, to>>, Scored(x, i),
             feats \subseteq feats', scores \subseteq scores', now <= now',
             \A r \in feats' : r \in feats \/ r.day # x \/ \A f \in Inputs : r.key # Key(f, Assets[i]),
             \A r \in scores' : r \in scores \/ r.day # x \/ r.asset # Assets[i]
      PROVE  ScoredUpToDate(x, i)'
  <2>1. x \in from .. to
    BY <1>3
  <2>2. ScoredUpToDate(x, i)
    BY <1>3, <2>1 DEF PassUpToDate
  <2>3. QED
    BY <1>3, <2>2, ScoredStays
<1>4. CASE CleanPass /\ (EnterAssets \/ Announce \/ UNCHANGED vars)
  <2>1. UNCHANGED <<raws, feats, scores, cutoff, from, to>>
    BY <1>4 DEF EnterAssets, Announce, vars
  <2> now \in Nat /\ now' \in {now, now + 1}
    BY <1>4 DEF EnterAssets, Announce, vars, TypeOK
  <2>2. Scored(x, i)
    <3>1. CASE EnterAssets
      BY <1>1, <3>1 DEF EnterAssets, Scored, TypeOK
    <3>2. CASE Announce
      <4>1. mode' # "idle"
        BY DEF CleanPass
      <4>2. CASE NextAsset
        BY <1>1, <3>2, <4>2 DEF Announce, NextAsset, Scored, TypeOK
      <4>3. CASE NextValueDate
        BY <1>1, <3>2, <4>3 DEF Announce, NextValueDate, Scored, TypeOK
      <4>4. QED
        BY <3>2, <4>1, <4>2, <4>3 DEF Announce, EndOfRun
    <3>3. CASE UNCHANGED vars
      BY <3>3 DEF vars, Scored
    <3>4. QED
      BY <1>4, <3>1, <3>2, <3>3
  <2>3. now <= now'
    OBVIOUS
  <2>4. QED
    BY <1>3, <1>4, <2>1, <2>2, <2>3
<1>5. CASE CleanPass /\ ComputeStage
  <2>1. UNCHANGED <<raws, scores, cutoff, from, to, day, ai, phase>> /\ now <= now' /\ feats \subseteq feats'
    BY <1>5 DEF ComputeStage, SaveFeature, TypeOK
  <2>2. Scored(x, i)
    BY <2>1 DEF Scored
  <2>3. QED
    BY <1>3, <1>5, <2>1, <2>2, StageApart
<1>6. CASE CleanPass /\ SaveScore
  <2>1. /\ UNCHANGED <<raws, feats, cutoff, from, to, day, ai>> /\ now <= now' /\ scores \subseteq scores'
        /\ AtScore /\ \A r \in scores' : r \in scores \/ (r.asset = Assets[ai] /\ r.day = day)
    BY <1>6 DEF SaveScore, TypeOK
  <2>2. CASE x = day /\ i = ai
    <3>1. ScoredUpToDate(day, ai)'
      BY <1>6, SavedUpToDate
    <3>2. day' = x /\ ai' = i
      BY <2>1, <2>2
    <3>3. QED
      BY <3>1, <3>2 DEF ScoredUpToDate, NewestScore
  <2>3. CASE x # day \/ i # ai
    <3>1. Scored(x, i)
      BY <2>1, <2>3 DEF Scored
    <3>2. ai \in DOMAIN Assets
      <4>1. Assets \in Seq(STRING)
        BY DomainAssumption
      <4>2. ai \in 0 .. Len(Assets)
        BY DEF TypeOK
      <4>3. ai > 0
        BY <2>1 DEF AtScore
      <4>4. QED
        BY <4>1, <4>2, <4>3
    <3>3. \A r \in scores' : r \in scores \/ r.day # x \/ r.asset # Assets[i]
      BY <2>1, <2>3, <3>2 DEF AssetsDiffer
    <3>4. QED
      BY <1>3, <1>6, <2>1, <3>1, <3>3
  <2>4. QED
    BY <2>2, <2>3
<1>7. QED
  BY <1>2, <1>4, <1>5, <1>6, PassSteps

(***************************************************************************)
(* For every service whose stages are in order: while a backfill runs      *)
(* undisturbed, the newest score of each asset and day it has passed read  *)
(* the features as they are stored and the newest revision of every sample *)
(* of the day, unless it was saved when the 24 hours were over.            *)
(***************************************************************************)
THEOREM BackfillsConvergeInOnePass == WellOrdered => (Spec => []BackfillConverges)
<1> SUFFICES ASSUME WellOrdered PROVE Spec => []BackfillConverges
  OBVIOUS
<1>1. Init => PassInv
  <2> SUFFICES ASSUME Init PROVE PassInv
    OBVIOUS
  <2>1. TypeOK
    BY TypeInit
  <2>2. RawSeen("day") /\ FeatSeen("day") /\ MemSeen("day")
    BY DEF Init, RawSeen, FeatSeen, MemSeen, NoMem
  <2>3. RawOrdered /\ Recomputable /\ Ahead
    BY DEF Init, RawOrdered, Recomputable, Ahead
  <2>4. MemRecomputable /\ PassFresh /\ MemFresh /\ PassUpToDate
    BY DEF Init, MemRecomputable, PassFresh, MemFresh, PassUpToDate, CleanPass
  <2>5. QED
    BY <2>1, <2>2, <2>3, <2>4 DEF PassInv
<1>2. PassInv /\ [Next]_vars => PassInv'
  <2> SUFFICES ASSUME PassInv, [Next]_vars PROVE PassInv'
    OBVIOUS
  <2>1. StagesInOrder /\ LiveFeaturesApart
    BY DEF WellOrdered
  <2>2. "day" \in Times /\ Timely("day")
    BY DEF Times, Timely
  <2>3. TypeOK'
    BY TypeStep DEF PassInv
  <2>4. RawSeen("day")'
    BY <2>2, RawSeenStep DEF PassInv
  <2>5. FeatSeen("day")'
    BY <2>2, FeatSeenStep DEF PassInv
  <2>6. MemSeen("day")'
    BY <2>2, MemSeenStep DEF PassInv
  <2>7. RawOrdered' /\ Ahead'
    BY RawOrderedStep, AheadStep DEF PassInv
  <2>8. Recomputable' /\ MemRecomputable'
    BY <2>1, RecomputableStep, MemRecomputableStep DEF PassInv
  <2>9. MemFresh' /\ PassFresh'
    BY <2>1, MemFreshStep, PassFreshStep DEF PassInv
  <2>10. PassUpToDate'
    BY <2>3, PassUpToDateStep DEF PassInv
  <2>11. QED
    BY <2>3, <2>4, <2>5, <2>6, <2>7, <2>8, <2>9, <2>10 DEF PassInv
<1>3. PassInv => BackfillConverges
  <2> SUFFICES ASSUME PassInv, mode = "backfill", clean, phase \in {"compute", "announce"},
                      NEW x \in from .. to, NEW i \in DOMAIN Assets, Scored(x, i)
               PROVE  \E sc \in NewestScore(Assets[i], x) : sc.at > TakenAt + Horizon \/ UpToDate(sc)
    BY DEF BackfillConverges
  <2>1. ScoredUpToDate(x, i)
    BY DEF PassInv, PassUpToDate, CleanPass
  <2>2. TakenAt + Horizon = cutoff
    BY DomainAssumption DEF PassInv, TypeOK, TakenAt, Cutoff
  <2>3. QED
    BY <2>1, <2>2 DEF ScoredUpToDate
<1>4. QED
  BY <1>1, <1>2, <1>3, PTL DEF Spec

-----------------------------------------------------------------------------
(* Recomputing a day does not make its score worse *)

NotOlder(new, old) == \A s \in new, t \in old : ~Older(s, t)

Computing == mode # "idle" /\ phase \in {"compute", "announce"}

\* sample s comes from a read of st for asset a on day d as of c
Origin(st, a, d, c, s) ==
  \E q \in ReadsOf(st) :
    \/ q.read # "mem" /\ s \in UNION Found(q, a, d, c)
    \/ q.read = "mem" /\ \E g \in AllStages : g.out = q.of /\
         \E p \in ReadsOf(g) : p.read \in RawReads /\ s \in UNION Found(p, a, d, c)

\* every stored feature was read by its stage as of a time before it was stored
FeatOrigins ==
  \A r \in feats : r.key[1] \in AllOuts =>
    \E c \in Nat :
      /\ c < r.at /\ (Computing => c <= cutoff)
      /\ \A s \in r.src : \E st \in AllStages : st.out = r.key[1] /\ Origin(st, r.key[2], r.day, c, s)

\* and the values in local variables as of the run's cutoff
MemOrigins ==
  mode # "idle" /\ phase = "compute" =>
    \A g \in MemNames : \A src \in mem[g] : \A s \in src :
      \E st \in AllStages : st.out = g /\
        \E p \in ReadsOf(st) : p.read \in RawReads /\ s \in UNION Found(p, AssetNow, day, cutoff)

\* features rest on samples of their feeds, and of their day where that is known
FeatSources(sources) == \A r \in feats : \A s \in r.src : s.feed \in SourcesOf(sources, r.key[1])

FeatDays(daily) ==
  \A r \in feats : LiveOr(daily, r.key[1]) => \A s \in r.src : s.day = r.day

LiveVersions ==
  \A r \in feats : r.key[1] \notin AllOuts => \A s \in r.src : s.ver \in Nat /\ s.ver <= rev

\* a later row of a feature has no older sample than an earlier row of the day; nor,
\* if the feature is read through one window, than an earlier row of an earlier day
FeatOrdered(daily) ==
  \A r, q \in feats :
    /\ r.key = q.key /\ r.at <= q.at
    /\ r.day = q.day \/ (LiveOr(Windowed(daily), r.key[1]) /\ r.day <= q.day)
    => NotOlder(q.src, r.src)

\* a row found as of an earlier time is found, or superseded by a later version
LEMMA RawRowOrder ==
  ASSUME TypeOK, RawOrdered, NEW feed, NEW x \in Nat, NEW v \in Nat, NEW w \in Nat, v <= w,
         NEW s \in UNION RawAsOf(feed, x, w), NEW t \in UNION RawAsOf(feed, x, v)
  PROVE  s.day = x /\ t.day = x /\ ~Older(s, t)
<1>1. PICK r \in raws : /\ s = r.s /\ r.s.day = x
                        /\ \A q \in {q \in raws : q.s.feed = feed /\ q.s.day = x /\ q.at <= w} : q.at <= r.at
  BY DEF RawAsOf, Newest
<1>2. PICK q \in raws : t = q.s /\ q.s.feed = feed /\ q.s.day = x /\ q.at <= v
  BY DEF RawAsOf, Newest
<1>3. q.at \in Nat
  BY DEF TypeOK
<1>4. q.at <= r.at
  BY <1>1, <1>2, <1>3
<1>5. q.s.ver <= r.s.ver /\ q.s.ver \in Nat /\ r.s.ver \in Nat /\ x = q.s.day
  BY <1>2, <1>4 DEF RawOrdered
<1>6. ~(s.day < t.day)
  BY <1>1, <1>2 DEF Older
<1>7. QED
  BY <1>1, <1>2, <1>5, <1>6 DEF Older

\* more rows can be seen as of a later time
LEMMA RawAsOfLater ==
  ASSUME TypeOK, NEW feed, NEW x, NEW v \in Nat, NEW w \in Nat, v <= w, RawAsOf(feed, x, v) # {}
  PROVE  RawAsOf(feed, x, w) # {}
<1> DEFINE rows == {r \in raws : r.s.feed = feed /\ r.s.day = x /\ r.at <= w}
<1>1. \A r \in raws : r.at \in 1 .. now
  BY DEF TypeOK
<1>2. PICK r \in raws : r.s.feed = feed /\ r.s.day = x /\ r.at <= v
  BY DEF RawAsOf, Newest
<1>3. r \in rows /\ \A q \in rows : q.at \in 1 .. now
  BY <1>1, <1>2
<1>4. Newest(rows) # {}
  <2> HIDE DEF rows
  <2>1. QED
    BY <1>3, NewestThere DEF TypeOK
<1>5. QED
  BY <1>4 DEF RawAsOf

\* a feature row is found as of its time and later
LEMMA RowSeen ==
  ASSUME TypeOK, NEW r \in feats, NEW c \in Nat, r.at <= c
  PROVE  GetLatest(r.key, r.day, c) # {}
<1> DEFINE rows == {q \in feats : q.key = r.key /\ q.day = r.day /\ q.at <= c}
<1>1. \A q \in feats : q.at \in 1 .. now
  BY DEF TypeOK
<1>2. r \in rows /\ \A q \in rows : q.at \in 1 .. now
  BY <1>1
<1>3. Newest(rows) # {}
  <2> HIDE DEF rows
  <2>1. QED
    BY <1>2, NewestThere DEF TypeOK
<1>4. QED
  BY <1>3 DEF GetLatest

LEMMA GetLatestLater ==
  ASSUME TypeOK, NEW k, NEW x, NEW v \in Nat, NEW w \in Nat, v <= w, GetLatest(k, x, v) # {}
  PROVE  GetLatest(k, x, w) # {}
<1>1. PICK r \in feats : r.key = k /\ r.day = x /\ r.at <= v
  BY DEF GetLatest, Newest
<1>2. r.at <= w
  BY <1>1 DEF TypeOK
<1>3. QED
  BY <1>1, <1>2, RowSeen

\* the last day with a value moves forward with the day and with the cutoff
LEMMA LastDayForward ==
  ASSUME Window \in Nat, NEW d \in Nat, NEW e \in Nat, d <= e,
         NEW before, NEW after, \A z \in before : z \in 0 .. d /\ z + Window > d,
         \A z \in after : z \in 0 .. e /\ z + Window > e,
         \A z \in before : z + Window > e => z \in after,
         NEW x \in before, NEW y \in LastDayOf(after)
  PROVE  x <= y /\ x \in 0 .. d /\ y \in 0 .. e
BY DEF LastDayOf

(***************************************************************************)
(* The same read of a raw table, for the same day or a later one and as of *)
(* the same time or a later one, does not find an older sample.            *)
(***************************************************************************)
LEMMA RawReadOrder ==
  ASSUME TypeOK, RawOrdered, NEW q, q.read \in RawReads, NEW a, NEW d \in Nat, NEW e \in Nat, d <= e,
         NEW v \in Nat, NEW w \in Nat, v <= w,
         NEW s \in UNION Found(q, a, e, w), NEW t \in UNION Found(q, a, d, v)
  PROVE  ~Older(s, t)
<1>1. ASSUME NEW feed, NEW x \in Nat, NEW y \in Nat, x <= y,
             s \in UNION RawAsOf(feed, y, w), t \in UNION RawAsOf(feed, x, v)
      PROVE  ~Older(s, t)
  <2>1. CASE x = y
    BY <1>1, <2>1, RawRowOrder
  <2>2. CASE x < y
    <3>1. s.day = y
      BY <1>1 DEF RawAsOf, Newest
    <3>2. t.day = x
      BY <1>1 DEF RawAsOf, Newest
    <3>3. QED
      BY <2>2, <3>1, <3>2 DEF Older
  <2>3. QED
    BY <1>1, <2>1, <2>2
<1>2. CASE q.read \in {"raw", "rawWindow"}
  <2>1. s \in UNION RawAsOf(q.of, e, w) /\ t \in UNION RawAsOf(q.of, d, v)
    BY <1>2 DEF Found
  <2>2. QED
    BY <1>1, <2>1
<1>3. CASE q.read = "rawCoin"
  <2>1. s \in UNION RawAsOf(CoinIDForAsset(a), e, w) /\ t \in UNION RawAsOf(CoinIDForAsset(a), d, v)
    BY <1>3 DEF Found
  <2>2. QED
    BY <1>1, <2>1
<1>4. CASE q.read = "rawPast"
  <2>1. s \in UNION Base(UNION {RawAsOf(q.of, x, w) : x \in Past(e)})
    BY <1>4 DEF Found
  <2>2. QED
    BY <2>1 DEF Base
<1>5. CASE q.read = "rawSeries"
  <2>1. PICK y \in LastDayOf(RawDays(q.of, e, w)) : s \in UNION RawAsOf(q.of, y, w)
    BY <1>5 DEF Found, LastRaw
  <2>2. PICK x \in RawDays(q.of, d, v) : t \in UNION RawAsOf(q.of, x, v)
    BY <1>5 DEF Found, LastRaw, LastDayOf
  <2>3. \A z \in RawDays(q.of, d, v) : z \in 0 .. d /\ z + Window > d
    BY DEF RawDays
  <2>4. \A z \in RawDays(q.of, e, w) : z \in 0 .. e /\ z + Window > e
    BY DEF RawDays
  <2>5. \A z \in RawDays(q.of, d, v) : z + Window > e => z \in RawDays(q.of, e, w)
    BY RawAsOfLater DEF RawDays
  <2>6. Window \in Nat
    BY DomainAssumption
  <2>7. x <= y /\ x \in 0 .. d /\ y \in 0 .. e
    BY <2>3, <2>4, <2>5, <2>6, LastDayForward
  <2>8. QED
    BY <1>1, <2>1, <2>2, <2>7
<1>6. QED
  BY <1>2, <1>3, <1>4, <1>5 DEF RawReads

\* the newest row of a day, or of a later day that has got its first row since, is not older
LEMMA FeatRowOrder ==
  ASSUME TypeOK, NEW daily, FeatOrdered(daily), NEW k, NEW x \in Nat, NEW y \in Nat,
         NEW v \in Nat, NEW w \in Nat, v <= w,
         x = y \/ (x < y /\ LiveOr(Windowed(daily), k[1]) /\ GetLatest(k, y, v) = {}),
         NEW s \in UNION GetLatest(k, y, w), NEW t \in UNION GetLatest(k, x, v)
  PROVE  ~Older(s, t)
<1>1. PICK q \in feats : /\ s \in q.src /\ q.key = k /\ q.day = y /\ q.at <= w
                         /\ \A r \in {r \in feats : r.key = k /\ r.day = y /\ r.at <= w} : r.at <= q.at
  BY DEF GetLatest, Newest
<1>2. PICK r \in feats : t \in r.src /\ r.key = k /\ r.day = x /\ r.at <= v
  BY DEF GetLatest, Newest
<1>3. q.at \in Nat /\ r.at \in Nat
  BY DEF TypeOK
<1>4. r.at <= q.at
  <2>1. CASE x = y
    BY <1>1, <1>2, <1>3, <2>1
  <2>2. CASE x # y
    <3>1. ~(q.at <= v)
      BY <1>1, <2>2, RowSeen
    <3>2. QED
      BY <1>2, <1>3, <3>1
  <2>3. QED
    BY <2>1, <2>2
<1>5. r.key = q.key /\ (r.day = q.day \/ (LiveOr(Windowed(daily), r.key[1]) /\ r.day <= q.day))
  BY <1>1, <1>2
<1>6. NotOlder(q.src, r.src)
  BY <1>4, <1>5 DEF FeatOrdered
<1>7. QED
  BY <1>1, <1>2, <1>6 DEF NotOlder

(***************************************************************************)
(* The same for reads of a feature.                                        *)
(***************************************************************************)
LEMMA FeatReadOrder ==
  ASSUME TypeOK, NEW daily, FeatOrdered(daily), FeatDays(daily), NEW p, NEW q, p.of = q.of,
         p.read \in {"latest", "series"}, q.read \in {"latest", "series"},
         NEW a, NEW d \in Nat, NEW e \in Nat, d <= e, NEW v \in Nat, NEW w \in Nat, v <= w,
         \/ LiveOr(daily, q.of)
         \/ d = e /\ p.read = q.read /\ (q.read = "series" => LiveOr(Windowed(daily), q.of)),
         NEW s \in UNION Found(q, a, e, w), NEW t \in UNION Found(p, a, d, v)
  PROVE  ~Older(s, t)
<1> DEFINE k == Key(q.of, a)
<1>1. k[1] = q.of /\ k = Key(p.of, a)
  BY DEF Key
<1>2. PICK y : /\ s \in UNION GetLatest(k, y, w)
               /\ \/ q.read = "latest" /\ y = e
                  \/ q.read = "series" /\ y \in LastDayOf(SeriesDays(k, e, w))
  <2>1. CASE q.read = "latest"
    BY <2>1 DEF Found
  <2>2. CASE q.read = "series"
    BY <2>2 DEF Found, LastOf
  <2>3. QED
    BY <2>1, <2>2
<1>3. PICK x : /\ t \in UNION GetLatest(k, x, v)
               /\ \/ p.read = "latest" /\ x = d
                  \/ p.read = "series" /\ x \in LastDayOf(SeriesDays(k, d, v))
  <2>1. CASE p.read = "latest"
    BY <1>1, <2>1 DEF Found
  <2>2. CASE p.read = "series"
    BY <1>1, <2>2 DEF Found, LastOf
  <2>3. QED
    BY <2>1, <2>2
<1> HIDE DEF k
<1>4. x \in 0 .. d /\ y \in 0 .. e
  BY <1>2, <1>3 DEF LastDayOf, SeriesDays
<1>5. x <= y
  <2>1. CASE q.read = "latest"
    BY <1>2, <1>4, <2>1
  <2>2. CASE q.read = "series"
    <3>1. GetLatest(k, x, w) # {}
      BY <1>3, GetLatestLater
    <3>2. x + Window > e => x \in SeriesDays(k, e, w)
      BY <1>4, <3>1 DEF SeriesDays
    <3>3. y \in SeriesDays(k, e, w) /\ (x \in SeriesDays(k, e, w) => x <= y) /\ y + Window > e
      BY <1>2, <2>2 DEF LastDayOf, SeriesDays
    <3>4. Window \in Nat
      BY DomainAssumption
    <3>5. QED
      BY <1>4, <3>2, <3>3, <3>4
  <2>3. QED
    BY <2>1, <2>2
<1>6. CASE x = y
  <2>1. x \in Nat /\ s \in UNION GetLatest(k, x, w) /\ t \in UNION GetLatest(k, x, v)
    BY <1>2, <1>3, <1>4, <1>6
  <2>2. QED
    BY <2>1, FeatRowOrder
<1>7. CASE x # y /\ LiveOr(daily, q.of)
  <2>1. PICK r \in feats : r.key = k /\ r.day = y /\ s \in r.src
    BY <1>2 DEF GetLatest, Newest
  <2>2. PICK o \in feats : o.key = k /\ o.day = x /\ t \in o.src
    BY <1>3 DEF GetLatest, Newest
  <2>3. s.day = y /\ t.day = x
    BY <1>1, <1>7, <2>1, <2>2 DEF FeatDays
  <2>4. QED
    BY <1>4, <1>5, <1>7, <2>3 DEF Older
<1>8. CASE x # y /\ ~LiveOr(daily, q.of)
  <2>1. d = e /\ q.read = "series" /\ p.read = "series" /\ LiveOr(Windowed(daily), q.of)
    BY <1>2, <1>3, <1>8
  <2>2. y \in SeriesDays(k, e, w) /\ \A z \in SeriesDays(k, d, v) : z <= x
    BY <1>2, <1>3, <2>1 DEF LastDayOf
  <2>3. GetLatest(k, y, v) = {}
    <3>1. y \notin SeriesDays(k, d, v)
      BY <1>4, <1>5, <1>8, <2>2
    <3>2. QED
      BY <1>4, <2>1, <2>2, <3>1 DEF SeriesDays
  <2>4. x \in Nat /\ y \in Nat /\ x < y
    BY <1>4, <1>5, <1>8
  <2>5. s \in UNION GetLatest(k, y, w) /\ t \in UNION GetLatest(k, x, v)
    BY <1>2, <1>3
  <2>6. LiveOr(Windowed(daily), k[1])
    BY <1>1, <2>1
  <2>7. QED
    BY <2>3, <2>4, <2>5, <2>6, FeatRowOrder
<1>9. QED
  BY <1>6, <1>7, <1>8

\* a read finds samples of the feeds the table says
LEMMA FoundFeeds ==
  ASSUME NEW daily, NEW sources, FeatSources(sources), NEW q, q.read \in ReadKinds, q.read # "mem",
         NEW a, NEW d, NEW c, NEW s \in UNION Found(q, a, d, c)
  PROVE  s.feed \in FeedsRead(sources, q)
<1>1. CASE q.read \in {"raw", "rawWindow"}
  BY <1>1 DEF Found, RawAsOf, Newest, FeedsRead
<1>2. CASE q.read = "rawCoin"
  <2>1. s.feed = CoinIDForAsset(a)
    BY <1>2 DEF Found, RawAsOf, Newest
  <2>2. QED
    BY <1>2, <2>1 DEF CoinIDForAsset, FeedsRead
<1>3. CASE q.read = "rawSeries"
  BY <1>3 DEF Found, LastRaw, RawAsOf, Newest, FeedsRead
<1>4. CASE q.read \in {"rawPast", "past", "grown"}
  BY <1>4 DEF Found, Base
<1>5. CASE q.read \in {"latest", "series"}
  <2>1. PICK x : s \in UNION GetLatest(Key(q.of, a), x, c)
    <3>1. CASE q.read = "latest"
      BY <3>1 DEF Found
    <3>2. CASE q.read = "series"
      BY <3>2 DEF Found, LastOf
    <3>3. QED
      BY <1>5, <3>1, <3>2
  <2>2. PICK r \in feats : r.key = Key(q.of, a) /\ s \in r.src
    BY <2>1 DEF GetLatest, Newest
  <2>3. r.key[1] = q.of
    BY <2>2 DEF Key
  <2>4. s.feed \in SourcesOf(sources, q.of)
    BY <2>2, <2>3 DEF FeatSources
  <2>5. QED
    BY <1>5, <2>4 DEF FeedsRead
<1>6. QED
  BY <1>1, <1>2, <1>3, <1>4, <1>5 DEF ReadKinds

\* a read of the day finds samples of the day
LEMMA FoundInDay ==
  ASSUME NEW daily, FeatDays(daily), NEW q, q.read # "mem", InDay(daily, q),
         NEW a, NEW d, NEW c, NEW s \in UNION Found(q, a, d, c)
  PROVE  s.day = d
<1>1. CASE q.read \in {"raw", "rawWindow"}
  BY <1>1 DEF Found, RawAsOf, Newest
<1>2. CASE q.read = "rawCoin"
  BY <1>2 DEF Found, RawAsOf, Newest
<1>3. CASE q.read \in {"rawPast", "past", "grown"}
  BY <1>3 DEF Found, Base
<1>4. CASE q.read = "latest"
  <2>1. PICK r \in feats : r.key = Key(q.of, a) /\ r.day = d /\ s \in r.src
    BY <1>4 DEF Found, GetLatest, Newest
  <2>2. r.key[1] = q.of /\ LiveOr(daily, q.of)
    BY <1>4, <2>1 DEF Key, InDay
  <2>3. QED
    BY <2>1, <2>2 DEF FeatDays
<1>5. QED
  BY <1>1, <1>2, <1>3, <1>4 DEF InDay

\* no two stages compute the same feature
LEMMA OneStage ==
  ASSUME StagesInOrder, NEW g \in AllStages, NEW h \in AllStages, g.out = h.out
  PROVE  g = h
<1>1. \A i, j \in DOMAIN GlobalStages : GlobalStages[i].out = GlobalStages[j].out => i = j
  BY DEF StagesInOrder, InOrder
<1>2. \A i, j \in DOMAIN AssetStages : AssetStages[i].out = AssetStages[j].out => i = j
  BY DEF StagesInOrder, InOrder
<1>3. \A i \in DOMAIN GlobalStages, j \in DOMAIN AssetStages : GlobalStages[i].out # AssetStages[j].out
  BY DEF StagesInOrder, Outs
<1>4. QED
  BY <1>1, <1>2, <1>3 DEF AllStages

\* the reads of a stage are of the kinds there are
LEMMA ReadTypes ==
  ASSUME NEW st \in AllStages, NEW q \in ReadsOf(st)
  PROVE  q.read \in ReadKinds /\ st.out \in AllOuts
<1>1. GlobalStages \in Seq(StageType) /\ AssetStages \in Seq(StageType)
  BY DomainAssumption
<1>2. st \in StageType
  BY <1>1 DEF AllStages
<1>3. q.read \in ReadKinds
  BY <1>2 DEF StageType, ReadsOf
<1>4. st.out \in AllOuts
  BY DEF AllStages, AllOuts, Outs
<1>5. QED
  BY <1>3, <1>4

\* a sample a stage rests on is of the feeds the table says
LEMMA OriginFeeds ==
  ASSUME NEW daily, NEW sources, OnePath(daily, sources), FeatSources(sources), NEW st \in AllStages,
         NEW a, NEW d, NEW c, NEW s, NEW q \in ReadsOf(st),
         \/ q.read # "mem" /\ s \in UNION Found(q, a, d, c)
         \/ q.read = "mem" /\ \E g \in AllStages : g.out = q.of /\
              \E p \in ReadsOf(g) : p.read \in RawReads /\ s \in UNION Found(p, a, d, c)
  PROVE  s.feed \in FeedsRead(sources, q)
<1>1. CASE q.read # "mem"
  BY <1>1, ReadTypes, FoundFeeds
<1>2. CASE q.read = "mem"
  <2> PICK g \in AllStages : g.out = q.of /\ \E p \in ReadsOf(g) : p.read \in RawReads /\ s \in UNION Found(p, a, d, c)
    BY <1>2
  <2>1. PICK p \in ReadsOf(g) : p.read \in RawReads /\ s \in UNION Found(p, a, d, c)
    OBVIOUS
  <2>2. s.feed \in FeedsRead(sources, p)
    BY <2>1, ReadTypes, FoundFeeds DEF RawReads
  <2>3. s.feed \in sources[g.out] /\ g.out \in AllOuts
    BY <2>2, ReadTypes DEF OnePath
  <2>4. QED
    BY <1>2, <2>1, <2>3 DEF FeedsRead, SourcesOf
<1>3. QED
  BY <1>1, <1>2

(***************************************************************************)
(* So a stage computed for the same day, or for a later day if it reads    *)
(* through one window, and as of the same time or a later one, does not    *)
(* rest on older samples.                                                  *)
(***************************************************************************)
LEMMA OriginOrder ==
  ASSUME TypeOK, StagesInOrder, RawOrdered, NEW daily, NEW sources, OnePath(daily, sources),
         FeatSources(sources), FeatDays(daily), FeatOrdered(daily), NEW st \in AllStages,
         NEW a, NEW d \in Nat, NEW e \in Nat, d = e \/ (d <= e /\ st.out \in Windowed(daily)),
         NEW v \in Nat, NEW w \in Nat, v <= w,
         NEW s, Origin(st, a, e, w, s), NEW t, Origin(st, a, d, v, t)
  PROVE  ~Older(s, t)
<1>1. PICK q \in ReadsOf(st) :
        \/ q.read # "mem" /\ s \in UNION Found(q, a, e, w)
        \/ q.read = "mem" /\ \E g \in AllStages : g.out = q.of /\
             \E r \in ReadsOf(g) : r.read \in RawReads /\ s \in UNION Found(r, a, e, w)
  BY DEF Origin
<1>2. PICK p \in ReadsOf(st) :
        \/ p.read # "mem" /\ t \in UNION Found(p, a, d, v)
        \/ p.read = "mem" /\ \E g \in AllStages : g.out = p.of /\
             \E r \in ReadsOf(g) : r.read \in RawReads /\ t \in UNION Found(r, a, d, v)
  BY DEF Origin
<1>3. s.feed \in FeedsRead(sources, q) /\ t.feed \in FeedsRead(sources, p)
  BY <1>1, <1>2, OriginFeeds
<1>4. /\ q.read = "series" => LiveOr(Windowed(daily), q.of)
      /\ \/ p = q
         \/ FeedsRead(sources, p) \cap FeedsRead(sources, q) = {}
         \/ p.of = q.of /\ LiveOr(daily, p.of) /\ {p.read, q.read} = {"latest", "series"}
  BY DEF OnePath
<1>5. d <= e
  OBVIOUS
<1>6. CASE FeedsRead(sources, p) \cap FeedsRead(sources, q) = {}
  BY <1>3, <1>6 DEF Older
<1>7. CASE p.of = q.of /\ LiveOr(daily, p.of) /\ {p.read, q.read} = {"latest", "series"}
  <2>1. p.read \in {"latest", "series"} /\ q.read \in {"latest", "series"}
    BY <1>7
  <2>2. s \in UNION Found(q, a, e, w) /\ t \in UNION Found(p, a, d, v)
    BY <1>1, <1>2, <2>1
  <2>3. QED
    BY <1>5, <1>7, <2>1, <2>2, FeatReadOrder
<1>8. CASE p = q
  <2>1. CASE q.read = "mem"
    <3> PICK g \in AllStages : g.out = q.of /\ \E r \in ReadsOf(g) : r.read \in RawReads /\ s \in UNION Found(r, a, e, w)
      BY <1>1, <2>1
    <3> PICK h \in AllStages : h.out = q.of /\ \E o \in ReadsOf(h) : o.read \in RawReads /\ t \in UNION Found(o, a, d, v)
      BY <1>2, <1>8, <2>1
    <3>1. PICK r \in ReadsOf(g) : r.read \in RawReads /\ s \in UNION Found(r, a, e, w)
      OBVIOUS
    <3>2. PICK o \in ReadsOf(h) : o.read \in RawReads /\ t \in UNION Found(o, a, d, v)
      OBVIOUS
    <3>3. g = h
      BY OneStage
    <3>4. s.feed \in FeedsRead(sources, r) /\ t.feed \in FeedsRead(sources, o)
      BY <3>1, <3>2, ReadTypes, FoundFeeds DEF RawReads
    <3>5. o = r \/ FeedsRead(sources, o) \cap FeedsRead(sources, r) = {} \/ {o.read, r.read} = {"latest", "series"}
      BY <3>3 DEF OnePath
    <3>6. {o.read, r.read} # {"latest", "series"}
      BY <3>1, <3>2 DEF RawReads
    <3>7. CASE o = r
      BY <1>5, <3>1, <3>2, <3>7, RawReadOrder
    <3>8. CASE o # r
      BY <3>4, <3>5, <3>6, <3>8 DEF Older
    <3>9. QED
      BY <3>7, <3>8
  <2>2. CASE q.read \in RawReads
    <3>1. s \in UNION Found(q, a, e, w) /\ t \in UNION Found(q, a, d, v)
      BY <1>1, <1>2, <1>8, <2>2 DEF RawReads
    <3>2. QED
      BY <1>5, <2>2, <3>1, RawReadOrder
  <2>3. CASE q.read \in {"past", "grown"}
    BY <1>1, <2>3 DEF Found, Base
  <2>4. CASE q.read \in {"latest", "series"}
    <3>1. s \in UNION Found(q, a, e, w) /\ t \in UNION Found(p, a, d, v)
      BY <1>1, <1>2, <1>8, <2>4
    <3>2. LiveOr(daily, q.of) \/ d = e
      <4>1. st.out \in Windowed(daily) => InWindow(daily, q)
        BY DEF Windowed
      <4>2. InWindow(daily, q) => LiveOr(daily, q.of)
        BY <2>4 DEF InWindow, InDay
      <4>3. QED
        BY <4>1, <4>2
    <3>3. QED
      BY <1>4, <1>5, <1>8, <2>4, <3>1, <3>2, FeatReadOrder
  <2>5. q.read \in ReadKinds
    BY ReadTypes
  <2>6. QED
    BY <2>1, <2>2, <2>3, <2>4, <2>5 DEF ReadKinds, RawReads
<1>9. QED
  BY <1>4, <1>6, <1>7, <1>8

\* where a read as of the cutoff can see to
View == IF cutoff <= now THEN cutoff ELSE now

\* what is written after c does not change what is found as of c
LEMMA FoundStable ==
  ASSUME now \in Nat, [Next]_vars, NEW q, q.read \in ReadKinds, q.read # "mem", NEW a, NEW d,
         NEW c \in Nat, c <= now
  PROVE  Found(q, a, d, c)' = Found(q, a, d, c)
<1>1. Grows(feats, feats') /\ Grows(raws, raws')
  BY AppendOnly DEF Appends
<1>2. ASSUME NEW k, NEW x PROVE GetLatest(k, x, c)' = GetLatest(k, x, c)
  <2>1. {r \in feats' : r.key = k /\ r.day = x /\ r.at <= c} = {r \in feats : r.key = k /\ r.day = x /\ r.at <= c}
    BY <1>1 DEF Grows
  <2>2. QED
    BY <2>1 DEF GetLatest, Newest
<1>3. ASSUME NEW feed, NEW x PROVE RawAsOf(feed, x, c)' = RawAsOf(feed, x, c)
  <2>1. {r \in raws' : r.s.feed = feed /\ r.s.day = x /\ r.at <= c}
          = {r \in raws : r.s.feed = feed /\ r.s.day = x /\ r.at <= c}
    BY <1>1 DEF Grows
  <2>2. QED
    BY <2>1 DEF RawAsOf, Newest
<1>4. ASSUME NEW k PROVE SeriesDays(k, d, c)' = SeriesDays(k, d, c)
  BY <1>2 DEF SeriesDays
<1>5. ASSUME NEW k PROVE LastOf(k, d, c)' = LastOf(k, d, c)
  BY <1>2, <1>4 DEF LastOf, LastDayOf
<1>6. ASSUME NEW feed PROVE LastRaw(feed, d, c)' = LastRaw(feed, d, c)
  <2>1. RawDays(feed, d, c)' = RawDays(feed, d, c)
    BY <1>3 DEF RawDays
  <2>2. QED
    BY <1>3, <2>1 DEF LastRaw, LastDayOf
<1>7. Key(q.of, a)' = Key(q.of, a) /\ CoinIDForAsset(a)' = CoinIDForAsset(a) /\ Past(d)' = Past(d)
  BY DEF Key, Outs, CoinIDForAsset, Past
<1>8. CASE q.read \in {"raw", "rawWindow", "rawCoin"}
  BY <1>3, <1>7, <1>8 DEF Found
<1>9. CASE q.read \in {"rawSeries", "series", "latest"}
  BY <1>2, <1>5, <1>6, <1>7, <1>9 DEF Found
<1>10. CASE q.read \in {"rawPast", "past"}
  BY <1>2, <1>3, <1>7, <1>10 DEF Found, Base
<1>11. CASE q.read = "grown"
  BY <1>4, <1>7, <1>11 DEF Found
<1>12. QED
  BY <1>8, <1>9, <1>10, <1>11 DEF ReadKinds

\* a read cannot see beyond the clock
LEMMA GetLatestView ==
  ASSUME TypeOK, NEW k, NEW x
  PROVE  GetLatest(k, x, cutoff) = GetLatest(k, x, View)
<1>1. \A r \in feats : r.at \in 1 .. now
  BY DEF TypeOK
<1>2. now \in Nat /\ cutoff \in Nat
  BY DEF TypeOK
<1>3. {r \in feats : r.key = k /\ r.day = x /\ r.at <= cutoff} = {r \in feats : r.key = k /\ r.day = x /\ r.at <= View}
  BY <1>1, <1>2 DEF View
<1>4. QED
  BY <1>3 DEF GetLatest

LEMMA FoundView ==
  ASSUME TypeOK, NEW q, q.read \in ReadKinds, q.read # "mem", NEW a, NEW d
  PROVE  Found(q, a, d, cutoff) = Found(q, a, d, View)
<1>1. now \in Nat /\ cutoff \in Nat
  BY DEF TypeOK
<1>2. ASSUME NEW feed, NEW x PROVE RawAsOf(feed, x, cutoff) = RawAsOf(feed, x, View)
  <2>1. \A r \in raws : r.at \in 1 .. now
    BY DEF TypeOK
  <2>2. {r \in raws : r.s.feed = feed /\ r.s.day = x /\ r.at <= cutoff}
          = {r \in raws : r.s.feed = feed /\ r.s.day = x /\ r.at <= View}
    BY <1>1, <2>1 DEF View
  <2>3. QED
    BY <2>2 DEF RawAsOf
<1>3. ASSUME NEW k PROVE SeriesDays(k, d, cutoff) = SeriesDays(k, d, View)
  BY GetLatestView DEF SeriesDays
<1>4. ASSUME NEW k PROVE LastOf(k, d, cutoff) = LastOf(k, d, View)
  BY <1>3, GetLatestView DEF LastOf
<1>5. ASSUME NEW feed PROVE LastRaw(feed, d, cutoff) = LastRaw(feed, d, View)
  <2>1. RawDays(feed, d, cutoff) = RawDays(feed, d, View)
    BY <1>2 DEF RawDays
  <2>2. QED
    BY <1>2, <2>1 DEF LastRaw
<1>8. CASE q.read \in {"raw", "rawWindow", "rawCoin"}
  BY <1>2, <1>8 DEF Found
<1>9. CASE q.read \in {"rawSeries", "series", "latest"}
  BY <1>4, <1>5, <1>9, GetLatestView DEF Found
<1>10. CASE q.read \in {"rawPast", "past"}
  BY <1>2, <1>10, GetLatestView DEF Found
<1>11. CASE q.read = "grown"
  BY <1>3, <1>11 DEF Found
<1>12. QED
  BY <1>8, <1>9, <1>10, <1>11 DEF ReadKinds

\* so where a sample comes from does not change either
LEMMA OriginStable ==
  ASSUME now \in Nat, [Next]_vars, NEW st \in AllStages, NEW a, NEW d, NEW c \in Nat, c <= now,
         NEW s, Origin(st, a, d, c, s)
  PROVE  Origin(st, a, d, c, s)'
<1>1. \A g \in AllStages : \A q \in ReadsOf(g) : q.read \in ReadKinds
  BY ReadTypes
<1>2. \A g \in AllStages : \A q \in ReadsOf(g) : q.read # "mem" => Found(q, a, d, c)' = Found(q, a, d, c)
  BY <1>1, FoundStable
<1>3. \A p : p.read \in RawReads => p.read # "mem"
  BY DEF RawReads
<1>4. QED
  BY <1>2, <1>3 DEF Origin, ReadsOf, AllStages

LEMMA OriginView ==
  ASSUME TypeOK, NEW st \in AllStages, NEW a, NEW d, NEW s, Origin(st, a, d, cutoff, s)
  PROVE  Origin(st, a, d, View, s)
<1>1. \A g \in AllStages : \A q \in ReadsOf(g) : q.read \in ReadKinds
  BY ReadTypes
<1>2. \A g \in AllStages : \A q \in ReadsOf(g) : q.read # "mem" => Found(q, a, d, View) = Found(q, a, d, cutoff)
  BY <1>1, FoundView
<1>3. \A p : p.read \in RawReads => p.read # "mem"
  BY DEF RawReads
<1>4. QED
  BY <1>2, <1>3 DEF Origin

\* the stage at hand is a stage; it stores its feature under the asset at hand
LEMMA StageHere ==
  ASSUME TypeOK, StagesInOrder, AtStage
  PROVE  /\ StageSeq[idx] \in AllStages
         /\ Key(StageSeq[idx].out, AssetNow) = <<StageSeq[idx].out, AssetNow>>
<1>1. idx \in DOMAIN StageSeq
  BY StageTypeAt
<1>2. CASE ai = 0
  BY <1>1, <1>2 DEF StageSeq, AllStages, Key, AssetNow
<1>3. CASE ai # 0
  <2>1. StageSeq = AssetStages
    BY <1>3 DEF StageSeq
  <2>2. StageSeq[idx].out \notin Outs(GlobalStages)
    BY <1>1, <2>1 DEF StagesInOrder, Outs
  <2>3. QED
    BY <1>1, <2>1, <2>2 DEF AllStages, Key
<1>4. QED
  BY <1>2, <1>3

\* what a stage computes comes from its reads as of the cutoff
LEMMA StageOrigin ==
  ASSUME TypeOK, StagesInOrder, MemOrigins, AtStage, NEW src \in StageResult, NEW s \in src
  PROVE  Origin(StageSeq[idx], AssetNow, day, View, s)
<1> DEFINE st == StageSeq[idx]
<1>1. PICK k \in DOMAIN st.alts : src = UNION {UNION Found(q, AssetNow, day, cutoff) : q \in st.alts[k]}
  BY StageTook DEF StageResult
<1>2. PICK q \in st.alts[k] : s \in UNION Found(q, AssetNow, day, cutoff)
  BY <1>1
<1>3. st \in AllStages /\ q \in ReadsOf(st)
  BY StageHere DEF ReadsOf
<1>4. q.read = "mem" => q.of \in MemNames
  BY StageTypeAt
<1> HIDE DEF st
<1>5. CASE q.read # "mem"
  <2>1. Origin(st, AssetNow, day, cutoff, s)
    BY <1>2, <1>3, <1>5 DEF Origin
  <2>2. QED
    BY <1>3, <2>1, OriginView DEF st
<1>6. CASE q.read = "mem"
  <2>1. PICK v \in mem[q.of] : s \in v
    BY <1>2, <1>6 DEF Found
  <2>2. \E g \in AllStages : g.out = q.of /\
          \E p \in ReadsOf(g) : p.read \in RawReads /\ s \in UNION Found(p, AssetNow, day, cutoff)
    BY <1>4, <1>6, <2>1 DEF MemOrigins, AtStage
  <2>3. Origin(st, AssetNow, day, cutoff, s)
    BY <1>3, <1>6, <2>2 DEF Origin
  <2>4. QED
    BY <1>3, <2>3, OriginView DEF st
<1>7. QED
  BY <1>5, <1>6

\* a read of a raw table does not change while the raw tables do not
LEMMA RawFoundSame ==
  ASSUME raws' = raws, NEW q, q.read \in RawReads, NEW a, NEW d, NEW c
  PROVE  Found(q, a, d, c)' = Found(q, a, d, c)
<1>1. ASSUME NEW feed, NEW x PROVE RawAsOf(feed, x, c)' = RawAsOf(feed, x, c)
  BY DEF RawAsOf, Newest
<1>2. ASSUME NEW feed PROVE LastRaw(feed, d, c)' = LastRaw(feed, d, c)
  <2>1. RawDays(feed, d, c)' = RawDays(feed, d, c)
    BY <1>1 DEF RawDays
  <2>2. QED
    BY <1>1, <2>1 DEF LastRaw, LastDayOf
<1>3. CASE q.read \in {"raw", "rawWindow", "rawCoin"}
  BY <1>1, <1>3 DEF Found, CoinIDForAsset
<1>4. CASE q.read = "rawPast"
  BY <1>1, <1>4 DEF Found, Base, Past
<1>5. CASE q.read = "rawSeries"
  BY <1>2, <1>5 DEF Found
<1>6. QED
  BY <1>3, <1>4, <1>5 DEF RawReads

\* the values in local variables were read as of the run's cutoff
LEMMA MemOriginsStep ==
  ASSUME TypeOK, StagesInOrder, MemSeen("day"), MemOrigins, [Next]_vars
  PROVE  MemOrigins'
<1> DEFINE From(g, s, a, d, c) ==
      \E st \in AllStages : st.out = g /\ \E p \in ReadsOf(st) : p.read \in RawReads /\ s \in UNION Found(p, a, d, c)
<1> SUFFICES ASSUME mode' # "idle", phase' = "compute", NEW g \in MemNames, NEW src \in mem'[g], NEW s \in src
             PROVE  From(g, s, AssetNow, day, cutoff)'
  BY DEF MemOrigins
<1> USE DEF store, world, span, bound, clear
<1>1. mem' # NoMem
  BY DEF NoMem
<1>2. ~TakeCutoff /\ ~EnterAssets /\ ~Announce
  BY <1>1 DEF TakeCutoff, EnterAssets, Announce
<1>3. UNCHANGED vars \/ ComputeStage \/ LoseFeature
  BY <1>2, ComputeSteps
<1>4. raws' = raws /\ UNCHANGED <<mode, phase, day, cutoff, AssetNow>>
  BY <1>3 DEF vars, ComputeStage, LoseFeature, AssetNow
<1>5. ASSUME From(g, s, AssetNow, day, cutoff) PROVE From(g, s, AssetNow, day, cutoff)'
  <2>1. PICK st \in AllStages : st.out = g /\ \E p \in ReadsOf(st) : p.read \in RawReads /\ s \in UNION Found(p, AssetNow, day, cutoff)
    BY <1>5
  <2>2. PICK p \in ReadsOf(st) : p.read \in RawReads /\ s \in UNION Found(p, AssetNow, day, cutoff)
    BY <2>1
  <2>3. PICK a, d, c : a = AssetNow /\ d = day /\ c = cutoff
    OBVIOUS
  <2>4. Found(p, a, d, c)' = Found(p, a, d, c)
    BY <1>4, <2>2, RawFoundSame
  <2>5. a = AssetNow' /\ d = day' /\ c = cutoff'
    BY <1>4, <2>3
  <2>6. s \in UNION Found(p, a, d, c)'
    BY <2>2, <2>3, <2>4
  <2>7. From(g, s, a, d, c)'
    BY <2>1, <2>2, <2>6 DEF AllStages, ReadsOf
  <2>8. QED
    BY <2>5, <2>7
<1>6. CASE mem'[g] = mem[g]
  BY <1>4, <1>5, <1>6 DEF MemOrigins
<1>7. CASE mem'[g] # mem[g]
  <2>1. AtStage /\ Remember(StageSeq[idx].out, StageResult)
    BY <1>3, <1>7 DEF vars, ComputeStage, LoseFeature
  <2>2. StageSeq[idx].out = g /\ src \in StageResult
    BY <1>7, <2>1 DEF Remember, MemSeen
  <2>3. PICK k \in DOMAIN StageSeq[idx].alts :
          src = UNION {UNION Found(q, AssetNow, day, cutoff) : q \in StageSeq[idx].alts[k]}
    BY <2>2, StageTook DEF StageResult
  <2>4. PICK q \in StageSeq[idx].alts[k] : s \in UNION Found(q, AssetNow, day, cutoff)
    BY <2>3
  <2>5. q.read \in RawReads
    BY <2>1, <2>2, StageTypeAt, MemStages DEF ReadsOnlyRaws
  <2>6. StageSeq[idx] \in AllStages /\ q \in ReadsOf(StageSeq[idx])
    BY <2>1, StageHere DEF ReadsOf
  <2>7. From(g, s, AssetNow, day, cutoff)
    BY <2>2, <2>4, <2>5, <2>6
  <2>8. QED
    BY <1>5, <2>7
<1>8. QED
  BY <1>6, <1>7

\* a row that a stage stores: its feature, asset and day, and where its samples come from
LEMMA StageRow ==
  ASSUME TypeOK, StagesInOrder, MemOrigins, ComputeStage, NEW r \in feats', r \notin feats
  PROVE  /\ AtStage /\ StageSeq[idx] \in AllStages /\ StageSeq[idx].out \in AllOuts
         /\ r.key = <<StageSeq[idx].out, AssetNow>> /\ r.day = day /\ r.at = now + 1
         /\ \A s \in r.src : Origin(StageSeq[idx], AssetNow, day, View, s)
<1>1. AtStage
  BY DEF ComputeStage
<1>2. StageSeq[idx] \in AllStages /\ Key(StageSeq[idx].out, AssetNow) = <<StageSeq[idx].out, AssetNow>>
  BY <1>1, StageHere
<1>3. StageSeq[idx].out \in AllOuts
  BY <1>2 DEF AllStages, AllOuts, Outs
<1>4. r.key = Key(StageSeq[idx].out, AssetNow) /\ r.day = day /\ r.at = now + 1 /\ r.src \in StageResult
  BY DEF ComputeStage, SaveFeature
<1>5. \A s \in r.src : Origin(StageSeq[idx], AssetNow, day, View, s)
  BY <1>1, <1>4, StageOrigin
<1>6. QED
  BY <1>1, <1>2, <1>3, <1>4, <1>5

\* a run takes its cutoff once, when it has ingested, and not before now
LEMMA ComputingStep ==
  ASSUME TypeOK, [Next]_vars, Computing'
  PROVE  \/ TakeCutoff /\ now <= cutoff' /\ now' = now
         \/ Computing /\ cutoff' = cutoff
<1> USE DEF Computing, store, world, span, bound, clear
<1>1. CASE TakeCutoff
  BY <1>1, DomainAssumption DEF TakeCutoff, Cutoff, TypeOK
<1>2. CASE NextDay \/ Revise \/ (\E f \in Foreign : ForeignIngest(f))
  BY <1>2 DEF NextDay, Revise, ForeignIngest, Outside
<1>3. CASE (\E d \in 0 .. today : RunOnce(d)) \/ (\E f, t \in 0 .. today : RunBackfill(f, t))
  BY <1>3 DEF RunOnce, RunBackfill, Begin
<1>4. CASE Abort \/ IngestFails \/ IngestNothing \/ IngestSave \/ IngestPublish
  BY <1>4 DEF Abort, IngestFails, IngestNothing, IngestSave, IngestPublish, AtFeed
<1>5. CASE ComputeStage \/ LoseFeature \/ EnterAssets
  BY <1>5 DEF ComputeStage, LoseFeature, EnterAssets, AtStage
<1>6. CASE SaveScore
  BY <1>6 DEF SaveScore, AtScore
<1>7. CASE Announce
  BY <1>7 DEF Announce
<1>8. CASE UNCHANGED vars
  BY <1>8 DEF vars
<1>9. QED
  BY <1>1, <1>2, <1>3, <1>4, <1>5, <1>6, <1>7, <1>8 DEF Next

\* every stored feature comes from its stage's reads as of a time before it was stored
LEMMA FeatOriginsStep ==
  ASSUME TypeOK, StagesInOrder, LiveFeaturesApart, MemOrigins, FeatOrigins, [Next]_vars
  PROVE  FeatOrigins'
<1>1. now \in Nat /\ cutoff \in Nat /\ \A r \in feats : r.at \in 1 .. now
  BY DEF TypeOK
<1> SUFFICES ASSUME NEW r \in feats', r.key[1] \in AllOuts
             PROVE  \E c \in Nat :
                      /\ c < r.at /\ (Computing' => c <= cutoff')
                      /\ \A s \in r.src : \E st \in AllStages : st.out = r.key[1] /\ Origin(st, r.key[2], r.day, c, s)'
  BY DEF FeatOrigins, AllStages, AllOuts, Outs
<1>2. CASE r \in feats
  <2>1. PICK c \in Nat :
          /\ c < r.at /\ (Computing => c <= cutoff)
          /\ \A s \in r.src : \E st \in AllStages : st.out = r.key[1] /\ Origin(st, r.key[2], r.day, c, s)
    BY <1>2 DEF FeatOrigins
  <2>2. c <= now
    BY <1>1, <1>2, <2>1
  <2>3. Computing' => c <= cutoff'
    <3>1. CASE TakeCutoff /\ now <= cutoff'
      <4>1. cutoff' \in Nat
        BY TypeStep DEF TypeOK
      <4>2. QED
        BY <1>1, <2>2, <3>1, <4>1
    <3>2. CASE Computing /\ cutoff' = cutoff
      BY <2>1, <3>2
    <3>3. QED
      BY <3>1, <3>2, ComputingStep
  <2>4. \A s \in r.src : \E st \in AllStages : st.out = r.key[1] /\ Origin(st, r.key[2], r.day, c, s)'
    BY <1>1, <2>1, <2>2, OriginStable
  <2>5. QED
    BY <2>1, <2>3, <2>4
<1>3. CASE r \notin feats
  <2>1. ~(IngestSave /\ FeedSeq[idx].kind = "feature")
    BY <1>3, LiveFeatureRow DEF LiveFeaturesApart
  <2>2. ComputeStage
    BY <1>3, <2>1, FeatsStep
  <2>3. /\ StageSeq[idx] \in AllStages
        /\ r.key = <<StageSeq[idx].out, AssetNow>> /\ r.day = day /\ r.at = now + 1
        /\ \A s \in r.src : Origin(StageSeq[idx], AssetNow, day, View, s)
    BY <1>3, <2>2, StageRow
  <2>4. PICK c : c = View
    OBVIOUS
  <2>5. c \in Nat /\ c <= now /\ c <= cutoff
    BY <1>1, <2>4 DEF View
  <2>6. cutoff' = cutoff
    BY <2>2 DEF ComputeStage
  <2>7. PICK st \in AllStages : st = StageSeq[idx]
    BY <2>3
  <2>8. \A s \in r.src : Origin(st, r.key[2], r.day, c, s)
    BY <2>3, <2>4, <2>7
  <2>9. \A s \in r.src : Origin(st, r.key[2], r.day, c, s)'
    BY <1>1, <2>5, <2>8, OriginStable
  <2>10. c < r.at
    BY <1>1, <2>3, <2>5
  <2>11. QED
    BY <2>3, <2>5, <2>6, <2>7, <2>9, <2>10
<1>4. QED
  BY <1>2, <1>3

\* features keep resting on samples of their feeds
LEMMA FeatSourcesStep ==
  ASSUME TypeOK, WellOrdered, NEW daily, NEW sources, OnePath(daily, sources), MemOrigins,
         FeatSources(sources), [Next]_vars
  PROVE  FeatSources(sources)'
<1> SUFFICES ASSUME NEW r \in feats', NEW s \in r.src
             PROVE  s.feed \in SourcesOf(sources, r.key[1])
  BY DEF FeatSources, SourcesOf, AllOuts, Outs
<1>1. CASE r \in feats
  BY <1>1 DEF FeatSources
<1>2. CASE r \notin feats /\ IngestSave /\ FeedSeq[idx].kind = "feature"
  BY <1>2, LiveFeatureRow DEF WellOrdered, LiveFeaturesApart, SourcesOf
<1>3. CASE r \notin feats /\ ComputeStage
  <2>1. PICK st \in AllStages : st.out \in AllOuts /\ st.out = r.key[1] /\ Origin(st, AssetNow, day, View, s)
    BY <1>3, StageRow DEF WellOrdered
  <2>2. PICK q \in ReadsOf(st) :
          \/ q.read # "mem" /\ s \in UNION Found(q, AssetNow, day, View)
          \/ q.read = "mem" /\ \E g \in AllStages : g.out = q.of /\
               \E p \in ReadsOf(g) : p.read \in RawReads /\ s \in UNION Found(p, AssetNow, day, View)
    BY <2>1 DEF Origin
  <2>3. s.feed \in FeedsRead(sources, q)
    BY <2>2, OriginFeeds
  <2>4. s.feed \in sources[st.out]
    BY <2>3 DEF OnePath
  <2>5. QED
    BY <2>1, <2>4 DEF SourcesOf
<1>4. QED
  BY <1>1, <1>2, <1>3, FeatsStep

\* and, where that is known, on samples of their day
LEMMA FeatDaysStep ==
  ASSUME TypeOK, WellOrdered, NEW daily, Daily(daily), MemOrigins, FeatDays(daily), [Next]_vars
  PROVE  FeatDays(daily)'
<1> SUFFICES ASSUME NEW r \in feats', LiveOr(daily, r.key[1]), NEW s \in r.src
             PROVE  s.day = r.day
  BY DEF FeatDays, LiveOr, AllOuts, Outs
<1>1. CASE r \in feats
  BY <1>1 DEF FeatDays
<1>2. CASE r \notin feats /\ IngestSave /\ FeedSeq[idx].kind = "feature"
  <2>1. s \in Fetched(FeedSeq[idx]) /\ r.day = to
    BY <1>2 DEF IngestSave
  <2>2. QED
    BY <1>2, <2>1 DEF Fetched, Sample
<1>3. CASE r \notin feats /\ ComputeStage
  <2>1. PICK st \in AllStages : /\ st.out \in AllOuts /\ st.out = r.key[1] /\ r.day = day
                                /\ Origin(st, AssetNow, day, View, s)
    BY <1>3, StageRow DEF WellOrdered
  <2>2. PICK q \in ReadsOf(st) :
          \/ q.read # "mem" /\ s \in UNION Found(q, AssetNow, day, View)
          \/ q.read = "mem" /\ \E g \in AllStages : g.out = q.of /\
               \E p \in ReadsOf(g) : p.read \in RawReads /\ s \in UNION Found(p, AssetNow, day, View)
    BY <2>1 DEF Origin
  <2>3. InDay(daily, q)
    BY <2>1 DEF Daily, LiveOr
  <2>4. CASE q.read # "mem"
    BY <2>1, <2>2, <2>3, <2>4, FoundInDay
  <2>5. CASE q.read = "mem"
    <3> PICK g \in AllStages : g.out = q.of /\
               \E p \in ReadsOf(g) : p.read \in RawReads /\ s \in UNION Found(p, AssetNow, day, View)
      BY <2>2, <2>5
    <3>1. PICK p \in ReadsOf(g) : p.read \in RawReads /\ s \in UNION Found(p, AssetNow, day, View)
      OBVIOUS
    <3>2. q.of \in daily
      BY <2>3, <2>5 DEF InDay
    <3>3. InDay(daily, p) /\ p.read # "mem"
      BY <3>1, <3>2 DEF Daily, RawReads
    <3>4. QED
      BY <2>1, <3>1, <3>3, FoundInDay
  <2>6. QED
    BY <2>4, <2>5
<1>4. QED
  BY <1>1, <1>2, <1>3, FeatsStep

\* a live snapshot has the revision of its time
LEMMA LiveVersionsStep ==
  ASSUME TypeOK, LiveVersions, [Next]_vars
  PROVE  LiveVersions'
<1>1. rev \in Nat /\ rev' \in Nat /\ rev <= rev'
  BY RevStep DEF TypeOK
<1> SUFFICES ASSUME NEW r \in feats', r.key[1] \notin AllOuts, NEW s \in r.src
             PROVE  s.ver \in Nat /\ s.ver <= rev'
  BY DEF LiveVersions, AllOuts, Outs
<1>2. CASE r \in feats
  BY <1>1, <1>2 DEF LiveVersions
<1>3. CASE r \notin feats /\ IngestSave /\ FeedSeq[idx].kind = "feature"
  <2>1. s \in Fetched(FeedSeq[idx])
    BY <1>3 DEF IngestSave
  <2>2. s.ver = rev
    BY <1>3, <2>1 DEF Fetched, Sample
  <2>3. QED
    BY <1>1, <2>2
<1>4. CASE r \notin feats /\ ComputeStage
  <2>1. r.key = Key(StageSeq[idx].out, AssetNow)
    BY <1>4 DEF ComputeStage, SaveFeature
  <2>2. r.key[1] = StageSeq[idx].out /\ idx \in DOMAIN StageSeq
    BY <1>4, <2>1, StageTypeAt DEF Key, ComputeStage
  <2>3. r.key[1] \in AllOuts
    BY <2>2 DEF StageSeq, AllOuts, Outs
  <2>4. QED
    BY <2>3
<1>5. QED
  BY <1>2, <1>3, <1>4, FeatsStep

(***************************************************************************)
(* What a stage or a live snapshot stores does not rest on older samples   *)
(* than what is stored already.                                            *)
(***************************************************************************)
LEMMA FeatOrderedStep ==
  ASSUME TypeOK, WellOrdered, RawOrdered, FeatSeen("day"), NEW daily, NEW sources, OnePath(daily, sources),
         MemOrigins, FeatSources(sources), FeatDays(daily), LiveVersions, FeatOrigins, FeatOrdered(daily),
         [Next]_vars
  PROVE  FeatOrdered(daily)'
<1>1. now \in Nat /\ \A r \in feats : r.at \in 1 .. now /\ r.day \in Nat
  BY DEF TypeOK, FeatSeen
<1>2. \A r \in feats' : r \in feats \/ r.at = now + 1
  BY <1>1, AppendOnly DEF Appends, Grows
<1> SUFFICES ASSUME NEW r \in feats', NEW q \in feats', r.key = q.key, r.at <= q.at,
                    r.day = q.day \/ (LiveOr(Windowed(daily), r.key[1]) /\ r.day <= q.day),
                    NEW s \in q.src, NEW t \in r.src
             PROVE  ~Older(s, t)
  BY DEF FeatOrdered, NotOlder, Older, LiveOr, Windowed, AllOuts, Outs, AllStages, ReadsOf, InWindow, InDay
<1>3. CASE q \in feats
  <2>1. r \in feats
    BY <1>1, <1>2, <1>3
  <2>2. NotOlder(q.src, r.src)
    BY <1>3, <2>1 DEF FeatOrdered
  <2>3. QED
    BY <2>2 DEF NotOlder
<1>4. CASE q \notin feats /\ ComputeStage
  <2>1. PICK st \in AllStages : /\ st = StageSeq[idx] /\ st.out \in AllOuts
                                /\ q.key = <<st.out, AssetNow>> /\ q.day = day
                                /\ Origin(st, AssetNow, day, View, s)
    BY <1>4, StageRow DEF WellOrdered
  <2>2. PICK v \in Nat : v <= View /\ r.day \in Nat /\ Origin(st, AssetNow, r.day, v, t)
    <3>1. View \in Nat /\ day \in Nat
      BY DEF View, TypeOK
    <3>2. CASE r \in feats
      <4>1. r.key[1] = st.out /\ r.key[2] = AssetNow
        BY <2>1
      <4>2. PICK c \in Nat :
              /\ c < r.at /\ (Computing => c <= cutoff)
              /\ \A u \in r.src : \E g \in AllStages : g.out = st.out /\ Origin(g, AssetNow, r.day, c, u)
        BY <2>1, <3>2, <4>1 DEF FeatOrigins
      <4>3. c <= View
        BY <1>1, <1>4, <3>2, <4>2 DEF View, Computing, ComputeStage, AtStage
      <4>4. Origin(st, AssetNow, r.day, c, t)
        BY <4>2, OneStage DEF WellOrdered
      <4>5. QED
        BY <1>1, <3>2, <4>3, <4>4
    <3>3. CASE r \notin feats
      <4>1. r.day = day /\ Origin(StageSeq[idx], AssetNow, day, View, t)
        BY <1>4, <3>3, StageRow DEF WellOrdered
      <4>2. Origin(st, AssetNow, r.day, View, t)
        BY <2>1, <4>1
      <4>3. QED
        BY <3>1, <4>1, <4>2
    <3>4. QED
      BY <3>2, <3>3
  <2>3. r.day = day \/ (r.day <= day /\ st.out \in Windowed(daily))
    BY <2>1 DEF LiveOr
  <2>4. View \in Nat /\ day \in Nat
    BY DEF View, TypeOK
  <2>5. QED
    BY <2>1, <2>2, <2>3, <2>4, OriginOrder DEF WellOrdered
<1>5. CASE q \notin feats /\ IngestSave /\ FeedSeq[idx].kind = "feature"
  <2>1. \A u \in Fetched(FeedSeq[idx]) : u.day = to /\ u.ver = rev
    BY <1>5 DEF Fetched, Sample
  <2>2. \A row \in feats' : row \in feats \/ (row.day = to /\ row.src = Fetched(FeedSeq[idx]))
    BY <1>5 DEF IngestSave
  <2>3. s.day = q.day /\ s.ver = rev
    BY <1>5, <2>1, <2>2
  <2>4. q.key[1] \notin AllOuts
    BY <1>5, LiveFeatureRow DEF WellOrdered, LiveFeaturesApart
  <2>5. t.day = r.day /\ t.ver \in Nat /\ t.ver <= rev
    <3>1. CASE r \in feats
      BY <2>4, <3>1 DEF FeatDays, LiveOr, LiveVersions
    <3>2. CASE r \notin feats
      BY <2>1, <2>2, <3>2 DEF TypeOK
    <3>3. QED
      BY <3>1, <3>2
  <2>6. rev \in Nat /\ r.day \in Nat /\ q.day \in Nat /\ r.day <= q.day
    BY <1>1, <2>2 DEF TypeOK
  <2>7. QED
    BY <2>3, <2>5, <2>6 DEF Older
<1>6. QED
  BY <1>3, <1>4, <1>5, FeatsStep

\* where the reads of a score could see to: its cutoff, or its time when that was in the future
ViewOf(sc) == IF sc.cutoff < sc.at THEN sc.cutoff ELSE sc.at - 1

\* a score can be read back there, and later scores have seen at least as much
ScoreViews ==
  /\ \A sc \in scores :
       /\ sc.day \in Nat /\ sc.cutoff \in Nat
       /\ GatherInputs(sc.asset, sc.day, ViewOf(sc)) = sc.inputs
       /\ Computing => ViewOf(sc) <= cutoff
  /\ \A sc, old \in scores : old.at < sc.at => ViewOf(old) <= ViewOf(sc)

LEMMA ScoreViewsStep ==
  ASSUME TypeOK, ScoreViews, [Next]_vars
  PROVE  ScoreViews'
<1>1. now \in Nat /\ cutoff \in Nat /\ day \in Nat /\ \A sc \in scores : sc.at \in 1 .. now
  BY DEF TypeOK
<1>2. ASSUME NEW sc \in scores
      PROVE  /\ sc.day \in Nat /\ sc.cutoff \in Nat
             /\ GatherInputs(sc.asset, sc.day, ViewOf(sc))' = sc.inputs
             /\ Computing' => ViewOf(sc) <= cutoff'
  <2>1. ViewOf(sc) \in Nat /\ ViewOf(sc) <= now
    BY <1>1 DEF ViewOf, ScoreViews
  <2>2. GatherInputs(sc.asset, sc.day, ViewOf(sc))' = GatherInputs(sc.asset, sc.day, ViewOf(sc))
    <3>1. PICK c \in Nat : c = ViewOf(sc) /\ c = ViewOf(sc)'
      BY <2>1 DEF ViewOf
    <3>2. GatherInputs(sc.asset, sc.day, c)' = GatherInputs(sc.asset, sc.day, c)
      BY <1>1, <2>1, <3>1, GatherStable
    <3>3. QED
      BY <3>1, <3>2
  <2>3. Computing' => ViewOf(sc) <= cutoff'
    <3>1. CASE TakeCutoff /\ now <= cutoff'
      <4>1. cutoff' \in Nat
        BY TypeStep DEF TypeOK
      <4>2. QED
        BY <1>1, <2>1, <3>1, <4>1
    <3>2. CASE Computing /\ cutoff' = cutoff
      BY <3>2 DEF ScoreViews
    <3>3. QED
      BY <3>1, <3>2, ComputingStep
  <2>4. QED
    BY <2>2, <2>3 DEF ScoreViews
<1>3. ASSUME NEW sc \in scores', sc \notin scores
      PROVE  /\ SaveScore /\ sc.at = now + 1 /\ ViewOf(sc) = View /\ UNCHANGED <<cutoff, feats>>
             /\ sc.day = day /\ sc.cutoff = cutoff /\ sc.inputs = GatherInputs(sc.asset, day, cutoff)
  <2>1. SaveScore
    BY <1>3, ScoresStep
  <2>2. /\ sc.at = now + 1 /\ UNCHANGED <<cutoff, feats>>
        /\ sc.day = day /\ sc.cutoff = cutoff /\ sc.inputs = GatherInputs(sc.asset, day, cutoff)
    BY <1>3, <2>1 DEF SaveScore
  <2>3. ViewOf(sc) = View
    BY <1>1, <2>2 DEF ViewOf, View
  <2>4. QED
    BY <2>1, <2>2, <2>3
<1>4. ASSUME NEW sc \in scores', sc \notin scores
      PROVE  /\ sc.day \in Nat /\ sc.cutoff \in Nat
             /\ GatherInputs(sc.asset, sc.day, ViewOf(sc))' = sc.inputs
             /\ Computing' => ViewOf(sc) <= cutoff'
  <2>1. GatherInputs(sc.asset, day, cutoff) = GatherInputs(sc.asset, day, View)
    BY GetLatestView DEF GatherInputs
  <2>2. PICK c : c = View /\ c = ViewOf(sc) /\ c = ViewOf(sc)'
    BY <1>3, <1>4 DEF ViewOf
  <2>3. GatherInputs(sc.asset, sc.day, c)' = GatherInputs(sc.asset, sc.day, c)
    BY <1>3, <1>4 DEF GatherInputs, GetLatest, Newest, Key, Outs
  <2>4. View <= cutoff
    BY <1>1 DEF View
  <2>5. QED
    BY <1>1, <1>3, <1>4, <2>1, <2>2, <2>3, <2>4
<1>5. ASSUME NEW sc \in scores', NEW old \in scores', old.at < sc.at
      PROVE  ViewOf(old) <= ViewOf(sc)
  <2>1. CASE sc \in scores /\ old \in scores
    BY <1>5, <2>1 DEF ScoreViews
  <2>2. CASE sc \in scores /\ old \notin scores
    BY <1>1, <1>3, <1>5, <2>2
  <2>3. CASE sc \notin scores /\ old \notin scores
    BY <1>1, <1>3, <1>5, <2>3
  <2>4. CASE sc \notin scores /\ old \in scores
    <3>1. Computing
      BY <1>3, <2>4 DEF SaveScore, AtScore, Computing
    <3>2. ViewOf(old) <= cutoff /\ ViewOf(old) <= now
      BY <1>1, <2>4, <3>1 DEF ScoreViews, ViewOf
    <3>3. QED
      BY <1>3, <2>4, <3>2 DEF View
  <2>5. QED
    BY <2>1, <2>2, <2>3, <2>4
<1>6. \A sc \in scores' :
        /\ sc.day \in Nat /\ sc.cutoff \in Nat
        /\ GatherInputs(sc.asset, sc.day, ViewOf(sc))' = sc.inputs
        /\ Computing' => ViewOf(sc) <= cutoff'
  BY <1>2, <1>4
<1>7. \A sc : ViewOf(sc)' = ViewOf(sc)
  BY DEF ViewOf
<1>8. QED
  BY <1>5, <1>6, <1>7 DEF ScoreViews

\* what every score, of a live tick or of a backfill, was computed from
ScoresReplayable == \A sc \in scores : GatherInputs(sc.asset, sc.day, ViewOf(sc)) = sc.inputs

(***************************************************************************)
(* Every score can be read back: one of a live tick at its cutoff, one of  *)
(* a backfill, whose cutoff lies 24 hours ahead, at that cutoff or at the  *)
(* last moment before it was saved, whichever is earlier.  It holds of any *)
(* feeds and stages.                                                       *)
(***************************************************************************)
THEOREM AllScoresReplayable == Spec => []ScoresReplayable
<1>1. Init => TypeOK /\ ScoreViews
  BY TypeInit DEF Init, ScoreViews
<1>2. TypeOK /\ ScoreViews /\ [Next]_vars => (TypeOK /\ ScoreViews)'
  BY TypeStep, ScoreViewsStep
<1>3. ScoreViews => ScoresReplayable
  BY DEF ScoreViews, ScoresReplayable
<1>4. QED
  BY <1>1, <1>2, <1>3, PTL DEF Spec

(***************************************************************************)
(* Recomputing a day never makes its score worse, in every service whose   *)
(* stages read a feed along one path: however ticks, backfills, revisions, *)
(* lost features and crashes interleave, an input that was available stays *)
(* available and no sample is replaced by an older one.                    *)
(***************************************************************************)
THEOREM RecomputingIsMonotone ==
  \A daily, sources : WellOrdered /\ OnePath(daily, sources) => (Spec => []FreshnessMonotone)
<1> SUFFICES ASSUME NEW daily, NEW sources, WellOrdered, OnePath(daily, sources)
             PROVE  Spec => []FreshnessMonotone
  OBVIOUS
<1> DEFINE Inv ==
      /\ TypeOK /\ RawSeen("day") /\ FeatSeen("day") /\ MemSeen("day") /\ RawOrdered
      /\ MemOrigins /\ FeatSources(sources) /\ FeatDays(daily) /\ LiveVersions
      /\ FeatOrigins /\ FeatOrdered(daily) /\ ScoreViews
<1>1. Init => Inv
  BY TypeInit DEF Init, RawSeen, FeatSeen, MemSeen, RawOrdered, MemOrigins, FeatSources, FeatDays,
    LiveVersions, FeatOrigins, FeatOrdered, ScoreViews, NoMem
<1>2. Inv /\ [Next]_vars => Inv'
  <2> SUFFICES ASSUME Inv, [Next]_vars PROVE Inv'
    OBVIOUS
  <2>1. TypeOK' /\ RawSeen("day")' /\ FeatSeen("day")' /\ MemSeen("day")' /\ RawOrdered'
    BY TypeStep, RawSeenStep, FeatSeenStep, MemSeenStep, RawOrderedStep DEF Times, Timely
  <2>2. MemOrigins' /\ FeatOrigins'
    BY MemOriginsStep, FeatOriginsStep DEF WellOrdered
  <2>3. FeatSources(sources)' /\ FeatDays(daily)' /\ LiveVersions'
    BY FeatSourcesStep, FeatDaysStep, LiveVersionsStep DEF OnePath
  <2>4. FeatOrdered(daily)' /\ ScoreViews'
    BY FeatOrderedStep, ScoreViewsStep
  <2>5. QED
    BY <2>1, <2>2, <2>3, <2>4
<1>3. Inv => FreshnessMonotone
  <2> SUFFICES ASSUME Inv, NEW sc \in scores, NEW old \in scores,
                      old.asset = sc.asset, old.day = sc.day, old.at < sc.at,
                      NEW f \in Inputs, NEW src \in old.inputs[f]
               PROVE  /\ sc.inputs[f] # {}
                      /\ \A new \in sc.inputs[f] : \A s \in new, t \in src : ~Older(s, t)
    BY DEF FreshnessMonotone
  <2>1. PICK v : v = ViewOf(old)
    OBVIOUS
  <2>2. PICK w : w = ViewOf(sc)
    OBVIOUS
  <2>3. v \in Nat /\ w \in Nat /\ v <= w /\ sc.day \in Nat
    BY <2>1, <2>2 DEF ScoreViews, ViewOf, TypeOK
  <2>4. PICK k : k = Key(f, sc.asset)
    OBVIOUS
  <2>5. old.inputs[f] = GetLatest(k, sc.day, v) /\ sc.inputs[f] = GetLatest(k, sc.day, w)
    BY <2>1, <2>2, <2>4 DEF ScoreViews, GatherInputs
  <2>6. sc.inputs[f] # {}
    BY <2>3, <2>5, GetLatestLater
  <2>7. ASSUME NEW new \in sc.inputs[f], NEW s \in new, NEW t \in src PROVE ~Older(s, t)
    <3>1. s \in UNION GetLatest(k, sc.day, w) /\ t \in UNION GetLatest(k, sc.day, v)
      BY <2>5, <2>7
    <3>2. QED
      BY <2>3, <3>1, FeatRowOrder
  <2>8. QED
    BY <2>6, <2>7
<1>4. QED
  BY <1>1, <1>2, <1>3, PTL DEF Spec

-----------------------------------------------------------------------------
(* No score is older than one window *)

\* within one window before day d
Recent(s, d) == s.day \in Nat /\ d < s.day + Window

FeatRecent == \A r \in feats : \A s \in r.src : Recent(s, r.day)

\* a read through at most one window finds samples of that window
LEMMA FoundRecent ==
  ASSUME Window \in Nat, Window > 0, NEW daily, FeatSeen("day"), FeatDays(daily), FeatRecent,
         NEW q, q.read \in ReadKinds, q.read # "mem", InWindow(daily, q) \/ q.read = "latest",
         NEW a, NEW d \in Nat, NEW c, NEW s \in UNION Found(q, a, d, c)
  PROVE  Recent(s, d)
<1>1. ASSUME NEW feed, NEW x \in 0 .. d, x + Window > d, s \in UNION RawAsOf(feed, x, c)
      PROVE  Recent(s, d)
  <2>1. s.day = x
    BY <1>1 DEF RawAsOf, Newest
  <2>2. QED
    BY <1>1, <2>1 DEF Recent
<1>2. d \in 0 .. d /\ d + Window > d
  OBVIOUS
<1>3. CASE q.read \in {"raw", "rawWindow"}
  <2>1. s \in UNION RawAsOf(q.of, d, c)
    BY <1>3 DEF Found
  <2>2. QED
    BY <1>1, <1>2, <2>1
<1>4. CASE q.read = "rawCoin"
  <2>1. s \in UNION RawAsOf(CoinIDForAsset(a), d, c)
    BY <1>4 DEF Found
  <2>2. QED
    BY <1>1, <1>2, <2>1
<1>5. CASE q.read = "rawSeries"
  <2>1. PICK x \in RawDays(q.of, d, c) : s \in UNION RawAsOf(q.of, x, c)
    BY <1>5 DEF Found, LastRaw, LastDayOf
  <2>2. x \in 0 .. d /\ x + Window > d
    BY DEF RawDays
  <2>3. QED
    BY <1>1, <2>1, <2>2
<1>6. CASE q.read \in {"rawPast", "past", "grown"}
  BY <1>6 DEF Found, Base
<1>7. CASE q.read = "latest"
  <2>1. PICK r \in feats : r.day = d /\ s \in r.src
    BY <1>7 DEF Found, GetLatest, Newest
  <2>2. QED
    BY <2>1 DEF FeatRecent
<1>8. CASE q.read = "series"
  <2>1. PICK x \in SeriesDays(Key(q.of, a), d, c) : s \in UNION GetLatest(Key(q.of, a), x, c)
    BY <1>8 DEF Found, LastOf, LastDayOf
  <2>2. x \in 0 .. d /\ x + Window > d
    BY DEF SeriesDays
  <2>3. PICK r \in feats : r.key = Key(q.of, a) /\ r.day = x /\ s \in r.src
    BY <2>1 DEF GetLatest, Newest
  <2>4. LiveOr(daily, r.key[1])
    BY <1>8, <2>3 DEF InWindow, InDay, Key
  <2>5. s.day = x
    BY <2>3, <2>4 DEF FeatDays
  <2>6. QED
    BY <2>2, <2>5 DEF Recent
<1>9. QED
  BY <1>3, <1>4, <1>5, <1>6, <1>7, <1>8 DEF ReadKinds

\* features rest on samples of one window
LEMMA FeatRecentStep ==
  ASSUME TypeOK, WellOrdered, Window > 0, NEW daily, OneWindow(daily), FeatSeen("day"), MemOrigins,
         FeatDays(daily), FeatRecent, [Next]_vars
  PROVE  FeatRecent'
<1>1. Window \in Nat /\ day \in Nat /\ to \in Nat
  BY DomainAssumption DEF TypeOK
<1> SUFFICES ASSUME NEW r \in feats', NEW s \in r.src PROVE Recent(s, r.day)
  BY DEF FeatRecent, Recent
<1>2. CASE r \in feats
  BY <1>2 DEF FeatRecent
<1>3. CASE r \notin feats /\ IngestSave /\ FeedSeq[idx].kind = "feature"
  <2>1. s \in Fetched(FeedSeq[idx]) /\ r.day = to
    BY <1>3 DEF IngestSave
  <2>2. s.day = to
    BY <1>3, <2>1 DEF Fetched, Sample
  <2>3. QED
    BY <1>1, <2>1, <2>2 DEF Recent
<1>4. CASE r \notin feats /\ ComputeStage
  <2>1. PICK st \in AllStages : r.day = day /\ Origin(st, AssetNow, day, View, s)
    BY <1>4, StageRow DEF WellOrdered
  <2>2. PICK q \in ReadsOf(st) :
          \/ q.read # "mem" /\ s \in UNION Found(q, AssetNow, day, View)
          \/ q.read = "mem" /\ \E g \in AllStages : g.out = q.of /\
               \E p \in ReadsOf(g) : p.read \in RawReads /\ s \in UNION Found(p, AssetNow, day, View)
    BY <2>1 DEF Origin
  <2>3. PICK p : /\ p.read \in ReadKinds /\ p.read # "mem" /\ (InWindow(daily, p) \/ p.read = "latest")
                 /\ s \in UNION Found(p, AssetNow, day, View)
    <3>1. CASE q.read # "mem"
      BY <2>2, <3>1, ReadTypes DEF OneWindow
    <3>2. CASE q.read = "mem"
      <4>1. PICK p : p.read \in RawReads /\ s \in UNION Found(p, AssetNow, day, View)
        BY <2>2, <3>2
      <4>2. p.read \in ReadKinds /\ p.read # "mem" /\ InWindow(daily, p)
        BY <4>1 DEF RawReads, ReadKinds, InWindow, InDay
      <4>3. QED
        BY <4>1, <4>2
    <3>3. QED
      BY <3>1, <3>2
  <2>4. QED
    BY <1>1, <2>1, <2>3, FoundRecent
<1>5. QED
  BY <1>2, <1>3, <1>4, FeatsStep

\* and so do scores
LEMMA StalenessStep ==
  ASSUME TypeOK, FeatRecent, StalenessBounded, [Next]_vars
  PROVE  StalenessBounded'
<1> SUFFICES ASSUME NEW sc \in scores', NEW f \in Inputs, NEW src \in sc.inputs[f], NEW s \in src
             PROVE  sc.day < s.day + Window
  BY DEF StalenessBounded
<1>1. CASE sc \in scores
  BY <1>1 DEF StalenessBounded
<1>2. CASE sc \notin scores
  <2>1. SaveScore
    BY <1>2, ScoresStep
  <2>2. sc.day = day /\ sc.inputs = GatherInputs(Assets[ai], day, cutoff)
    BY <1>2, <2>1 DEF SaveScore
  <2>3. PICK r \in feats : r.day = day /\ src = r.src
    BY <2>2 DEF GatherInputs, GetLatest, Newest
  <2>4. QED
    BY <2>2, <2>3 DEF FeatRecent, Recent
<1>3. QED
  BY <1>1, <1>2

(***************************************************************************)
(* The age of a score's observations is bounded by the window of one       *)
(* series in every service none of whose features is read through several: *)
(* whatever is lost, fails or is never run, a day is not scored with an    *)
(* observation that ZScoreLatest would not take for that day.              *)
(***************************************************************************)
THEOREM OneWindowBoundsStaleness ==
  \A daily : WellOrdered /\ Window > 0 /\ OneWindow(daily) => (Spec => []StalenessBounded)
<1> SUFFICES ASSUME NEW daily, WellOrdered, Window > 0, OneWindow(daily)
             PROVE  Spec => []StalenessBounded
  OBVIOUS
<1> DEFINE Inv ==
      /\ TypeOK /\ RawSeen("day") /\ FeatSeen("day") /\ MemSeen("day")
      /\ MemOrigins /\ FeatDays(daily) /\ FeatRecent /\ StalenessBounded
<1>1. Init => Inv
  BY TypeInit DEF Init, RawSeen, FeatSeen, MemSeen, MemOrigins, FeatDays, FeatRecent, StalenessBounded, NoMem
<1>2. Inv /\ [Next]_vars => Inv'
  <2> SUFFICES ASSUME Inv, [Next]_vars PROVE Inv'
    OBVIOUS
  <2>1. TypeOK' /\ RawSeen("day")' /\ FeatSeen("day")' /\ MemSeen("day")'
    BY TypeStep, RawSeenStep, FeatSeenStep, MemSeenStep DEF Times, Timely
  <2>2. MemOrigins' /\ FeatDays(daily)' /\ FeatRecent'
    BY MemOriginsStep, FeatDaysStep, FeatRecentStep DEF WellOrdered, OneWindow
  <2>3. StalenessBounded'
    BY StalenessStep
  <2>4. QED
    BY <2>1, <2>2, <2>3
<1>3. QED
  BY <1>1, <1>2, PTL DEF Spec

-----------------------------------------------------------------------------
(* Live ticks catch up: the invariant *)

\* a tick of today that nothing has disturbed so far
Tick == mode = "once" /\ clean

\* it computes
Ticking == Tick /\ phase \in {"compute", "announce"}

\* it has not got its cutoff, or is over, and the tick before it was one, too
Resting == streak > 0 /\ (mode = "idle" \/ (Tick /\ phase \in {"ingest", "publish"}))

\* a tick is of today, and announces an asset whose stages are done
TickPlace ==
  /\ Tick => from = today /\ to = today
  /\ Tick /\ phase = "announce" => ai > 0 /\ idx > Len(AssetStages)

\* the current observation of a feature for today
Stored(k) == {r.src : r \in Newest({r \in feats : r.key = k /\ r.day = today})}

\* what a fetch of a tick returns while nothing changes outside
LiveSamples(f) ==
  IF f.kind \in {"history", "ranged", "padded"}
    THEN {Sample(f.name, d, d) : d \in 0 .. today}
    ELSE {Sample(f.name, today, today)}

\* these samples are stored
Kept(f) ==
  IF f.kind = "feature"
    THEN \A i \in DOMAIN Assets : Stored(<<f.name, Assets[i]>>) = {LiveSamples(f)}
    ELSE LiveSamples(f) \subseteq {r.s : r \in raws}

\* for the feeds this tick has ingested, or the one before
Ingests ==
  \A j \in DOMAIN Feeds :
    Resting \/ Ticking \/ (Tick /\ (j < idx \/ (j = idx /\ phase = "publish"))) => Kept(Feeds[j])

\* no raw row is younger than the last cutoff
RawsPast == Resting \/ Ticking => cutoff <= now /\ \A r \in raws : r.at <= cutoff

\* the value of a stage whose reads find the given values
Combine(st, found) ==
  LET ok == {i \in DOMAIN st.alts : \A q \in st.alts[i] : found[q] # {}}
  IN  {UNION {UNION found[q] : q \in st.alts[i]} : i \in {i \in ok : \A j \in ok : i <= j}}

\* the value of a stage that reads no local variable
RawValue(st, a, d, c) == Combine(st, [q \in ReadsOf(st) |-> Found(q, a, d, c)])

\* what a read of a stage finds: a local variable holds the value of the stage that fills it
FoundIn(q, a, d, c) ==
  IF q.read = "mem" THEN UNION {RawValue(g, a, d, c) : g \in {g \in AllStages : g.out = q.of}}
  ELSE Found(q, a, d, c)

\* so what a stage computes as of c does not depend on a run
ValueOf(st, a, d, c) == Combine(st, [q \in ReadsOf(st) |-> FoundIn(q, a, d, c)])

\* local variables hold what the stages before computed
MemExact ==
  Ticking /\ phase = "compute" =>
    \A j \in DOMAIN StageSeq : j < idx /\ StageSeq[j].out \in MemNames =>
      mem[StageSeq[j].out] = RawValue(StageSeq[j], AssetNow, today, cutoff)

Owners == {"GLOBAL"} \cup {Assets[i] : i \in DOMAIN Assets}

\* a tick computes stage st for a
Owns(st, a) ==
  \/ a = "GLOBAL" /\ \E j \in DOMAIN GlobalStages : st = GlobalStages[j]
  \/ \E j \in DOMAIN AssetStages, i \in DOMAIN Assets : st = AssetStages[j] /\ a = Assets[i]

\* the tick under way has done so
Done(st, a) ==
  \/ a = "GLOBAL" /\ \E j \in DOMAIN GlobalStages : st = GlobalStages[j] /\ (ai > 0 \/ j < idx)
  \/ \E j \in DOMAIN AssetStages, i \in DOMAIN Assets :
       st = AssetStages[j] /\ a = Assets[i] /\ (i < ai \/ (i = ai /\ j < idx))

\* since the last cutoff only features of the day were written, and while the tick computes
\* those only by stages that are done
NewFeats ==
  \A r \in feats : r.at > cutoff =>
    /\ Resting \/ Ticking => r.day = today
    /\ Ticking => \E st \in AllStages : Done(st, r.key[2]) /\ r.key = <<st.out, r.key[2]>>

\* the last tick has stored what its stages computed as of its cutoff
Computed ==
  \A st \in AllStages : \A a \in Owners :
    (Resting /\ Owns(st, a)) \/ (Ticking /\ Done(st, a)) =>
      Stored(<<st.out, a>>) = ValueOf(st, a, today, cutoff)

\* a stage that computes nothing has left nothing
NothingLeft ==
  Ticking => \A st \in AllStages : \A a \in Owners :
    Owns(st, a) /\ ValueOf(st, a, today, cutoff) = {} => GetLatest(<<st.out, a>>, today, cutoff) = {}

\* a feature is settled: the last tick stored what it could read
Steady(k) == GetLatest(k, today, cutoff) = Stored(k)

AllFresh(values) == \A src \in values : Fresh(src, today)

\* before a tick takes its cutoff, the features of the ranks below the streak are settled and fresh ...
Settled(ranks) ==
  Resting =>
    /\ \A k : k[1] \notin AllOuts \/ ranks[k[1]] < streak => Steady(k)
    /\ \A st \in AllStages : \A a \in Owners :
         Owns(st, a) /\ ranks[st.out] < streak => AllFresh(Stored(<<st.out, a>>))

\* ... so the tick computes those of the rank above once more as they are, and fresh
Settling(ranks) ==
  Ticking =>
    \A st \in AllStages : \A a \in Owners : Owns(st, a) /\ ranks[st.out] <= streak =>
      /\ ValueOf(st, a, today, cutoff) = GetLatest(<<st.out, a>>, today, cutoff)
      /\ AllFresh(ValueOf(st, a, today, cutoff))

\* the last tick has scored what it could read
ScoredAt(i) ==
  \E sc \in NewestScore(Assets[i], today) : sc.inputs = GatherInputs(Assets[i], today, cutoff)

TickScores ==
  \A i \in DOMAIN Assets :
    Resting \/ (Ticking /\ (i < ai \/ (i = ai /\ phase = "announce"))) => ScoredAt(i)

-----------------------------------------------------------------------------
(* What a stage computes as of a cutoff *)

\* what is written after c is not seen as of c
LEMMA LatestStable ==
  ASSUME now \in Nat, [Next]_vars, NEW k, NEW d, NEW c \in Nat, c <= now
  PROVE  GetLatest(k, d, c)' = GetLatest(k, d, c)
<1>1. Grows(feats, feats')
  BY AppendOnly DEF Appends
<1>2. {r \in feats' : r.key = k /\ r.day = d /\ r.at <= c} = {r \in feats : r.key = k /\ r.day = d /\ r.at <= c}
  BY <1>1 DEF Grows
<1>3. QED
  BY <1>2 DEF GetLatest, Newest

\* a stage computes the combination of what its reads find
LEMMA StageCombines ==
  ASSUME NEW st, NEW a, NEW d, NEW c
  PROVE  StageValue(st, a, d, c) = RawValue(st, a, d, c)
<1> DEFINE found == [q \in ReadsOf(st) |-> Found(q, a, d, c)]
           okV == {i \in DOMAIN st.alts : \A q \in st.alts[i] : Found(q, a, d, c) # {}}
           okF == {i \in DOMAIN st.alts : \A q \in st.alts[i] : found[q] # {}}
           V(i) == UNION {UNION Found(q, a, d, c) : q \in st.alts[i]}
           F(i) == UNION {UNION found[q] : q \in st.alts[i]}
<1>1. \A i \in DOMAIN st.alts : \A q \in st.alts[i] : found[q] = Found(q, a, d, c)
  BY DEF ReadsOf
<1> HIDE DEF found
<1>2. okV = okF
  BY <1>1
<1>3. \A i \in DOMAIN st.alts : F(i) = V(i)
  BY <1>1
<1>4. StageValue(st, a, d, c) = {V(i) : i \in {i \in okV : \A j \in okV : i <= j}}
  BY DEF StageValue
<1>5. RawValue(st, a, d, c) = {F(i) : i \in {i \in okF : \A j \in okF : i <= j}}
  BY DEF RawValue, Combine, found
<1>6. okV \subseteq DOMAIN st.alts
  OBVIOUS
<1> HIDE DEF V, F, okV, okF
<1>7. QED
  BY <1>2, <1>3, <1>4, <1>5, <1>6

\* what a stage reads from a local variable is the value of a stage that reads only raw tables
LEMMA MemStage ==
  ASSUME StagesInOrder, NEW st \in AllStages, NEW q \in ReadsOf(st), q.read = "mem",
         NEW g \in AllStages, g.out = q.of
  PROVE  ReadsOnlyRaws(g)
<1>1. PICK stages \in {GlobalStages, AssetStages} : \E i \in DOMAIN stages : st = stages[i]
  BY DEF AllStages
<1>2. PICK i \in DOMAIN stages : st = stages[i]
  BY <1>1
<1>3. PICK before : InOrder(stages, before)
  BY <1>1 DEF StagesInOrder
<1>4. PICK j \in DOMAIN stages : stages[j].out = q.of /\ ReadsOnlyRaws(stages[j])
  BY <1>2, <1>3 DEF InOrder, ReadsOf
<1>5. stages[j] \in AllStages
  BY <1>1 DEF AllStages
<1>6. stages[j] = g
  BY <1>4, <1>5, OneStage
<1>7. QED
  BY <1>4, <1>6

\* its reads are of raw tables
LEMMA RawReadOf ==
  ASSUME NEW g \in AllStages, ReadsOnlyRaws(g), NEW p \in ReadsOf(g)
  PROVE  p.read \in RawReads /\ p.read \in ReadKinds /\ p.read # "mem"
BY ReadTypes DEF ReadsOnlyRaws, ReadsOf, RawReads

\* equal reads give equal values: at another time ...
LEMMA ValueSame ==
  ASSUME StagesInOrder, NEW st \in AllStages, NEW a, NEW d, NEW v, NEW w,
         \A q : q.read \in RawReads => Found(q, a, d, v) = Found(q, a, d, w),
         \A q \in ReadsOf(st) : q.read \notin RawReads /\ q.read # "mem" => Found(q, a, d, v) = Found(q, a, d, w)
  PROVE  ValueOf(st, a, d, v) = ValueOf(st, a, d, w)
<1>1. ASSUME NEW q \in ReadsOf(st) PROVE FoundIn(q, a, d, v) = FoundIn(q, a, d, w)
  <2>1. CASE q.read # "mem"
    BY <2>1 DEF FoundIn
  <2>2. CASE q.read = "mem"
    <3>1. ASSUME NEW g \in AllStages, g.out = q.of PROVE RawValue(g, a, d, v) = RawValue(g, a, d, w)
      <4>1. \A p \in ReadsOf(g) : Found(p, a, d, v) = Found(p, a, d, w)
        BY <2>2, <3>1, MemStage, RawReadOf
      <4>2. [p \in ReadsOf(g) |-> Found(p, a, d, v)] = [p \in ReadsOf(g) |-> Found(p, a, d, w)]
        BY <4>1
      <4>3. QED
        BY <4>2 DEF RawValue
    <3>2. QED
      BY <2>2, <3>1 DEF FoundIn
  <2>3. QED
    BY <2>1, <2>2
<1>2. [q \in ReadsOf(st) |-> FoundIn(q, a, d, v)] = [q \in ReadsOf(st) |-> FoundIn(q, a, d, w)]
  BY <1>1
<1>3. QED
  BY <1>2 DEF ValueOf

\* ... and after a step
LEMMA ValueStable ==
  ASSUME now \in Nat, [Next]_vars, StagesInOrder, NEW st \in AllStages, NEW a, NEW d, NEW c \in Nat, c <= now
  PROVE  ValueOf(st, a, d, c)' = ValueOf(st, a, d, c)
<1>1. \A g \in AllStages : \A q \in ReadsOf(g) : q.read # "mem" => Found(q, a, d, c)' = Found(q, a, d, c)
  BY ReadTypes, FoundStable
<1>2. ASSUME NEW q \in ReadsOf(st) PROVE FoundIn(q, a, d, c)' = FoundIn(q, a, d, c)
  <2>1. CASE q.read # "mem"
    BY <1>1, <2>1 DEF FoundIn
  <2>2. CASE q.read = "mem"
    <3>1. ASSUME NEW g \in AllStages, g.out = q.of PROVE RawValue(g, a, d, c)' = RawValue(g, a, d, c)
      <4>1. \A p \in ReadsOf(g) : Found(p, a, d, c)' = Found(p, a, d, c)
        BY <1>1, <2>2, <3>1, MemStage, RawReadOf
      <4>2. [p \in ReadsOf(g) |-> Found(p, a, d, c)'] = [p \in ReadsOf(g) |-> Found(p, a, d, c)]
        BY <4>1
      <4>3. QED
        BY <4>2 DEF RawValue
    <3>2. QED
      BY <2>2, <3>1 DEF FoundIn
  <2>3. QED
    BY <2>1, <2>2
<1>3. [q \in ReadsOf(st) |-> FoundIn(q, a, d, c)'] = [q \in ReadsOf(st) |-> FoundIn(q, a, d, c)]
  BY <1>2
<1>4. QED
  BY <1>3 DEF ValueOf

\* raw reads at two times that see all the rows
LEMMA RawReadSame ==
  ASSUME NEW v \in Nat, NEW w \in Nat, \A r \in raws : r.at <= v /\ r.at <= w,
         NEW q, q.read \in RawReads, NEW a, NEW d
  PROVE  Found(q, a, d, v) = Found(q, a, d, w)
<1>1. ASSUME NEW feed, NEW x PROVE RawAsOf(feed, x, v) = RawAsOf(feed, x, w)
  <2>1. {r \in raws : r.s.feed = feed /\ r.s.day = x /\ r.at <= v}
          = {r \in raws : r.s.feed = feed /\ r.s.day = x /\ r.at <= w}
    OBVIOUS
  <2>2. QED
    BY <2>1 DEF RawAsOf
<1>2. ASSUME NEW feed PROVE LastRaw(feed, d, v) = LastRaw(feed, d, w)
  <2>1. RawDays(feed, d, v) = RawDays(feed, d, w)
    BY <1>1 DEF RawDays
  <2>2. QED
    BY <1>1, <2>1 DEF LastRaw
<1>3. CASE q.read \in {"raw", "rawWindow", "rawCoin"}
  BY <1>1, <1>3 DEF Found
<1>4. CASE q.read = "rawPast"
  BY <1>1, <1>4 DEF Found
<1>5. CASE q.read = "rawSeries"
  BY <1>2, <1>5 DEF Found
<1>6. QED
  BY <1>3, <1>4, <1>5 DEF RawReads

\* reads of a feature at two times at which its days have the same values
LEMMA FeatReadSame ==
  ASSUME NEW v, NEW w, NEW q, q.read \in {"latest", "past", "series", "grown"}, NEW a, NEW d,
         \A x : GetLatest(Key(q.of, a), x, v) = GetLatest(Key(q.of, a), x, w)
  PROVE  Found(q, a, d, v) = Found(q, a, d, w)
<1>1. SeriesDays(Key(q.of, a), d, v) = SeriesDays(Key(q.of, a), d, w)
  BY DEF SeriesDays
<1>2. LastOf(Key(q.of, a), d, v) = LastOf(Key(q.of, a), d, w)
  BY <1>1 DEF LastOf
<1>3. CASE q.read \in {"latest", "past"}
  BY <1>3 DEF Found
<1>4. CASE q.read \in {"series", "grown"}
  BY <1>1, <1>2, <1>4 DEF Found
<1>5. QED
  BY <1>3, <1>4

-----------------------------------------------------------------------------
(* The steps of undisturbed ticks *)

\* a tick stays undisturbed while it ingests, takes its cutoff, computes, scores and announces
LEMMA TickSteps ==
  ASSUME [Next]_vars, Tick'
  PROVE  \/ mode = "idle" /\ RunOnce(today)
         \/ /\ Tick /\ UNCHANGED <<world, span, streak>>
            /\ \/ IngestSave \/ IngestPublish \/ TakeCutoff \/ ComputeStage \/ EnterAssets \/ SaveScore
               \/ (Announce /\ (NextAsset \/ NextValueDate))
               \/ UNCHANGED vars
<1>1. CASE NextDay \/ Revise \/ \E f \in Foreign : ForeignIngest(f)
  BY <1>1 DEF NextDay, Revise, ForeignIngest, Outside, Tick
<1>2. CASE \E d \in 0 .. today : RunOnce(d)
  <2>1. PICK d \in 0 .. today : RunOnce(d)
    BY <1>2
  <2>2. d = today
    BY <2>1 DEF RunOnce, Begin, Tick
  <2>3. QED
    BY <2>1, <2>2 DEF RunOnce, Begin
<1>3. CASE \E f, t \in 0 .. today : RunBackfill(f, t)
  BY <1>3 DEF RunBackfill, Begin, Tick
<1>4. CASE Abort \/ IngestNothing \/ IngestFails \/ LoseFeature
  BY <1>4 DEF Abort, IngestNothing, IngestFails, LoseFeature, Fault, Tick
<1>5. CASE IngestSave \/ IngestPublish \/ TakeCutoff \/ ComputeStage \/ EnterAssets \/ SaveScore
  BY <1>5 DEF IngestSave, IngestPublish, TakeCutoff, ComputeStage, EnterAssets, SaveScore, Tick, clear
<1>6. CASE Announce
  BY <1>6 DEF Announce, NextAsset, NextValueDate, EndOfRun, Tick
<1>7. CASE UNCHANGED vars
  BY <1>7 DEF vars, Tick, clear
<1>8. QED
  BY <1>1, <1>2, <1>3, <1>4, <1>5, <1>6, <1>7 DEF Next

LEMMA TickPlaceStep ==
  ASSUME TypeOK, TickPlace, [Next]_vars
  PROVE  TickPlace'
<1> SUFFICES ASSUME Tick'
             PROVE  /\ from' = today' /\ to' = today'
                    /\ phase' = "announce" => ai' > 0 /\ idx' > Len(AssetStages)
  BY DEF TickPlace
<1>1. CASE RunOnce(today)
  BY <1>1 DEF RunOnce, Begin, world
<1>2. CASE Tick /\ UNCHANGED <<world, span, streak>>
  <2>1. from' = today' /\ to' = today'
    BY <1>2 DEF TickPlace, world, span
  <2>2. CASE SaveScore
    BY <2>1, <2>2 DEF SaveScore, AtScore
  <2>3. CASE UNCHANGED vars
    BY <1>2, <2>1, <2>3 DEF TickPlace, vars
  <2>4. CASE IngestSave \/ IngestPublish \/ TakeCutoff \/ ComputeStage \/ EnterAssets \/ Announce
    BY <2>1, <2>4 DEF IngestSave, IngestPublish, TakeCutoff, ComputeStage, EnterAssets, Announce, AtStage
  <2>5. QED
    BY <1>2, <2>2, <2>3, <2>4, TickSteps DEF RunOnce, Begin, Tick
<1>3. QED
  BY <1>1, <1>2, TickSteps

\* the day a tick computes is today, and its feeds are those of RunOnce
LEMMA TickDay ==
  ASSUME TypeOK, TickPlace, Tick
  PROVE  day = today /\ to = today /\ FeedSeq = Feeds
BY DEF TypeOK, TickPlace, Tick, FeedSeq

\* the last step of a tick
LastStep ==
  /\ Ticking /\ phase = "announce" /\ ai = Len(Assets)
  /\ streak' = streak + 1 /\ mode' = "idle"

LEMMA RestingSteps ==
  ASSUME TypeOK, TickPlace, [Next]_vars, Resting'
  PROVE  /\ UNCHANGED <<today, rev, scores, cutoff>>
         /\ \/ LastStep /\ UNCHANGED <<raws, feats>>
            \/ Resting /\ streak' = streak /\ Tick /\ IngestSave
            \/ Resting /\ streak' = streak /\ UNCHANGED <<raws, feats>>
<1>1. CASE Tick' /\ phase' \in {"ingest", "publish"}
  <2>1. CASE RunOnce(today)
    BY <1>1, <2>1 DEF RunOnce, Begin, Resting, world, store
  <2>2. CASE IngestSave /\ Tick /\ UNCHANGED streak
    <3>1. Resting
      BY <2>2 DEF IngestSave, AtFeed, Resting
    <3>2. QED
      BY <2>2, <3>1 DEF IngestSave, world
  <2>3. CASE IngestPublish /\ Tick /\ UNCHANGED streak
    BY <2>3 DEF IngestPublish, world, Resting
  <2>4. CASE UNCHANGED vars
    BY <2>4 DEF vars, world, store, clear, Resting, Tick
  <2>5. CASE TakeCutoff \/ ComputeStage \/ EnterAssets \/ SaveScore \/ Announce
    BY <1>1, <2>5 DEF TakeCutoff, ComputeStage, EnterAssets, SaveScore, Announce, AtStage
  <2>6. QED
    BY <1>1, <2>1, <2>2, <2>3, <2>4, <2>5, TickSteps
<1>2. CASE mode' = "idle" /\ streak' > 0
  <2>1. CASE NextDay \/ Revise \/ (\E f \in Foreign : ForeignIngest(f)) \/ Abort \/ IngestFails
    <3>1. streak' = 0
      BY <2>1 DEF NextDay, Revise, ForeignIngest, Outside, Abort, IngestFails
    <3>2. QED
      BY <1>2, <3>1
  <2>2. CASE (\E d \in 0 .. today : RunOnce(d)) \/ (\E f, t \in 0 .. today : RunBackfill(f, t))
    BY <1>2, <2>2 DEF RunOnce, RunBackfill, Begin
  <2>3. CASE IngestSave \/ IngestNothing \/ IngestPublish \/ TakeCutoff
    BY <1>2, <2>3 DEF IngestSave, IngestNothing, IngestPublish, TakeCutoff, AtFeed
  <2>4. CASE ComputeStage \/ LoseFeature \/ EnterAssets \/ SaveScore
    BY <1>2, <2>4 DEF ComputeStage, LoseFeature, EnterAssets, SaveScore, AtStage, AtScore
  <2>5. CASE Announce
    <3>1. EndOfRun
      BY <1>2, <2>5 DEF Announce, NextAsset, NextValueDate
    <3>2. clean /\ mode = "once"
      BY <1>2, <3>1 DEF EndOfRun
    <3>3. LastStep
      BY <2>5, <3>1, <3>2 DEF LastStep, EndOfRun, Announce, Ticking, Tick
    <3>4. QED
      BY <2>5, <3>3 DEF Announce, world
  <2>6. CASE UNCHANGED vars
    BY <1>2, <2>6 DEF vars, world, store, clear, Resting
  <2>7. QED
    BY <2>1, <2>2, <2>3, <2>4, <2>5, <2>6 DEF Next
<1>3. QED
  BY <1>1, <1>2 DEF Resting

LEMMA TickingSteps ==
  ASSUME TypeOK, TickPlace, [Next]_vars, Ticking'
  PROVE  /\ UNCHANGED <<today, rev, raws, streak>>
         /\ \/ Tick /\ TakeCutoff /\ cutoff' = now /\ now' = now /\ idx > Len(Feeds)
               /\ UNCHANGED <<feats, scores>>
            \/ Ticking /\ cutoff' = cutoff /\ ComputeStage /\ UNCHANGED scores
            \/ Ticking /\ cutoff' = cutoff /\ SaveScore /\ UNCHANGED feats
            \/ Ticking /\ cutoff' = cutoff /\ UNCHANGED <<feats, scores>>
                 /\ (EnterAssets \/ (Announce /\ NextAsset) \/ UNCHANGED vars)
<1>1. Tick' /\ phase' \in {"compute", "announce"}
  BY DEF Ticking
<1>2. Tick /\ UNCHANGED <<world, span, streak>>
  BY <1>1, TickSteps DEF RunOnce, Begin
<1>3. day = today /\ to = today /\ FeedSeq = Feeds
  BY <1>2, TickDay
<1>4. CASE IngestSave \/ IngestPublish
  BY <1>1, <1>4 DEF IngestSave, IngestPublish
<1>5. CASE TakeCutoff
  BY <1>2, <1>3, <1>5 DEF TakeCutoff, Cutoff, Tick, world, store
<1>6. CASE ComputeStage
  BY <1>2, <1>6 DEF ComputeStage, AtStage, Ticking, world
<1>7. CASE SaveScore
  BY <1>2, <1>7 DEF SaveScore, AtScore, Ticking, world
<1>8. CASE EnterAssets
  BY <1>2, <1>8 DEF EnterAssets, Ticking, world, store
<1>9. CASE Announce /\ (NextAsset \/ NextValueDate)
  <2>1. NextAsset
    BY <1>3, <1>9 DEF NextValueDate, TypeOK
  <2>2. QED
    BY <1>2, <1>9, <2>1 DEF Announce, Ticking, world
<1>10. CASE UNCHANGED vars
  BY <1>1, <1>2, <1>10 DEF vars, Ticking, world, store, clear
<1>11. QED
  BY <1>1, <1>4, <1>5, <1>6, <1>7, <1>8, <1>9, <1>10, TickSteps DEF RunOnce, Begin

-----------------------------------------------------------------------------
(* The stages that are done *)

LEMMA StageSets ==
  /\ DOMAIN GlobalStages = 1 .. Len(GlobalStages) /\ Len(GlobalStages) \in Nat
  /\ DOMAIN AssetStages = 1 .. Len(AssetStages) /\ Len(AssetStages) \in Nat
  /\ DOMAIN Assets = 1 .. Len(Assets) /\ Len(Assets) \in Nat \ {0}
  /\ DOMAIN Feeds = 1 .. Len(Feeds) /\ Len(Feeds) \in Nat
BY DomainAssumption

\* none when the cutoff is taken, one more when a stage computes, all when the tick is over
LEMMA DoneFirst ==
  ASSUME TakeCutoff, NEW st, NEW a
  PROVE  ~Done(st, a)'
BY StageSets DEF TakeCutoff, Done

LEMMA DoneComputed ==
  ASSUME TypeOK, ComputeStage, NEW st, NEW a
  PROVE  Done(st, a)' <=> Done(st, a) \/ (st = StageSeq[idx] /\ a = AssetNow)
<1>1. /\ idx' = idx + 1 /\ ai' = ai /\ idx \in Nat \ {0} /\ ai \in 0 .. Len(Assets)
      /\ idx <= Len(StageSeq)
  BY DEF ComputeStage, AtStage, TypeOK
<1>2. CASE ai = 0
  <2>1. StageSeq = GlobalStages /\ AssetNow = "GLOBAL"
    BY <1>2 DEF StageSeq, AssetNow
  <2>2. \A j \in DOMAIN GlobalStages : j < idx + 1 <=> j < idx \/ j = idx
    BY <1>1, StageSets
  <2>3. idx \in DOMAIN GlobalStages
    BY <1>1, <2>1, StageSets
  <2>4. \A i \in DOMAIN Assets : ~(i < ai) /\ i # ai
    BY <1>2, StageSets
  <2>5. QED
    BY <1>1, <1>2, <2>1, <2>2, <2>3, <2>4 DEF Done
<1>3. CASE ai > 0
  <2>1. StageSeq = AssetStages /\ AssetNow = Assets[ai]
    BY <1>1, <1>3 DEF StageSeq, AssetNow
  <2>2. \A j \in DOMAIN AssetStages : j < idx + 1 <=> j < idx \/ j = idx
    BY <1>1, StageSets
  <2>3. idx \in DOMAIN AssetStages /\ ai \in DOMAIN Assets
    BY <1>1, <1>3, <2>1, StageSets
  <2>4. QED
    BY <1>1, <1>3, <2>1, <2>2, <2>3 DEF Done
<1>4. QED
  BY <1>1, <1>2, <1>3

LEMMA DoneSame ==
  ASSUME TypeOK, TickPlace, Ticking,
         EnterAssets \/ SaveScore \/ (Announce /\ NextAsset) \/ UNCHANGED vars, NEW st, NEW a
  PROVE  Done(st, a)' <=> Done(st, a)
<1>1. idx \in Nat \ {0} /\ ai \in 0 .. Len(Assets)
  BY DEF TypeOK
<1>2. CASE SaveScore \/ UNCHANGED vars
  <2>1. idx' = idx /\ ai' = ai
    BY <1>2 DEF SaveScore, vars
  <2>2. QED
    BY <2>1 DEF Done
<1>3. CASE EnterAssets
  <2>1. ai = 0 /\ ai' = 1 /\ idx' = 1 /\ idx > Len(GlobalStages)
    BY <1>3 DEF EnterAssets
  <2>2. \A j \in DOMAIN GlobalStages : j < idx
    BY <1>1, <2>1, StageSets
  <2>3. \A i \in DOMAIN Assets : ~(i < ai) /\ i # ai /\ ~(i < ai')
    BY <2>1, StageSets
  <2>4. \A j \in DOMAIN AssetStages : ~(j < idx')
    BY <2>1, StageSets
  <2>5. ai' > 0
    BY <2>1
  <2>6. QED
    BY <2>2, <2>3, <2>4, <2>5 DEF Done
<1>4. CASE Announce /\ NextAsset
  <2>1. ai > 0 /\ idx > Len(AssetStages)
    BY <1>4 DEF Announce, Ticking, TickPlace
  <2>2. ai' = ai + 1 /\ idx' = 1
    BY <1>4 DEF Announce, NextAsset
  <2>3. \A j \in DOMAIN AssetStages : j < idx /\ ~(j < idx')
    BY <1>1, <2>1, <2>2, StageSets
  <2>4. \A i \in DOMAIN Assets : i < ai' <=> i < ai \/ i = ai
    BY <1>1, <2>2, StageSets
  <2>5. ai' > 0
    BY <1>1, <2>2
  <2>6. QED
    BY <2>1, <2>3, <2>4, <2>5 DEF Done
<1>5. QED
  BY <1>2, <1>3, <1>4

LEMMA DoneLast ==
  ASSUME TypeOK, TickPlace, LastStep, NEW st, NEW a, Owns(st, a)
  PROVE  Done(st, a)
<1>1. ai = Len(Assets) /\ ai > 0 /\ idx > Len(AssetStages) /\ idx \in Nat
  BY DEF LastStep, Ticking, TickPlace, TypeOK
<1>2. \A i \in DOMAIN Assets : i < ai \/ i = ai
  BY <1>1, StageSets
<1>3. \A j \in DOMAIN AssetStages : j < idx
  BY <1>1, StageSets
<1>4. QED
  BY <1>1, <1>2, <1>3 DEF Owns, Done

\* the stage about to compute is not done
LEMMA NotDone ==
  ASSUME TypeOK, StagesInOrder, AssetsDiffer, AtStage
  PROVE  ~Done(StageSeq[idx], AssetNow) /\ Owns(StageSeq[idx], AssetNow) /\ AssetNow \in Owners
<1>1. /\ idx \in Nat \ {0} /\ ai \in 0 .. Len(Assets) /\ idx \in DOMAIN StageSeq
  BY StageTypeAt DEF TypeOK
<1>2. \A i \in DOMAIN GlobalStages, j \in DOMAIN AssetStages : GlobalStages[i] # AssetStages[j]
  BY DEF StagesInOrder, Outs
<1>3. CASE ai = 0
  <2>1. StageSeq = GlobalStages /\ AssetNow = "GLOBAL"
    BY <1>3 DEF StageSeq, AssetNow
  <2>2. \A j \in DOMAIN GlobalStages : GlobalStages[j] = GlobalStages[idx] => ~(j < idx)
    BY <1>1, <2>1, StageSets DEF StagesInOrder, InOrder
  <2>3. QED
    BY <1>1, <1>2, <1>3, <2>1, <2>2 DEF Done, Owns, Owners
<1>4. CASE ai > 0
  <2>1. StageSeq = AssetStages /\ AssetNow = Assets[ai] /\ ai \in DOMAIN Assets
    BY <1>1, <1>4, StageSets DEF StageSeq, AssetNow
  <2>2. \A j \in DOMAIN AssetStages : AssetStages[j] = AssetStages[idx] => ~(j < idx)
    BY <1>1, <2>1, StageSets DEF StagesInOrder, InOrder
  <2>3. \A i \in DOMAIN Assets : Assets[i] = Assets[ai] => i = ai /\ ~(i < ai)
    BY <1>1, <2>1, StageSets DEF AssetsDiffer
  <2>4. QED
    BY <1>1, <1>2, <1>4, <2>1, <2>2, <2>3 DEF Done, Owns, Owners
<1>5. QED
  BY <1>1, <1>3, <1>4

-----------------------------------------------------------------------------
(* A tick computes the value of its stages *)

LEMMA MemExactStep ==
  ASSUME TypeOK, TickPlace, StagesInOrder, MemSeen("day"), MemExact, [Next]_vars
  PROVE  MemExact'
<1> SUFFICES ASSUME Ticking', phase' = "compute",
                    NEW j \in DOMAIN StageSeq', (j < idx)', StageSeq'[j].out \in MemNames
             PROVE  mem'[StageSeq'[j].out] = RawValue(StageSeq[j], AssetNow, today, cutoff)'
  BY DEF MemExact
<1>1. CASE TakeCutoff \/ EnterAssets \/ Announce
  <2>1. idx' = 1
    BY <1>1 DEF TakeCutoff, EnterAssets, Announce
  <2>2. j \in Nat \ {0}
    BY StageSets DEF StageSeq
  <2>3. QED
    BY <2>1, <2>2
<1>2. CASE UNCHANGED vars
  <2>1. UNCHANGED <<raws, feats, mem, idx, ai, today, cutoff, phase, mode, clean>>
    BY <1>2 DEF vars, store, world, clear
  <2>2. RawValue(StageSeq[j], AssetNow, today, cutoff)' = RawValue(StageSeq[j], AssetNow, today, cutoff)
    BY <2>1 DEF RawValue, Found, RawAsOf, GetLatest, LastRaw, RawDays, LastOf, SeriesDays, StageSeq, AssetNow
  <2>3. QED
    BY <2>1, <2>2 DEF MemExact, Ticking, Tick, StageSeq
<1>3. CASE ComputeStage /\ Ticking
  <2> DEFINE st == StageSeq[idx]
  <2>1. /\ UNCHANGED <<ai, cutoff, phase, day, raws, today>> /\ idx' = idx + 1
        /\ mem' = IF st.out \in MemNames THEN [mem EXCEPT ![st.out] = StageResult] ELSE mem
        /\ AtStage /\ day = today
    BY <1>3, TickDay DEF ComputeStage, Remember, Ticking, world
  <2>2. StageSeq' = StageSeq /\ AssetNow' = AssetNow
    BY <2>1 DEF StageSeq, AssetNow
  <2>3. ReadsOnlyRaws(StageSeq[j]) /\ StageSeq[j] \in AllStages
    BY <2>2, MemStages DEF AllStages, StageSeq
  <2>4. RawValue(StageSeq[j], AssetNow, today, cutoff)' = RawValue(StageSeq[j], AssetNow, today, cutoff)
    <3>1. \A p \in ReadsOf(StageSeq[j]) : Found(p, AssetNow, today, cutoff)' = Found(p, AssetNow, today, cutoff)
      BY <2>1, <2>2, <2>3, RawReadOf, RawFoundSame
    <3>2. [p \in ReadsOf(StageSeq[j]) |-> Found(p, AssetNow, today, cutoff)']
            = [p \in ReadsOf(StageSeq[j]) |-> Found(p, AssetNow, today, cutoff)]
      BY <3>1
    <3>3. QED
      BY <2>2, <3>2 DEF RawValue
  <2>5. CASE j = idx
    <3>1. mem'[StageSeq[j].out] = StageResult
      BY <2>1, <2>2, <2>5 DEF MemSeen
    <3>2. StageResult = RawValue(StageSeq[j], AssetNow, today, cutoff)
      BY <2>1, <2>5, StageCombines DEF StageResult
    <3>3. QED
      BY <2>2, <2>4, <3>1, <3>2
  <2>6. CASE j # idx
    <3>1. j < idx
      BY <2>1, <2>6, StageSets DEF StageSeq, TypeOK
    <3>2. StageSeq[j].out # st.out
      BY <2>1, <2>2, <2>6, OrderAt, StageTypeAt DEF InOrder
    <3>3. mem'[StageSeq[j].out] = mem[StageSeq[j].out]
      BY <2>1, <2>2, <3>2 DEF MemSeen
    <3>4. mem[StageSeq[j].out] = RawValue(StageSeq[j], AssetNow, today, cutoff)
      BY <1>3, <2>1, <2>2, <3>1 DEF MemExact, AtStage
    <3>5. QED
      BY <2>2, <2>4, <3>3, <3>4
  <2>7. QED
    BY <2>5, <2>6
<1>4. CASE SaveScore
  BY <1>4 DEF SaveScore
<1>5. QED
  BY <1>1, <1>2, <1>3, <1>4, TickingSteps

\* the value a stage computes is that of the tables as of the cutoff
LEMMA StageIsValue ==
  ASSUME TypeOK, TickPlace, StagesInOrder, MemExact, Ticking, AtStage
  PROVE  StageResult = ValueOf(StageSeq[idx], AssetNow, today, cutoff)
<1> DEFINE st == StageSeq[idx]
<1>1. day = today /\ phase = "compute" /\ idx \in DOMAIN StageSeq /\ st \in AllStages
  BY TickDay, StageTypeAt, StageHere DEF Ticking, AtStage
<1>2. ASSUME NEW q \in ReadsOf(st) PROVE FoundIn(q, AssetNow, today, cutoff) = Found(q, AssetNow, today, cutoff)
  <2>1. CASE q.read # "mem"
    BY <2>1 DEF FoundIn
  <2>2. CASE q.read = "mem"
    <3>1. PICK k \in DOMAIN st.alts : q \in st.alts[k]
      BY DEF ReadsOf
    <3>2. PICK j \in DOMAIN StageSeq : j < idx /\ StageSeq[j].out = q.of
      BY <1>1, <2>2, <3>1, OrderAt DEF InOrder
    <3>3. q.of \in MemNames
      BY <2>2, <3>1, StageTypeAt
    <3>4. mem[q.of] = RawValue(StageSeq[j], AssetNow, today, cutoff)
      BY <1>1, <3>2, <3>3 DEF MemExact
    <3>5. StageSeq[j] \in AllStages
      BY DEF StageSeq, AllStages
    <3>6. {g \in AllStages : g.out = q.of} = {StageSeq[j]}
      BY <3>2, <3>5, OneStage
    <3>7. FoundIn(q, AssetNow, today, cutoff) = RawValue(StageSeq[j], AssetNow, today, cutoff)
      BY <2>2, <3>6 DEF FoundIn
    <3>8. QED
      BY <2>2, <3>4, <3>7 DEF Found
  <2>3. QED
    BY <2>1, <2>2
<1>3. [q \in ReadsOf(st) |-> FoundIn(q, AssetNow, today, cutoff)]
        = [q \in ReadsOf(st) |-> Found(q, AssetNow, today, cutoff)]
  BY <1>2
<1>4. QED
  BY <1>1, <1>3, StageCombines DEF StageResult, ValueOf, RawValue

-----------------------------------------------------------------------------
(* What a tick ingests is there already *)

LEMMA StoredNow ==
  ASSUME Stamped, now \in Nat, NEW k
  PROVE  Stored(k) = GetLatest(k, today, now)
<1>1. {r \in feats : r.key = k /\ r.day = today} = {r \in feats : r.key = k /\ r.day = today /\ r.at <= now}
  BY DEF Stamped, Rows
<1>2. QED
  BY <1>1 DEF Stored, GetLatest

\* no row of a feature is written
LEMMA StoredSame ==
  ASSUME today' = today, feats \subseteq feats', NEW k, \A r \in feats' : r \in feats \/ r.key # k
  PROVE  Stored(k)' = Stored(k)
<1>1. {r \in feats' : r.key = k /\ r.day = today'} = {r \in feats : r.key = k /\ r.day = today}
  OBVIOUS
<1>2. QED
  BY <1>1 DEF Stored, Newest

\* a row is written, or several of the same value
LEMMA StoredNew ==
  ASSUME Stamped, now \in Nat, today' = today, NEW k, NEW new, feats' = feats \cup new,
         NEW src, \A r \in new : r.at = now + 1 /\ (r.key = k => r.src = src),
         NEW r \in new, r.key = k, r.day = today
  PROVE  Stored(k)' = {src}
<1> DEFINE rows == {q \in feats' : q.key = k /\ q.day = today'}
<1>1. \A q \in feats : q.at \in Nat /\ q.at <= now
  BY DEF Stamped, Rows
<1>2. r \in Newest(rows)
  BY <1>1 DEF Newest
<1>3. ASSUME NEW q \in Newest(rows) PROVE q.src = src
  <2>1. r.at <= q.at /\ q \in feats' /\ q.key = k
    BY <1>2, <1>3 DEF Newest
  <2>2. q \in new
    BY <1>1, <2>1
  <2>3. QED
    BY <2>1, <2>2
<1>4. Stored(k)' = {q.src : q \in Newest(rows)}
  BY DEF Stored
<1> HIDE DEF rows
<1>5. QED
  BY <1>2, <1>3, <1>4

LEMMA LiveFetch ==
  ASSUME TypeOK, TickPlace, Tick, AtFeed
  PROVE  Fetched(FeedSeq[idx]) = LiveSamples(FeedSeq[idx])
<1>1. to = today /\ RangeStart = 0
  BY TickDay DEF RangeStart, Tick
<1>2. FeedSeq[idx].kind \in {"history", "ranged", "padded", "today", "asked", "feature"}
  BY FeedSeqType DEF FeedType, TypeOK
<1>3. QED
  BY <1>1, <1>2 DEF Fetched, LiveSamples

\* a live snapshot replaces the one before
LEMMA SnapshotStored ==
  ASSUME TypeOK, TickPlace, Tick, IngestSave, NEW f, f = FeedSeq[idx], f.kind = "feature"
  PROVE  /\ \A i \in DOMAIN Assets : Stored(<<f.name, Assets[i]>>)' = {LiveSamples(f)}
         /\ \A r \in feats' : r \in feats \/
              (r.at = now + 1 /\ r.day = today /\ \E i \in DOMAIN Assets : r.key = <<f.name, Assets[i]>>)
<1> DEFINE new == {[key |-> <<f.name, Assets[i]>>, day |-> to, src |-> Fetched(f), at |-> now + 1] : i \in DOMAIN Assets}
<1>1. feats' = feats \cup new /\ today' = today /\ AtFeed
  BY DEF IngestSave, world
<1>2. Fetched(f) = LiveSamples(f) /\ to = today
  BY <1>1, LiveFetch, TickDay
<1>3. Stamped /\ now \in Nat
  BY TypeSplit DEF Control
<1>4. ASSUME NEW i \in DOMAIN Assets PROVE Stored(<<f.name, Assets[i]>>)' = {LiveSamples(f)}
  <2> DEFINE row == [key |-> <<f.name, Assets[i]>>, day |-> to, src |-> Fetched(f), at |-> now + 1]
  <2>1. row \in new /\ row.key = <<f.name, Assets[i]>> /\ row.day = today
    BY <1>2
  <2>2. \A r \in new : r.at = now + 1 /\ r.src = LiveSamples(f)
    BY <1>2
  <2> HIDE DEF new, row
  <2>3. QED
    BY <1>1, <1>3, <2>1, <2>2, StoredNew
<1>5. QED
  BY <1>1, <1>2, <1>4

\* what is kept stays so
LEMMA KeptStays ==
  ASSUME TypeOK, TickPlace, LiveFeaturesApart, StagesInOrder, [Next]_vars, UNCHANGED <<today, rev>>,
         feats' = feats \/ ComputeStage \/ (Tick /\ IngestSave),
         NEW j \in DOMAIN Feeds, Kept(Feeds[j])
  PROVE  Kept(Feeds[j])'
<1> DEFINE f == Feeds[j]
<1>1. LiveSamples(f)' = LiveSamples(f)
  BY DEF LiveSamples, Sample
<1>2. raws \subseteq raws' /\ feats \subseteq feats' /\ now \in Nat
  BY AppendOnly DEF Appends, Grows, TypeOK
<1>3. CASE f.kind # "feature"
  BY <1>1, <1>2, <1>3 DEF Kept
<1>4. CASE f.kind = "feature"
  <2> SUFFICES ASSUME NEW i \in DOMAIN Assets PROVE Stored(<<f.name, Assets[i]>>)' = {LiveSamples(f)}
    BY <1>1, <1>4 DEF Kept
  <2>1. Stored(<<f.name, Assets[i]>>) = {LiveSamples(f)}
    BY <1>4 DEF Kept
  <2>2. f.name \in LiveFeatures
    BY <1>4 DEF LiveFeatures, FeedsOf
  <2>3. CASE \A r \in feats' : r \in feats \/ r.key # <<f.name, Assets[i]>>
    BY <1>2, <2>1, <2>3, StoredSame
  <2>4. CASE ComputeStage
    <3>1. StageSeq[idx].out \in AllOuts /\ Key(StageSeq[idx].out, AssetNow) = <<StageSeq[idx].out, AssetNow>>
      BY <2>4, StageTypeAt, StageHere DEF ComputeStage, AllOuts, Outs, StageSeq
    <3>2. \A r \in feats' : r \in feats \/ r.key[1] \in AllOuts
      BY <2>4, <3>1 DEF ComputeStage, SaveFeature
    <3>3. QED
      BY <2>2, <2>3, <3>2 DEF LiveFeaturesApart
  <2>5. CASE Tick /\ IngestSave
    <3>1. PICK g : g = FeedSeq[idx]
      OBVIOUS
    <3>2. CASE g.kind = "feature" /\ g.name = f.name
      <4>1. LiveSamples(g) = LiveSamples(f)
        BY <1>4, <3>2 DEF LiveSamples
      <4>2. Stored(<<g.name, Assets[i]>>)' = {LiveSamples(g)}
        BY <2>5, <3>1, <3>2, SnapshotStored
      <4>3. QED
        BY <3>2, <4>1, <4>2
    <3>3. CASE g.kind = "feature" /\ g.name # f.name
      BY <2>3, <2>5, <3>1, <3>3, SnapshotStored
    <3>4. CASE g.kind # "feature"
      BY <2>3, <2>5, <3>1, <3>4 DEF IngestSave
    <3>5. QED
      BY <3>2, <3>3, <3>4
  <2>6. QED
    BY <2>3, <2>4, <2>5
<1>5. QED
  BY <1>3, <1>4

LEMMA IngestsStep ==
  ASSUME TypeOK, TickPlace, LiveFeaturesApart, StagesInOrder, Ingests, [Next]_vars
  PROVE  Ingests'
<1> SUFFICES ASSUME NEW j \in DOMAIN Feeds,
                    (Resting \/ Ticking \/ (Tick /\ (j < idx \/ (j = idx /\ phase = "publish"))))'
             PROVE  Kept(Feeds[j])'
  BY DEF Ingests
<1>1. j \in Nat /\ idx \in Nat \ {0} /\ j <= Len(Feeds)
  BY StageSets DEF TypeOK
<1>2. CASE Resting'
  <2>1. UNCHANGED <<today, rev>> /\ (feats' = feats \/ (Tick /\ IngestSave)) /\ (Ticking \/ Resting)
    BY <1>2, RestingSteps DEF LastStep
  <2>2. Kept(Feeds[j])
    BY <2>1 DEF Ingests
  <2>3. QED
    BY <2>1, <2>2, KeptStays
<1>3. CASE Ticking'
  <2>1. UNCHANGED <<today, rev>> /\ (feats' = feats \/ ComputeStage) /\ (Ticking \/ (Tick /\ idx > Len(Feeds)))
    BY <1>3, TickingSteps
  <2>2. idx > Len(Feeds) => j < idx
    BY <1>1, StageSets
  <2>3. Kept(Feeds[j])
    BY <2>1, <2>2 DEF Ingests
  <2>4. QED
    BY <2>1, <2>3, KeptStays
<1>4. CASE ~Ticking' /\ Tick' /\ (j < idx' \/ (j = idx' /\ phase' = "publish"))
  <2>1. CASE RunOnce(today)
    BY <1>1, <1>4, <2>1 DEF RunOnce, Begin
  <2>2. CASE Tick /\ IngestSave
    <3>1. UNCHANGED <<today, rev>> /\ FeedSeq = Feeds /\ AtFeed
      BY <2>2, TickDay DEF IngestSave, world
    <3>2. CASE j < idx
      BY <2>2, <3>1, <3>2, KeptStays DEF Ingests
    <3>3. CASE j = idx
      <4>1. LiveSamples(Feeds[j])' = LiveSamples(Feeds[j])
        BY <3>1 DEF LiveSamples, Sample
      <4>2. CASE Feeds[j].kind = "feature"
        <5>1. PICK f : f = FeedSeq[idx]
          OBVIOUS
        <5>2. \A i \in DOMAIN Assets : Stored(<<f.name, Assets[i]>>)' = {LiveSamples(f)}
          BY <2>2, <3>1, <3>3, <4>2, <5>1, SnapshotStored
        <5>3. f = Feeds[j]
          BY <3>1, <3>3, <5>1
        <5>4. QED
          BY <4>1, <4>2, <5>2, <5>3 DEF Kept
      <4>3. CASE Feeds[j].kind # "feature"
        <5>1. raws' = Ingested(LiveSamples(Feeds[j]))
          BY <2>2, <3>1, <3>3, <4>3, LiveFetch DEF IngestSave
        <5>2. LiveSamples(Feeds[j]) \subseteq {r.s : r \in raws'}
          <6>1. ASSUME NEW s \in LiveSamples(Feeds[j]) PROVE \E r \in raws' : r.s = s
            <7>1. CASE s \in {r.s : r \in raws}
              BY <5>1, <7>1 DEF Ingested
            <7>2. CASE s \notin {r.s : r \in raws}
              <8>1. [s |-> s, at |-> now + 1] \in raws'
                BY <5>1, <6>1, <7>2 DEF Ingested
              <8>2. QED
                BY <8>1
            <7>3. QED
              BY <7>1, <7>2
          <6>2. QED
            BY <6>1
        <5>3. QED
          BY <4>1, <4>3, <5>2 DEF Kept
      <4>4. QED
        BY <4>2, <4>3
    <3>4. j < idx \/ j = idx
      BY <1>1, <1>4, <2>2 DEF IngestSave
    <3>5. QED
      BY <3>2, <3>3, <3>4
  <2>3. CASE Tick /\ IngestPublish
    <3>1. UNCHANGED <<today, rev, feats>> /\ (j < idx \/ (j = idx /\ phase = "publish"))
      BY <1>1, <1>4, <2>3 DEF IngestPublish, world
    <3>2. QED
      BY <2>3, <3>1, KeptStays DEF Ingests
  <2>4. CASE Tick /\ UNCHANGED vars
    <3>1. UNCHANGED <<today, rev, feats, idx, phase>>
      BY <2>4 DEF vars, world, store
    <3>2. QED
      BY <1>4, <2>4, <3>1, KeptStays DEF Ingests
  <2>5. CASE TakeCutoff \/ ComputeStage \/ EnterAssets \/ SaveScore \/ Announce
    BY <1>4, <2>5 DEF TakeCutoff, ComputeStage, AtStage, EnterAssets, SaveScore, Announce, Ticking
  <2>6. QED
    BY <1>4, <2>1, <2>2, <2>3, <2>4, <2>5, TickSteps
<1>5. QED
  BY <1>2, <1>3, <1>4

\* so a tick after a tick ingests nothing new
LEMMA NothingNew ==
  ASSUME TypeOK, TickPlace, Ingests, Resting, Tick, IngestSave
  PROVE  raws' = raws /\ \A k : Stored(k)' = Stored(k)
<1>0. PICK f : f = FeedSeq[idx]
  OBVIOUS
<1>1. FeedSeq = Feeds /\ AtFeed /\ today' = today /\ feats \subseteq feats'
  BY TickDay DEF IngestSave, world
<1>2. idx \in DOMAIN Feeds
  BY <1>1, StageSets DEF AtFeed, TypeOK
<1>3. Kept(f)
  BY <1>0, <1>1, <1>2 DEF Ingests
<1>4. CASE f.kind # "feature"
  <2>1. raws' = Ingested(LiveSamples(f)) /\ feats' = feats
    BY <1>0, <1>1, <1>4, LiveFetch DEF IngestSave
  <2>2. LiveSamples(f) \ {r.s : r \in raws} = {}
    BY <1>3, <1>4 DEF Kept
  <2>3. raws' = raws
    BY <2>1, <2>2 DEF Ingested
  <2>4. QED
    BY <1>1, <2>1, <2>3, StoredSame
<1>5. CASE f.kind = "feature"
  <2>1. raws' = raws
    BY <1>0, <1>5 DEF IngestSave
  <2>2. ASSUME NEW k PROVE Stored(k)' = Stored(k)
    <3>1. CASE \E i \in DOMAIN Assets : k = <<f.name, Assets[i]>>
      BY <1>0, <1>3, <1>5, <3>1, SnapshotStored DEF Kept
    <3>2. CASE ~\E i \in DOMAIN Assets : k = <<f.name, Assets[i]>>
      <4>1. \A r \in feats' : r \in feats \/ r.key # k
        BY <1>0, <1>5, <3>2, SnapshotStored
      <4>2. QED
        BY <1>1, <4>1, StoredSame
    <3>3. QED
      BY <3>1, <3>2
  <2>3. QED
    BY <2>1, <2>2
<1>6. QED
  BY <1>4, <1>5

LEMMA RawsPastStep ==
  ASSUME TypeOK, TickPlace, Ingests, RawsPast, [Next]_vars
  PROVE  RawsPast'
<1>1. now \in Nat /\ cutoff \in Nat /\ now <= now' /\ now' \in Nat /\ \A r \in raws : r.at \in Nat /\ r.at <= now
  BY AppendOnly DEF TypeOK, Appends
<1>2. CASE Resting'
  <2>1. cutoff' = cutoff /\ (Resting \/ Ticking)
    BY <1>2, RestingSteps DEF LastStep
  <2>2. raws' = raws
    BY <1>2, RestingSteps, NothingNew
  <2>3. QED
    BY <1>1, <2>1, <2>2 DEF RawsPast
<1>3. CASE Ticking'
  <2>1. raws' = raws /\ ((cutoff' = now) \/ (Ticking /\ cutoff' = cutoff))
    BY <1>3, TickingSteps
  <2>2. QED
    BY <1>1, <2>1 DEF RawsPast
<1>4. QED
  BY <1>2, <1>3 DEF RawsPast

-----------------------------------------------------------------------------
(* What a tick has stored *)

\* nothing is written after the cutoff
LEMMA SteadyUnwritten ==
  ASSUME NEW k, \A r \in feats : r.key = k /\ r.day = today => r.at <= cutoff
  PROVE  Steady(k)
<1>1. {r \in feats : r.key = k /\ r.day = today /\ r.at <= cutoff} = {r \in feats : r.key = k /\ r.day = today}
  OBVIOUS
<1>2. QED
  BY <1>1 DEF Steady, GetLatest, Stored

\* the feature of a stage that is not done
LEMMA NotDoneSteady ==
  ASSUME TypeOK, StagesInOrder, NewFeats, Ticking, NEW st \in AllStages, NEW a, ~Done(st, a)
  PROVE  Steady(<<st.out, a>>)
<1>1. ASSUME NEW r \in feats, r.key = <<st.out, a>>, r.at > cutoff PROVE FALSE
  <2>1. PICK g \in AllStages : Done(g, r.key[2]) /\ r.key = <<g.out, r.key[2]>>
    BY <1>1 DEF NewFeats
  <2>2. g = st
    BY <1>1, <2>1, OneStage
  <2>3. QED
    BY <1>1, <2>1, <2>2
<1>2. \A r \in feats : r.at \in Nat
  BY DEF TypeOK
<1>3. QED
  BY <1>1, <1>2, SteadyUnwritten DEF TypeOK

\* a stage computes at most one value
LEMMA OneValue ==
  ASSUME TypeOK, AtStage, NEW src \in StageResult
  PROVE  StageResult = {src}
<1> DEFINE st == StageSeq[idx]
           ok == {i \in DOMAIN st.alts : \A q \in st.alts[i] : Found(q, AssetNow, day, cutoff) # {}}
           first == {i \in ok : \A j \in ok : i <= j}
           V(i) == UNION {UNION Found(q, AssetNow, day, cutoff) : q \in st.alts[i]}
<1>1. StageResult = {V(i) : i \in first}
  BY DEF StageResult, StageValue
<1>2. DOMAIN st.alts \subseteq Nat
  BY StageTypeAt DEF StageType
<1>3. \A i, j \in first : i = j
  BY <1>2
<1> HIDE DEF V, first
<1>4. QED
  BY <1>1, <1>3

\* a stage stores what it computes, and nothing else is written
LEMMA ComputeStored ==
  ASSUME TypeOK, TickPlace, WellOrdered, MemExact, NewFeats, NothingLeft, Ticking, ComputeStage,
         NEW st, st = StageSeq[idx], NEW a, a = AssetNow
  PROVE  /\ st \in AllStages /\ a \in Owners /\ Owns(st, a) /\ ~Done(st, a)
         /\ Stored(<<st.out, a>>)' = ValueOf(st, a, today, cutoff)
         /\ \A r \in feats' : r \in feats \/ (r.key = <<st.out, a>> /\ r.day = today)
<1>1. /\ AtStage /\ day = today /\ today' = today /\ Stamped /\ now \in Nat
      /\ feats' = feats \cup {[key |-> Key(st.out, a), day |-> day, src |-> s, at |-> now + 1] : s \in StageResult}
  BY TickDay, TypeSplit DEF ComputeStage, SaveFeature, Ticking, Control, world
<1>2. st \in AllStages /\ Key(st.out, a) = <<st.out, a>>
  BY <1>1, StageHere DEF WellOrdered
<1>3. a \in Owners /\ Owns(st, a) /\ ~Done(st, a)
  BY <1>1, NotDone DEF WellOrdered
<1>4. StageResult = ValueOf(st, a, today, cutoff)
  BY <1>1, StageIsValue DEF WellOrdered
<1>5. \A r \in feats' : r \in feats \/ (r.key = <<st.out, a>> /\ r.day = today)
  BY <1>1, <1>2
<1>6. CASE StageResult = {}
  <2>1. GetLatest(<<st.out, a>>, today, cutoff) = {}
    BY <1>2, <1>3, <1>4, <1>6 DEF NothingLeft
  <2>2. Steady(<<st.out, a>>)
    BY <1>2, <1>3, NotDoneSteady DEF WellOrdered
  <2>3. feats' = feats
    BY <1>1, <1>6
  <2>4. Stored(<<st.out, a>>)' = Stored(<<st.out, a>>)
    BY <1>1, <2>3, StoredSame
  <2>5. QED
    BY <1>2, <1>3, <1>4, <1>5, <1>6, <2>1, <2>2, <2>4 DEF Steady
<1>7. CASE StageResult # {}
  <2>1. PICK src : StageResult = {src}
    BY <1>1, <1>7, OneValue
  <2> DEFINE new == {[key |-> Key(st.out, a), day |-> day, src |-> s, at |-> now + 1] : s \in StageResult}
             row == [key |-> Key(st.out, a), day |-> day, src |-> src, at |-> now + 1]
  <2>2. row \in new /\ row.key = <<st.out, a>> /\ row.day = today
    BY <1>1, <1>2, <2>1
  <2>3. \A r \in new : r.at = now + 1 /\ r.src = src
    BY <2>1
  <2>4. feats' = feats \cup new
    BY <1>1
  <2> HIDE DEF new, row
  <2>5. Stored(<<st.out, a>>)' = {src}
    BY <1>1, <2>2, <2>3, <2>4, StoredNew
  <2>6. QED
    BY <1>2, <1>3, <1>4, <1>5, <2>1, <2>5
<1>8. QED
  BY <1>6, <1>7

LEMMA NewFeatsStep ==
  ASSUME TypeOK, TickPlace, WellOrdered, MemExact, NewFeats, NothingLeft, [Next]_vars
  PROVE  NewFeats'
<1>0. \A r \in feats : r.at \in Nat /\ r.at <= now
  BY DEF TypeOK
<1>1. CASE Resting'
  <2>1. UNCHANGED <<today, cutoff>> /\ (Resting \/ Ticking) /\ (feats' = feats \/ (Tick /\ IngestSave))
    BY <1>1, RestingSteps DEF LastStep
  <2>2. ~Ticking'
    BY <1>1 DEF Resting, Ticking, Tick
  <2>3. \A r \in feats' : r \in feats \/ r.day = today
    BY <2>1, TickDay DEF IngestSave
  <2>4. QED
    BY <2>1, <2>2, <2>3 DEF NewFeats
<1>2. CASE Ticking' /\ TakeCutoff /\ cutoff' = now /\ feats' = feats
  BY <1>0, <1>2 DEF NewFeats, TypeOK
<1>3. CASE Ticking' /\ Ticking /\ cutoff' = cutoff /\ ComputeStage
  <2>1. PICK st, a : st = StageSeq[idx] /\ a = AssetNow
    OBVIOUS
  <2>2. /\ st \in AllStages
        /\ \A r \in feats' : r \in feats \/ (r.key = <<st.out, a>> /\ r.day = today)
    BY <1>3, <2>1, ComputeStored
  <2>3. Done(st, a)' /\ \A g, b : Done(g, b) => Done(g, b)'
    BY <1>3, <2>1, DoneComputed
  <2>4. today' = today /\ AllStages' = AllStages
    BY <1>3, TickingSteps DEF AllStages
  <2>5. SUFFICES ASSUME NEW r \in feats', r.at > cutoff
                 PROVE  r.day = today /\ \E g \in AllStages : Done(g, r.key[2])' /\ r.key = <<g.out, r.key[2]>>
    BY <1>3, <2>4 DEF NewFeats
  <2>6. CASE r \in feats
    BY <1>3, <2>3, <2>5, <2>6 DEF NewFeats
  <2>7. CASE r \notin feats
    <3>1. r.key = <<st.out, a>> /\ r.day = today
      BY <2>2, <2>7
    <3>2. QED
      BY <2>2, <2>3, <3>1
  <2>8. QED
    BY <2>6, <2>7
<1>4. CASE /\ Ticking' /\ Ticking /\ UNCHANGED <<cutoff, feats, today>>
           /\ EnterAssets \/ SaveScore \/ (Announce /\ NextAsset) \/ UNCHANGED vars
  <2>1. \A g, b : Done(g, b)' <=> Done(g, b)
    BY <1>4, DoneSame
  <2>2. QED
    BY <1>4, <2>1 DEF NewFeats
<1>5. CASE ~Resting' /\ ~Ticking'
  BY <1>5 DEF NewFeats
<1>6. QED
  BY <1>1, <1>2, <1>3, <1>4, <1>5, TickingSteps

LEMMA ComputedStep ==
  ASSUME TypeOK, TickPlace, WellOrdered, MemExact, Ingests, RawsPast, NewFeats, NothingLeft, Computed, [Next]_vars
  PROVE  Computed'
<1> SUFFICES ASSUME NEW st \in AllStages, NEW a \in Owners,
                    ((Resting /\ Owns(st, a)) \/ (Ticking /\ Done(st, a)))'
             PROVE  Stored(<<st.out, a>>)' = ValueOf(st, a, today, cutoff)'
  BY DEF Computed, AllStages, Owners
<1> DEFINE k == <<st.out, a>>
<1>1. feats \subseteq feats' /\ now \in Nat /\ cutoff \in Nat
  BY AppendOnly DEF Appends, Grows, TypeOK
<1>2. ASSUME Resting \/ Ticking, UNCHANGED <<today, cutoff>>
      PROVE  ValueOf(st, a, today, cutoff)' = ValueOf(st, a, today, cutoff)
  <2>1. PICK d, c : d = today /\ c = cutoff
    OBVIOUS
  <2>2. ValueOf(st, a, d, c)' = ValueOf(st, a, d, c)
    BY <1>1, <1>2, <2>1, ValueStable DEF RawsPast, WellOrdered
  <2>3. QED
    BY <1>2, <2>1, <2>2
<1>3. CASE Resting'
  <2>1. Owns(st, a)
    BY <1>3 DEF Resting, Ticking, Tick, Owns
  <2>2. UNCHANGED <<today, cutoff>> /\ (Resting \/ LastStep)
    BY <1>3, RestingSteps
  <2>3. Stored(k) = ValueOf(st, a, today, cutoff)
    BY <2>1, <2>2, DoneLast DEF Computed, LastStep
  <2>4. Stored(k)' = Stored(k)
    <3>1. CASE feats' = feats
      BY <2>2, <3>1, StoredSame
    <3>2. CASE Resting /\ Tick /\ IngestSave
      BY <3>2, NothingNew
    <3>3. QED
      BY <1>3, <3>1, <3>2, RestingSteps
  <2>5. QED
    BY <1>2, <2>2, <2>3, <2>4 DEF LastStep
<1>4. CASE Ticking'
  <2>1. Done(st, a)' /\ today' = today
    BY <1>4, TickingSteps DEF Resting, Ticking, Tick
  <2>2. ~TakeCutoff
    BY <2>1, DoneFirst
  <2>3. CASE Ticking /\ cutoff' = cutoff /\ ComputeStage
    <3>1. PICK g, b : g = StageSeq[idx] /\ b = AssetNow
      OBVIOUS
    <3>2. /\ ~Done(g, b) /\ Stored(<<g.out, b>>)' = ValueOf(g, b, today, cutoff)
          /\ g \in AllStages
          /\ \A r \in feats' : r \in feats \/ r.key = <<g.out, b>>
      BY <2>3, <3>1, ComputeStored
    <3>3. Done(st, a) \/ (st = g /\ a = b)
      BY <2>1, <2>3, <3>1, DoneComputed
    <3>4. CASE st = g /\ a = b
      BY <1>2, <2>1, <2>3, <3>2, <3>4
    <3>5. CASE Done(st, a)
      <4>1. k # <<g.out, b>>
        BY <3>2, <3>5, OneStage DEF WellOrdered
      <4>2. Stored(k)' = Stored(k)
        BY <1>1, <2>1, <3>2, <4>1, StoredSame
      <4>3. QED
        BY <1>2, <2>1, <2>3, <3>5, <4>2 DEF Computed
    <3>6. QED
      BY <3>3, <3>4, <3>5
  <2>4. CASE /\ Ticking /\ UNCHANGED <<cutoff, feats>>
             /\ EnterAssets \/ SaveScore \/ (Announce /\ NextAsset) \/ UNCHANGED vars
    <3>1. Done(st, a)
      BY <2>1, <2>4, DoneSame
    <3>2. Stored(k)' = Stored(k)
      BY <2>1, <2>4, StoredSame
    <3>3. QED
      BY <1>2, <2>1, <2>4, <3>1, <3>2 DEF Computed
  <2>5. QED
    BY <1>4, <2>2, <2>3, <2>4, TickingSteps
<1>5. QED
  BY <1>3, <1>4

-----------------------------------------------------------------------------
(* A stage that computes nothing has left nothing *)

LEMMA CombineFinds ==
  ASSUME NEW st \in StageType, NEW found, NEW k \in DOMAIN st.alts, \A q \in st.alts[k] : found[q] # {}
  PROVE  Combine(st, found) # {}
<1> DEFINE ok == {i \in DOMAIN st.alts : \A q \in st.alts[i] : found[q] # {}}
<1>1. ok \in SUBSET Nat /\ ok # {}
  <2>1. st.alts \in Seq(SUBSET [read : ReadKinds, of : STRING])
    BY DEF StageType
  <2>2. DOMAIN st.alts \subseteq Nat
    BY <2>1
  <2>3. QED
    BY <2>2
<1>2. PICK m \in ok : \A i \in ok : m <= i
  <2> HIDE DEF ok
  <2>1. QED
    BY <1>1, LeastExists
<1>3. QED
  BY <1>2 DEF Combine

\* what was computed once can be computed again, from the tables alone
LEMMA ValueFound ==
  ASSUME TypeOK, Recomputable, NEW st \in AllStages, NEW a, Owns(st, a), HasFeat(<<st.out, a>>, today)
  PROVE  ValueOf(st, a, today, now) # {}
<1>1. PICK r \in feats : r.key = <<st.out, a>> /\ r.day = today
  BY DEF HasFeat
<1>2. PICK stages \in {GlobalStages, AssetStages} :
        HasReads(stages, st, a, today) /\ \A j \in DOMAIN stages : stages[j] \in AllStages /\ stages[j] \in StageType
  <2>1. \A j \in DOMAIN GlobalStages : GlobalStages[j] \in AllStages /\ GlobalStages[j] \in StageType
    BY DomainAssumption DEF AllStages
  <2>2. \A j \in DOMAIN AssetStages : AssetStages[j] \in AllStages /\ AssetStages[j] \in StageType
    BY DomainAssumption DEF AllStages
  <2>3. CASE a = "GLOBAL" /\ \E j \in DOMAIN GlobalStages : st = GlobalStages[j]
    BY <1>1, <2>1, <2>3 DEF Recomputable
  <2>4. CASE \E j \in DOMAIN AssetStages : st = AssetStages[j]
    BY <1>1, <2>2, <2>4 DEF Recomputable
  <2>5. QED
    BY <2>3, <2>4 DEF Owns
<1>3. PICK k \in DOMAIN st.alts : \A q \in st.alts[k] : HasRead(stages, q, a, today)
  BY <1>2 DEF HasReads
<1>4. Stamped /\ now \in Nat /\ today \in Nat
  BY TypeSplit DEF TypeOK
<1>5. ASSUME NEW q \in st.alts[k] PROVE FoundIn(q, a, today, now) # {}
  <2>1. CASE q.read # "mem"
    <3>1. Found(q, a, today, now) # {}
      BY <1>3, <1>4, <1>5, <2>1, HasFound
    <3>2. QED
      BY <2>1, <3>1 DEF FoundIn
  <2>2. CASE q.read = "mem"
    <3>1. PICK j \in DOMAIN stages : stages[j].out = q.of /\ HasRaws(stages[j], a, today)
      BY <1>3, <1>5, <2>2 DEF HasRead, HasRawRead
    <3> DEFINE g == stages[j]
    <3>2. g \in AllStages /\ g \in StageType
      BY <1>2
    <3>3. PICK m \in DOMAIN g.alts : \A p \in g.alts[m] : HasRawRead(p, a, today)
      BY <3>1 DEF HasRaws
    <3>4. \A p \in g.alts[m] : Found(p, a, today, now) # {}
      <4>1. \A p \in g.alts[m] : HasRead(stages, p, a, today) /\ p.read # "mem"
        BY <3>3 DEF HasRead, HasRawRead
      <4>2. QED
        BY <1>4, <4>1, HasFound
    <3>5. \A p \in g.alts[m] : [x \in ReadsOf(g) |-> Found(x, a, today, now)][p] # {}
      BY <3>4 DEF ReadsOf
    <3>6. RawValue(g, a, today, now) # {}
      BY <3>2, <3>5, CombineFinds DEF RawValue
    <3> HIDE DEF g
    <3>7. g.out = q.of
      BY <3>1 DEF g
    <3>8. QED
      <4>1. PICK x : x \in RawValue(g, a, today, now)
        BY <3>6
      <4>2. x \in FoundIn(q, a, today, now)
        BY <2>2, <3>2, <3>7, <4>1 DEF FoundIn
      <4>3. QED
        BY <4>2
  <2>3. QED
    BY <2>1, <2>2
<1>6. st \in StageType
  BY DomainAssumption DEF AllStages
<1>7. \A q \in st.alts[k] : [x \in ReadsOf(st) |-> FoundIn(x, a, today, now)][q] # {}
  BY <1>5 DEF ReadsOf
<1>8. QED
  BY <1>6, <1>7, CombineFinds DEF ValueOf

LEMMA NothingLeftStep ==
  ASSUME TypeOK, TickPlace, StagesInOrder, Recomputable, RawsPast, NothingLeft, [Next]_vars
  PROVE  NothingLeft'
<1> SUFFICES ASSUME Ticking', NEW st \in AllStages, NEW a \in Owners, Owns(st, a)',
                    ValueOf(st, a, today, cutoff)' = {}
             PROVE  GetLatest(<<st.out, a>>, today, cutoff)' = {}
  BY DEF NothingLeft, AllStages, Owners
<1>1. now \in Nat /\ cutoff \in Nat /\ today' = today /\ Owns(st, a)
  BY TickingSteps DEF TypeOK, Owns
<1>2. ASSUME NEW c \in Nat, c <= now, cutoff' = c, ValueOf(st, a, today, c) = {} => GetLatest(<<st.out, a>>, today, c) = {}
      PROVE  GetLatest(<<st.out, a>>, today, cutoff)' = {}
  <2>1. PICK d : d = today
    OBVIOUS
  <2>2. ValueOf(st, a, d, c)' = ValueOf(st, a, d, c)
    BY <1>1, <1>2, ValueStable
  <2>3. GetLatest(<<st.out, a>>, d, c)' = GetLatest(<<st.out, a>>, d, c)
    BY <1>1, <1>2, LatestStable
  <2>4. QED
    BY <1>1, <1>2, <2>1, <2>2, <2>3
<1>3. CASE cutoff' = now
  <2>1. PICK c \in Nat : c = now
    BY <1>1
  <2>2. GetLatest(<<st.out, a>>, today, c) # {} => HasFeat(<<st.out, a>>, today)
    BY GetLatestHas
  <2>3. QED
    BY <1>1, <1>2, <1>3, <2>1, <2>2, ValueFound
<1>4. CASE Ticking /\ cutoff' = cutoff
  <2>1. PICK c \in Nat : c = cutoff
    BY <1>1
  <2>2. ValueOf(st, a, today, c) = {} => GetLatest(<<st.out, a>>, today, c) = {}
    BY <1>1, <1>4, <2>1 DEF NothingLeft
  <2>3. QED
    BY <1>2, <1>4, <2>1, <2>2 DEF RawsPast
<1>5. QED
  BY <1>3, <1>4, TickingSteps

-----------------------------------------------------------------------------
(* Each tick settles one more rank *)

\* a key some stage of a tick writes
LEMMA KeyOwned ==
  ASSUME NEW f \in AllOuts, NEW a \in Owners, f \in Outs(GlobalStages) \/ \E i \in DOMAIN Assets : a = Assets[i]
  PROVE  \E g \in AllStages : \E b \in Owners : g.out = f /\ Owns(g, b) /\ Key(f, a) = <<g.out, b>>
<1>1. CASE f \in Outs(GlobalStages)
  <2>1. PICK j \in DOMAIN GlobalStages : GlobalStages[j].out = f
    BY <1>1 DEF Outs
  <2>2. /\ GlobalStages[j] \in AllStages /\ "GLOBAL" \in Owners /\ Owns(GlobalStages[j], "GLOBAL")
        /\ Key(f, a) = <<GlobalStages[j].out, "GLOBAL">>
    BY <1>1, <2>1 DEF AllStages, Owners, Owns, Key
  <2>3. QED
    BY <2>1, <2>2
<1>2. CASE f \notin Outs(GlobalStages)
  <2>1. PICK j \in DOMAIN AssetStages : AssetStages[j].out = f
    BY <1>2 DEF AllOuts, Outs
  <2>2. AssetStages[j] \in AllStages /\ Owns(AssetStages[j], a) /\ Key(f, a) = <<AssetStages[j].out, a>>
    BY <1>2, <2>1 DEF AllStages, Owns, Key
  <2>3. QED
    BY <2>1, <2>2
<1>3. QED
  BY <1>1, <1>2

\* a tick reads the features of the day by the keys it writes
LEMMA ReadOwned ==
  ASSUME StagesInOrder, NEW st \in AllStages, NEW a \in Owners, Owns(st, a), NEW q \in ReadsOf(st),
         q.read \in {"latest", "series"}, q.of \in AllOuts
  PROVE  \E g \in AllStages : \E b \in Owners : g.out = q.of /\ Owns(g, b) /\ Key(q.of, a) = <<g.out, b>>
<1>1. CASE \E j \in DOMAIN GlobalStages : st = GlobalStages[j]
  <2>1. PICK j \in DOMAIN GlobalStages : st = GlobalStages[j]
    BY <1>1
  <2>2. q.of \in OutsBefore(GlobalStages, j)
    BY <2>1 DEF StagesInOrder, InOrder, ReadsOf
  <2>3. q.of \in Outs(GlobalStages)
    BY <2>2 DEF OutsBefore, Outs
  <2>4. QED
    BY <2>3, KeyOwned
<1>2. CASE \E i \in DOMAIN Assets : a = Assets[i]
  BY <1>2, KeyOwned
<1>3. QED
  BY <1>1, <1>2 DEF Owns

\* a read of a raw table that sees every row finds the newest versions
LEMMA RawReadFresh ==
  ASSUME TypeOK, RawOrdered, NEW q, q.read \in RawReads, NEW a, NEW d, NEW v \in Found(q, a, d, now)
  PROVE  Fresh(v, today)
<1>1. Stamped /\ now \in Nat
  BY TypeSplit DEF Control
<1>2. CASE q.read \in {"raw", "rawWindow"}
  <2>1. v \in RawAsOf(q.of, d, now)
    BY <1>2 DEF Found
  <2>2. QED
    BY <1>1, <2>1, RawFresh
<1>3. CASE q.read = "rawCoin"
  <2>1. v \in RawAsOf(CoinIDForAsset(a), d, now)
    BY <1>3 DEF Found
  <2>2. QED
    BY <1>1, <2>1, RawFresh
<1>4. CASE q.read = "rawSeries"
  <2>1. PICK x : v \in RawAsOf(q.of, x, now)
    BY <1>4 DEF Found, LastRaw
  <2>2. QED
    BY <1>1, <2>1, RawFresh
<1>5. CASE q.read = "rawPast"
  <2>1. v = {}
    BY <1>5 DEF Found, Base
  <2>2. QED
    BY <2>1 DEF Fresh
<1>6. QED
  BY <1>2, <1>3, <1>4, <1>5 DEF RawReads

\* and so does a combination of such values
LEMMA CombineFresh ==
  ASSUME NEW st, NEW found, \A q \in ReadsOf(st) : \A v \in found[q] : Fresh(v, today),
         NEW src \in Combine(st, found)
  PROVE  Fresh(src, today)
<1>1. PICK k \in DOMAIN st.alts : src = UNION {UNION found[q] : q \in st.alts[k]}
  BY DEF Combine
<1>2. ASSUME NEW s \in src PROVE \E q \in ReadsOf(st) : \E v \in found[q] : s \in v
  BY <1>1 DEF ReadsOf
<1>3. QED
  BY <1>2 DEF Fresh

\* what a live snapshot says is in no raw table
LEMMA SnapshotFresh ==
  ASSUME LiveFeaturesApart, RawOrdered, Recomputable, NEW k, k[1] \notin AllOuts, NEW d, NEW c,
         NEW src \in GetLatest(k, d, c)
  PROVE  Fresh(src, today)
<1>1. PICK r \in feats : r.key = k /\ r.src = src
  BY DEF GetLatest, Newest
<1>2. \A s \in src : s.feed \in LiveFeatures
  BY <1>1 DEF Recomputable
<1>3. \A q \in raws : q.s.feed \notin LiveFeatures
  BY DEF RawOrdered, LiveFeaturesApart
<1>4. QED
  BY <1>2, <1>3 DEF Fresh

\* what a stage one rank up computes is of the newest versions
LEMMA ValueFresh ==
  ASSUME TypeOK, WellOrdered, FeatSeen("day"), RawOrdered, Recomputable, NEW ranks, Ranked(ranks),
         Settled(ranks), Resting, NEW st \in AllStages, NEW a \in Owners, Owns(st, a),
         ranks[st.out] <= streak, NEW src \in ValueOf(st, a, today, now)
  PROVE  Fresh(src, today)
<1>1. Stamped /\ now \in Nat /\ today \in Nat /\ streak \in Nat
  BY TypeSplit DEF TypeOK
<1>2. ASSUME NEW q \in ReadsOf(st), NEW v \in FoundIn(q, a, today, now) PROVE Fresh(v, today)
  <2>1. CASE q.read = "mem"
    <3>1. PICK g \in AllStages : g.out = q.of /\ v \in RawValue(g, a, today, now)
      BY <1>2, <2>1 DEF FoundIn
    <3> DEFINE found == [p \in ReadsOf(g) |-> Found(p, a, today, now)]
    <3>2. \A p \in ReadsOf(g) : p.read \in RawReads
      BY <2>1, <3>1, MemStage, RawReadOf DEF WellOrdered
    <3>3. \A p \in ReadsOf(g) : \A w \in found[p] : Fresh(w, today)
      BY <3>2, RawReadFresh
    <3>4. v \in Combine(g, found)
      BY <3>1 DEF RawValue
    <3> HIDE DEF found
    <3>5. QED
      BY <3>3, <3>4, CombineFresh
  <2>2. CASE q.read # "mem"
    <3>1. v \in Found(q, a, today, now) /\ q.read \in ReadKinds
      BY <1>2, <2>2, ReadTypes DEF FoundIn
    <3>2. CASE q.read \in RawReads
      BY <3>1, <3>2, RawReadFresh
    <3>3. CASE q.read \in {"past", "grown"}
      <4>1. v = {}
        BY <3>1, <3>3 DEF Found, Base
      <4>2. QED
        BY <4>1 DEF Fresh
    <3>4. ASSUME q.read \in {"latest", "series"}, v \in GetLatest(Key(q.of, a), today, now) PROVE Fresh(v, today)
      <4>1. CASE q.of \in AllOuts
        <5>1. PICK g \in AllStages, b \in Owners : g.out = q.of /\ Owns(g, b) /\ Key(q.of, a) = <<g.out, b>>
          BY <3>4, <4>1, ReadOwned DEF WellOrdered
        <5>2. ranks[q.of] < ranks[st.out] /\ ranks[q.of] \in Nat /\ ranks[st.out] \in Nat
          BY <3>4, <4>1, <5>1, DomainAssumption DEF Ranked
        <5>3. ranks[g.out] < streak
          BY <1>1, <5>1, <5>2
        <5>4. v \in Stored(<<g.out, b>>)
          BY <1>1, <3>4, <5>1, StoredNow
        <5>5. QED
          BY <5>1, <5>3, <5>4 DEF Settled, AllFresh
      <4>2. CASE q.of \notin AllOuts
        <5>1. Key(q.of, a)[1] \notin AllOuts
          BY <4>2 DEF Key
        <5>2. QED
          BY <3>4, <5>1, SnapshotFresh DEF WellOrdered
      <4>3. QED
        BY <4>1, <4>2
    <3>5. CASE q.read = "latest"
      BY <3>1, <3>4, <3>5 DEF Found
    <3>6. CASE q.read = "series"
      <4>1. PICK x \in SeriesDays(Key(q.of, a), today, now) : v \in GetLatest(Key(q.of, a), x, now)
        BY <3>1, <3>6 DEF Found, LastOf, LastDayOf
      <4>2. x \in Nat /\ x <= today
        BY <1>1 DEF SeriesDays
      <4>3. CASE x = today
        BY <3>4, <3>6, <4>1, <4>3
      <4>4. CASE x < today
        <5>1. Seen(v, x, "day")
          BY <4>1, <4>2, GetLatestSeen DEF Times
        <5>2. \A s \in v : s.day # today
          BY <1>1, <4>2, <4>4, <5>1 DEF Seen
        <5>3. QED
          BY <5>2 DEF Fresh
      <4>5. QED
        BY <1>1, <4>2, <4>3, <4>4
    <3>7. QED
      BY <2>2, <3>1, <3>2, <3>3, <3>5, <3>6 DEF ReadKinds, RawReads
  <2>3. QED
    BY <2>1, <2>2
<1> DEFINE F == [q \in ReadsOf(st) |-> FoundIn(q, a, today, now)]
<1>3. \A q \in ReadsOf(st) : \A v \in F[q] : Fresh(v, today)
  BY <1>2
<1>4. src \in Combine(st, F)
  BY DEF ValueOf
<1> HIDE DEF F
<1>5. QED
  BY <1>3, <1>4, CombineFresh

\* and it is what the tick before computed
LEMMA ValueSteady ==
  ASSUME TypeOK, StagesInOrder, RawsPast, NewFeats, NEW ranks, Ranked(ranks), Settled(ranks), Resting,
         NEW st \in AllStages, NEW a, ranks[st.out] <= streak
  PROVE  ValueOf(st, a, today, cutoff) = ValueOf(st, a, today, now)
<1>1. now \in Nat /\ cutoff \in Nat /\ cutoff <= now /\ streak \in Nat /\ Stamped
  BY TypeSplit DEF TypeOK, RawsPast
<1>2. \A r \in raws : r.at <= cutoff /\ r.at <= now
  BY <1>1 DEF RawsPast, TypeOK
<1>3. \A q : q.read \in RawReads => Found(q, a, today, cutoff) = Found(q, a, today, now)
  BY <1>1, <1>2, RawReadSame
<1>4. ASSUME NEW q \in ReadsOf(st), q.read \notin RawReads, q.read # "mem"
      PROVE  Found(q, a, today, cutoff) = Found(q, a, today, now)
  <2> DEFINE k == Key(q.of, a)
  <2>1. q.read \in {"latest", "past", "series", "grown"}
    BY <1>4, ReadTypes DEF ReadKinds, RawReads
  <2>2. k[1] = q.of
    BY DEF Key
  <2> HIDE DEF k
  <2>3. ASSUME NEW x, x # today PROVE GetLatest(k, x, cutoff) = GetLatest(k, x, now)
    <3>1. \A r \in feats : r.day = x => r.at <= cutoff /\ r.at <= now
      BY <1>1, <2>3 DEF NewFeats, TypeOK
    <3>2. {r \in feats : r.key = k /\ r.day = x /\ r.at <= cutoff} = {r \in feats : r.key = k /\ r.day = x /\ r.at <= now}
      BY <3>1
    <3>3. QED
      BY <3>2 DEF GetLatest
  <2>4. CASE q.read = "past"
    <3>1. ASSUME NEW x \in Past(today) PROVE x # today
      <4>1. Lag \in Nat /\ Lag > 0 /\ today \in Nat
        BY DomainAssumption DEF Ranked, TypeOK
      <4>2. x = today - Lag
        BY <3>1 DEF Past
      <4>3. QED
        BY <4>1, <4>2
    <3>2. \A x \in Past(today) : GetLatest(k, x, cutoff) = GetLatest(k, x, now)
      BY <2>3, <3>1
    <3>3. QED
      BY <2>4, <3>2 DEF Found, k
  <2>5. CASE q.read # "past"
    <3>1. q.of \notin AllOuts \/ ranks[q.of] < streak
      <4>1. CASE q.of \in AllOuts
        <5>1. PICK g \in AllStages : g.out = q.of
          BY <4>1 DEF AllOuts, Outs, AllStages
        <5>2. ranks[q.of] < ranks[st.out] /\ ranks[q.of] \in Nat /\ ranks[st.out] \in Nat
          BY <2>1, <2>5, <4>1, <5>1, DomainAssumption DEF Ranked
        <5>3. QED
          BY <1>1, <5>2
      <4>2. QED
        BY <4>1
    <3>2. Steady(k)
      BY <2>2, <3>1 DEF Settled
    <3>3. GetLatest(k, today, cutoff) = GetLatest(k, today, now)
      BY <1>1, <3>2, StoredNow DEF Steady
    <3>4. \A x : GetLatest(k, x, cutoff) = GetLatest(k, x, now)
      BY <2>3, <3>3
    <3>5. QED
      BY <2>1, <3>4, FeatReadSame DEF k
  <2>6. QED
    BY <2>4, <2>5
<1>5. QED
  BY <1>3, <1>4, ValueSame

\* while nothing changes, a settled feature stays so
LEMMA SteadyStays ==
  ASSUME now \in Nat, cutoff \in Nat, cutoff <= now, [Next]_vars, UNCHANGED <<today, cutoff>>,
         NEW k, Stored(k)' = Stored(k)
  PROVE  Steady(k)' <=> Steady(k)
<1>1. PICK d, c : d = today /\ c = cutoff
  OBVIOUS
<1>2. GetLatest(k, d, c)' = GetLatest(k, d, c)
  BY <1>1, LatestStable
<1>3. QED
  BY <1>1, <1>2 DEF Steady

\* the last step of a tick adds a rank to the settled ones
LEMMA LastStepSettles ==
  ASSUME TypeOK, TickPlace, StagesInOrder, NewFeats, Computed, NEW ranks, Ranked(ranks), Settling(ranks), LastStep
  PROVE  /\ \A k : k[1] \notin AllOuts \/ ranks[k[1]] < streak + 1 => Steady(k)
         /\ \A st \in AllStages : \A a \in Owners :
              Owns(st, a) /\ ranks[st.out] < streak + 1 => AllFresh(Stored(<<st.out, a>>))
<1>1. streak \in Nat /\ cutoff \in Nat /\ Ticking
  BY DEF TypeOK, LastStep
<1>2. \A st \in AllStages : ranks[st.out] \in Nat /\ st.out \in AllOuts
  <2>1. \A st \in AllStages : ranks[st.out] \in Nat
    BY DomainAssumption DEF Ranked
  <2>2. \A st \in AllStages : st.out \in AllOuts
    BY DEF AllStages, AllOuts, Outs
  <2>3. QED
    BY <2>1, <2>2
<1>3. ASSUME NEW st \in AllStages, NEW a \in Owners, Owns(st, a), ranks[st.out] < streak + 1
      PROVE  Steady(<<st.out, a>>) /\ AllFresh(Stored(<<st.out, a>>))
  <2>1. Done(st, a)
    BY <1>3, DoneLast
  <2>2. Stored(<<st.out, a>>) = ValueOf(st, a, today, cutoff)
    BY <1>1, <2>1 DEF Computed
  <2>3. ranks[st.out] <= streak
    BY <1>1, <1>2, <1>3
  <2>4. QED
    BY <1>1, <1>3, <2>2, <2>3 DEF Settling, Steady
<1>4. ASSUME NEW k, k[1] \notin AllOuts \/ ranks[k[1]] < streak + 1 PROVE Steady(k)
  <2>1. CASE \E r \in feats : r.key = k /\ r.at > cutoff
    <3>1. PICK st \in AllStages : Done(st, k[2]) /\ k = <<st.out, k[2]>>
      BY <1>1, <2>1 DEF NewFeats
    <3>2. k[2] \in Owners /\ Owns(st, k[2]) /\ k[1] = st.out
      BY <3>1 DEF Done, Owns, Owners
    <3>3. QED
      BY <1>2, <1>3, <1>4, <3>1, <3>2
  <2>2. CASE ~\E r \in feats : r.key = k /\ r.at > cutoff
    <3>1. \A r \in feats : r.key = k => r.at <= cutoff
      BY <1>1, <2>2 DEF TypeOK
    <3>2. QED
      BY <3>1, SteadyUnwritten
  <2>3. QED
    BY <2>1, <2>2
<1>5. QED
  BY <1>3, <1>4

LEMMA SettledStep ==
  ASSUME TypeOK, TickPlace, StagesInOrder, Ingests, RawsPast, NewFeats, Computed,
         NEW ranks, Ranked(ranks), Settling(ranks), Settled(ranks), [Next]_vars
  PROVE  Settled(ranks)'
<1> SUFFICES ASSUME Resting'
             PROVE  /\ \A k : k[1] \notin AllOuts \/ ranks[k[1]] < streak' => Steady(k)'
                    /\ \A st \in AllStages : \A a \in Owners :
                         Owns(st, a) /\ ranks[st.out] < streak' => \A src \in Stored(<<st.out, a>>)' : Fresh(src, today)'
  BY DEF Settled, AllStages, AllOuts, Owners, Owns, AllFresh
<1>1. /\ now \in Nat /\ cutoff \in Nat /\ UNCHANGED <<today, cutoff>>
      /\ Resting \/ LastStep
  BY RestingSteps DEF TypeOK
<1>2. cutoff <= now
  BY <1>1 DEF RawsPast, LastStep
<1>3. raws' = raws /\ \A k : Stored(k)' = Stored(k)
  <2>1. CASE UNCHANGED <<raws, feats>>
    BY <1>1, <2>1, StoredSame
  <2>2. CASE Resting /\ Tick /\ IngestSave
    BY <2>2, NothingNew
  <2>3. QED
    BY <2>1, <2>2, RestingSteps
<1>4. \A k : Steady(k)' <=> Steady(k)
  BY <1>1, <1>2, <1>3, SteadyStays
<1>5. \A src : Fresh(src, today)' <=> Fresh(src, today)
  BY <1>1, <1>3 DEF Fresh
<1>6. CASE LastStep
  <2>1. streak' = streak + 1
    BY <1>6 DEF LastStep
  <2>2. QED
    BY <1>3, <1>4, <1>5, <1>6, <2>1, LastStepSettles DEF AllFresh
<1>7. CASE Resting /\ streak' = streak
  BY <1>3, <1>4, <1>5, <1>7 DEF Settled, AllFresh
<1>8. QED
  BY <1>6, <1>7, RestingSteps

LEMMA SettlingStep ==
  ASSUME TypeOK, TickPlace, WellOrdered, FeatSeen("day"), RawOrdered, Recomputable, RawsPast, NewFeats, Computed,
         NEW ranks, Ranked(ranks), Settled(ranks), Settling(ranks), [Next]_vars
  PROVE  Settling(ranks)'
<1> SUFFICES ASSUME Ticking', NEW st \in AllStages, NEW a \in Owners, Owns(st, a), ranks[st.out] <= streak'
             PROVE  /\ ValueOf(st, a, today, cutoff)' = GetLatest(<<st.out, a>>, today, cutoff)'
                    /\ \A src \in ValueOf(st, a, today, cutoff)' : Fresh(src, today)'
  BY DEF Settling, AllStages, Owners, Owns, AllFresh
<1>1. /\ now \in Nat /\ cutoff \in Nat /\ streak \in Nat /\ Stamped
      /\ UNCHANGED <<today, raws, streak>>
  BY TickingSteps, TypeSplit DEF TypeOK
<1>2. ASSUME NEW c \in Nat, c <= now, cutoff' = c,
             ValueOf(st, a, today, c) = GetLatest(<<st.out, a>>, today, c),
             AllFresh(ValueOf(st, a, today, c))
      PROVE  /\ ValueOf(st, a, today, cutoff)' = GetLatest(<<st.out, a>>, today, cutoff)'
             /\ \A src \in ValueOf(st, a, today, cutoff)' : Fresh(src, today)'
  <2>1. PICK d : d = today
    OBVIOUS
  <2>2. ValueOf(st, a, d, c)' = ValueOf(st, a, d, c)
    BY <1>1, <1>2, ValueStable DEF WellOrdered
  <2>3. GetLatest(<<st.out, a>>, d, c)' = GetLatest(<<st.out, a>>, d, c)
    BY <1>1, <1>2, LatestStable
  <2>4. \A src : Fresh(src, today)' <=> Fresh(src, today)
    BY <1>1 DEF Fresh
  <2>5. QED
    BY <1>1, <1>2, <2>1, <2>2, <2>3, <2>4 DEF AllFresh
<1>3. CASE TakeCutoff /\ Tick /\ cutoff' = now
  <2>1. Resting
    <3>1. ranks[st.out] \in Nat /\ ranks[st.out] > 0
      BY DomainAssumption DEF Ranked
    <3>2. streak > 0
      BY <1>1, <3>1
    <3>3. QED
      BY <1>3, <3>2 DEF Resting, TakeCutoff
  <2>2. ranks[st.out] <= streak
    BY <1>1
  <2>3. ValueOf(st, a, today, cutoff) = ValueOf(st, a, today, now)
    BY <2>1, <2>2, ValueSteady DEF WellOrdered
  <2>4. Stored(<<st.out, a>>) = ValueOf(st, a, today, cutoff)
    BY <2>1 DEF Computed
  <2>5. Stored(<<st.out, a>>) = GetLatest(<<st.out, a>>, today, now)
    BY <1>1, StoredNow
  <2>6. AllFresh(ValueOf(st, a, today, now))
    BY <2>1, <2>2, ValueFresh DEF AllFresh
  <2>7. PICK c \in Nat : c = now
    BY <1>1
  <2>8. ValueOf(st, a, today, c) = GetLatest(<<st.out, a>>, today, c) /\ AllFresh(ValueOf(st, a, today, c))
    BY <2>3, <2>4, <2>5, <2>6, <2>7
  <2>9. c <= now /\ cutoff' = c
    BY <1>1, <1>3, <2>7
  <2>10. QED
    BY <1>2, <2>8, <2>9
<1>4. CASE Ticking /\ cutoff' = cutoff
  <2>1. PICK c \in Nat : c = cutoff
    BY <1>1
  <2>2. ValueOf(st, a, today, c) = GetLatest(<<st.out, a>>, today, c) /\ AllFresh(ValueOf(st, a, today, c))
    BY <1>1, <1>4, <2>1 DEF Settling
  <2>3. c <= now
    BY <1>4, <2>1 DEF RawsPast
  <2>4. QED
    BY <1>2, <1>4, <2>1, <2>2, <2>3
<1>5. QED
  BY <1>3, <1>4, TickingSteps

-----------------------------------------------------------------------------
(* The score of a tick *)

\* it stays the newest, and what it read can be read back
LEMMA ScoredAtStays ==
  ASSUME now \in Nat, cutoff \in Nat, cutoff <= now, [Next]_vars, UNCHANGED <<today, cutoff>>,
         NEW i, \A sc \in scores' : sc \in scores \/ sc.asset # Assets[i], ScoredAt(i)
  PROVE  ScoredAt(i)'
<1>1. PICK d, c : d = today /\ c = cutoff
  OBVIOUS
<1>2. scores \subseteq scores'
  BY AppendOnly DEF Appends, Grows
<1>3. {sc \in scores' : sc.asset = Assets[i] /\ sc.day = d} = {sc \in scores : sc.asset = Assets[i] /\ sc.day = d}
  BY <1>2
<1>4. NewestScore(Assets[i], d)' = NewestScore(Assets[i], d)
  BY <1>3 DEF NewestScore, Newest
<1>5. GatherInputs(Assets[i], d, c)' = GatherInputs(Assets[i], d, c)
  BY <1>1, GatherStable
<1>6. QED
  BY <1>1, <1>4, <1>5 DEF ScoredAt

LEMMA TickScoresStep ==
  ASSUME TypeOK, TickPlace, AssetsDiffer, RawsPast, TickScores, [Next]_vars
  PROVE  TickScores'
<1> SUFFICES ASSUME NEW i \in DOMAIN Assets, (Resting \/ (Ticking /\ (i < ai \/ (i = ai /\ phase = "announce"))))'
             PROVE  ScoredAt(i)'
  BY DEF TickScores
<1>1. now \in Nat /\ cutoff \in Nat /\ ai \in 0 .. Len(Assets) /\ i \in 1 .. Len(Assets) /\ Len(Assets) \in Nat
  BY StageSets DEF TypeOK
<1>2. ASSUME Resting \/ (Ticking /\ (i < ai \/ (i = ai /\ phase = "announce"))), UNCHANGED <<today, cutoff>>,
             \A sc \in scores' : sc \in scores \/ sc.asset # Assets[i]
      PROVE  ScoredAt(i)'
  <2>1. ScoredAt(i) /\ cutoff <= now
    BY <1>2 DEF TickScores, RawsPast
  <2>2. QED
    BY <1>1, <1>2, <2>1, ScoredAtStays
<1>3. CASE Resting'
  <2>1. UNCHANGED <<today, cutoff, scores>> /\ (Resting \/ LastStep)
    BY <1>3, RestingSteps
  <2>2. LastStep => Ticking /\ phase = "announce" /\ (i < ai \/ i = ai)
    BY <1>1 DEF LastStep
  <2>3. QED
    BY <1>2, <2>1, <2>2
<1>4. CASE Ticking' /\ (i < ai' \/ (i = ai' /\ phase' = "announce"))
  <2>1. today' = today
    BY <1>4, TickingSteps
  <2>2. CASE TakeCutoff
    BY <1>1, <1>4, <2>2 DEF TakeCutoff
  <2>3. CASE Ticking /\ cutoff' = cutoff /\ ComputeStage /\ UNCHANGED scores
    <3>1. UNCHANGED <<ai, phase>>
      BY <2>3 DEF ComputeStage
    <3>2. QED
      BY <1>2, <1>4, <2>1, <2>3, <3>1
  <2>4. CASE Ticking /\ cutoff' = cutoff /\ SaveScore
    <3>1. day = today /\ ai \in DOMAIN Assets
      BY <1>1, <2>4, TickDay, StageSets DEF Ticking, SaveScore, AtScore
    <3> DEFINE new == [asset |-> Assets[ai], day |-> day, inputs |-> GatherInputs(Assets[ai], day, cutoff),
                       cutoff |-> cutoff, mode |-> mode, at |-> now + 1]
    <3>2. scores' = scores \cup {new} /\ ai' = ai
      BY <2>4 DEF SaveScore
    <3>3. CASE i < ai
      <4>1. Assets[i] # Assets[ai]
        BY <1>1, <3>1, <3>3 DEF AssetsDiffer
      <4>2. \A sc \in scores' : sc \in scores \/ sc.asset # Assets[i]
        BY <3>2, <4>1
      <4>3. QED
        BY <1>2, <2>1, <2>4, <3>3, <4>2
    <3>4. CASE i = ai
      <4>1. PICK d, c : d = today /\ c = cutoff
        OBVIOUS
      <4>2. GatherInputs(Assets[i], d, c)' = GatherInputs(Assets[i], d, c)
        BY <1>1, <2>4, <4>1, GatherStable DEF RawsPast
      <4>3. \A sc \in scores : sc.at \in Nat /\ sc.at <= now
        BY DEF TypeOK
      <4>4. new \in scores' /\ new.asset = Assets[i] /\ new.day = d /\ new.at = now + 1
            /\ new.inputs = GatherInputs(Assets[i], d, c)
        BY <3>1, <3>2, <3>4, <4>1
      <4>5. \A sc \in scores' : sc.at <= new.at
        BY <1>1, <3>2, <4>3
      <4> HIDE DEF new
      <4>6. new \in NewestScore(Assets[i], d)'
        BY <4>4, <4>5 DEF NewestScore, Newest
      <4>7. QED
        BY <2>1, <2>4, <4>1, <4>2, <4>4, <4>6 DEF ScoredAt
    <3>5. QED
      BY <1>4, <3>2, <3>3, <3>4
  <2>5. CASE Ticking /\ cutoff' = cutoff /\ UNCHANGED scores /\ EnterAssets
    BY <1>1, <1>4, <2>5 DEF EnterAssets
  <2>6. CASE Ticking /\ cutoff' = cutoff /\ UNCHANGED scores /\ Announce /\ NextAsset
    <3>1. phase = "announce" /\ phase' = "compute" /\ ai' = ai + 1
      BY <2>6 DEF Announce, NextAsset
    <3>2. i < ai \/ i = ai
      BY <1>1, <1>4, <3>1
    <3>3. QED
      BY <1>2, <2>1, <2>6, <3>1, <3>2
  <2>7. CASE Ticking /\ cutoff' = cutoff /\ UNCHANGED scores /\ UNCHANGED vars
    <3>1. UNCHANGED <<ai, phase>>
      BY <2>7 DEF vars
    <3>2. QED
      BY <1>2, <1>4, <2>1, <2>7, <3>1
  <2>8. QED
    BY <1>4, <2>2, <2>3, <2>4, <2>5, <2>6, <2>7, TickingSteps
<1>5. QED
  BY <1>3, <1>4

\* the inductive invariant of LiveConverges
TickInv(ranks) ==
  /\ TypeOK /\ RawSeen("day") /\ FeatSeen("day") /\ MemSeen("day")
  /\ RawOrdered /\ Recomputable /\ MemRecomputable
  /\ TickPlace /\ MemExact /\ Ingests /\ RawsPast
  /\ NewFeats /\ NothingLeft /\ Computed /\ Settled(ranks) /\ Settling(ranks) /\ TickScores

(***************************************************************************)
(* Live ticks catch up in every service whose features can be ranked.      *)
(* RunOnce reads as of a cutoff taken before computeFeatures, so a stage   *)
(* that reads a feature from the table sees what the tick before computed. *)
(* Each undisturbed tick settles the features of one more rank; after      *)
(* Depth of them the newest score of every asset is what a read finds now, *)
(* whatever the tables hold from faults, backfills and revisions before.   *)
(***************************************************************************)
THEOREM TicksConverge == \A ranks : WellOrdered /\ Ranked(ranks) => (Spec => []LiveConverges)
<1> SUFFICES ASSUME NEW ranks, WellOrdered, Ranked(ranks) PROVE Spec => []LiveConverges
  OBVIOUS
<1>1. Init => TickInv(ranks)
  <2> SUFFICES ASSUME Init PROVE TickInv(ranks)
    OBVIOUS
  <2>1. TypeOK
    BY TypeInit
  <2>2. RawSeen("day") /\ FeatSeen("day") /\ MemSeen("day")
    BY DEF Init, RawSeen, FeatSeen, MemSeen, NoMem
  <2>3. RawOrdered /\ Recomputable /\ MemRecomputable
    BY DEF Init, RawOrdered, Recomputable, MemRecomputable
  <2>4. ~Tick /\ ~Resting /\ ~Ticking
    BY DEF Init, Tick, Resting, Ticking
  <2>5. TickPlace /\ MemExact /\ Ingests /\ RawsPast /\ NothingLeft /\ TickScores
    BY <2>4 DEF TickPlace, MemExact, Ingests, RawsPast, NothingLeft, TickScores
  <2>6. NewFeats /\ Computed /\ Settled(ranks) /\ Settling(ranks)
    BY <2>4 DEF NewFeats, Computed, Settled, Settling
  <2>7. QED
    BY <2>1, <2>2, <2>3, <2>5, <2>6 DEF TickInv
<1>2. TickInv(ranks) /\ [Next]_vars => TickInv(ranks)'
  <2> SUFFICES ASSUME TickInv(ranks), [Next]_vars PROVE TickInv(ranks)'
    OBVIOUS
  <2>1. StagesInOrder /\ LiveFeaturesApart /\ AssetsDiffer
    BY DEF WellOrdered
  <2>2. "day" \in Times /\ Timely("day")
    BY DEF Times, Timely
  <2>3. TypeOK'
    BY TypeStep DEF TickInv
  <2>4. RawSeen("day")'
    BY <2>2, RawSeenStep DEF TickInv
  <2>5. FeatSeen("day")'
    BY <2>2, FeatSeenStep DEF TickInv
  <2>6. MemSeen("day")'
    BY <2>2, MemSeenStep DEF TickInv
  <2>7. RawOrdered'
    BY RawOrderedStep DEF TickInv
  <2>8. Recomputable' /\ MemRecomputable'
    BY <2>1, RecomputableStep, MemRecomputableStep DEF TickInv
  <2>9. TickPlace' /\ MemExact'
    BY <2>1, TickPlaceStep, MemExactStep DEF TickInv
  <2>10. Ingests' /\ RawsPast'
    BY <2>1, IngestsStep, RawsPastStep DEF TickInv
  <2>11. NewFeats'
    BY NewFeatsStep DEF TickInv
  <2>12. NothingLeft'
    BY <2>1, NothingLeftStep DEF TickInv
  <2>13. Computed'
    BY ComputedStep DEF TickInv
  <2>14. Settled(ranks)'
    BY <2>1, SettledStep DEF TickInv
  <2>15. Settling(ranks)'
    BY SettlingStep DEF TickInv
  <2>16. TickScores'
    BY <2>1, TickScoresStep DEF TickInv
  <2>17. QED
    BY <2>3, <2>4, <2>5, <2>6, <2>7, <2>8, <2>9, <2>10, <2>11, <2>12, <2>13, <2>14, <2>15, <2>16 DEF TickInv
<1>3. TickInv(ranks) => LiveConverges
  <2> SUFFICES ASSUME TickInv(ranks), mode = "idle", streak >= Depth, NEW i \in DOMAIN Assets
               PROVE  \E sc \in NewestScore(Assets[i], today) : UpToDate(sc)
    BY DEF LiveConverges
  <2> DEFINE a == Assets[i]
  <2>1. streak \in Nat /\ now \in Nat /\ Depth \in Nat /\ Stamped /\ a \in Owners
    BY TypeSplit, DomainAssumption DEF TickInv, TypeOK, Owners
  <2>2. Resting
    BY <2>1 DEF Ranked, Resting
  <2>3. PICK sc \in NewestScore(a, today) : sc.inputs = GatherInputs(a, today, cutoff)
    BY <2>2 DEF TickInv, TickScores, ScoredAt
  <2>4. sc.asset = a /\ sc.day = today
    BY DEF NewestScore, Newest
  <2>5. ASSUME NEW f \in Inputs
        PROVE  /\ GetLatest(Key(f, a), today, cutoff) = GetLatest(Key(f, a), today, now)
               /\ \A src \in GetLatest(Key(f, a), today, now) : Fresh(src, today)
    <3> DEFINE k == Key(f, a)
    <3>1. Stored(k) = GetLatest(k, today, now)
      BY <2>1, StoredNow
    <3>2. k[1] = f
      BY DEF Key
    <3> HIDE DEF k
    <3>3. CASE f \notin AllOuts
      <4>1. Steady(k)
        BY <2>2, <3>2, <3>3 DEF TickInv, Settled
      <4>2. \A src \in GetLatest(k, today, now) : Fresh(src, today)
        BY <3>2, <3>3, SnapshotFresh DEF TickInv, WellOrdered
      <4>3. QED
        BY <3>1, <4>1, <4>2 DEF Steady, k
    <3>4. CASE f \in AllOuts
      <4>1. PICK g \in AllStages, b \in Owners : g.out = f /\ Owns(g, b) /\ k = <<g.out, b>>
        BY <2>1, <3>4, KeyOwned DEF k
      <4>2. ranks[f] < streak
        <5>1. ranks[f] \in Nat /\ ranks[f] < Depth
          BY <2>1, <4>1 DEF Ranked
        <5>2. QED
          BY <2>1, <5>1
      <4>3. Steady(k) /\ AllFresh(Stored(k))
        BY <2>2, <3>2, <4>1, <4>2 DEF TickInv, Settled
      <4>4. QED
        BY <3>1, <4>3 DEF Steady, AllFresh, k
    <3>5. QED
      BY <3>3, <3>4
  <2>6. sc.inputs = GatherInputs(sc.asset, sc.day, now)
    BY <2>3, <2>4, <2>5 DEF GatherInputs
  <2>7. ASSUME NEW f \in Inputs, NEW src \in sc.inputs[f] PROVE Fresh(src, today)
    BY <2>4, <2>5, <2>6 DEF GatherInputs
  <2>8. ASSUME NEW s \in UNION UNION {sc.inputs[f] : f \in Inputs}, s.day = sc.day, NEW r \in raws,
               r.s.feed = s.feed, r.s.day = s.day
        PROVE  r.s.ver <= s.ver
    <3>1. PICK f \in Inputs : \E src \in sc.inputs[f] : s \in src
      BY <2>8
    <3>2. QED
      BY <2>4, <2>7, <2>8, <3>1 DEF Fresh
  <2>9. QED
    BY <2>6, <2>8 DEF UpToDate
<1>4. QED
  BY <1>1, <1>2, <1>3, PTL DEF Spec
=============================================================================
