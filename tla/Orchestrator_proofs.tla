------------------------ MODULE Orchestrator_proofs ------------------------
(***************************************************************************)
(* Proofs about the programs of cmd/, for any programs that may run side   *)
(* by side, any order of their steps that repeats none, and any domains.   *)
(***************************************************************************)
EXTENDS Orchestrator, TLAPS

PerProgram(f) == DOMAIN f = Programs

PerDay(f) == DOMAIN f = Domains /\ \A s \in Domains : DOMAIN f[s] = 0 .. MaxDay

Typed ==
  /\ day \in 0 .. MaxDay
  /\ PerProgram(pc) /\ PerProgram(step) /\ PerProgram(from) /\ PerProgram(to)
  /\ PerProgram(seen) /\ PerProgram(did) /\ PerProgram(alone)
  /\ PerDay(feats) /\ PerDay(scores)
  /\ \A p \in Programs : /\ pc[p] \in {"off", "begin", "save", "wait"}
                         /\ step[p] \in DOMAIN Steps[p]
                         /\ to[p] \in 0 .. day /\ from[p] \in 0 .. to[p]

\* no other program that scores runs beside one that is alone
AloneKept ==
  \A p, q \in Programs : p # q /\ Running(p) /\ alone[p] => ~(Running(q) /\ Scores(q))

\* what a run remembers to have saved are the domains of its earlier steps
DidEarlier ==
  \A p \in Programs :
    /\ ~Running(p) => DOMAIN did[p] = {}
    /\ \A s \in DOMAIN did[p] : s \in Domains /\ \E i \in DOMAIN Steps[p] : i < step[p] /\ s = Steps[p][i]

\* and as long as it is alone that is what the tables have
DidCurrent ==
  \A p \in Programs : Running(p) /\ alone[p] =>
    \A s \in DOMAIN did[p] : \A d \in Days(p) :
      /\ feats[s][d] = did[p][s].fetched
      /\ scores[s][d] = did[p][s].rows[d] /\ scores[s][d] # None

\* and what its step under way has read
SeenCurrent ==
  \A p \in Programs : pc[p] = "save" /\ alone[p] /\ Live(p) =>
    IF service(p) \in Domains
    THEN \A u \in Needs[service(p)] \cap DOMAIN did[p] : seen[p].up[u] = did[p][u].fetched
    ELSE \A s \in DOMAIN did[p] : s \in DOMAIN seen[p] /\ seen[p][s] = did[p][s].rows[from[p]]

Inv == Typed /\ AloneKept /\ DidEarlier /\ DidCurrent /\ SeenCurrent

-----------------------------------------------------------------------------

\* the constants, one at a time
LEMMA Params ==
  /\ MaxDay \in Nat
  /\ \A p \in Programs : /\ DOMAIN Steps[p] = 1 .. Len(Steps[p]) /\ Len(Steps[p]) \in Nat \ {0}
                         /\ \A i, j \in DOMAIN Steps[p] : Steps[p][i] = Steps[p][j] => i = j
BY OrchestratorAssumption

\* no run has saved anything before its first step
LEMMA NothingSaved == DOMAIN None = {}
BY DEF None

\* a score is one
LEMMA ScoreIsSome ==
  ASSUME NEW p, NEW d
  PROVE  ScoreFor(p, d) # None
BY DEF ScoreFor, None

\* the start of all programs
LEMMA InvInit ==
  ASSUME Init
  PROVE  Inv
<1>1. Typed
  BY Params DEF Init, Typed, PerProgram, PerDay
<1>2. \A p \in Programs : pc[p] = "off" /\ did[p] = None
  BY DEF Init
<1>3. AloneKept /\ DidCurrent /\ SeenCurrent
  BY <1>2 DEF AloneKept, DidCurrent, SeenCurrent, Running
<1>4. DidEarlier
  BY <1>2, NothingSaved DEF DidEarlier
<1>5. QED
  BY <1>1, <1>3, <1>4 DEF Inv

\* a new day or revision
LEMMA InvWorld ==
  ASSUME Inv, UNCHANGED <<feats, scores, procs>>, day' \in day .. MaxDay
  PROVE  Inv'
<1> USE DEF procs
<1>1. Typed'
  BY Params DEF Inv, Typed, PerProgram, PerDay
<1>2. AloneKept' /\ DidEarlier'
  BY DEF Inv, AloneKept, DidEarlier, Running, Scores
<1>3. DidCurrent'
  BY DEF Inv, DidCurrent, Running, Days
<1>4. SeenCurrent'
  BY DEF Inv, SeenCurrent, Live, service
<1>5. QED
  BY <1>1, <1>2, <1>3, <1>4 DEF Inv

\* what the start of a run makes of alone
LEMMA AloneStart ==
  ASSUME NEW p \in Programs, NEW f, NEW t, runOnce(p, f, t), PerProgram(alone), NEW q \in Programs, alone'[q]
  PROVE  /\ q = p => \A r \in Programs \ {p} : ~(Running(r) /\ Scores(r))
         /\ q # p => alone[q] /\ ~Scores(p)
<1>1. CASE q = p
  <2>1. alone'[q] = \A r \in Programs \ {p} : ~(Running(r) /\ Scores(r))
    BY <1>1, Zenon DEF runOnce
  <2>2. QED
    BY <1>1, <2>1, Zenon
<1>2. CASE q # p
  <2>1. alone'[q] = (alone[q] /\ ~Scores(p))
    BY <1>2, Zenon DEF runOnce
  <2>2. QED
    BY <1>2, <2>1, Zenon
<1>3. QED
  BY <1>1, <1>2

\* a program that did not run begins to
LEMMA InvStart ==
  ASSUME Inv, NEW p \in Programs, NEW t \in 0 .. day, NEW f \in 0 .. t, ~Running(p), runOnce(p, f, t)
  PROVE  Inv'
<1>1. PICK n \in Nat : n = day
  BY Params DEF Inv, Typed
<1>2. /\ pc' = [pc EXCEPT ![p] = "begin"] /\ step' = [step EXCEPT ![p] = 1]
      /\ from' = [from EXCEPT ![p] = f] /\ to' = [to EXCEPT ![p] = t]
      /\ UNCHANGED <<day, feats, scores, seen, did>> /\ PerProgram(alone')
  BY DEF runOnce, data, PerProgram
<1>3. Typed'
  BY <1>1, <1>2, Params DEF Inv, Typed, PerProgram, PerDay
<1>4. /\ pc'[p] = "begin" /\ from'[p] = f /\ to'[p] = t /\ step'[p] = 1
      /\ \A q \in Programs : q # p => /\ pc'[q] = pc[q] /\ step'[q] = step[q]
                                      /\ from'[q] = from[q] /\ to'[q] = to[q]
  BY <1>2 DEF Inv, Typed, PerProgram
<1>5. \A q \in Programs : alone'[q] =>
        /\ q = p => \A r \in Programs \ {p} : ~(Running(r) /\ Scores(r))
        /\ q # p => alone[q] /\ ~Scores(p)
  BY AloneStart DEF Inv, Typed
<1>6. AloneKept'
  <2>1. SUFFICES ASSUME NEW x \in Programs, NEW y \in Programs, x # y, Running(x)', alone'[x], Running(y)', Scores(y)
                 PROVE  FALSE
    BY DEF AloneKept, Scores
  <2>2. \A q \in Programs : q # p => (Running(q)' <=> Running(q))
    BY <1>4 DEF Running
  <2>3. QED
    BY <1>5, <2>1, <2>2 DEF Inv, AloneKept
<1>7. DOMAIN did[p] = {}
  BY DEF Inv, DidEarlier
<1>8. DidEarlier'
  BY <1>2, <1>4, <1>7 DEF Inv, DidEarlier, Running
<1>9. DidCurrent'
  BY <1>2, <1>4, <1>5, <1>7 DEF Inv, DidCurrent, Running, Days
<1>10. SeenCurrent'
  BY <1>2, <1>4, <1>5 DEF Inv, SeenCurrent, Live, service
<1>11. QED
  BY <1>3, <1>6, <1>8, <1>9, <1>10 DEF Inv

\* nobody else writes beside a run that is alone
LEMMA OthersAlone ==
  ASSUME Inv, NEW p \in Programs, pc[p] = "save", service(p) \in Domains,
         NEW q \in Programs, q # p, Running(q), alone[q]
  PROVE  FALSE
<1>1. Scores(p)
  BY DEF Inv, Typed, Scores, service
<1>2. Running(p)
  BY DEF Running
<1>3. QED
  BY <1>1, <1>2 DEF Inv, AloneKept

\* a step reads: the features and scores that the run itself has saved are in the tables
LEMMA InvBegin ==
  ASSUME Inv, NEW p \in Programs, BeginStep(p)
  PROVE  Inv'
<1>1. /\ pc[p] = "begin" /\ seen' = [seen EXCEPT ![p] = Read(p)] /\ pc' = [pc EXCEPT ![p] = "save"]
      /\ UNCHANGED <<day, feats, scores, step, from, to, did, alone>>
  BY DEF BeginStep, data
<1>2. Typed'
  BY <1>1 DEF Inv, Typed, PerProgram, PerDay
<1>3. /\ pc'[p] = "save" /\ seen'[p] = Read(p)
      /\ \A q \in Programs : q # p => pc'[q] = pc[q] /\ seen'[q] = seen[q]
  BY <1>1 DEF Inv, Typed, PerProgram
<1>4. \A q \in Programs : (Running(q)' <=> Running(q))
  BY <1>1, <1>3 DEF Running
<1>5. AloneKept' /\ DidEarlier'
  BY <1>1, <1>4 DEF Inv, AloneKept, DidEarlier, Scores
<1>6. DidCurrent'
  BY <1>1, <1>4 DEF Inv, DidCurrent, Days
<1>7. SeenCurrent'
  <2>1. SUFFICES ASSUME NEW q \in Programs, pc'[q] = "save", alone[q], Live(q)
                 PROVE  IF service(q) \in Domains
                        THEN \A u \in Needs[service(q)] \cap DOMAIN did[q] : seen'[q].up[u] = did[q][u].fetched
                        ELSE \A s \in DOMAIN did[q] :
                               s \in DOMAIN seen'[q] /\ seen'[q][s] = did[q][s].rows[from[q]]
    BY <1>1 DEF SeenCurrent, Live, service
  <2>2. CASE q # p
    BY <1>1, <1>3, <2>1, <2>2 DEF Inv, SeenCurrent
  <2>3. CASE q = p
    <3>1. from[p] \in Days(p)
      <4>1. to[p] \in Nat /\ from[p] \in Nat
        BY Params DEF Inv, Typed
      <4>2. QED
        BY <2>1, <2>3, <4>1 DEF Days, Live
    <3>2. \A s \in DOMAIN did[p] :
            /\ feats[s][from[p]] = did[p][s].fetched
            /\ scores[s][from[p]] = did[p][s].rows[from[p]] /\ scores[s][from[p]] # None
      BY <1>1, <2>1, <2>3, <3>1 DEF Inv, DidCurrent, Running
    <3>3. CASE service(p) \in Domains
      <4>1. seen'[p].up = [u \in Needs[service(p)] |-> feats[u][from[p]]]
        BY <1>3, <3>3 DEF Read
      <4>2. QED
        BY <2>3, <3>2, <3>3, <4>1
    <3>4. CASE service(p) \notin Domains
      <4>1. seen'[p] = ScoresOn(from[p])
        BY <1>3, <3>4 DEF Read
      <4>2. \A s \in DOMAIN did[p] : s \in Domains
        BY DEF Inv, DidEarlier
      <4>3. \A s \in DOMAIN did[p] : s \in DOMAIN ScoresOn(from[p]) /\ ScoresOn(from[p])[s] = scores[s][from[p]]
        BY <3>2, <4>2 DEF ScoresOn
      <4>4. QED
        BY <2>3, <3>2, <3>4, <4>1, <4>3
    <3>5. QED
      BY <3>3, <3>4
  <2>4. QED
    BY <2>2, <2>3
<1>8. QED
  BY <1>2, <1>5, <1>6, <1>7 DEF Inv

\* a run ends, or dies, and forgets
LEMMA InvClear ==
  ASSUME Inv, NEW p \in Programs, Clear(p), NEW next \in {"off", "wait"}, pc' = [pc EXCEPT ![p] = next],
         day' = day, PerDay(feats'), PerDay(scores'),
         \A q \in Programs : q # p /\ Running(q) /\ alone[q] => feats' = feats /\ scores' = scores
  PROVE  Inv'
<1>1. /\ pc'[p] = next /\ did'[p] = None
      /\ \A q \in Programs : q # p => /\ pc'[q] = pc[q] /\ step'[q] = step[q] /\ from'[q] = from[q] /\ to'[q] = to[q]
                                      /\ seen'[q] = seen[q] /\ did'[q] = did[q] /\ alone'[q] = alone[q]
  BY DEF Inv, Typed, PerProgram, Clear
<1>2. Typed'
  <2>1. /\ PerProgram(pc') /\ PerProgram(step') /\ PerProgram(from') /\ PerProgram(to')
        /\ PerProgram(seen') /\ PerProgram(did') /\ PerProgram(alone')
    BY DEF Inv, Typed, PerProgram, Clear
  <2>2. day \in Nat /\ step'[p] = 1 /\ from'[p] = 0 /\ to'[p] = 0 /\ 1 \in DOMAIN Steps[p]
    BY Params DEF Inv, Typed, PerProgram, Clear
  <2>3. QED
    BY <1>1, <2>1, <2>2 DEF Inv, Typed, PerProgram, PerDay
<1>3. \A q \in Programs : Running(q)' => q # p /\ Running(q)
  BY <1>1 DEF Running
<1>4. AloneKept'
  BY <1>1, <1>3 DEF Inv, AloneKept, Scores
<1>5. DidEarlier'
  BY <1>1, NothingSaved DEF Inv, DidEarlier, Running
<1>6. DidCurrent'
  <2>1. SUFFICES ASSUME NEW q \in Programs, Running(q)', alone'[q], NEW s \in DOMAIN did'[q], NEW d \in Days(q)'
                 PROVE  /\ feats'[s][d] = did'[q][s].fetched
                        /\ scores'[s][d] = did'[q][s].rows[d] /\ scores'[s][d] # None
    BY DEF DidCurrent
  <2>2. q # p /\ Running(q) /\ alone[q] /\ s \in DOMAIN did[q] /\ d \in Days(q) /\ did'[q] = did[q]
    BY <1>1, <1>3, <2>1 DEF Days
  <2>3. QED
    BY <2>2 DEF Inv, DidCurrent
<1>7. SeenCurrent'
  BY <1>1 DEF Inv, SeenCurrent, Live, service
<1>8. QED
  BY <1>2, <1>4, <1>5, <1>6, <1>7 DEF Inv

\* what a step leaves in the tables: rows of its own domain only
OwnRows(p) ==
  /\ PerDay(feats') /\ PerDay(scores')
  /\ \A s \in Domains : s # service(p) => feats'[s] = feats[s] /\ scores'[s] = scores[s]
  /\ service(p) \notin Domains => feats' = feats /\ scores' = scores

\* saved is what is in the tables of the step's domain
Kept(p, saved) ==
  \A s \in DOMAIN saved : /\ s = service(p) /\ s \in Domains
                          /\ \A d \in Days(p) : /\ feats'[s][d] = saved[s].fetched
                                                /\ scores'[s][d] = saved[s].rows[d] /\ scores'[s][d] # None

\* a run goes on with its next step
LEMMA InvNext ==
  ASSUME Inv, NEW p \in Programs, NEW saved, pc[p] = "save", step[p] < Len(Steps[p]),
         step' = [step EXCEPT ![p] = @ + 1], pc' = [pc EXCEPT ![p] = "begin"],
         seen' = [seen EXCEPT ![p] = None], did' = [did EXCEPT ![p] = And(@, saved)],
         UNCHANGED <<from, to, alone, day>>, OwnRows(p), Kept(p, saved)
  PROVE  Inv'
<1>1. /\ pc'[p] = "begin" /\ step'[p] = step[p] + 1 /\ did'[p] = And(did[p], saved)
      /\ \A q \in Programs : q # p => /\ pc'[q] = pc[q] /\ step'[q] = step[q]
                                      /\ seen'[q] = seen[q] /\ did'[q] = did[q]
  BY DEF Inv, Typed, PerProgram
<1>2. /\ step[p] \in DOMAIN Steps[p] /\ step[p] \in Nat /\ step'[p] \in DOMAIN Steps[p] /\ step[p] < step'[p]
  BY <1>1, Params DEF Inv, Typed
<1>3. Typed'
  <2>1. /\ PerProgram(pc') /\ PerProgram(step') /\ PerProgram(from') /\ PerProgram(to')
        /\ PerProgram(seen') /\ PerProgram(did') /\ PerProgram(alone')
    BY DEF Inv, Typed, PerProgram
  <2>2. QED
    BY <1>1, <1>2, <2>1 DEF Inv, Typed, PerProgram, PerDay, OwnRows
<1>4. \A q \in Programs : Running(q)' <=> Running(q)
  BY <1>1 DEF Running
<1>5. AloneKept'
  BY <1>4 DEF Inv, AloneKept, Scores
<1>6. /\ DOMAIN did'[p] = DOMAIN did[p] \cup DOMAIN saved
      /\ \A s \in DOMAIN did'[p] : did'[p][s] = IF s \in DOMAIN saved THEN saved[s] ELSE did[p][s]
  BY <1>1 DEF And
<1>7. \A s \in DOMAIN did[p] : s \in Domains /\ s # service(p)
  <2>1. SUFFICES ASSUME NEW s \in DOMAIN did[p] PROVE s \in Domains /\ s # service(p)
    OBVIOUS
  <2>2. PICK i \in DOMAIN Steps[p] : i < step[p] /\ s = Steps[p][i]
    BY DEF Inv, DidEarlier
  <2>3. i # step[p]
    BY <1>2, <2>2, Params
  <2>4. s # service(p)
    BY <1>2, <2>2, <2>3, Params DEF service
  <2>5. QED
    BY <2>4 DEF Inv, DidEarlier
<1>8. DidEarlier'
  <2>1. SUFFICES ASSUME NEW s \in DOMAIN did'[p]
                 PROVE  s \in Domains /\ \E i \in DOMAIN Steps[p] : i < step'[p] /\ s = Steps[p][i]
    BY <1>1, <1>4 DEF Inv, DidEarlier, Running
  <2>2. CASE s \in DOMAIN did[p]
    <3>1. PICK i \in DOMAIN Steps[p] : i < step[p] /\ s = Steps[p][i]
      BY <2>2 DEF Inv, DidEarlier
    <3>2. i < step'[p]
      BY <1>2, <3>1, Params
    <3>3. QED
      BY <1>7, <2>2, <3>1, <3>2
  <2>3. CASE s \in DOMAIN saved
    BY <1>2, <2>3 DEF Kept, service
  <2>4. QED
    BY <1>6, <2>2, <2>3
<1>9. DidCurrent'
  <2>1. SUFFICES ASSUME NEW q \in Programs, Running(q), alone[q], NEW s \in DOMAIN did'[q], NEW d \in Days(q)
                 PROVE  /\ feats'[s][d] = did'[q][s].fetched
                        /\ scores'[s][d] = did'[q][s].rows[d] /\ scores'[s][d] # None
    BY <1>4 DEF DidCurrent, Days
  <2>2. CASE q # p
    <3>1. feats' = feats /\ scores' = scores
      BY <2>1, <2>2, OthersAlone DEF OwnRows
    <3>2. QED
      BY <1>1, <2>1, <2>2, <3>1 DEF Inv, DidCurrent
  <2>3. CASE q = p /\ s \in DOMAIN saved
    BY <1>6, <2>1, <2>3 DEF Kept
  <2>4. CASE q = p /\ s \notin DOMAIN saved
    <3>1. s \in DOMAIN did[p] /\ did'[p][s] = did[p][s]
      BY <1>6, <2>1, <2>4
    <3>2. feats'[s] = feats[s] /\ scores'[s] = scores[s]
      BY <1>7, <3>1 DEF OwnRows
    <3>3. QED
      BY <2>1, <2>4, <3>1, <3>2 DEF Inv, DidCurrent
  <2>5. QED
    BY <2>2, <2>3, <2>4
<1>10. SeenCurrent'
  BY <1>1 DEF Inv, SeenCurrent, Live, service
<1>11. QED
  BY <1>3, <1>5, <1>8, <1>9, <1>10 DEF Inv

\* a step is over: the run goes on or ends
LEMMA InvAdvance ==
  ASSUME Inv, NEW p \in Programs, NEW saved, pc[p] = "save", Advance(p, saved), day' = day,
         OwnRows(p), Kept(p, saved)
  PROVE  Inv'
<1>1. CASE EndRun(p)
  <2>1. PICK next \in {"off", "wait"} : pc' = [pc EXCEPT ![p] = next]
    BY <1>1 DEF EndRun
  <2>2. \A q \in Programs : q # p /\ Running(q) /\ alone[q] => feats' = feats /\ scores' = scores
    BY OthersAlone DEF OwnRows
  <2>3. QED
    BY <1>1, <2>1, <2>2, InvClear DEF EndRun, OwnRows
<1>2. CASE ~EndRun(p)
  BY <1>2, InvNext DEF Advance
<1>3. QED
  BY <1>1, <1>2

\* a domain service saves its features
LEMMA FeaturesSaved ==
  ASSUME Inv, NEW p \in Programs, service(p) \in Domains, SaveFeatures(p)
  PROVE  /\ PerDay(feats') /\ \A s \in Domains : s # service(p) => feats'[s] = feats[s]
         /\ \A d \in Days(p) : feats'[service(p)][d] = seen[p].fetched
<1>1. Days(p) \subseteq 0 .. MaxDay
  <2>1. day \in 0 .. MaxDay /\ to[p] \in 0 .. day /\ from[p] \in 0 .. to[p]
    BY DEF Inv, Typed
  <2>2. QED
    BY <2>1, Params DEF Days
<1>2. DOMAIN feats = Domains /\ \A s \in Domains : DOMAIN feats[s] = 0 .. MaxDay
  BY DEF Inv, Typed, PerDay
<1>3. feats' = [feats EXCEPT ![service(p)] =
                  [d \in DOMAIN @ |-> IF d \in Days(p) THEN seen[p].fetched ELSE @[d]]]
  BY DEF SaveFeatures
<1>4. QED
  BY <1>1, <1>2, <1>3 DEF PerDay

\* a domain service saves features and scores
LEMMA InvDomain ==
  ASSUME Inv, NEW p \in Programs, DomainStep(p)
  PROVE  Inv'
<1>1. /\ pc[p] = "save" /\ service(p) \in Domains /\ SaveFeatures(p) /\ day' = day
      /\ Advance(p, Saved(p))
      /\ scores' = [scores EXCEPT ![service(p)] =
                      [d \in DOMAIN @ |-> IF d \in Days(p) THEN ScoreFor(p, d) ELSE @[d]]]
  BY DEF DomainStep
<1>2. Days(p) \subseteq 0 .. MaxDay
  <2>1. day \in 0 .. MaxDay /\ to[p] \in 0 .. day /\ from[p] \in 0 .. to[p]
    BY DEF Inv, Typed
  <2>2. QED
    BY <2>1, Params DEF Days
<1>3. DOMAIN scores = Domains /\ \A s \in Domains : DOMAIN scores[s] = 0 .. MaxDay
  BY DEF Inv, Typed, PerDay
<1>4. /\ PerDay(scores') /\ \A s \in Domains : s # service(p) => scores'[s] = scores[s]
      /\ \A d \in Days(p) : scores'[service(p)][d] = ScoreFor(p, d)
  BY <1>1, <1>2, <1>3 DEF PerDay
<1>5. OwnRows(p)
  BY <1>1, <1>4, FeaturesSaved DEF OwnRows
<1>6. PICK saved : saved = Saved(p)
  OBVIOUS
<1>7. /\ DOMAIN saved = {service(p)} /\ saved[service(p)].fetched = seen[p].fetched
      /\ \A d \in Days(p) : saved[service(p)].rows[d] = ScoreFor(p, d)
  BY <1>6 DEF Saved
<1>8. \A d \in Days(p) : ScoreFor(p, d) # None
  BY ScoreIsSome
<1>9. Kept(p, saved)
  BY <1>1, <1>4, <1>7, <1>8, FeaturesSaved DEF Kept
<1>10. QED
  BY <1>1, <1>5, <1>6, <1>9, InvAdvance

\* the engine saves states, or a step fails, perhaps after its features were saved
LEMMA InvOther ==
  ASSUME Inv, NEW p \in Programs, RegimeStep(p) \/ StepFailed(p)
  PROVE  Inv'
<1>1. pc[p] = "save" /\ day' = day /\ Advance(p, None) /\ scores' = scores
      /\ (feats' = feats \/ (service(p) \in Domains /\ SaveFeatures(p)))
  BY DEF RegimeStep, StepFailed
<1>2. PerDay(feats) /\ PerDay(scores)
  BY DEF Inv, Typed
<1>3. OwnRows(p)
  BY <1>1, <1>2, FeaturesSaved DEF OwnRows, PerDay
<1>4. Kept(p, None)
  BY NothingSaved DEF Kept
<1>5. QED
  BY <1>1, <1>3, <1>4, InvAdvance

\* the steps
LEMMA InvStep ==
  ASSUME Inv, [Next]_vars
  PROVE  Inv'
<1>1. CASE Revise \/ NextDay \/ UNCHANGED vars
  <2>1. UNCHANGED <<feats, scores, procs>> /\ day' \in {day, day + 1} /\ (day' # day => day < MaxDay)
    BY <1>1 DEF Revise, NextDay, vars, data
  <2>2. day' \in day .. MaxDay
    BY <2>1, Params DEF Inv, Typed
  <2>3. QED
    BY <2>1, <2>2, InvWorld
<1>2. ASSUME NEW p \in Programs, Restart(p) PROVE Inv'
  <2>1. PICK d \in 0 .. day : StartDaemon(p, d)
    BY <1>2 DEF Restart
  <2>2. d \in 0 .. d
    BY <2>1
  <2>3. QED
    BY <2>1, <2>2, InvStart DEF StartDaemon, Running
<1>3. ASSUME NEW p \in Programs, NEW f \in 0 .. day, NEW t \in f .. day, Command(p, f, t) PROVE Inv'
  <2>1. t \in 0 .. day /\ f \in 0 .. t
    OBVIOUS
  <2>2. QED
    BY <1>3, <2>1, InvStart DEF Command, Running
<1>4. ASSUME NEW p \in Programs, TakeTick(p) PROVE Inv'
  <2>1. day \in 0 .. day
    BY Params DEF Inv, Typed
  <2>2. QED
    BY <1>4, <2>1, InvStart DEF TakeTick, Running
<1>5. ASSUME NEW p \in Programs, BeginStep(p) \/ DomainStep(p) \/ RegimeStep(p) \/ StepFailed(p) PROVE Inv'
  BY <1>5, InvBegin, InvDomain, InvOther
<1>6. ASSUME NEW p \in Programs, Crash(p) PROVE Inv'
  <2>1. PerDay(feats') /\ PerDay(scores') /\ UNCHANGED <<day, feats, scores>>
    BY <1>6 DEF Crash, data, Inv, Typed, PerDay
  <2>2. QED
    BY <1>6, <2>1, InvClear DEF Crash
<1>7. QED
  BY <1>1, <1>2, <1>3, <1>4, <1>5, <1>6 DEF Next, Work

(***************************************************************************)
(* Whatever other programs, failures, crashes and revisions there are, a   *)
(* run beside which no other one scored carries data down its steps: what  *)
(* a step reads of its earlier ones is what these have saved.  No other    *)
(* program that scores can be under way beside it, each of its steps       *)
(* writes the rows of its own domain only, and none comes twice.           *)
(***************************************************************************)
THEOREM RunsFlowDown == Spec => []RunFlowsDown
<1>1. Init => Inv
  BY InvInit
<1>2. Inv /\ [Next]_vars => Inv'
  BY InvStep
<1>3. Inv => RunFlowsDown
  <2>1. SUFFICES ASSUME Inv, NEW p \in Programs, pc[p] = "save", alone[p]
                 PROVE  IF service(p) \in Domains
                        THEN Live(p) => \A u \in Needs[service(p)] \cap DOMAIN did[p] :
                                          seen[p].up[u] = did[p][u].fetched
                        ELSE \A s \in DOMAIN did[p] : \A d \in Days(p) :
                               s \in DOMAIN EngineReads(p, d) /\ EngineReads(p, d)[s] = did[p][s].rows[d]
    BY DEF RunFlowsDown
  <2>2. CASE service(p) \in Domains
    BY <2>1, <2>2 DEF Inv, SeenCurrent
  <2>3. ASSUME service(p) \notin Domains, NEW s \in DOMAIN did[p], NEW d \in Days(p)
        PROVE  s \in DOMAIN EngineReads(p, d) /\ EngineReads(p, d)[s] = did[p][s].rows[d]
    <3>1. CASE Live(p)
      <4>1. from[p] \in Nat /\ to[p] = from[p]
        BY <2>1, <3>1, Params DEF Inv, Typed, Live
      <4>2. d = from[p]
        BY <2>3, <4>1 DEF Days
      <4>3. QED
        BY <2>1, <2>3, <3>1, <4>2 DEF Inv, SeenCurrent, EngineReads
    <3>2. CASE ~Live(p)
      <4>1. s \in Domains
        BY <2>1, <2>3 DEF Inv, DidEarlier
      <4>2. scores[s][d] = did[p][s].rows[d] /\ scores[s][d] # None
        BY <2>1, <2>3 DEF Inv, DidCurrent, Running
      <4>3. EngineReads(p, d) = ScoresOn(d)
        BY <3>2 DEF EngineReads
      <4>4. QED
        BY <4>1, <4>2, <4>3 DEF ScoresOn
    <3>3. QED
      BY <3>1, <3>2
  <2>4. QED
    BY <2>2, <2>3
<1>4. QED
  BY <1>1, <1>2, <1>3, PTL DEF Spec
=============================================================================
