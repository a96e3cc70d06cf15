---------------------------- MODULE Orchestrator ----------------------------
(***************************************************************************)
(* The programs of cmd/ that compute scores and states: the orchestrator,  *)
(* which runs the five domain services and the regime engine one after the *)
(* other, the programs that run one of them, and the daemons among them,   *)
(* which repeat their run for the current day whenever their ticker fires. *)
(*                                                                         *)
(* A service's run is two steps here: what it reads as of its cutoff, and  *)
(* what it saves; DomainService and RegimeEngine have the transactions in  *)
(* between.  Data is the revision of the providers' data it rests on.  A   *)
(* live run scores the features an earlier run has left, a backfill its    *)
(* own, as shown there.                                                    *)
(***************************************************************************)
EXTENDS Naturals, Sequences, FiniteSets

CONSTANTS
  Programs,   \* programs there are
  Setups,     \* what is deployed: the daemons, the commands that may be given, and the
              \* domain services that always fail, say for want of their configuration
  Steps,      \* the sequence of services each of them runs
  Domains,    \* services that score a domain; the other one is the engine
  Needs,      \* services whose features a domain service reads
  MinCover,   \* domains the engine needs
  MaxRev, MaxDay, MaxEvents     \* bounds; events are commands, failures and crashes

ASSUME OrchestratorAssumption ==
  /\ Setups # {}
  /\ Setups \subseteq [daemons : SUBSET Programs, commands : SUBSET Programs, broken : SUBSET Domains]
  /\ \A u \in Setups : Cardinality(Domains \ u.broken) >= MinCover
  /\ Steps \in [Programs -> Seq(STRING)] /\ \A p \in Programs : Len(Steps[p]) > 0
  /\ \A p \in Programs : \A i, j \in DOMAIN Steps[p] : Steps[p][i] = Steps[p][j] => i = j
  /\ Needs \in [Domains -> SUBSET Domains]
  /\ MinCover \in 1 .. Cardinality(Domains)
  /\ {MaxRev, MaxDay, MaxEvents} \subseteq Nat

VARIABLES
  day, rev,  \* the date, and the revision of what the providers serve
  setup,     \* the one of Setups that runs
  feats,     \* revision of the newest features of a domain and day, 0 at first
  scores,    \* newest score of a domain and day: [own, up], revisions of the features
             \* it rests on, of its own and of the services it needs
  states,    \* newest regime state of a day: the scores it rests on
  pc,        \* "off", "begin" or "save" of a step, or "wait" for the ticker
  step,      \* index of the step
  from, to,  \* the days of the run
  seen,      \* what the step has read
  did,       \* history: the scores and features this run has saved
  alone,     \* history: no other program scored a domain during this run
  events     \* counter of the bound

data    == <<feats, scores, states>>
procs   == <<pc, step, from, to, seen, did, alone>>
vars    == <<day, rev, setup, data, procs, events>>

None == << >>

Init ==
  /\ day = 0 /\ rev = 0
  /\ setup \in Setups
  /\ feats = [s \in Domains |-> [d \in 0 .. MaxDay |-> 0]]
  /\ scores = [s \in Domains |-> [d \in 0 .. MaxDay |-> None]]
  /\ states = [d \in 0 .. MaxDay |-> None]
  /\ pc = [p \in Programs |-> "off"] /\ step = [p \in Programs |-> 1]
  /\ from = [p \in Programs |-> 0] /\ to = [p \in Programs |-> 0]
  /\ seen = [p \in Programs |-> None] /\ did = [p \in Programs |-> None]
  /\ alone = [p \in Programs |-> TRUE]
  /\ events = 0

\* the providers serve new data
Revise == rev < MaxRev /\ rev' = rev + 1 /\ UNCHANGED <<day, setup, data, procs, events>>

NextDay == day < MaxDay /\ day' = day + 1 /\ UNCHANGED <<rev, setup, data, procs, events>>

-----------------------------------------------------------------------------

service(p) == Steps[p][step[p]]
Live(p) == from[p] = to[p]
Running(p) == pc[p] \in {"begin", "save"}
Scores(p) == \E i \in DOMAIN Steps[p] : Steps[p][i] \in Domains

Event == events < MaxEvents /\ events' = events + 1

\* a run begins
runOnce(p, f, t) ==
  /\ pc' = [pc EXCEPT ![p] = "begin"] /\ step' = [step EXCEPT ![p] = 1]
  /\ from' = [from EXCEPT ![p] = f] /\ to' = [to EXCEPT ![p] = t]
  /\ alone' = [q \in Programs |->
                 IF q = p THEN \A r \in Programs \ {p} : ~(Running(r) /\ Scores(r))
                 ELSE alone[q] /\ ~Scores(p)]
  /\ UNCHANGED <<day, rev, setup, data, seen, did>>

\* A daemon's first run, for a date that may be given.
StartDaemon(p, d) ==
  /\ p \in setup.daemons /\ pc[p] = "off"
  /\ runOnce(p, d, d)
  /\ UNCHANGED events

\* A one-shot run, or a backfill with -from and -to.
Command(p, f, t) ==
  /\ p \in setup.commands /\ pc[p] = "off"
  /\ runOnce(p, f, t)
  /\ Event

\* Mutant: every tick is for the date the daemon was started with.
TakeTickSameDay(p) ==
  /\ pc[p] = "wait"
  /\ runOnce(p, 0, 0)
  /\ UNCHANGED events

\* A tick is taken, now or one of the channel's from during the last run (the ticker
\* drops the others); the date is resolved when it is.
TakeTick(p) ==
  /\ pc[p] = "wait"
  /\ runOnce(p, day, day)
  /\ UNCHANGED events

-----------------------------------------------------------------------------
(* The steps of a run *)

\* scores of a day the engine finds
ScoresOn(d) == [s \in {x \in Domains : scores[x][d] # None} |-> scores[s][d]]

Covered(found) == Cardinality(DOMAIN found) >= MinCover

Read(p) ==
  IF service(p) \in Domains
  THEN [own |-> feats[service(p)][from[p]],
        up |-> [u \in Needs[service(p)] |-> feats[u][from[p]]], fetched |-> rev]
  ELSE ScoresOn(from[p])

\* the service is run: it fetches, takes its cutoff and reads
BeginStep(p) ==
  /\ pc[p] = "begin"
  /\ seen' = [seen EXCEPT ![p] = Read(p)]
  /\ pc' = [pc EXCEPT ![p] = "save"]
  /\ UNCHANGED <<day, rev, setup, data, step, from, to, did, alone, events>>

Clear(p) ==
  /\ seen' = [seen EXCEPT ![p] = None] /\ did' = [did EXCEPT ![p] = None]
  /\ from' = [from EXCEPT ![p] = 0] /\ to' = [to EXCEPT ![p] = 0]
  /\ step' = [step EXCEPT ![p] = 1] /\ alone' = [alone EXCEPT ![p] = TRUE]

\* a daemon goes on to its ticker whatever came of the run; a command exits
EndRun(p) ==
  /\ Clear(p)
  /\ pc' = [pc EXCEPT ![p] = IF p \in setup.daemons THEN "wait" ELSE "off"]

\* what a run has saved so far and now
And(before, saved) ==
  [s \in DOMAIN before \cup DOMAIN saved |-> IF s \in DOMAIN saved THEN saved[s] ELSE before[s]]

\* on to the next step, having saved
Advance(p, saved) ==
  \/ /\ step[p] < Len(Steps[p])
     /\ step' = [step EXCEPT ![p] = @ + 1] /\ pc' = [pc EXCEPT ![p] = "begin"]
     /\ seen' = [seen EXCEPT ![p] = None]
     /\ did' = [did EXCEPT ![p] = And(@, saved)]
     /\ UNCHANGED <<from, to, alone>>
  \/ step[p] = Len(Steps[p]) /\ EndRun(p)

Days(p) == from[p] .. to[p]

\* score of a day: RunOnce reads as of its start, RunBackfill what is there by now
ScoreFor(p, d) ==
  IF Live(p) THEN [own |-> seen[p].own, up |-> seen[p].up]
  ELSE [own |-> seen[p].fetched, up |-> [u \in Needs[service(p)] |-> feats[u][d]]]

SaveFeatures(p) ==
  feats' = [feats EXCEPT ![service(p)] =
              [d \in DOMAIN @ |-> IF d \in Days(p) THEN seen[p].fetched ELSE @[d]]]

Saved(p) ==
  [s \in {service(p)} |-> [fetched |-> seen[p].fetched, rows |-> [d \in Days(p) |-> ScoreFor(p, d)]]]

\* Mutant: the score is lost and the step reported as done.
DomainStepLossy(p) ==
  /\ pc[p] = "save" /\ service(p) \in Domains \ setup.broken
  /\ SaveFeatures(p)
  /\ Advance(p, Saved(p))
  /\ UNCHANGED <<day, rev, setup, scores, states, events>>

\* runLiquidity, runLeverage, runCapitalFlows, runMarketStress, runVolatility
DomainStep(p) ==
  /\ pc[p] = "save" /\ service(p) \in Domains \ setup.broken
  /\ SaveFeatures(p)
  /\ scores' = [scores EXCEPT ![service(p)] =
                  [d \in DOMAIN @ |-> IF d \in Days(p) THEN ScoreFor(p, d) ELSE @[d]]]
  /\ Advance(p, Saved(p))
  /\ UNCHANGED <<day, rev, setup, states, events>>

\* what the engine rests the state of a day on
EngineReads(p, d) == IF Live(p) THEN seen[p] ELSE ScoresOn(d)

\* runRegimeEngine; a backfill skips the days without coverage
RegimeStep(p) ==
  /\ pc[p] = "save" /\ service(p) \notin Domains
  /\ Live(p) => Covered(seen[p])
  /\ states' = [d \in DOMAIN states |->
                  IF d \in Days(p) /\ Covered(EngineReads(p, d)) THEN EngineReads(p, d) ELSE states[d]]
  /\ Advance(p, None)
  /\ UNCHANGED <<day, rev, setup, feats, scores, events>>

\* Mutant: a failed step ends the run.
StepFailedAborts(p) ==
  /\ pc[p] = "save"
  /\ \/ service(p) \in setup.broken /\ UNCHANGED <<feats, events>>
     \/ service(p) \notin Domains /\ Live(p) /\ ~Covered(seen[p]) /\ UNCHANGED <<feats, events>>
     \/ Event /\ UNCHANGED feats
     \/ Event /\ service(p) \in Domains \ setup.broken /\ SaveFeatures(p)
  /\ EndRun(p)
  /\ UNCHANGED <<day, rev, setup, scores, states>>

\* a step fails, for a domain service perhaps after its features were saved: the
\* run goes on with the next step
StepFailed(p) ==
  /\ pc[p] = "save"
  /\ \/ service(p) \in setup.broken /\ UNCHANGED <<feats, events>>
     \/ service(p) \notin Domains /\ Live(p) /\ ~Covered(seen[p]) /\ UNCHANGED <<feats, events>>
     \/ Event /\ UNCHANGED feats
     \/ Event /\ service(p) \in Domains \ setup.broken /\ SaveFeatures(p)
  /\ Advance(p, None)
  /\ UNCHANGED <<day, rev, setup, scores, states>>

\* the process dies or is stopped
Crash(p) ==
  /\ Event
  /\ pc[p] # "off"
  /\ Clear(p)
  /\ pc' = [pc EXCEPT ![p] = "off"]
  /\ UNCHANGED <<day, rev, setup, data>>

Work(p) == TakeTick(p) \/ BeginStep(p) \/ DomainStep(p) \/ RegimeStep(p) \/ StepFailed(p)

Restart(p) == \E d \in 0 .. day : StartDaemon(p, d)

Next ==
  \/ Revise \/ NextDay
  \/ \E p \in Programs :
       \/ Restart(p)
       \/ \E f \in 0 .. day : \E t \in f .. day : Command(p, f, t)
       \/ Work(p)
       \/ Crash(p)

\* A run goes on, a ticker fires again, and a daemon that has gone is started again
\* (restart: unless-stopped).
Fairness ==
  \A p \in Programs : WF_vars(Work(p)) /\ WF_vars(Restart(p))

Spec == Init /\ [][Next]_vars /\ Fairness

-----------------------------------------------------------------------------
(* Properties *)

(***************************************************************************)
(* The order of the orchestrator's steps carries data down: unless another *)
(* program scored in the meantime, the engine computes every day of a run  *)
(* from the scores the same run has just saved, and a domain service finds *)
(* the features the same run has just saved for the services it needs.     *)
(***************************************************************************)
RunFlowsDown ==
  \A p \in Programs : pc[p] = "save" /\ alone[p] =>
    IF service(p) \in Domains
    THEN Live(p) => \A u \in Needs[service(p)] \cap DOMAIN did[p] : seen[p].up[u] = did[p][u].fetched
    ELSE \A s \in DOMAIN did[p] : \A d \in Days(p) :
           s \in DOMAIN EngineReads(p, d) /\ EngineReads(p, d)[s] = did[p][s].rows[d]

UpToDate(s) ==
  /\ s \in DOMAIN states[day]
  /\ states[day][s].own = rev
  /\ \A u \in Needs[s] \ setup.broken : states[day][s].up[u] = rev

(***************************************************************************)
(* Once the providers' data and the date stay as they are, the newest      *)
(* state of the day comes to rest, for every domain whose service works,   *)
(* on the newest data, and stays so: whatever failed or died, however the  *)
(* daemons and commands overlapped and overwrote newer rows with staler    *)
(* ones, and although some services always fail.                           *)
(***************************************************************************)
Converges == <>[](\A s \in Domains \ setup.broken : UpToDate(s))

(***************************************************************************)
(* Every daemon computes the current day again and again, whatever becomes *)
(* of its runs and of the ticks it misses, and for whichever date it was   *)
(* started.                                                                *)
(***************************************************************************)
KeepsTicking ==
  \A p \in Programs : []<>(p \in setup.daemons => Running(p) /\ Live(p) /\ from[p] = day)
=============================================================================
