------------------------------ MODULE Bitemporal ------------------------------
(***************************************************************************)
(* The bitemporal PostgreSQL store every service of the engine writes to   *)
(* and reads from (internal/storage, migrations/).                         *)
(*                                                                         *)
(* A row is stamped with ingested_at = now(), which PostgreSQL fixes when  *)
(* the transaction STARTS.  Rows are inserted inside Pool.InTx, become     *)
(* visible when it commits, and are read "as of" a cutoff: the newest row  *)
(* of the key among those with ingested_at <= cutoff.                      *)
(*                                                                         *)
(* A key stands for a table and what the WHERE clause of its reads fixes:  *)
(* a natural key and a value_date.  Raw tables carry two unique            *)
(* constraints: the dedupe index (key, payload_hash) that ON CONFLICT DO   *)
(* NOTHING names, and the primary key (key, ingested_at) that it does not. *)
(* The other tables only have the primary key.  That of features ends with *)
(* feature_version, which their reads fix, so it is part of the key; those *)
(* of domain_scores and regime_states with model_version and               *)
(* config_version, for which no read asks.                                 *)
(***************************************************************************)
EXTENDS Naturals, FiniteSets

CONSTANTS
  Writers,      \* database sessions (service processes) that write
  RawKeys,      \* keys of raw tables: deduplicated on payload_hash
  FeatureKeys,  \* keys of feature tables, with the feature_version
  ScoreKeys,    \* keys of domain_scores and regime_states, and of features
                \* read with GetLatestLeverageFeatureAnyVersion: without version
  Payloads,     \* payload hashes / values
  Versions,     \* model, config and feature versions a program may run with
  VersionOf,    \* the one each session's program was configured with
  NoVersion,    \* stands for the version of a row whose key leaves none open
  MaxNow,       \* bound on the database clock
  Ahead,        \* how far beyond now a backfill's cutoff lies (24h)
  MaxRows,      \* bound on the rows a session sees
  MaxHistory    \* bound on the as-of reads and the skipped inserts remembered

ASSUME BitemporalAssumption ==
  /\ MaxNow \in Nat
  /\ Ahead \in Nat
  /\ MaxRows \in Nat
  /\ MaxHistory \in Nat
  /\ RawKeys \cap ScoreKeys = {} /\ FeatureKeys \cap (RawKeys \cup ScoreKeys) = {}
  /\ VersionOf \in [Writers -> Versions]
  /\ NoVersion \notin Versions

Keys == RawKeys \cup FeatureKeys \cup ScoreKeys

VersionsOf(k) == IF k \in ScoreKeys THEN Versions ELSE {NoVersion}

Row == {r \in [key : Keys, val : Payloads, at : Nat, version : Versions \cup {NoVersion}] :
          r.version \in VersionsOf(r.key)}

VARIABLES
  now,      \* the database clock, in microseconds of the real system
  rows,     \* committed rows of all tables
  active,   \* the sessions with an open transaction
  txAt,     \* now() of each session's transaction: its start time
  buf,      \* rows inserted by each open transaction, not yet committed
  reads,    \* history: the as-of reads made so far and what they returned
  skipped   \* history: the inserts that ON CONFLICT DO NOTHING has dropped

vars == <<now, rows, active, txAt, buf, reads, skipped>>

Read == [key : Keys, cutoff : Nat, res : SUBSET Row, settled : BOOLEAN]

Skip == [key : Keys, val : Payloads, current : SUBSET Payloads]

TypeOK ==
  /\ now \in Nat
  /\ rows \in SUBSET Row
  /\ active \in SUBSET Writers
  /\ txAt \in [Writers -> Nat]
  /\ buf \in [Writers -> SUBSET Row]
  /\ reads \in SUBSET Read
  /\ skipped \in SUBSET Skip

Init ==
  /\ now = 0
  /\ rows = {}
  /\ active = {}
  /\ txAt = [w \in Writers |-> 0]
  /\ buf = [w \in Writers |-> {}]
  /\ reads = {}
  /\ skipped = {}

-----------------------------------------------------------------------------
(* As-of reads *)

\* WHERE key = k AND ingested_at <= c
Candidates(k, c) == {r \in rows : r.key = k /\ r.at <= c}

\* ORDER BY ingested_at DESC LIMIT 1: LIMIT 1 picks one element of this set
Latest(k, c) ==
  LET found == Candidates(k, c)
  IN  {r \in found : \A q \in found : q.at <= r.at}

\* A cutoff is settled once no row can appear under it any more: the clock has
\* passed it and every open transaction started after it.
Settled(c) == c < now /\ \A w \in active : c < txAt[w]

ReadAsOf(k, c) ==
  /\ Cardinality(reads) + Cardinality(skipped) < MaxHistory
  /\ reads' = reads \cup {[key |-> k, cutoff |-> c, res |-> Latest(k, c), settled |-> Settled(c)]}
  /\ UNCHANGED <<now, rows, active, txAt, buf, skipped>>

-----------------------------------------------------------------------------
(* Transactions *)

\* Mutant: the stamp is taken from a clock that trails the database clock.
BeginTrailingClock(w) ==
  /\ w \notin active
  /\ active' = active \cup {w}
  /\ txAt' = [txAt EXCEPT ![w] = IF now > 0 THEN now - 1 ELSE now]
  /\ buf' = [buf EXCEPT ![w] = {}]
  /\ UNCHANGED <<now, rows, reads, skipped>>

\* Mutant: the stamp is set back one unit of time, also at the epoch of the clock.
BeginBeforeClock(w) ==
  /\ w \notin active
  /\ active' = active \cup {w}
  /\ txAt' = [txAt EXCEPT ![w] = now - 1]
  /\ buf' = [buf EXCEPT ![w] = {}]
  /\ UNCHANGED <<now, rows, reads, skipped>>

\* p.BeginTx: from here on now() is frozen for this transaction
Begin(w) ==
  /\ w \notin active
  /\ active' = active \cup {w}
  /\ txAt' = [txAt EXCEPT ![w] = now]
  /\ buf' = [buf EXCEPT ![w] = {}]
  /\ UNCHANGED <<now, rows, reads, skipped>>

\* the transaction of w is over, and nothing of it is left in the session
EndTx(w) ==
  /\ active' = active \ {w}
  /\ txAt' = [txAt EXCEPT ![w] = 0]
  /\ buf' = [buf EXCEPT ![w] = {}]

\* what a unique-index check of w's insert sees: committed rows and its own
Visible(w) == rows \cup buf[w]

SamePayload(r, q) == r.key \in RawKeys /\ r.key = q.key /\ r.val = q.val
SameVersion(r, q) == r.key = q.key /\ r.at = q.at /\ r.version = q.version

\* the row w inserts: under its transaction's stamp and its program's versions
RowOf(w, k, v) ==
  [key |-> k, val |-> v, at |-> txAt[w], version |-> IF k \in ScoreKeys THEN VersionOf[w] ELSE NoVersion]

\* another open transaction holds the index entry: PostgreSQL makes w wait for it
MustWait(w, r) ==
  \E x \in active \ {w} : \E q \in buf[x] : SamePayload(r, q) \/ SameVersion(r, q)

\* Mutant: no primary key.
InsertNoPrimaryKey(w, k, v) ==
  LET r == RowOf(w, k, v)
  IN  /\ w \in active
      /\ ~MustWait(w, r)
      /\ \A q \in Visible(w) : ~SamePayload(r, q)
      /\ Cardinality(Visible(w)) < MaxRows
      /\ buf' = [buf EXCEPT ![w] = @ \cup {r}]
      /\ UNCHANGED <<now, rows, active, txAt, reads, skipped>>

\* Mutant: the insert has no ON CONFLICT clause and no dedupe index.
InsertNoDedupe(w, k, v) ==
  LET r == RowOf(w, k, v)
  IN  /\ w \in active
      /\ ~MustWait(w, r)
      /\ \A q \in Visible(w) : ~SameVersion(r, q)
      /\ Cardinality(Visible(w)) < MaxRows
      /\ buf' = [buf EXCEPT ![w] = @ \cup {r}]
      /\ UNCHANGED <<now, rows, active, txAt, reads, skipped>>

\* INSERT ... of a new row version
Insert(w, k, v) ==
  LET r == RowOf(w, k, v)
  IN  /\ w \in active
      /\ ~MustWait(w, r)
      /\ \A q \in Visible(w) : ~SamePayload(r, q) /\ ~SameVersion(r, q)
      /\ Cardinality(Visible(w)) < MaxRows
      /\ buf' = [buf EXCEPT ![w] = @ \cup {r}]
      /\ UNCHANGED <<now, rows, active, txAt, reads, skipped>>

\* a second row of the key in the same transaction (or microsecond) violates
\* the primary key, which ON CONFLICT does not cover: fn returns the error and
\* the whole batch is rolled back
InsertConflict(w, k, v) ==
  LET r == RowOf(w, k, v)
  IN  /\ w \in active
      /\ ~MustWait(w, r)
      /\ \A q \in Visible(w) : ~SamePayload(r, q)
      /\ \E q \in Visible(w) : SameVersion(r, q)
      /\ EndTx(w)
      /\ UNCHANGED <<now, rows, reads, skipped>>

\* ON CONFLICT (key, payload_hash) DO NOTHING: the key has had this payload
\* before, and the row is dropped
InsertSkipped(w, k, v) ==
  /\ w \in active
  /\ \E q \in rows : SamePayload(q, RowOf(w, k, v))
  /\ Cardinality(reads) + Cardinality(skipped) < MaxHistory
  /\ skipped' = skipped \cup {[key |-> k, val |-> v, current |-> {q.val : q \in Latest(k, now)}]}
  /\ UNCHANGED <<now, rows, active, txAt, buf, reads>>

\* tx.Commit: the buffered rows become visible, under the stamp of the start
Commit(w) ==
  /\ w \in active
  /\ rows' = rows \cup buf[w]
  /\ EndTx(w)
  /\ UNCHANGED <<now, reads, skipped>>

\* the deferred tx.Rollback after any error, a deadlock victim, or a lost session
Rollback(w) ==
  /\ w \in active
  /\ EndTx(w)
  /\ UNCHANGED <<now, rows, reads, skipped>>

Tick ==
  /\ now < MaxNow
  /\ now' = now + 1
  /\ UNCHANGED <<rows, active, txAt, buf, reads, skipped>>

Next ==
  \/ Tick
  \/ \E w \in Writers :
       \/ Begin(w)
       \/ Commit(w)
       \/ Rollback(w)
       \/ \E k \in Keys, v \in Payloads : Insert(w, k, v) \/ InsertConflict(w, k, v) \/ InsertSkipped(w, k, v)
  \/ \E k \in Keys : \E c \in 0 .. now + Ahead : ReadAsOf(k, c)

Spec == Init /\ [][Next]_vars

-----------------------------------------------------------------------------
(* Properties *)

(***************************************************************************)
(* What ORDER BY ingested_at DESC LIMIT 1 picks from: whatever batches and *)
(* sessions wrote, a read of a raw table or of a feature version has one   *)
(* newest row, although now() is equal for all rows of a transaction and   *)
(* may be for those of several.  A read of scores or states has one per    *)
(* version: programs of different config_version may tie, and which row    *)
(* GetDomainScoreOnDate then returns is left open by the query.            *)
(***************************************************************************)
LatestUnique ==
  \A k \in Keys : \A c \in 0 .. MaxNow + Ahead :
    \A r, q \in Latest(k, c) : k \notin ScoreKeys \/ r.version = q.version => r = q

(***************************************************************************)
(* Re-ingesting a payload adds nothing: InsertRawX with ON CONFLICT DO     *)
(* NOTHING leaves one row per (key, payload_hash), also when two sessions  *)
(* ingest the same payload concurrently and one of them rolls back.        *)
(***************************************************************************)
RawDeduped ==
  \A r, q \in rows : r.key \in RawKeys /\ r.key = q.key /\ r.val = q.val => r = q

(***************************************************************************)
(* Point-in-time reads: a read at a cutoff that the clock has passed, made *)
(* while no transaction that started before the cutoff is open, returns    *)
(* the same row for ever.                                                  *)
(***************************************************************************)
SettledReadsRepeatable ==
  \A rd \in reads : rd.settled => Latest(rd.key, rd.cutoff) = rd.res

Store == INSTANCE AsOfStore WITH settled <- {c \in 0 .. MaxNow : Settled(c)}

(***************************************************************************)
(* The store implements AsOfStore, with the cutoffs that the clock and all *)
(* open transactions have passed for settled: rows that commit late, under *)
(* the stamp of their transaction's start, never appear at such a cutoff,  *)
(* and no operation changes or removes a row.                              *)
(***************************************************************************)
ImplementsStore == Store!Spec

(***************************************************************************)
(* What migrations/00001_init.sql says of the dedupe index: a payload that *)
(* differs from the current one inserts a new row.  So ON CONFLICT may     *)
(* drop nothing but the payload that reads of the key return already.      *)
(***************************************************************************)
CorrectionsInserted == \A s \in skipped : s.current = {s.val}
=============================================================================
