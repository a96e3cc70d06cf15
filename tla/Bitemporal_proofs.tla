-------------------------- MODULE Bitemporal_proofs --------------------------
(***************************************************************************)
(* Proofs that the as-of reads of the store are deterministic, that raw    *)
(* ingestion is idempotent and that settled reads are repeatable, for any  *)
(* number of sessions, keys, payloads and transactions.                    *)
(***************************************************************************)
EXTENDS Bitemporal, TLAPS

\* two rows one of the two unique indexes forbids to coexist
Clash(r, q) == SamePayload(r, q) \/ SameVersion(r, q)

\* an uncommitted row belongs to an open transaction and has its stamp
BufStamped == \A w \in Writers : \A r \in buf[w] : w \in active /\ r.at = txAt[w]

\* what a session sees never clashes ...
VisibleDistinct == \A w \in Writers : \A r, q \in Visible(w) : Clash(r, q) => r = q

\* ... and no two sessions hold clashing uncommitted rows
BufDisjoint ==
  \A w, x \in Writers : w # x => \A r \in buf[w], q \in buf[x] : ~Clash(r, q)

CommittedDistinct == \A r, q \in rows : Clash(r, q) => r = q

\* a settled cutoff stays settled
SettledStays ==
  \A rd \in reads : rd.settled =>
    /\ rd.cutoff < now
    /\ \A w \in active : rd.cutoff < txAt[w]

IndexInv == BufStamped /\ VisibleDistinct /\ BufDisjoint /\ CommittedDistinct

IInv == TypeOK /\ IndexInv /\ SettledStays /\ SettledReadsRepeatable

-----------------------------------------------------------------------------

(***************************************************************************)
(* The state of the store keeps its shape under every operation of InTx.   *)
(***************************************************************************)
THEOREM TypeCorrect == Spec => []TypeOK
<1>1. Init => TypeOK
  BY BitemporalAssumption DEF Init, TypeOK
<1>2. TypeOK /\ [Next]_vars => TypeOK'
  <2> SUFFICES ASSUME TypeOK, [Next]_vars PROVE TypeOK'
    OBVIOUS
  <2> USE BitemporalAssumption DEF TypeOK, Read, Skip
  <2>0. \A w \in Writers, k \in Keys, v \in Payloads : RowOf(w, k, v) \in Row
    BY DEF RowOf, Row, VersionsOf
  <2>1. CASE Tick
    BY <2>1 DEF Tick
  <2>2. ASSUME NEW w \in Writers, Begin(w) PROVE TypeOK'
    BY <2>2 DEF Begin
  <2>3. ASSUME NEW w \in Writers, Commit(w) PROVE TypeOK'
    BY <2>3 DEF Commit, EndTx
  <2>4. ASSUME NEW w \in Writers, Rollback(w) PROVE TypeOK'
    BY <2>4 DEF Rollback, EndTx
  <2>5. ASSUME NEW w \in Writers, NEW k \in Keys, NEW v \in Payloads, Insert(w, k, v)
        PROVE TypeOK'
    BY <2>0, <2>5 DEF Insert
  <2>6. ASSUME NEW w \in Writers, NEW k \in Keys, NEW v \in Payloads, InsertConflict(w, k, v)
        PROVE TypeOK'
    BY <2>6 DEF InsertConflict, EndTx
  <2>7. ASSUME NEW w \in Writers, NEW k \in Keys, NEW v \in Payloads, InsertSkipped(w, k, v)
        PROVE TypeOK'
    <3>1. {q.val : q \in Latest(k, now)} \in SUBSET Payloads
      BY DEF Latest, Candidates, Row
    <3> QED
      BY <2>7, <3>1 DEF InsertSkipped
  <2>8. ASSUME NEW k \in Keys, NEW c \in 0 .. now + Ahead, ReadAsOf(k, c) PROVE TypeOK'
    <3>1. Latest(k, c) \in SUBSET Row
      BY DEF Latest, Candidates
    <3>2. Settled(c) \in BOOLEAN
      BY DEF Settled
    <3>3. c \in Nat
      OBVIOUS
    <3> QED
      BY <2>8, <3>1, <3>2, <3>3 DEF ReadAsOf
  <2>9. CASE UNCHANGED vars
    BY <2>9 DEF vars
  <2> QED
    BY <2>1, <2>2, <2>3, <2>4, <2>5, <2>6, <2>7, <2>8, <2>9 DEF Next
<1> QED
  BY <1>1, <1>2, PTL DEF Spec

-----------------------------------------------------------------------------

(***************************************************************************)
(* The unique indexes hold: commits publish only rows that clash with no   *)
(* committed row, because an insert waits for every open transaction that  *)
(* holds a clashing entry.                                                 *)
(***************************************************************************)
LEMMA IndexStep == TypeOK /\ IndexInv /\ [Next]_vars => IndexInv'
<1> SUFFICES ASSUME TypeOK, IndexInv, [Next]_vars PROVE IndexInv'
  OBVIOUS
<1> USE DEF TypeOK, IndexInv, BufStamped, VisibleDistinct, BufDisjoint,
            CommittedDistinct, Visible, Clash, SamePayload, SameVersion
<1>1. CASE Tick
  BY <1>1 DEF Tick
<1>2. ASSUME NEW w \in Writers, Begin(w) PROVE IndexInv'
  BY <1>2 DEF Begin
<1>3. ASSUME NEW w \in Writers, Commit(w) PROVE IndexInv'
  <2>1. CommittedDistinct'
    BY <1>3 DEF Commit, EndTx
  <2>2. BufStamped'
    BY <1>3 DEF Commit, EndTx
  <2>3. BufDisjoint'
    BY <1>3 DEF Commit, EndTx
  <2>4. VisibleDistinct'
    <3> SUFFICES ASSUME NEW x \in Writers, NEW r \in rows' \cup buf'[x],
                        NEW q \in rows' \cup buf'[x], Clash(r, q)
                 PROVE  r = q
      BY DEF VisibleDistinct
    <3>1. CASE x = w
      BY <3>1, <1>3 DEF Commit, EndTx
    <3>2. CASE x # w
      BY <3>2, <1>3 DEF Commit, EndTx
    <3> QED
      BY <3>1, <3>2
  <2> QED
    BY <2>1, <2>2, <2>3, <2>4
<1>4. ASSUME NEW w \in Writers, Rollback(w) PROVE IndexInv'
  BY <1>4 DEF Rollback, EndTx
<1>5. ASSUME NEW w \in Writers, NEW k \in Keys, NEW v \in Payloads, Insert(w, k, v)
      PROVE IndexInv'
  <2> DEFINE r0 == RowOf(w, k, v)
  <2>1. /\ w \in active
        /\ \A x \in active \ {w} : \A q \in buf[x] : ~Clash(r0, q)
        /\ \A q \in Visible(w) : ~Clash(r0, q)
        /\ buf' = [buf EXCEPT ![w] = @ \cup {r0}]
        /\ UNCHANGED <<now, rows, active, txAt, reads>>
    BY <1>5 DEF Insert, MustWait
  <2>2. r0.at = txAt[w]
    BY DEF RowOf
  <2>3. \A a, b : Clash(a, b) <=> /\ b.key = a.key
                                 /\ \/ a.key \in RawKeys /\ b.val = a.val
                                    \/ b.at = a.at /\ b.version = a.version
    OBVIOUS
  <2> HIDE DEF r0, Clash
  <2>4. BufStamped' /\ CommittedDistinct'
    BY <2>1, <2>2
  <2>5. \A a, b : Clash(a, b) => Clash(b, a)
    BY <2>3
  <2>6. VisibleDistinct'
    BY <2>1, <2>5
  <2>7. BufDisjoint'
    BY <2>1, <2>5
  <2> QED
    BY <2>4, <2>6, <2>7
<1>6. ASSUME NEW w \in Writers, NEW k \in Keys, NEW v \in Payloads, InsertConflict(w, k, v)
      PROVE IndexInv'
  BY <1>6 DEF InsertConflict, EndTx
<1>7. ASSUME NEW w \in Writers, NEW k \in Keys, NEW v \in Payloads, InsertSkipped(w, k, v)
      PROVE IndexInv'
  BY <1>7 DEF InsertSkipped
<1>8. ASSUME NEW k \in Keys, NEW c \in 0 .. now + Ahead, ReadAsOf(k, c) PROVE IndexInv'
  BY <1>8 DEF ReadAsOf
<1>9. CASE UNCHANGED vars
  BY <1>9 DEF vars
<1> QED
  BY <1>1, <1>2, <1>3, <1>4, <1>5, <1>6, <1>7, <1>8, <1>9 DEF Next

\* empty tables satisfy the indexes
LEMMA IndexInit == Init => IndexInv
  BY DEF Init, IndexInv, BufStamped, VisibleDistinct, BufDisjoint, CommittedDistinct,
         Visible, Clash, SamePayload, SameVersion

(***************************************************************************)
(* GetLatestX of a raw table or a feature version is deterministic at      *)
(* every cutoff.  Reads of scores and states are as far as their rows are  *)
(* of one configuration.                                                   *)
(***************************************************************************)
THEOREM LatestIsUnique == Spec => []LatestUnique
<1>1. TypeOK /\ IndexInv => LatestUnique
  <2> SUFFICES ASSUME TypeOK, CommittedDistinct, NEW k \in Keys, NEW c \in 0 .. MaxNow + Ahead,
                      NEW r \in Latest(k, c), NEW q \in Latest(k, c),
                      k \notin ScoreKeys \/ r.version = q.version
               PROVE  r = q
    BY DEF LatestUnique, IndexInv
  <2>1. r \in rows /\ q \in rows /\ r.key = k /\ q.key = k /\ r.at <= q.at /\ q.at <= r.at
    BY DEF Latest, Candidates
  <2>2. r.at \in Nat /\ q.at \in Nat
    BY <2>1 DEF TypeOK, Row
  <2>3. r.at = q.at
    BY <2>1, <2>2
  <2>4. r.version = q.version
    BY <2>1 DEF TypeOK, Row, VersionsOf
  <2> QED
    BY <2>1, <2>3, <2>4 DEF CommittedDistinct, Clash, SameVersion
<1> QED
  BY <1>1, TypeCorrect, IndexInit, IndexStep, PTL DEF Spec

(***************************************************************************)
(* Raw ingestion is idempotent: one committed row per key and payload.     *)
(***************************************************************************)
THEOREM RawIsDeduped == Spec => []RawDeduped
<1>1. IndexInv => RawDeduped
  BY DEF IndexInv, CommittedDistinct, Clash, SamePayload, RawDeduped
<1> QED
  BY <1>1, TypeCorrect, IndexInit, IndexStep, PTL DEF Spec

-----------------------------------------------------------------------------

\* rows stamped after the cutoff do not change what an as-of read returns
LEMMA LatestStable ==
  ASSUME NEW k, NEW c, \A r \in rows' : r.key = k /\ r.at <= c => r \in rows, rows \subseteq rows'
  PROVE  Latest(k, c)' = Latest(k, c)
<1>1. Candidates(k, c)' = Candidates(k, c)
  BY DEF Candidates
<1> QED
  BY <1>1 DEF Latest

(***************************************************************************)
(* A settled cutoff stays settled and its reads keep their answer.         *)
(***************************************************************************)
LEMMA ReadsStep == IInv /\ [Next]_vars => (SettledStays /\ SettledReadsRepeatable)'
<1> SUFFICES ASSUME IInv, [Next]_vars PROVE (SettledStays /\ SettledReadsRepeatable)'
  OBVIOUS
<1> USE DEF IInv, TypeOK
<1>0. ASSUME rows' = rows
      PROVE  \A k, c : Latest(k, c)' = Latest(k, c)
  BY <1>0 DEF Latest, Candidates
<1>1. CASE Tick
  BY <1>0, <1>1 DEF Tick, SettledStays, SettledReadsRepeatable, Read
<1>2. ASSUME NEW w \in Writers, Begin(w) PROVE (SettledStays /\ SettledReadsRepeatable)'
  <2>1. SettledStays'
    BY <1>2 DEF Begin, SettledStays
  <2> QED
    BY <2>1, <1>2, <1>0 DEF Begin, SettledReadsRepeatable
<1>3. ASSUME NEW w \in Writers, Commit(w) PROVE (SettledStays /\ SettledReadsRepeatable)'
  <2>1. SettledStays'
    BY <1>3 DEF Commit, EndTx, SettledStays
  <2>2. ASSUME NEW rd \in reads, rd.settled PROVE Latest(rd.key, rd.cutoff)' = Latest(rd.key, rd.cutoff)
    <3>1. rd.cutoff \in Nat /\ txAt[w] \in Nat /\ rd.cutoff < txAt[w]
      BY <2>2, <1>3 DEF Commit, SettledStays, Read
    <3>2. \A r \in rows' : r.at <= rd.cutoff => r \in rows
      BY <3>1, <1>3 DEF Commit, IndexInv, BufStamped
    <3> QED
      BY <3>2, <1>3, LatestStable DEF Commit
  <2>3. SettledReadsRepeatable'
    BY <2>2, <1>3 DEF Commit, SettledReadsRepeatable
  <2> QED
    BY <2>1, <2>3
<1>4. ASSUME NEW w \in Writers, Rollback(w) PROVE (SettledStays /\ SettledReadsRepeatable)'
  BY <1>0, <1>4 DEF Rollback, EndTx, SettledStays, SettledReadsRepeatable
<1>5. ASSUME NEW w \in Writers, NEW k \in Keys, NEW v \in Payloads, Insert(w, k, v)
      PROVE (SettledStays /\ SettledReadsRepeatable)'
  BY <1>0, <1>5 DEF Insert, SettledStays, SettledReadsRepeatable
<1>6. ASSUME NEW w \in Writers, NEW k \in Keys, NEW v \in Payloads, InsertConflict(w, k, v)
      PROVE (SettledStays /\ SettledReadsRepeatable)'
  BY <1>0, <1>6 DEF InsertConflict, EndTx, SettledStays, SettledReadsRepeatable
<1>7. ASSUME NEW w \in Writers, NEW k \in Keys, NEW v \in Payloads, InsertSkipped(w, k, v)
      PROVE (SettledStays /\ SettledReadsRepeatable)'
  BY <1>0, <1>7 DEF InsertSkipped, SettledStays, SettledReadsRepeatable
<1>8. ASSUME NEW k \in Keys, NEW c \in 0 .. now + Ahead, ReadAsOf(k, c)
      PROVE (SettledStays /\ SettledReadsRepeatable)'
  <2> DEFINE new == [key |-> k, cutoff |-> c, res |-> Latest(k, c), settled |-> Settled(c)]
  <2>1. reads' = reads \cup {new} /\ UNCHANGED <<now, rows, active, txAt>>
    BY <1>8 DEF ReadAsOf
  <2>2. new.settled => c < now /\ \A w \in active : c < txAt[w]
    BY DEF Settled
  <2>3. new.key = k /\ new.cutoff = c /\ new.res = Latest(k, c)
    OBVIOUS
  <2> HIDE DEF new
  <2>4. SettledStays'
    BY <2>1, <2>2, <2>3 DEF SettledStays
  <2>5. SettledReadsRepeatable'
    BY <2>1, <2>3, <1>0 DEF SettledReadsRepeatable
  <2> QED
    BY <2>4, <2>5
<1>9. CASE UNCHANGED vars
  BY <1>0, <1>9 DEF vars, SettledStays, SettledReadsRepeatable
<1> QED
  BY <1>1, <1>2, <1>3, <1>4, <1>5, <1>6, <1>7, <1>8, <1>9 DEF Next

(***************************************************************************)
(* Reads at a settled cutoff are repeatable: the point-in-time guarantee   *)
(* the ingestion timestamp really gives.                                   *)
(***************************************************************************)
THEOREM SettledReadsAreRepeatable == Spec => []SettledReadsRepeatable
<1>1. Init => SettledStays /\ SettledReadsRepeatable
  BY DEF Init, SettledStays, SettledReadsRepeatable
<1>2. TypeOK /\ TypeOK' /\ IInv /\ [Next]_vars => IInv'
  BY ReadsStep, IndexStep DEF IInv
<1> QED
  BY <1>1, <1>2, TypeCorrect, IndexInit, PTL DEF Spec, IInv

-----------------------------------------------------------------------------

\* a settled cutoff stays settled under every operation
LEMMA SettledGrows ==
  ASSUME TypeOK, [Next]_vars, NEW c \in Nat, Settled(c)
  PROVE  Settled(c)'
<1> USE DEF TypeOK, Settled
<1>1. CASE Tick
  BY <1>1 DEF Tick
<1>2. ASSUME NEW w \in Writers, Begin(w) PROVE Settled(c)'
  BY <1>2 DEF Begin
<1>3. ASSUME NEW w \in Writers, Commit(w) \/ Rollback(w) PROVE Settled(c)'
  BY <1>3 DEF Commit, Rollback, EndTx
<1>4. ASSUME NEW w \in Writers, NEW k \in Keys, NEW v \in Payloads,
             Insert(w, k, v) \/ InsertConflict(w, k, v) \/ InsertSkipped(w, k, v)
      PROVE Settled(c)'
  BY <1>4 DEF Insert, InsertConflict, InsertSkipped, EndTx
<1>5. ASSUME NEW k \in Keys, NEW d \in 0 .. now + Ahead, ReadAsOf(k, d) PROVE Settled(c)'
  BY <1>5 DEF ReadAsOf
<1>6. CASE UNCHANGED vars
  BY <1>6 DEF vars
<1> QED
  BY <1>1, <1>2, <1>3, <1>4, <1>5, <1>6 DEF Next

\* rows are only added, and none below a settled cutoff
LEMMA RowsGrow ==
  ASSUME TypeOK, IndexInv, [Next]_vars
  PROVE  /\ rows \subseteq rows'
         /\ \A r \in rows' \ rows : \A c \in Nat : Settled(c) => ~(r.at <= c)
<1> USE DEF TypeOK
<1>1. ASSUME NEW w \in Writers, Commit(w)
      PROVE  /\ rows \subseteq rows'
             /\ \A r \in rows' \ rows : \A c \in Nat : Settled(c) => ~(r.at <= c)
  <2>1. rows' = rows \cup buf[w] /\ w \in active
    BY <1>1 DEF Commit
  <2>2. ASSUME NEW r \in buf[w], NEW c \in Nat, Settled(c) PROVE ~(r.at <= c)
    <3>1. r.at = txAt[w] /\ txAt[w] \in Nat /\ c < txAt[w]
      BY <2>1, <2>2 DEF IndexInv, BufStamped, Settled
    <3> QED
      BY <3>1
  <2> QED
    BY <2>1, <2>2
<1>2. ASSUME ~\E w \in Writers : Commit(w) PROVE rows' = rows
  BY <1>2 DEF Next, vars, Tick, Begin, Rollback, Insert, InsertConflict, InsertSkipped, ReadAsOf
<1> QED
  BY <1>1, <1>2

(***************************************************************************)
(* The store of overlapping transactions implements the store of instant   *)
(* writes that its readers rely on.                                        *)
(***************************************************************************)
THEOREM StoreImplementsAsOf == Spec => ImplementsStore
<1>1. Init => Store!Init
  BY DEF Init, Store!Init
<1>2. TypeOK /\ IndexInv /\ [Next]_vars => [Store!Next]_(Store!vars)
  <2> SUFFICES ASSUME TypeOK, IndexInv, [Next]_vars PROVE Store!Next
    BY DEF Store!vars
  <2>1. 0 .. MaxNow \subseteq Nat
    BY BitemporalAssumption
  <2>2. {c \in 0 .. MaxNow : Settled(c)} \subseteq {c \in 0 .. MaxNow : Settled(c)}'
    BY <2>1, SettledGrows
  <2>3. \A r \in rows' \ rows : \A c \in {c \in 0 .. MaxNow : Settled(c)} : ~(r.at <= c)
    BY <2>1, RowsGrow
  <2>4. rows \subseteq rows'
    BY RowsGrow
  <2> QED
    BY <2>2, <2>3, <2>4 DEF Store!Next
<1> QED
  BY <1>1, <1>2, TypeCorrect, IndexInit, IndexStep, PTL DEF Spec, ImplementsStore, Store!Spec

(***************************************************************************)
(* What readers rely on, by way of the abstract store: the answer of a    *)
(* read at a settled cutoff is final, so replaying a computation there     *)
(* reads what the computation read, whichever transactions commit later.   *)
(***************************************************************************)
THEOREM SettledAnswersAreFinal == Spec => Store!SettledAnswersFinal
<1>1. [Store!Next]_(Store!vars) => [\A c \in {c \in 0 .. MaxNow : Settled(c)} : Store!AsOf(c)' = Store!AsOf(c)]_(Store!vars)
  BY DEF Store!Next, Store!AsOf, Store!vars
<1>2. QED
  BY <1>1, StoreImplementsAsOf, PTL DEF ImplementsStore, Store!Spec, Store!SettledAnswersFinal
=============================================================================
