------------------------------- MODULE Maxima -------------------------------
(***************************************************************************)
(* The queries of every store order by a time and take the first row.      *)
(* That there is one, among any rows stamped no later than the clock, is   *)
(* what the proofs about the services, the engine and the backtest need.   *)
(***************************************************************************)
EXTENDS Naturals, FiniteSets, FiniteSetTheorems, TLAPS

(***************************************************************************)
(* A non-empty set of numbers with an upper bound has a greatest one: the  *)
(* sets of the numbers above each of them are finite, so that one of these *)
(* sets is minimal, and it can only be empty.                              *)
(***************************************************************************)
LEMMA GreatestExists ==
  ASSUME NEW S \in SUBSET Nat, S # {}, NEW n \in Nat, \A x \in S : x <= n
  PROVE  \E m \in S : \A x \in S : x <= m
<1> DEFINE Above(x) == {y \in S : x < y}
           T == {Above(x) : x \in S}
<1>1. IsWellFoundedOn(StrictSubsetOrdering(Nat), FiniteSubsetsOf(Nat))
  BY FS_StrictSubsetOrderingWellFounded
<1>2. T \subseteq FiniteSubsetsOf(Nat)
  <2>1. ASSUME NEW x \in S PROVE Above(x) \in FiniteSubsetsOf(Nat)
    <3>1. Above(x) \in SUBSET Nat /\ \A y \in Above(x) : y <= n
      OBVIOUS
    <3>2. IsFiniteSet(Above(x))
      BY <3>1, FS_BoundedSetOfNaturals
    <3>3. QED
      BY <3>1, <3>2 DEF FiniteSubsetsOf
  <2>2. QED
    BY <2>1
<1>3. T # {}
  OBVIOUS
<1>4. PICK U \in T : \A V \in T : ~(<<V, U>> \in StrictSubsetOrdering(Nat))
  <2> HIDE DEF T
  <2>1. QED
    BY <1>1, <1>2, <1>3, WFMin
<1>5. PICK m \in S : U = Above(m)
  OBVIOUS
<1>6. ASSUME NEW y \in S, m < y PROVE FALSE
  <2>1. /\ \A z \in Above(y) : z \in Nat /\ z \in Above(m)
        /\ y \in Above(m) /\ y \notin Above(y)
    BY <1>6
  <2>2. <<Above(y), Above(m)>> \in StrictSubsetOrdering(Nat)
    BY <2>1 DEF StrictSubsetOrdering
  <2>3. QED
    BY <1>4, <1>5, <2>2
<1>7. QED
  BY <1>6

(***************************************************************************)
(* ORDER BY ingested_at DESC LIMIT 1 finds a row whenever there is one.    *)
(***************************************************************************)
LEMMA NewestExists ==
  ASSUME NEW rows, rows # {}, NEW n \in Nat, \A r \in rows : r.at \in 0 .. n
  PROVE  \E r \in rows : \A q \in rows : q.at <= r.at
<1> DEFINE S == {r.at : r \in rows}
<1>1. S \in SUBSET Nat /\ S # {} /\ \A x \in S : x <= n
  OBVIOUS
<1>2. PICK m \in S : \A x \in S : x <= m
  <2> HIDE DEF S
  <2>1. QED
    BY <1>1, GreatestExists
<1>3. QED
  BY <1>2

(***************************************************************************)
(* A non-empty set of numbers has a least one.                             *)
(***************************************************************************)
LEMMA LeastExists ==
  ASSUME NEW S \in SUBSET Nat, S # {}
  PROVE  \E m \in S : \A x \in S : m <= x
<1>1. PICK n \in S : TRUE
  OBVIOUS
<1> DEFINE T == {n - x : x \in {x \in S : x <= n}}
<1>2. T \in SUBSET Nat /\ T # {} /\ \A y \in T : y <= n
  OBVIOUS
<1>3. PICK m \in T : \A y \in T : y <= m
  <2> HIDE DEF T
  <2>1. QED
    BY <1>2, GreatestExists
<1>4. PICK k \in S : k <= n /\ m = n - k
  OBVIOUS
<1>5. ASSUME NEW x \in S PROVE k <= x
  <2>1. CASE x <= n
    <3>1. n - x \in T
      BY <2>1
    <3>2. n - x <= n - k
      BY <1>3, <1>4, <3>1
    <3>3. QED
      BY <1>4, <3>2
  <2>2. QED
    BY <1>4, <2>1
<1>6. QED
  BY <1>5
=============================================================================
