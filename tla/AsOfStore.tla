------------------------------ MODULE AsOfStore ------------------------------
(***************************************************************************)
(* What every reader of the database relies on, whatever the tables and    *)
(* transactions behind it are: rows are never changed or removed, and a    *)
(* cutoff that is settled stays settled and gets no more rows.  Bitemporal *)
(* and DomainService implement it, each with its own notion of settled.    *)
(***************************************************************************)
EXTENDS Integers

VARIABLES
  rows,     \* the committed rows; at is their ingested_at
  settled   \* cutoffs at which a read has its final answer

vars == <<rows, settled>>

\* WHERE ingested_at <= c
AsOf(c) == {r \in rows : r.at <= c}

Init == rows = {}

\* one or several rows are committed, or cutoffs become settled, or both
Next ==
  /\ rows \subseteq rows'
  /\ settled \subseteq settled'
  /\ \A r \in rows' \ rows : \A c \in settled : ~(r.at <= c)

Spec == Init /\ [][Next]_vars

(***************************************************************************)
(* A read at a settled cutoff has the same answer at any later time.       *)
(***************************************************************************)
SettledAnswersFinal == [][\A c \in settled : AsOf(c)' = AsOf(c)]_vars
=============================================================================
