---------------------------- MODULE MCBitemporal ----------------------------
(* Two sessions, of programs with different configurations, a raw key, a   *)
(* score key and two payloads.  A feature key is like a raw key that is    *)
(* not deduplicated.                                                       *)
EXTENDS Bitemporal, TLC

CONSTANTS w1, w2, r1, s1, p1, p2

MCWriters == {w1, w2}
MCRawKeys == {r1}
MCScoreKeys == {s1}
MCPayloads == {p1, p2}

\* a session stands for the configuration of its program, too
MCVersionOf == [w \in MCWriters |-> w]

\* sessions are interchangeable with their configurations, and so are payloads
MCSymmetry == Permutations(MCWriters) \cup Permutations(MCPayloads)
=============================================================================
