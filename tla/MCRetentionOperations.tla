----------------------- MODULE MCRetentionOperations ------------------------
(* Two successive runs on one leaf of a disposable checkpoint, and the      *)
(* requests of the operators who reclaim it.                                *)
EXTENDS RetentionOperations, TLC

CONSTANTS w1, w2, p, o1, t1, t2

MCWriters == {w1, w2}
MCPrefixes == {p}
MCPrefixOf == [w \in Writers |-> p]
MCEvidence == {[generation |-> TRUE, qualifies |-> TRUE, approved |-> TRUE]}
MCOneApplier == {t1}
MCTwoAppliers == {t1, t2}

\* Sessions of one leaf are interchangeable, and so are request threads.
MCSymmetry == Permutations(Writers) \cup Permutations(Appliers)
=============================================================================
