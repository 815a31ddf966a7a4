---------------------------- MODULE MCEventStore ----------------------------
(* Small instances of EventStore: one or two capture threads and purges.   *)
EXTENDS EventStore, TLC

CONSTANTS w1, w2, p1, p2, nobody, broken

MCOneWriter == {w1}
MCTwoWriters == {w1, w2}
MCOnePurge == {p1}
MCTwoPurges == {p1, p2}

Symmetry == Permutations(MCTwoWriters)
=============================================================================
