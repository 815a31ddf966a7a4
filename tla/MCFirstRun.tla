----------------------------- MODULE MCFirstRun -----------------------------
(* A small instance of FirstRun: two requests at a time.                   *)
EXTENDS FirstRun, TLC

CONSTANTS r1, r2, nobody

MCRequests == {r1, r2}

Symmetry == Permutations(MCRequests)
=============================================================================
