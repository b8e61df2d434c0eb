----------------------------- MODULE MCJobQueue -----------------------------
(* Values for the constants of JobQueue; each .cfg chooses among them.      *)
EXTENDS JobQueue, TLC

CONSTANTS j1, j2, j3, c1, c2

OneJob     == {j1}
TwoJobs    == {j1, j2}
ThreeJobs  == {j1, j2, j3}
OneClient  == {c1}
TwoClients == {c1, c2}
Symmetry   == Permutations(ThreeJobs)
=============================================================================
