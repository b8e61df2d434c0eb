----------------------------- MODULE MCJobStore -----------------------------
(* Bounds: three jobs and three queue places (SequenceLimit - 1), so that   *)
(* all three are enqueued, or two and one of them is requeued behind the    *)
(* other, or one is requeued twice, with the last place taken each time.    *)
(* No transaction on a job reads the limit: one value of it is enough.      *)
EXTENDS JobStore, TLC

CONSTANTS j1, j2, j3

MCJobs == {j1, j2, j3}
MCSequenceLimit == 4
MCConcurrencies == {1}
Symmetry == Permutations(MCJobs)
=============================================================================
