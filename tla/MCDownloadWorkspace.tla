------------------------- MODULE MCDownloadWorkspace -------------------------
(* Values for the constants of DownloadWorkspace.                           *)
EXTENDS DownloadWorkspace, TLC

CONSTANTS a, b
TwoJobs == {a, b}
OneSource == [single |-> 1]
TwoSources == [split |-> 2]
BothChoices == [single |-> 1, split |-> 2]
Symmetry == Permutations(TwoJobs)
=============================================================================
