--------------------------- MODULE MCProcessRunner ---------------------------
(* Values for the constants of ProcessRunner.                                *)
EXTENDS ProcessRunner
NoInputOrSome == {0, 2}
=============================================================================
