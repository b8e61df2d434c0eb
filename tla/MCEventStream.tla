---------------------------- MODULE MCEventStream ----------------------------
(* Values for the constants of EventStream.  One job goes through a command, *)
(* an attempt and its end; of the other one event is enough to overtake or   *)
(* be overtaken.                                                             *)
EXTENDS EventStream, TLC

CONSTANTS a, b
TwoJobs        == {a, b}
OneJob         == {a}
OneConnection  == {1}
TwoConnections == {1, 2}
StatesAtStart  == a :> {"none", "failed", "paused", "completed"} @@ b :> {"queued", "paused"}
Revisions      == a :> 3 @@ b :> 2
=============================================================================
