----------------------------- MODULE JobHistory -----------------------------
(***************************************************************************)
(* What the engine promises about a job to whoever reads its state: it is  *)
(* submitted once, moves only along the validated transitions, and leaves  *)
(* the history only from "completed".  JobStore implements this although   *)
(* recovery writes states without consulting the transition table.         *)
(***************************************************************************)
EXTENDS JobLifecycle

CONSTANT Jobs

VARIABLE state   \* state[j], "unused" before the submission, "deleted" at last

Init == state = [j \in Jobs |-> "unused"]

Submit(j) ==
    /\ state[j] = "unused"
    /\ state' = [state EXCEPT ![j] = "queued"]

Move(j, to) ==
    /\ CanTransitionTo(state[j], to)
    /\ state' = [state EXCEPT ![j] = to]

Forget(j) ==
    /\ state[j] = "completed"
    /\ state' = [state EXCEPT ![j] = "deleted"]

(* A restart of the process moves every running job at once.               *)
Interrupt ==
    /\ \A j \in Jobs : state[j] \in ActiveStates => CanTransitionTo(state[j], "interrupted")
    /\ state' = [j \in Jobs |-> IF state[j] \in ActiveStates THEN "interrupted" ELSE state[j]]

Next ==
    \/ Interrupt
    \/ \E j \in Jobs :
        \/ Submit(j)
        \/ Forget(j)
        \/ \E to \in JobStates : Move(j, to)

Spec == Init /\ [][Next]_state
=============================================================================
