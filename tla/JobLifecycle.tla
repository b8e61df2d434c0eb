---------------------------- MODULE JobLifecycle ----------------------------
(***************************************************************************)
(* The lifecycle of a durable job (crates/engine/src/jobs/model.rs) and    *)
(* the stages of one download attempt (crates/engine/src/download/         *)
(* service.rs).  Every other module takes its states from here.            *)
(***************************************************************************)

ActiveStates   == {"analyzing", "downloading", "merging", "converting"}
TerminalStates == {"completed", "cancelled", "failed"}
RestingStates  == {"paused", "interrupted"}
StoppedStates  == TerminalStates \union RestingStates
JobStates      == {"queued"} \union ActiveStates \union StoppedStates

(***************************************************************************)
(* The validated transitions: <<from, set of next states>>.                *)
(***************************************************************************)
Successors(from) ==
    CASE from = "queued"      -> {"analyzing", "paused", "cancelled", "failed"}
      [] from = "analyzing"   -> {"downloading", "cancelled", "failed"} \union RestingStates
      [] from = "downloading" -> {"merging", "converting"} \union StoppedStates
      [] from = "merging"     -> {"converting"} \union StoppedStates
      [] from = "converting"  -> StoppedStates
      [] from \in RestingStates         -> {"queued", "cancelled"}
      [] from \in {"cancelled", "failed"} -> {"queued"}
      [] OTHER                -> {}

(* Mutant of CanTransitionTo: a download always needs post-processing.     *)
CannotCompleteDownload(from, to) ==
    to \in Successors(from) /\ <<from, to>> # <<"downloading", "completed">>

CanTransitionTo(from, to) == to \in Successors(from)

(***************************************************************************)
(* The check every write of a state makes: a write of the state the job    *)
(* already has is accepted, any other must be a valid transition.          *)
(***************************************************************************)
MayWrite(from, to) ==
    \/ from = to /\ from \in JobStates
    \/ CanTransitionTo(from, to)

-----------------------------------------------------------------------------
(* The stages an attempt reports while it runs; "none" is before the first. *)

Stages == ActiveStates \union {"finalizing"}

(* The stage that may follow the current one as long as the attempt runs.  *)
NextStages(stage) ==
    CASE stage = "none"        -> {"analyzing"}
      [] stage = "analyzing"   -> {"downloading"}
      [] stage = "downloading" -> {"merging", "converting", "finalizing"}
      [] stage \in {"merging", "converting"} -> {"finalizing"}
      [] OTHER                 -> {}

(* A stage is persisted as the state of the same name; finalizing is not.  *)
StageHasState(stage) == stage \in ActiveStates
=============================================================================
