------------------------------ MODULE JobStore ------------------------------
(***************************************************************************)
(* The durable job store (crates/engine/src/jobs/storage.rs): the jobs     *)
(* table, the queue_meta row and the settings row.  One action per         *)
(* transaction; operation_lock and SQLite make each one atomic, and a      *)
(* transaction whose check fails changes nothing.                          *)
(*                                                                         *)
(* StoreSpec lets the transactions happen in any order, with the arguments *)
(* the queue passes them; JobQueue builds its actions from them.  It is    *)
(* shown to implement JobHistory.  A definition whose comment says Mutant  *)
(* is a plausible bug that a property catches when it takes the place of   *)
(* the one it mutates.                                                     *)
(***************************************************************************)
EXTENDS Integers, JobLifecycle

CONSTANTS
    Jobs,           \* job identities (UUIDv7 in the code: never reused)
    SequenceLimit,  \* take_queue_sequence refuses to advance past it (i64::MAX)
    Concurrencies   \* the values the queue_concurrency setting may take (1..4)

ASSUME StoreAssumption ==
    /\ SequenceLimit \in Nat \ {0}
    /\ Concurrencies \subseteq 1..4
    /\ Concurrencies # {}

VARIABLES
    jobs,           \* jobs[j]: the row of job j
    nextSequence,   \* queue_meta.next_sequence
    concurrency     \* settings.queue_concurrency

storeVars == <<jobs, nextSequence, concurrency>>

(* A row: "unused" before the insert, "deleted" after the history removal. *)
(* error: error_class is set; output: final_path is set; progress:         *)
(* progress_json is set; partials: the job has rows in owned_paths.        *)
Row == [state    : JobStates \union {"unused", "deleted"},
        attempt  : Nat,
        sequence : Nat,
        error    : BOOLEAN,
        output   : BOOLEAN,
        progress : BOOLEAN,
        partials : BOOLEAN]

NoRow(state) == [state |-> state, attempt |-> 0, sequence |-> 0,
                 error |-> FALSE, output |-> FALSE, progress |-> FALSE,
                 partials |-> FALSE]

Present(j)  == jobs[j].state \in JobStates
InState(S)  == {j \in Jobs : jobs[j].state \in S}

StoreTypeOK ==
    /\ jobs \in [Jobs -> Row]
    /\ nextSequence \in 1..SequenceLimit
    /\ concurrency \in Concurrencies

StoreInit ==
    /\ jobs = [j \in Jobs |-> NoRow("unused")]
    /\ nextSequence = 1
    /\ concurrency \in Concurrencies

-----------------------------------------------------------------------------
(* The transactions.                                                       *)

(* Mutant of CanTakeSequence: one past the last value.                     *)
CanTakeOneMore == nextSequence <= SequenceLimit

(* take_queue_sequence: checked_add refuses to run past the last value.    *)
CanTakeSequence == nextSequence < SequenceLimit

InsertJob(j) ==
    /\ jobs[j].state = "unused"
    /\ CanTakeSequence
    /\ jobs' = [jobs EXCEPT ![j] = [NoRow("queued") EXCEPT !.attempt = 1,
                                                         !.sequence = nextSequence]]
    /\ nextSequence' = nextSequence + 1
    /\ UNCHANGED concurrency

(* The queued job claim_next selects: ORDER BY queue_sequence ASC LIMIT 1. *)
IsNextInLine(j) ==
    /\ jobs[j].state = "queued"
    /\ \A k \in InState({"queued"}) : jobs[j].sequence <= jobs[k].sequence

ClaimNext(j) ==
    /\ IsNextInLine(j)
    /\ jobs' = [jobs EXCEPT ![j].state = "analyzing"]
    /\ UNCHANGED <<nextSequence, concurrency>>

(* A stage alone keeps the progress there is (COALESCE), a report sets it. *)
SaveProgress(j, state, reports) ==
    /\ MayWrite(jobs[j].state, state)
    /\ jobs' = [jobs EXCEPT ![j].state = state, ![j].progress = @ \/ reports]
    /\ UNCHANGED <<nextSequence, concurrency>>

(* Callers pass a failure exactly with "failed" and an output exactly with *)
(* "completed"; the two columns are overwritten either way.                *)
FinishJob(j, state) ==
    /\ MayWrite(jobs[j].state, state)
    /\ jobs' = [jobs EXCEPT ![j].state = state,
                            ![j].error = (state = "failed"),
                            ![j].output = (state = "completed"),
                            ![j].partials = @ /\ state \notin {"completed", "cancelled"}]
    /\ UNCHANGED <<nextSequence, concurrency>>

TransitionStopped(j, state) ==
    /\ MayWrite(jobs[j].state, state)
    /\ jobs' = [jobs EXCEPT ![j].state = state]
    /\ UNCHANGED <<nextSequence, concurrency>>

(* Mutant of RequeueFrom: any terminal state may be retried.               *)
RequeueFromTerminal(kind) == IF kind = "resume" THEN RestingStates ELSE TerminalStates

(* RequeueKind::Resume and RequeueKind::Retry: the states each starts from. *)
RequeueFrom(kind) == IF kind = "resume" THEN RestingStates ELSE {"failed", "cancelled"}

(* Mutants of Requeue: the sequence is read but not advanced; the last     *)
(* attempt's failure stays; the job keeps its old place in the queue.      *)
RequeueSameSequence(j, kind) ==
    /\ jobs[j].state \in RequeueFrom(kind)
    /\ jobs' = [jobs EXCEPT ![j].state = "queued",
                            ![j].attempt = @ + 1,
                            ![j].sequence = nextSequence,
                            ![j].error = FALSE]
    /\ UNCHANGED <<nextSequence, concurrency>>

RequeueKeepsFailure(j, kind) ==
    /\ jobs[j].state \in RequeueFrom(kind)
    /\ CanTakeSequence
    /\ jobs' = [jobs EXCEPT ![j].state = "queued",
                            ![j].attempt = @ + 1,
                            ![j].sequence = nextSequence]
    /\ nextSequence' = nextSequence + 1
    /\ UNCHANGED concurrency

RequeueInPlace(j, kind) ==
    /\ jobs[j].state \in RequeueFrom(kind)
    /\ jobs' = [jobs EXCEPT ![j].state = "queued",
                            ![j].attempt = @ + 1,
                            ![j].error = FALSE]
    /\ UNCHANGED <<nextSequence, concurrency>>

(* The columns of the last attempt are cleared, all but progress_json.     *)
Requeue(j, kind) ==
    /\ jobs[j].state \in RequeueFrom(kind)
    /\ CanTakeSequence
    /\ jobs' = [jobs EXCEPT ![j].state = "queued",
                            ![j].attempt = @ + 1,
                            ![j].sequence = nextSequence,
                            ![j].error = FALSE,
                            ![j].output = FALSE]
    /\ nextSequence' = nextSequence + 1
    /\ UNCHANGED concurrency

(* Mutant of RecoverActive: it forgets the state a claim leaves.           *)
RecoverTransfers ==
    /\ jobs' = [j \in Jobs |-> IF jobs[j].state \in ActiveStates \ {"analyzing"}
                               THEN [jobs[j] EXCEPT !.state = "interrupted", !.error = TRUE]
                               ELSE jobs[j]]
    /\ UNCHANGED <<nextSequence, concurrency>>

(* One transaction interrupts every process-active job of the last process. *)
RecoverActive ==
    /\ jobs' = [j \in Jobs |-> IF jobs[j].state \in ActiveStates
                               THEN [jobs[j] EXCEPT !.state = "interrupted", !.error = TRUE]
                               ELSE jobs[j]]
    /\ UNCHANGED <<nextSequence, concurrency>>

SetRecoveryFailure(j) ==
    /\ jobs[j].state \in RestingStates
    /\ jobs' = [jobs EXCEPT ![j].error = TRUE]
    /\ UNCHANGED <<nextSequence, concurrency>>

(* owned_paths references jobs: recording a path needs the row.            *)
ReplaceOwnedPaths(j, some) ==
    /\ Present(j)
    /\ jobs' = [jobs EXCEPT ![j].partials = some]
    /\ UNCHANGED <<nextSequence, concurrency>>

DeleteCompleted(j) ==
    /\ jobs[j].state = "completed"
    /\ jobs' = [jobs EXCEPT ![j] = NoRow("deleted")]
    /\ UNCHANGED <<nextSequence, concurrency>>

UpdateSettings(limit) ==
    /\ limit \in Concurrencies
    /\ concurrency' = limit
    /\ UNCHANGED <<jobs, nextSequence>>

StoreNext ==
    \/ RecoverActive
    \/ \E limit \in Concurrencies : UpdateSettings(limit)
    \/ \E j \in Jobs :
        \/ InsertJob(j)
        \/ ClaimNext(j)
        \/ \E state \in ActiveStates, reports \in BOOLEAN : SaveProgress(j, state, reports)
        \/ \E state \in StoppedStates : FinishJob(j, state)
        \/ TransitionStopped(j, "paused")
        \/ \E kind \in {"resume", "retry"} : Requeue(j, kind)
        \/ SetRecoveryFailure(j)
        \/ \E some \in BOOLEAN : ReplaceOwnedPaths(j, some)
        \/ DeleteCompleted(j)

StoreSpec == StoreInit /\ [][StoreNext]_storeVars

-----------------------------------------------------------------------------
(* Properties.                                                             *)

(* The queue order is total: no two jobs ever share a queue_sequence and   *)
(* none has one that is still to be given out (jobs_queue_sequence is a    *)
(* UNIQUE index: a duplicate would make an enqueue or a retry fail).       *)
QueueOrder ==
    \A j \in Jobs : Present(j) =>
        /\ jobs[j].sequence \in 1..(nextSequence - 1)
        /\ \A k \in Jobs \ {j} : Present(k) => jobs[k].sequence # jobs[j].sequence

(* What a snapshot shows of the end of a job is of its last attempt: an    *)
(* output exactly on completed jobs, a failure on every failed one, and    *)
(* none left over from an earlier attempt on a job that is queued, runs or *)
(* ended well.  The progress is the exception: a requeue keeps the last    *)
(* attempt's (storage.rs:604), so a job that waits again shows it beside   *)
(* its raised attempt_count; on a job that never ran there is none.        *)
RowConsistent ==
    \A j \in Jobs :
        /\ jobs[j].output <=> jobs[j].state = "completed"
        /\ jobs[j].state = "failed" => jobs[j].error
        /\ jobs[j].error => jobs[j].state \in {"failed", "paused", "interrupted"}
        /\ Present(j) => jobs[j].attempt >= 1
        /\ jobs[j].state = "queued" /\ jobs[j].progress => jobs[j].attempt > 1

(* An enqueue, a resume and a retry put the job behind every other job, a  *)
(* resume and a retry count one more attempt, and nothing else moves a job *)
(* in the queue order or changes its attempt count.                        *)
GoesToTheTail(j) ==
    /\ jobs[j]'.attempt = jobs[j].attempt + 1
    /\ \A k \in Jobs \ {j} : Present(k) => jobs[k].sequence < jobs[j]'.sequence

QueuePlacesAreStable ==
    [][\A j \in Jobs :
          IF jobs[j]'.state = "queued" /\ jobs[j].state # "queued"
          THEN GoesToTheTail(j)
          ELSE \/ jobs[j]'.state = "deleted"
               \/ jobs[j]'.sequence = jobs[j].sequence /\ jobs[j]'.attempt = jobs[j].attempt]_storeVars

(* Every state a reader can see follows from the last one by a validated   *)
(* transition, whichever transaction wrote it.                             *)
History == INSTANCE JobHistory WITH state <- [j \in Jobs |-> jobs[j].state]
ImplementsHistory == History!Spec
=============================================================================
