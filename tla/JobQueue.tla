------------------------------ MODULE JobQueue ------------------------------
(***************************************************************************)
(* The engine's job queue (crates/engine/src/jobs/queue.rs) over its       *)
(* durable store: clients that call the queue, the scheduler loop, one     *)
(* driver and one download task per started attempt, shutdown, a crash of  *)
(* the process at any point and the recovery of the next open.             *)
(*                                                                         *)
(* A step is what happens between two awaits.  Store transactions are the  *)
(* actions of JobStore; between two of them anyone else may run.           *)
(***************************************************************************)
EXTENDS JobStore, Sequences, FiniteSets

CONSTANTS
    Clients,      \* concurrent callers of the queue's methods
    Commands,     \* the methods they call, a subset of AllCommands
    PostStages,   \* the post-processing stages a selection may need
    MaxCrashes,   \* bound: how often the process may crash or exit
    MayShutdown,  \* whether the application shuts the queue down
    MayLag,       \* whether a driver may lose job events (broadcast overflow)
    Services,     \* how the queue may be opened: TRUE with a download service
    FaultyOps     \* operations that may fail for reasons outside the queue

AllCommands == {"enqueue", "pause", "resume", "cancel", "retry", "remove", "settings"}
AllFaults   == {"settings", "claim", "restore", "progress", "finish", "reconcile"}

ASSUME QueueAssumption ==
    /\ IsFiniteSet(Jobs)
    /\ Commands \subseteq AllCommands
    /\ PostStages \subseteq {"merging", "converting", "finalizing"} /\ PostStages # {}
    /\ MaxCrashes \in Nat
    /\ MayShutdown \in BOOLEAN /\ MayLag \in BOOLEAN
    /\ Services \subseteq BOOLEAN /\ Services # {}
    /\ FaultyOps \subseteq AllFaults

VARIABLES
    phase,      \* "open", or the process is "down" or still "opening" the queue
    recovering, \* jobs whose destination and owner manifest open still checks
    crashes,    \* history for MaxCrashes
    service,    \* the queue was opened with a download service
    closing,    \* closing and shutdown_interruption
    kicked,     \* scheduler_generation moved since the scheduler loaded it
    sched,      \* the scheduler loop
    active,     \* active[j]: the attempt whose JobControls the map holds, or None
    run,        \* run[j][a]: driver and download task of attempt a of job j
    client,     \* client[c]: the call client c has in progress
    shutdown,   \* the shutdown call
    requested   \* history: work was enqueued, resumed or retried since the open

volatileVars == <<service, closing, kicked, sched, active, run, client, shutdown, requested>>
vars == <<storeVars, phase, recovering, crashes, volatileVars>>

-----------------------------------------------------------------------------
(* Attempts identify runs: a job is claimed once per attempt.              *)

None     == 0
Attempts == 1..SequenceLimit

(* A run.  pc: "none"; "claimed" by the scheduler, not yet started;        *)
(* "driving" in drive_job's loop; "retaining" in finish_runtime after a    *)
(* pause has recorded its partials; "finished" and still in the active map.*)
(* stage, result: how far the download task is and how it ended.           *)
(* pending: the stage and progress events the driver has not persisted;    *)
(* a progress event that repeats the last pending stage is not counted.    *)
(* stop: what its JobControls ask for.                                     *)
Run == [pc      : {"none", "claimed", "driving", "retaining", "finished"},
        stage   : {"none"} \union Stages,
        pending : Seq(Stages),
        stop    : {"none", "pause", "cancel"},
        result  : {"none", "ok", "paused", "interrupted", "cancelled", "failed"}]

NoRun == [pc |-> "none", stage |-> "none", pending |-> <<>>,
          stop |-> "none", result |-> "none"]

(* A live run may have a process tree; it needs a slot.                    *)
IsLive(j, a) == run[j][a].pc = "driving" /\ run[j][a].result = "none"
LiveRuns == {ja \in Jobs \X Attempts : IsLive(ja[1], ja[2])}
Registered == {j \in Jobs : active[j] # None}

(* JobControls::pause keeps a stronger cancel; JobControls::cancel wins.   *)
PauseRun(r)  == [r EXCEPT !.stop = IF @ = "none" THEN "pause" ELSE @]
CancelRun(r) == [r EXCEPT !.stop = "cancel"]

SetRun(j, a, r) == run' = [run EXCEPT ![j][a] = r]

-----------------------------------------------------------------------------
(* The scheduler loop's position.  "registering" is between its decision   *)
(* to wait and the creation of the Notified future: notify_waiters reaches *)
(* only futures that exist.                                                *)

SchedPcs == {"stopped", "top", "settings", "count", "claim", "starting",
             "registering", "waiting"}
Sched == [pc : SchedPcs, limit : {0} \union Concurrencies, seen : Nat,
          job : Jobs \union {None}, attempt : {None} \union Attempts]
SchedAt(pc) == [pc |-> pc, limit |-> 0, seen |-> 0, job |-> None, attempt |-> None]

(* scheduler_notify.notify_waiters().                                      *)
Woken(s) == IF s.pc = "waiting" THEN SchedAt("top") ELSE s

(* kick_scheduler: a new generation, a notification, and a new loop unless *)
(* one is running.                                                         *)
KickScheduler ==
    /\ kicked' = TRUE
    /\ sched' = IF sched.pc = "stopped" THEN SchedAt("top") ELSE Woken(sched)

(* inactive_notify.notify_waiters(), as far as shutdown waits for it.      *)
NotifyShutdown == shutdown' = IF shutdown = "waiting" THEN "check" ELSE shutdown

(* release_scheduler: stop, unless work was requested since the generation *)
(* was loaded; then the loop continues (or the one just spawned does).     *)
ReleaseScheduler ==
    /\ sched' = SchedAt(IF kicked THEN "top" ELSE "stopped")
    /\ NotifyShutdown
    /\ UNCHANGED kicked

MayFail(op) == op \in FaultyOps

Open == phase = "open"

-----------------------------------------------------------------------------
(* Clients.  A call reads the job, acts on what it read, and may wait.     *)

ClientPcs == {"idle", "insert", "act", "requeue", "waiting", "kick"}
Client == [pc : ClientPcs, op : AllCommands \union {"none"}, job : Jobs \union {None},
           seen : JobStates \union {"none"}]
Idle == [pc |-> "idle", op |-> "none", job |-> None, seen |-> "none"]

Return(c)    == client' = [client EXCEPT ![c] = Idle]
GoTo(c, pc)  == client' = [client EXCEPT ![c].pc = pc]
At(c, pc, op) == Open /\ client[c].pc = pc /\ client[c].op = op

(* ensure_start_allowed.                                                   *)
StartAllowed == ~closing /\ service

(* The states in which each call on a job does not return InvalidState.    *)
Accepts(op) ==
    CASE op = "pause"  -> {"queued"} \union ActiveStates
      [] op = "cancel" -> {"queued"} \union ActiveStates \union RestingStates
      [] op = "resume" -> RestingStates
      [] op = "retry"  -> {"failed", "cancelled"}
      [] op = "remove" -> {"completed"}
      [] OTHER         -> {}

(* JobId::new_v7() gives every call an identity no other call has.         *)
CallEnqueue(c, j) ==
    /\ Open /\ client[c] = Idle
    /\ "enqueue" \in Commands
    /\ StartAllowed
    /\ jobs[j].state = "unused"
    /\ \A other \in Clients : client[other].job # j
    /\ client' = [client EXCEPT ![c].pc = "insert", ![c].op = "enqueue", ![c].job = j]
    /\ UNCHANGED <<storeVars, phase, recovering, crashes, service, closing, kicked,
                   sched, active, run, shutdown, requested>>

InsertEnqueued(c) ==
    /\ At(c, "insert", "enqueue")
    /\ \/ InsertJob(client[c].job) /\ GoTo(c, "kick")
       \/ ~CanTakeSequence /\ Return(c) /\ UNCHANGED storeVars
    /\ UNCHANGED <<phase, recovering, crashes, service, closing, kicked,
                   sched, active, run, shutdown, requested>>

(* emit and kick_scheduler, after an enqueue, resume, retry or a change of *)
(* the settings has been committed.                                        *)
Kick(c) ==
    /\ Open /\ client[c].pc = "kick"
    /\ KickScheduler
    /\ requested' = (requested \/ client[c].op # "settings")
    /\ Return(c)
    /\ UNCHANGED <<storeVars, phase, recovering, crashes, service, closing,
                   active, run, shutdown>>

(* Every call on a job starts with get; what follows uses the state read.  *)
CallOnJob(c, op, j) ==
    /\ Open /\ client[c] = Idle
    /\ op \in Commands
    /\ op \in {"resume", "retry"} => StartAllowed
    /\ jobs[j].state \in Accepts(op)
    /\ client' = [client EXCEPT ![c] =
                     [pc |-> IF op = "retry" THEN "requeue" ELSE "act",
                      op |-> op, job |-> j, seen |-> jobs[j].state]]
    /\ UNCHANGED <<storeVars, phase, recovering, crashes, service, closing, kicked,
                   sched, active, run, shutdown, requested>>

PauseQueued(c) ==
    LET j == client[c].job IN
    /\ At(c, "act", "pause") /\ client[c].seen = "queued"
    /\ IF MayWrite(jobs[j].state, "paused")
       THEN TransitionStopped(j, "paused")
       ELSE UNCHANGED storeVars
    /\ Return(c)
    /\ UNCHANGED <<phase, recovering, crashes, service, closing, kicked,
                   sched, active, run, shutdown, requested>>

(* pause and cancel of active work: signal the registered controls, if any *)
(* are registered, and wait.                                               *)
StopActive(c) ==
    LET j == client[c].job
        a == active[j] IN
    /\ Open /\ client[c].pc = "act"
    /\ client[c].op \in {"pause", "cancel"} /\ client[c].seen \in ActiveStates
    /\ \/ a = None /\ Return(c) /\ UNCHANGED run
       \/ /\ a # None
          /\ SetRun(j, a, IF client[c].op = "pause" THEN PauseRun(run[j][a])
                                                    ELSE CancelRun(run[j][a]))
          /\ GoTo(c, "waiting")
    /\ UNCHANGED <<storeVars, phase, recovering, crashes, service, closing, kicked,
                   sched, active, shutdown, requested>>

(* Mutant of SeeStopped: it does not take paused for stopped.              *)
SeeTerminal(c) ==
    /\ Open /\ client[c].pc = "waiting"
    /\ jobs[client[c].job].state \in TerminalStates
    /\ Return(c)
    /\ UNCHANGED <<storeVars, phase, recovering, crashes, service, closing, kicked,
                   sched, active, run, shutdown, requested>>

(* wait_until_stopped returns: it reads the job, and again at every event. *)
(* The state an event carries is one it could have read when it was sent.  *)
SeeStopped(c) ==
    /\ Open /\ client[c].pc = "waiting"
    /\ jobs[client[c].job].state \notin {"queued"} \union ActiveStates
    /\ Return(c)
    /\ UNCHANGED <<storeVars, phase, recovering, crashes, service, closing, kicked,
                   sched, active, run, shutdown, requested>>

(* cancel of a job read as queued or resting: the owned partial files are  *)
(* removed first; a failure of that leaves the row as it is.               *)
CancelStopped(c) ==
    LET j == client[c].job IN
    /\ At(c, "act", "cancel") /\ client[c].seen \notin ActiveStates
    /\ \/ MayWrite(jobs[j].state, "cancelled") /\ FinishJob(j, "cancelled")
       \/ /\ ~MayWrite(jobs[j].state, "cancelled") \/ MayFail("reconcile")
          /\ UNCHANGED storeVars
    /\ Return(c)
    /\ UNCHANGED <<phase, recovering, crashes, service, closing, kicked,
                   sched, active, run, shutdown, requested>>

(* resume waits until no driver is registered for the job; retry does not. *)
ResumeInactive(c) ==
    /\ At(c, "act", "resume")
    /\ active[client[c].job] = None
    /\ GoTo(c, "requeue")
    /\ UNCHANGED <<storeVars, phase, recovering, crashes, service, closing, kicked,
                   sched, active, run, shutdown, requested>>

RequeueJob(c) ==
    LET j == client[c].job IN
    /\ Open /\ client[c].pc = "requeue"
    /\ \/ Requeue(j, client[c].op) /\ GoTo(c, "kick")
       \/ /\ jobs[j].state \notin RequeueFrom(client[c].op) \/ ~CanTakeSequence
          /\ Return(c) /\ UNCHANGED storeVars
    /\ UNCHANGED <<phase, recovering, crashes, service, closing, kicked,
                   sched, active, run, shutdown, requested>>

RemoveCompleted(c) ==
    LET j == client[c].job IN
    /\ At(c, "act", "remove")
    /\ IF jobs[j].state = "completed" THEN DeleteCompleted(j) ELSE UNCHANGED storeVars
    /\ Return(c)
    /\ UNCHANGED <<phase, recovering, crashes, service, closing, kicked,
                   sched, active, run, shutdown, requested>>

ChangeSettings(c, limit) ==
    /\ Open /\ client[c] = Idle
    /\ "settings" \in Commands
    /\ UpdateSettings(limit)
    /\ client' = [client EXCEPT ![c].pc = "kick", ![c].op = "settings"]
    /\ UNCHANGED <<phase, recovering, crashes, service, closing, kicked,
                   sched, active, run, shutdown, requested>>

ClientStep(c) ==
    \/ InsertEnqueued(c) \/ Kick(c)
    \/ PauseQueued(c) \/ StopActive(c) \/ SeeStopped(c) \/ CancelStopped(c)
    \/ ResumeInactive(c) \/ RequeueJob(c) \/ RemoveCompleted(c)

ClientCall(c) ==
    \/ \E j \in Jobs : CallEnqueue(c, j)
    \/ \E op \in AllCommands, j \in Jobs : CallOnJob(c, op, j)
    \/ \E limit \in Concurrencies : ChangeSettings(c, limit)

-----------------------------------------------------------------------------
(* The scheduler loop.                                                     *)

SchedTop ==
    /\ Open /\ sched.pc = "top"
    /\ kicked' = FALSE
    /\ IF closing
       THEN sched' = SchedAt("stopped") /\ NotifyShutdown
       ELSE sched' = SchedAt("settings") /\ UNCHANGED shutdown
    /\ UNCHANGED <<storeVars, phase, recovering, crashes, service, closing,
                   active, run, client, requested>>

SchedSettings ==
    /\ Open /\ sched.pc = "settings"
    /\ \/ /\ sched' = [SchedAt("count") EXCEPT !.limit = concurrency]
          /\ UNCHANGED <<kicked, shutdown>>
       \/ MayFail("settings") /\ ReleaseScheduler
    /\ UNCHANGED <<storeVars, phase, recovering, crashes, service, closing,
                   active, run, client, requested>>

(* Mutant of SchedCount: one slot too many.                                *)
SchedCountOneMore ==
    /\ Open /\ sched.pc = "count"
    /\ LET seen == Cardinality(Registered) IN
       sched' = IF seen > sched.limit
                THEN SchedAt("registering")
                ELSE [SchedAt("claim") EXCEPT !.seen = seen]
    /\ UNCHANGED <<storeVars, phase, recovering, crashes, service, closing, kicked,
                   active, run, client, shutdown, requested>>

SchedCount ==
    /\ Open /\ sched.pc = "count"
    /\ LET seen == Cardinality(Registered) IN
       sched' = IF seen >= sched.limit
                THEN SchedAt("registering")
                ELSE [SchedAt("claim") EXCEPT !.seen = seen]
    /\ UNCHANGED <<storeVars, phase, recovering, crashes, service, closing, kicked,
                   active, run, client, shutdown, requested>>

SchedClaim(j) ==
    LET a == jobs[j].attempt IN
    /\ Open /\ sched.pc = "claim"
    /\ ClaimNext(j)
    /\ SetRun(j, a, [NoRun EXCEPT !.pc = "claimed"])
    /\ sched' = [SchedAt("starting") EXCEPT !.job = j, !.attempt = a]
    /\ UNCHANGED <<phase, recovering, crashes, service, closing, kicked,
                   active, client, shutdown, requested>>

SchedIdle ==
    /\ Open /\ sched.pc = "claim"
    /\ \/ InState({"queued"}) = {} /\ sched.seen = 0 /\ ReleaseScheduler
       \/ /\ InState({"queued"}) = {} /\ sched.seen # 0
          /\ sched' = SchedAt("registering")
          /\ UNCHANGED <<kicked, shutdown>>
       \/ MayFail("claim") /\ ReleaseScheduler
    /\ UNCHANGED <<storeVars, phase, recovering, crashes, service, closing,
                   active, run, client, requested>>

SchedRegister ==
    /\ Open /\ sched.pc = "registering"
    /\ sched' = SchedAt("waiting")
    /\ UNCHANGED <<storeVars, phase, recovering, crashes, service, closing, kicked,
                   active, run, client, shutdown, requested>>

(* A final state; a write that is refused or fails is dropped.             *)
WriteFinal(j, state) ==
    \/ MayWrite(jobs[j].state, state) /\ FinishJob(j, state)
    \/ /\ ~MayWrite(jobs[j].state, state) \/ MayFail("finish")
       /\ UNCHANGED storeVars

(* start_claimed: without a service the claimed job is simply left; a      *)
(* request that no longer validates fails the job; otherwise the download  *)
(* task and its driver start and the controls replace any registered ones. *)
SchedStart ==
    LET j == sched.job
        a == sched.attempt IN
    /\ Open /\ sched.pc = "starting"
    /\ sched' = SchedAt("top")
    /\ \/ /\ ~service
          /\ SetRun(j, a, NoRun)
          /\ UNCHANGED <<storeVars, active, shutdown>>
       \/ /\ service /\ MayFail("restore")
          /\ WriteFinal(j, "failed")
          /\ SetRun(j, a, NoRun)
          /\ UNCHANGED <<active, shutdown>>
       \/ /\ service
          /\ SetRun(j, a, [NoRun EXCEPT !.pc = "driving"])
          /\ active' = [active EXCEPT ![j] = a]
          /\ shutdown' = IF shutdown = "counted" THEN "overtaken" ELSE shutdown
          /\ UNCHANGED storeVars
    /\ UNCHANGED <<phase, recovering, crashes, service, closing, kicked, client, requested>>

SchedStep ==
    \/ SchedTop \/ SchedSettings \/ SchedCount \/ SchedIdle \/ SchedRegister \/ SchedStart
    \/ \E j \in Jobs : SchedClaim(j)

-----------------------------------------------------------------------------
(* The download task of a run (DownloadService::run_job).                  *)

OnlyRunChanges ==
    UNCHANGED <<storeVars, phase, recovering, crashes, service, closing, kicked,
                sched, active, client, shutdown, requested>>

FollowingStages(stage) ==
    IF stage = "downloading" THEN NextStages(stage) \intersect PostStages ELSE NextStages(stage)

(* ensure_running directly precedes every stage from merging on.           *)
Advance(j, a) ==
    /\ Open /\ IsLive(j, a)
    /\ \E stage \in FollowingStages(run[j][a].stage) :
        /\ stage \in {"merging", "converting", "finalizing"} => run[j][a].stop = "none"
        /\ SetRun(j, a, [run[j][a] EXCEPT !.stage = stage, !.pending = Append(@, stage)])
    /\ OnlyRunChanges

(* The stages a download reports progress in.                              *)
ReportingStages == {"downloading", "merging", "converting"}

(* Progress repeats the stage.  Warnings write nothing and are left out.   *)
ReportProgress(j, a) ==
    /\ Open /\ IsLive(j, a)
    /\ run[j][a].stage \in ReportingStages
    /\ run[j][a].pending = <<>>
    /\ SetRun(j, a, [run[j][a] EXCEPT !.pending = <<run[j][a].stage>>])
    /\ OnlyRunChanges

(* The broadcast channel keeps the newest events: a slow driver loses the  *)
(* oldest ones it has not received (RecvError::Lagged, ignored).  Once the *)
(* task has ended the gap also ends the drain: the rest is not read.       *)
LoseEvents(j, a) ==
    /\ Open /\ MayLag
    /\ run[j][a].pc = "driving" /\ Len(run[j][a].pending) >= 2
    /\ \/ SetRun(j, a, [run[j][a] EXCEPT !.pending = Tail(@)])
       \/ run[j][a].result # "none" /\ SetRun(j, a, [run[j][a] EXCEPT !.pending = <<>>])
    /\ OnlyRunChanges

(* The task may end in a failure at any time, successfully after the last  *)
(* stage even if it was told to stop meanwhile, and because of a stop with *)
(* what its controls then ask for.                                         *)
Outcomes(r) ==
    {"failed"}
    \union (IF r.stage = "finalizing" THEN {"ok"} ELSE {})
    \union (IF r.stop = "pause" THEN {"paused"} ELSE {})
    \union (IF r.stop = "cancel" THEN {"cancelled"} ELSE {})

EndTask(j, a) ==
    /\ Open /\ IsLive(j, a)
    /\ \E result \in Outcomes(run[j][a]) : SetRun(j, a, [run[j][a] EXCEPT !.result = result])
    /\ OnlyRunChanges
-----------------------------------------------------------------------------
(* The driver of a run (drive_job, persist_activity, finish_runtime).      *)

(* A download that has ended no longer reacts to its controls.             *)
Stopping(r, stopped) == IF r.result = "none" THEN stopped ELSE r

(* persist_activity: write the stage as the job's state, with the progress *)
(* if the event has some.  A write that is refused or fails cancels the    *)
(* download; while the queue is closing every event pauses it.             *)
PersistEvent(j, a) ==
    LET r     == run[j][a]
        stage == Head(r.pending)
        rest  == [r EXCEPT !.pending = Tail(@)]
        saves == IF StageHasState(stage) THEN MayWrite(jobs[j].state, stage) ELSE Present(j)
    IN
    /\ Open /\ r.pc = "driving" /\ r.pending # <<>>
    /\ \/ /\ saves
          /\ IF StageHasState(stage)
             THEN \E reports \in BOOLEAN :
                    /\ reports => stage \in ReportingStages
                    /\ SaveProgress(j, stage, reports)
             ELSE UNCHANGED storeVars
          /\ SetRun(j, a, IF closing THEN Stopping(rest, PauseRun(rest)) ELSE rest)
       \/ /\ ~saves \/ MayFail("progress")
          /\ SetRun(j, a, Stopping(rest, CancelRun(rest)))
          /\ UNCHANGED storeVars
    /\ UNCHANGED <<phase, recovering, crashes, service, closing, kicked,
                   sched, active, client, shutdown, requested>>

(* finish_runtime starts when the task has ended and its events are        *)
(* drained.                                                                *)
DriverIsDone(r) == r.pc = "driving" /\ r.pending = <<>> /\ r.result # "none"

FinalState(result) == IF result = "ok" THEN "completed" ELSE result

Finish(j, a) ==
    LET r == run[j][a] IN
    /\ Open /\ DriverIsDone(r) /\ r.result # "paused"
    /\ WriteFinal(j, FinalState(r.result))
    /\ SetRun(j, a, [r EXCEPT !.pc = "finished"])
    /\ UNCHANGED <<phase, recovering, crashes, service, closing, kicked,
                   sched, active, client, shutdown, requested>>

(* A paused run records the partial files it leaves before its final state,*)
(* which was chosen from shutdown_interruption before it looked at them.   *)
RetainPartials(j, a) ==
    LET r == run[j][a] IN
    /\ Open /\ DriverIsDone(r) /\ r.result = "paused"
    /\ \/ /\ Present(j)
          /\ \E some \in BOOLEAN : ReplaceOwnedPaths(j, some)
          /\ SetRun(j, a, [r EXCEPT !.pc = "retaining",
                                    !.result = IF closing THEN "interrupted" ELSE "paused"])
       \/ /\ Present(j) /\ MayFail("reconcile")
          /\ WriteFinal(j, "failed")
          /\ SetRun(j, a, [r EXCEPT !.pc = "finished"])
       \/ /\ ~Present(j) \/ MayFail("finish")
          /\ SetRun(j, a, [r EXCEPT !.pc = "finished"])
          /\ UNCHANGED storeVars
    /\ UNCHANGED <<phase, recovering, crashes, service, closing, kicked,
                   sched, active, client, shutdown, requested>>

FinishRetained(j, a) ==
    LET r == run[j][a] IN
    /\ Open /\ r.pc = "retaining"
    /\ WriteFinal(j, r.result)
    /\ SetRun(j, a, [r EXCEPT !.pc = "finished"])
    /\ UNCHANGED <<phase, recovering, crashes, service, closing, kicked,
                   sched, active, client, shutdown, requested>>

(* Mutant of Retire: the entry of the ended run stays in the active map.   *)
RetireKeepsEntry(j, a) ==
    /\ Open /\ run[j][a].pc = "finished"
    /\ SetRun(j, a, NoRun)
    /\ sched' = Woken(sched)
    /\ NotifyShutdown
    /\ UNCHANGED <<storeVars, phase, recovering, crashes, service, closing, kicked,
                   active, client, requested>>

(* The end of drive_job: the entry of the job is removed from the active   *)
(* map whoever owns it now, and the waiters are notified.                  *)
Retire(j, a) ==
    /\ Open /\ run[j][a].pc = "finished"
    /\ active' = [active EXCEPT ![j] = None]
    /\ SetRun(j, a, NoRun)
    /\ sched' = Woken(sched)
    /\ NotifyShutdown
    /\ UNCHANGED <<storeVars, phase, recovering, crashes, service, closing, kicked, client, requested>>

DriverStep(j, a) ==
    \/ PersistEvent(j, a) \/ Finish(j, a) \/ RetainPartials(j, a)
    \/ FinishRetained(j, a) \/ Retire(j, a)

-----------------------------------------------------------------------------
(* Shutdown.  It signals the runs registered when it looks, then waits     *)
(* until none is registered and the scheduler loop has ended.              *)

(* "counted" and "overtaken": the map was read as empty and the loop's flag *)
(* is read next; "overtaken" and "missed" are history, they tell that the  *)
(* scheduler started an attempt in between.  "done" and "missed" are Ok.   *)
ShutdownPcs == {"off", "collect", "check", "counted", "overtaken", "registering", "waiting",
                "done", "missed", "timedout"}

ShutdownBegin ==
    /\ Open /\ MayShutdown /\ shutdown = "off"
    /\ shutdown' = "collect"
    /\ closing' = TRUE
    /\ sched' = Woken(sched)
    /\ UNCHANGED <<storeVars, phase, recovering, crashes, service, kicked, active, run, client, requested>>

ShutdownCollect ==
    /\ Open /\ shutdown = "collect"
    /\ shutdown' = "check"
    /\ run' = [j \in Jobs |-> [a \in Attempts |->
                  IF active[j] = a THEN PauseRun(run[j][a]) ELSE run[j][a]]]
    /\ UNCHANGED <<storeVars, phase, recovering, crashes, service, closing, kicked,
                   sched, active, client, requested>>

(* The loop of shutdown reads two values one after the other, the active   *)
(* map under its lock and then scheduler_running.                          *)
ShutdownCount ==
    /\ Open /\ shutdown = "check"
    /\ shutdown' = IF Registered = {} THEN "counted" ELSE "registering"
    /\ UNCHANGED <<storeVars, phase, recovering, crashes, service, closing, kicked,
                   sched, active, run, client, requested>>

(* Mutant of ShutdownCheck: it does not wait for the scheduler loop.       *)
ShutdownCheckActive ==
    /\ Open /\ shutdown \in {"counted", "overtaken"}
    /\ shutdown' = IF shutdown = "counted" THEN "done" ELSE "missed"
    /\ UNCHANGED <<storeVars, phase, recovering, crashes, service, closing, kicked,
                   sched, active, run, client, requested>>

ShutdownCheck ==
    /\ Open /\ shutdown \in {"counted", "overtaken"}
    /\ shutdown' = IF sched.pc # "stopped" THEN "registering"
                   ELSE IF shutdown = "counted" THEN "done" ELSE "missed"
    /\ UNCHANGED <<storeVars, phase, recovering, crashes, service, closing, kicked,
                   sched, active, run, client, requested>>

ShutdownRegister ==
    /\ Open /\ shutdown = "registering"
    /\ shutdown' = "waiting"
    /\ UNCHANGED <<storeVars, phase, recovering, crashes, service, closing, kicked,
                   sched, active, run, client, requested>>

ShutdownTimeout ==
    /\ Open /\ shutdown \in {"check", "counted", "overtaken", "registering", "waiting"}
    /\ shutdown' = "timedout"
    /\ UNCHANGED <<storeVars, phase, recovering, crashes, service, closing, kicked,
                   sched, active, run, client, requested>>

-----------------------------------------------------------------------------
(* The process ends (exit, kill, power loss) and a later one opens the     *)
(* queue again: only the store survives.                                   *)

NoneActive == [j \in Jobs |-> None]
NoRuns     == [j \in Jobs |-> [a \in Attempts |-> NoRun]]
AllIdle    == [c \in Clients |-> Idle]

VolatileInit ==
    /\ closing = FALSE
    /\ kicked = FALSE
    /\ sched = SchedAt("stopped")
    /\ active = NoneActive
    /\ run = NoRuns
    /\ client = AllIdle
    /\ shutdown = "off"
    /\ requested = FALSE

ProcessEnds ==
    /\ phase' = "down"
    /\ recovering' = {}
    /\ closing' = FALSE
    /\ kicked' = FALSE
    /\ sched' = SchedAt("stopped")
    /\ active' = NoneActive
    /\ run' = NoRuns
    /\ client' = AllIdle
    /\ shutdown' = "off"
    /\ requested' = FALSE
    /\ UNCHANGED <<storeVars, service>>

Crash ==
    /\ phase # "down" /\ crashes < MaxCrashes
    /\ crashes' = crashes + 1
    /\ ProcessEnds

(* open_inner: the recovery transaction, then the retained jobs one by one.*)
OpenQueue ==
    /\ phase = "down"
    /\ phase' = "opening"
    /\ service' \in Services
    /\ RecoverActive
    /\ recovering' = {j \in Jobs : jobs[j]'.state \in RestingStates}
    /\ UNCHANGED <<crashes, closing, kicked, sched, active, run, client, shutdown, requested>>

(* A missing destination is recorded on the job; otherwise the partial     *)
(* files its owner manifest lists and that still exist are.                *)
RecoverJob(j) ==
    /\ phase = "opening" /\ j \in recovering
    /\ recovering' = recovering \ {j}
    /\ SetRecoveryFailure(j) \/ \E some \in BOOLEAN : ReplaceOwnedPaths(j, some)
    /\ UNCHANGED <<phase, crashes, volatileVars>>

(* Mutant of OpenReturns: opening the queue wakes its scheduler.           *)
OpenReturnsAndKicks ==
    /\ phase = "opening" /\ recovering = {}
    /\ phase' = "open"
    /\ KickScheduler
    /\ UNCHANGED <<storeVars, recovering, crashes, service, closing, active, run,
                   client, shutdown, requested>>

OpenReturns ==
    /\ phase = "opening" /\ recovering = {}
    /\ phase' = "open"
    /\ UNCHANGED <<storeVars, recovering, crashes, volatileVars>>

(* An owner manifest that cannot be read makes open return an error.       *)
OpenFails ==
    /\ phase = "opening" /\ recovering # {} /\ MayFail("reconcile")
    /\ crashes' = crashes
    /\ ProcessEnds

-----------------------------------------------------------------------------
Init ==
    /\ StoreInit
    /\ phase = "open"
    /\ recovering = {}
    /\ crashes = 0
    /\ service \in Services
    /\ VolatileInit

TaskStep(j, a) == Advance(j, a) \/ ReportProgress(j, a) \/ LoseEvents(j, a) \/ EndTask(j, a)

ShutdownStep ==
    \/ ShutdownBegin \/ ShutdownCollect \/ ShutdownCount \/ ShutdownCheck
    \/ ShutdownRegister \/ ShutdownTimeout

OpenStep == OpenQueue \/ OpenReturns \/ OpenFails \/ \E j \in Jobs : RecoverJob(j)

Next ==
    \/ \E c \in Clients : ClientCall(c) \/ ClientStep(c)
    \/ SchedStep
    \/ \E j \in Jobs, a \in Attempts : TaskStep(j, a) \/ DriverStep(j, a)
    \/ ShutdownStep
    \/ Crash \/ OpenStep

Spec == Init /\ [][Next]_vars

(* The runtime polls every task that is ready and blocking transactions    *)
(* return; every subprocess has a deadline, so a download ends.  Nothing   *)
(* obliges a user to call, an application to shut down or to reopen.       *)
Fairness ==
    /\ WF_vars(SchedStep)
    /\ \A c \in Clients : WF_vars(ClientStep(c))
    /\ \A j \in Jobs, a \in Attempts : WF_vars(EndTask(j, a)) /\ WF_vars(DriverStep(j, a))
    /\ WF_vars(ShutdownCollect \/ ShutdownCount \/ ShutdownCheck \/ ShutdownRegister)

FairSpec == Spec /\ Fairness

-----------------------------------------------------------------------------
(* Properties.                                                             *)

TypeOK ==
    /\ StoreTypeOK
    /\ phase \in {"open", "opening", "down"}
    /\ recovering \subseteq Jobs
    /\ crashes \in 0..MaxCrashes
    /\ service \in BOOLEAN /\ closing \in BOOLEAN /\ kicked \in BOOLEAN
    /\ sched \in Sched
    /\ active \in [Jobs -> {None} \union Attempts]
    /\ run \in [Jobs -> [Attempts -> Run]]
    /\ client \in [Clients -> Client]
    /\ shutdown \in ShutdownPcs
    /\ requested \in BOOLEAN

Drivers == {ja \in Jobs \X Attempts : run[ja[1]][ja[2]].pc \in {"driving", "retaining", "finished"}}

(* "Active count never exceeds the configured limit": no more downloads    *)
(* with a process tree than slots, whatever the interleaving.              *)
WithinLimit == Cardinality(LiveRuns) <= concurrency

(* The active map, which pause, cancel, resume, the slot count and         *)
(* shutdown all rely on, holds exactly the runs that have a driver: none   *)
(* is out of reach of its controls and no slot is lost.                    *)
DriversAreRegistered ==
    /\ \A ja \in Drivers : active[ja[1]] = ja[2]
    /\ \A j \in Registered : <<j, active[j]>> \in Drivers

(* A job the store shows as running is run by someone: nothing that could  *)
(* stop it has gone away without recording how it ended.                   *)
ActiveHasRun ==
    Open => \A j \in InState(ActiveStates) : \E a \in Attempts : run[j][a].pc # "none"

(* When shutdown returns success, and ever after, nothing runs and the     *)
(* store shows nothing as running, with one exception: an attempt that the *)
(* scheduler started after the map was read as empty and before its flag   *)
(* was read (queue.rs:537) runs on.  It is the only one, and no more can   *)
(* come.  The doc of shutdown (queue.rs:520) knows of no exception: it     *)
(* "records active work as interrupted".                                   *)
AllQuietBut(j, a) ==
    /\ \A k \in Jobs, b \in Attempts : <<k, b>> # <<j, a>> => run[k][b].pc = "none"
    /\ InState(ActiveStates) \subseteq {j}

ShutdownQuiescent ==
    /\ shutdown = "done" =>
          /\ \A j \in Jobs, a \in Attempts : run[j][a].pc = "none"
          /\ InState(ActiveStates) = {}
    /\ shutdown = "missed" =>
          /\ \E j \in Jobs, a \in Attempts : AllQuietBut(j, a)
          /\ sched.pc \in {"stopped", "top"}

(* The stages a job may show while its download is at a stage.             *)
MayShow(stage) ==
    CASE stage \in {"none", "analyzing"}     -> {"analyzing"}
      [] stage = "downloading"               -> {"analyzing", "downloading"}
      [] stage \in {"merging", "converting"} -> {"analyzing", "downloading", stage}
      [] OTHER                               -> ActiveStates

(* The store never runs ahead of the download: a stage it shows is one the *)
(* job's own run has reached, whichever events were dropped, refused or    *)
(* repeated, and no event of an earlier attempt shows on a later one.      *)
StoreTrailsDownload ==
    \A j \in Jobs, a \in Attempts :
        run[j][a].pc # "none" /\ jobs[j].state \in ActiveStates =>
            jobs[j].state \in MayShow(run[j][a].stage)

(* A job that the store shows as stopped has no download in progress.      *)
StoppedMeansQuiet ==
    \A ja \in LiveRuns : jobs[ja[1]].state \notin StoppedStates

(* Opening a queue starts nothing: the scheduler runs only after a client  *)
(* enqueued, resumed or retried a job in this process.                     *)
SchedulerOnlyOnRequest == sched.pc # "stopped" => requested

(* Work that runs eventually stops, in the store as well.                  *)
ActiveEventuallyStops ==
    \A j \in Jobs : jobs[j].state \in ActiveStates ~> jobs[j].state \notin ActiveStates

(* Every call returns.                                                     *)
CallsReturn == \A c \in Clients : client[c].pc # "idle" ~> client[c].pc = "idle"

(* A queued job does not wait forever while slots become free.             *)
QueuedEventuallyLeaves ==
    \A j \in Jobs : jobs[j].state = "queued" ~> jobs[j].state # "queued"
=============================================================================
