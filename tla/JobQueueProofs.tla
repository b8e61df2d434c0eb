--------------------------- MODULE JobQueueProofs ---------------------------
(***************************************************************************)
(* What TLAPS proves of the queue for every finite set of jobs, any number *)
(* of clients, every set of commands and faults and every bound: its       *)
(* variables keep their types, and whatever clients, scheduler, drivers,   *)
(* shutdown, crashes and recovery do, in any interleaving, they change the *)
(* store only as JobStore allows.  What is proved of JobStore then holds   *)
(* of the queue.  The second half follows the runs: the active map, the    *)
(* limit, the jobs that are active in the store, and shutdown.             *)
(***************************************************************************)
EXTENDS JobQueue, JobStoreProofs, SequenceTheorems, FiniteSetTheorems

(* The volatile part of the type invariant, one definition per variable    *)
(* whose type needs an argument.                                           *)
RunTypeOK    == run \in [Jobs -> [Attempts -> Run]]
ClientTypeOK == client \in [Clients -> Client]
SchedTypeOK  == sched \in Sched
ActiveTypeOK == active \in [Jobs -> {None} \union Attempts]
FlagsTypeOK ==
    /\ phase \in {"open", "opening", "down"}
    /\ recovering \subseteq Jobs
    /\ crashes \in 0..MaxCrashes
    /\ service \in BOOLEAN /\ closing \in BOOLEAN /\ kicked \in BOOLEAN
    /\ shutdown \in ShutdownPcs
    /\ requested \in BOOLEAN

(* A call that is under way on a job has its identity, only resume and     *)
(* retry requeue, and the scheduler starts a job it has claimed.           *)
CallsHaveJobs ==
    \A c \in Clients :
        /\ client[c].pc \in {"insert", "act", "requeue", "waiting"} => client[c].job \in Jobs
        /\ client[c].pc = "requeue" => client[c].op \in {"resume", "retry"}

StartHasJob == sched.pc = "starting" => sched.job \in Jobs /\ sched.attempt \in Attempts

(* The inductive invariant.                                                *)
IInv ==
    /\ StoreTypeOK /\ QueueOrder /\ AttemptsFit
    /\ RunTypeOK /\ ClientTypeOK /\ SchedTypeOK /\ ActiveTypeOK /\ FlagsTypeOK
    /\ CallsHaveJobs /\ StartHasJob

LEMMA IInvImpliesType == IInv => TypeOK
  BY DEF IInv, TypeOK, RunTypeOK, ClientTypeOK, SchedTypeOK, ActiveTypeOK, FlagsTypeOK

-----------------------------------------------------------------------------
(* Every step of the queue is at most one transaction of the store, and    *)
(* only a client's resume or retry requeues a job.                         *)

StoreWrite ==
    \/ RecoverActive
    \/ \E limit \in Concurrencies : UpdateSettings(limit)
    \/ \E j \in Jobs :
        \/ InsertJob(j)
        \/ ClaimNext(j)
        \/ \E state \in ActiveStates, reports \in BOOLEAN : SaveProgress(j, state, reports)
        \/ \E state \in StoppedStates : FinishJob(j, state)
        \/ TransitionStopped(j, "paused")
        \/ SetRecoveryFailure(j)
        \/ \E some \in BOOLEAN : ReplaceOwnedPaths(j, some)
        \/ DeleteCompleted(j)

LEMMA FinalStatesAreStopped ==
    ASSUME NEW r \in Run, r.result # "none"
    PROVE  FinalState(r.result) \in StoppedStates
  BY DEF Run, FinalState, StoppedStates, TerminalStates, RestingStates

LEMMA WriteFinalIsTransaction ==
    ASSUME NEW j \in Jobs, NEW state, state \in StoppedStates \/ state \notin JobStates,
           WriteFinal(j, state)
    PROVE  [StoreWrite]_storeVars
<1>1. CASE UNCHANGED storeVars
  BY <1>1
<1>2. CASE MayWrite(jobs[j].state, state) /\ FinishJob(j, state)
  <2>1. state \in StoppedStates
    BY <1>2, WritesNeedRow, WritesRespectTable
  <2> QED
    BY <1>2, <2>1 DEF StoreWrite
<1> QED
  BY <1>1, <1>2 DEF WriteFinal

LEMMA ClientStoreStep ==
    ASSUME IInv, NEW c \in Clients, ClientCall(c) \/ ClientStep(c)
    PROVE  RequeueJob(c) \/ [StoreWrite]_storeVars
<1> USE DEF IInv, CallsHaveJobs, At
<1>1. ASSUME NEW j \in Jobs, CallEnqueue(c, j) PROVE UNCHANGED storeVars
  BY <1>1 DEF CallEnqueue
<1>2. ASSUME NEW op \in AllCommands, NEW j \in Jobs, CallOnJob(c, op, j) PROVE UNCHANGED storeVars
  BY <1>2 DEF CallOnJob
<1>3. ASSUME NEW limit \in Concurrencies, ChangeSettings(c, limit) PROVE StoreWrite
  BY <1>3 DEF ChangeSettings, StoreWrite
<1>4. CASE InsertEnqueued(c)
  BY <1>4 DEF InsertEnqueued, StoreWrite
<1>5. CASE Kick(c)
  BY <1>5 DEF Kick
<1>6. CASE PauseQueued(c)
  BY <1>6 DEF PauseQueued, StoreWrite
<1>7. CASE StopActive(c)
  BY <1>7 DEF StopActive
<1>8. CASE SeeStopped(c)
  BY <1>8 DEF SeeStopped
<1>9. CASE CancelStopped(c)
  <2>1. "cancelled" \in StoppedStates /\ client[c].job \in Jobs
    BY <1>9, StatesDiffer DEF CancelStopped
  <2> QED
    BY <1>9, <2>1 DEF CancelStopped, StoreWrite
<1>10. CASE ResumeInactive(c)
  BY <1>10 DEF ResumeInactive
<1>11. CASE RemoveCompleted(c)
  BY <1>11 DEF RemoveCompleted, StoreWrite
<1> QED
  BY <1>1, <1>2, <1>3, <1>4, <1>5, <1>6, <1>7, <1>8, <1>9, <1>10, <1>11
     DEF ClientCall, ClientStep

LEMMA SchedStoreStep ==
    ASSUME IInv, SchedStep
    PROVE  [StoreWrite]_storeVars
<1>1. CASE SchedTop
  BY <1>1 DEF SchedTop
<1>2. CASE SchedSettings
  BY <1>2 DEF SchedSettings
<1>3. CASE SchedCount
  BY <1>3 DEF SchedCount
<1>4. CASE SchedIdle
  BY <1>4 DEF SchedIdle
<1>5. CASE SchedRegister
  BY <1>5 DEF SchedRegister
<1>6. CASE SchedStart
  <2>1. sched.job \in Jobs /\ "failed" \in StoppedStates
    BY <1>6, StatesDiffer DEF SchedStart, IInv, StartHasJob
  <2>2. UNCHANGED storeVars \/ WriteFinal(sched.job, "failed")
    BY <1>6 DEF SchedStart
  <2> QED
    BY <2>1, <2>2, WriteFinalIsTransaction
<1>7. ASSUME NEW j \in Jobs, SchedClaim(j) PROVE StoreWrite
  BY <1>7 DEF SchedClaim, StoreWrite
<1> QED
  BY <1>1, <1>2, <1>3, <1>4, <1>5, <1>6, <1>7 DEF SchedStep

(* What persisting an event may write.                                     *)
LEMMA PersistSaves ==
    ASSUME NEW j, NEW a, PersistEvent(j, a)
    PROVE  \/ UNCHANGED storeVars
           \/ \E reports \in BOOLEAN : /\ StageHasState(Head(run[j][a].pending))
                                      /\ SaveProgress(j, Head(run[j][a].pending), reports)
<1> DEFINE stage == Head(run[j][a].pending)
<1> SUFFICES ASSUME ~UNCHANGED storeVars
             PROVE  \E reports \in BOOLEAN : StageHasState(stage) /\ SaveProgress(j, stage, reports)
    OBVIOUS
<1>1. StageHasState(stage)
  BY DEF PersistEvent
<1>2. PICK reports \in BOOLEAN : SaveProgress(j, stage, reports)
  BY <1>1 DEF PersistEvent
<1> QED
  BY <1>1, <1>2

LEMMA RunStoreStep ==
    ASSUME IInv, NEW j \in Jobs, NEW a \in Attempts, TaskStep(j, a) \/ DriverStep(j, a)
    PROVE  [StoreWrite]_storeVars
<1>a. run[j][a] \in Run
  BY DEF IInv, RunTypeOK
<1>1. CASE TaskStep(j, a)
  BY <1>1 DEF TaskStep, Advance, ReportProgress, LoseEvents, EndTask, OnlyRunChanges
<1>2. CASE PersistEvent(j, a)
  <2> DEFINE stage == Head(run[j][a].pending)
  <2>1. \/ UNCHANGED storeVars
        \/ \E reports \in BOOLEAN : StageHasState(stage) /\ SaveProgress(j, stage, reports)
    BY <1>2, PersistSaves
  <2> QED
    BY <2>1 DEF StageHasState, StoreWrite
<1>3. CASE Finish(j, a)
  <2>1. WriteFinal(j, FinalState(run[j][a].result)) /\ run[j][a].result # "none"
    BY <1>3 DEF Finish, DriverIsDone
  <2> QED
    BY <1>a, <2>1, FinalStatesAreStopped, WriteFinalIsTransaction
<1>4. CASE RetainPartials(j, a)
  <2>1. \/ UNCHANGED storeVars
        \/ WriteFinal(j, "failed")
        \/ \E some \in BOOLEAN : ReplaceOwnedPaths(j, some)
    BY <1>4 DEF RetainPartials
  <2>2. CASE WriteFinal(j, "failed")
    BY <2>2, StatesDiffer, WriteFinalIsTransaction
  <2>3. ASSUME NEW some \in BOOLEAN, ReplaceOwnedPaths(j, some) PROVE StoreWrite
    BY <2>3 DEF StoreWrite
  <2> QED
    BY <2>1, <2>2, <2>3
<1>5. CASE FinishRetained(j, a)
  <2>1. WriteFinal(j, run[j][a].result)
    BY <1>5 DEF FinishRetained
  <2>2. run[j][a].result \in StoppedStates \/ run[j][a].result \notin JobStates
    BY <1>a DEF Run, JobStates, StoppedStates, TerminalStates, RestingStates, ActiveStates
  <2> QED
    BY <2>1, <2>2, WriteFinalIsTransaction
<1>6. CASE Retire(j, a)
  BY <1>6 DEF Retire
<1> QED
  BY <1>1, <1>2, <1>3, <1>4, <1>5, <1>6 DEF DriverStep

LEMMA StoreWriteStep ==
    ASSUME IInv, [Next]_vars
    PROVE  (\E c \in Clients : RequeueJob(c)) \/ [StoreWrite]_storeVars
<1>1. CASE ShutdownStep
  BY <1>1 DEF ShutdownStep, ShutdownBegin, ShutdownCount, ShutdownCollect, ShutdownCheck, ShutdownRegister,
     ShutdownTimeout
<1>2. CASE Crash
  BY <1>2 DEF Crash, ProcessEnds
<1>3. CASE OpenStep
  <2>1. CASE OpenQueue
    BY <2>1 DEF OpenQueue, StoreWrite
  <2>2. ASSUME NEW j \in Jobs, RecoverJob(j) PROVE StoreWrite
    BY <2>2 DEF RecoverJob, StoreWrite
  <2>3. CASE OpenReturns
    BY <2>3 DEF OpenReturns
  <2>4. CASE OpenFails
    BY <2>4 DEF OpenFails, ProcessEnds
  <2> QED
    BY <1>3, <2>1, <2>2, <2>3, <2>4 DEF OpenStep
<1>4. CASE UNCHANGED vars
  BY <1>4 DEF vars, storeVars
<1> QED
  BY <1>1, <1>2, <1>3, <1>4, ClientStoreStep, SchedStoreStep, RunStoreStep DEF Next

LEMMA StoreStep == IInv /\ [Next]_vars => [StoreNext]_storeVars
<1> SUFFICES ASSUME IInv, [Next]_vars PROVE [StoreNext]_storeVars
    OBVIOUS
<1>1. ASSUME NEW c \in Clients, RequeueJob(c) PROVE [StoreNext]_storeVars
  <2>1. client[c].job \in Jobs /\ client[c].op \in {"resume", "retry"}
    BY <1>1 DEF RequeueJob, IInv, CallsHaveJobs
  <2>2. Requeue(client[c].job, client[c].op) \/ UNCHANGED storeVars
    BY <1>1 DEF RequeueJob
  <2> QED
    BY <2>1, <2>2 DEF StoreNext
<1>2. CASE [StoreWrite]_storeVars
  BY <1>2 DEF StoreWrite, StoreNext
<1> QED
  BY <1>1, <1>2, StoreWriteStep

-----------------------------------------------------------------------------
(* Types of the runs.                                                      *)

LEMMA NoRunIsRun == NoRun \in Run
<1>1. <<>> \in Seq(Stages)
  BY EmptySeq
<1> QED
  BY <1>1 DEF NoRun, Run

LEMMA RunUpdates ==
    ASSUME RunTypeOK, NEW j, NEW a, NEW r,
           j \in Jobs /\ a \in Attempts => r \in Run,
           SetRun(j, a, r)
    PROVE  RunTypeOK'
  BY DEF RunTypeOK, SetRun

LEMMA StopsAreRuns ==
    ASSUME NEW r \in Run
    PROVE  PauseRun(r) \in Run /\ CancelRun(r) \in Run
  BY DEF Run, PauseRun, CancelRun

LEMMA StagesTyped == \A stage : NextStages(stage) \subseteq Stages
  BY DEF NextStages, Stages, ActiveStates

LEMMA TaskRunType ==
    ASSUME IInv, NEW j \in Jobs, NEW a \in Attempts, TaskStep(j, a)
    PROVE  RunTypeOK'
<1> DEFINE r == run[j][a]
<1>a. r \in Run /\ r.pending \in Seq(Stages) /\ RunTypeOK
  BY DEF IInv, RunTypeOK, Run
<1> HIDE DEF r
<1>1. CASE Advance(j, a)
  <2>1. PICK stage \in FollowingStages(r.stage) :
            SetRun(j, a, [r EXCEPT !.stage = stage, !.pending = Append(@, stage)])
    BY <1>1 DEF Advance, r
  <2>2. stage \in Stages
    BY StagesTyped DEF FollowingStages
  <2>3. Append(r.pending, stage) \in Seq(Stages)
    BY <1>a, <2>2, AppendProperties
  <2>4. [r EXCEPT !.stage = stage, !.pending = Append(@, stage)] \in Run
    BY <1>a, <2>2, <2>3 DEF Run
  <2> QED
    BY <1>a, <2>1, <2>4, RunUpdates
<1>2. CASE ReportProgress(j, a)
  <2>1. r.stage \in Stages /\ SetRun(j, a, [r EXCEPT !.pending = <<r.stage>>])
    BY <1>2 DEF ReportProgress, ReportingStages, r, Stages, ActiveStates
  <2>2. <<r.stage>> \in Seq(Stages)
    BY <2>1
  <2>3. [r EXCEPT !.pending = <<r.stage>>] \in Run
    BY <1>a, <2>2 DEF Run
  <2> QED
    BY <1>a, <2>1, <2>3, RunUpdates
<1>3. CASE LoseEvents(j, a)
  <2>1. r.pending # <<>>
    BY <1>3, <1>a DEF LoseEvents, r
  <2>2. Tail(r.pending) \in Seq(Stages) /\ <<>> \in Seq(Stages)
    BY <1>a, <2>1, HeadTailProperties, EmptySeq
  <2>3. [r EXCEPT !.pending = Tail(@)] \in Run /\ [r EXCEPT !.pending = <<>>] \in Run
    BY <1>a, <2>2 DEF Run
  <2>4. \/ SetRun(j, a, [r EXCEPT !.pending = Tail(@)])
        \/ SetRun(j, a, [r EXCEPT !.pending = <<>>])
    BY <1>3 DEF LoseEvents, r
  <2> QED
    BY <1>a, <2>3, <2>4, RunUpdates
<1>4. CASE EndTask(j, a)
  <2>1. PICK result \in Outcomes(r) : SetRun(j, a, [r EXCEPT !.result = result])
    BY <1>4 DEF EndTask, r
  <2>2. result \in {"failed", "ok", "paused", "cancelled"}
    BY <2>1 DEF Outcomes
  <2>3. [r EXCEPT !.result = result] \in Run
    BY <1>a, <2>2 DEF Run
  <2> QED
    BY <1>a, <2>1, <2>3, RunUpdates
<1> QED
  BY <1>1, <1>2, <1>3, <1>4 DEF TaskStep

LEMMA DriverRunType ==
    ASSUME IInv, NEW j \in Jobs, NEW a \in Attempts, DriverStep(j, a)
    PROVE  RunTypeOK'
<1> DEFINE r == run[j][a]
<1>a. r \in Run /\ r.pending \in Seq(Stages) /\ RunTypeOK
  BY DEF IInv, RunTypeOK, Run
<1>b. [r EXCEPT !.pc = "finished"] \in Run
  BY <1>a DEF Run
<1> HIDE DEF r
<1>1. CASE PersistEvent(j, a)
  <2> DEFINE rest == [r EXCEPT !.pending = Tail(r.pending)]
  <2>0. r.pending # <<>>
    BY <1>1 DEF PersistEvent, r
  <2>1. Tail(r.pending) \in Seq(Stages)
    BY <1>a, <2>0, HeadTailProperties
  <2>2. rest \in Run
    BY <1>a, <2>1 DEF Run
  <2>3. \/ SetRun(j, a, IF closing THEN Stopping(rest, PauseRun(rest)) ELSE rest)
        \/ SetRun(j, a, Stopping(rest, CancelRun(rest)))
    BY <1>1 DEF PersistEvent, r
  <2> HIDE DEF rest
  <2>4. /\ (IF closing THEN Stopping(rest, PauseRun(rest)) ELSE rest) \in Run
        /\ Stopping(rest, CancelRun(rest)) \in Run
    BY <2>2, StopsAreRuns DEF Stopping
  <2> QED
    BY <1>a, <2>3, <2>4, RunUpdates
<1>2. CASE Finish(j, a)
  BY <1>2, <1>a, <1>b, RunUpdates DEF Finish, r
<1>3. CASE RetainPartials(j, a)
  <2> DEFINE next == [r EXCEPT !.pc = "retaining",
                               !.result = IF closing THEN "interrupted" ELSE "paused"]
  <2>1. next \in Run
    BY <1>a DEF Run
  <2>2. SetRun(j, a, next) \/ SetRun(j, a, [r EXCEPT !.pc = "finished"])
    BY <1>3 DEF RetainPartials, r
  <2> HIDE DEF next
  <2> QED
    BY <1>a, <1>b, <2>1, <2>2, RunUpdates
<1>4. CASE FinishRetained(j, a)
  BY <1>4, <1>a, <1>b, RunUpdates DEF FinishRetained, r
<1>5. CASE Retire(j, a)
  BY <1>5, <1>a, NoRunIsRun, RunUpdates DEF Retire
<1> QED
  BY <1>1, <1>2, <1>3, <1>4, <1>5 DEF DriverStep

LEMMA RunTypeStep == IInv /\ [Next]_vars => RunTypeOK'
<1> SUFFICES ASSUME IInv, [Next]_vars PROVE RunTypeOK'
    OBVIOUS
<1>a. RunTypeOK /\ ActiveTypeOK
  BY DEF IInv
<1>b. ASSUME UNCHANGED run PROVE RunTypeOK'
  BY <1>a, <1>b DEF RunTypeOK
<1>c. ASSUME run' = NoRuns PROVE RunTypeOK'
  BY <1>c, NoRunIsRun DEF RunTypeOK, NoRuns
<1>1. ASSUME NEW c \in Clients, ClientCall(c) \/ ClientStep(c) PROVE RunTypeOK'
  <2>1. CASE StopActive(c)
    <3>1. ASSUME NEW j \in Jobs, NEW a \in Attempts
          PROVE  PauseRun(run[j][a]) \in Run /\ CancelRun(run[j][a]) \in Run
      BY <1>a, StopsAreRuns DEF RunTypeOK
    <3> QED
      BY <1>a, <1>b, <2>1, <3>1, RunUpdates DEF StopActive
  <2>2. CASE ~StopActive(c)
    BY <1>1, <1>b, <2>2 DEF ClientCall, ClientStep, CallEnqueue, CallOnJob, ChangeSettings,
       InsertEnqueued, Kick, PauseQueued, SeeStopped, CancelStopped, ResumeInactive, RequeueJob,
       RemoveCompleted
  <2> QED
    BY <2>1, <2>2
<1>2. CASE SchedStep
  <2>1. ASSUME NEW j \in Jobs, SchedClaim(j) PROVE RunTypeOK'
    <3>1. [NoRun EXCEPT !.pc = "claimed"] \in Run
      BY NoRunIsRun DEF Run
    <3> QED
      BY <1>a, <2>1, <3>1, RunUpdates DEF SchedClaim
  <2>2. CASE SchedStart
    <3>1. [NoRun EXCEPT !.pc = "driving"] \in Run
      BY NoRunIsRun DEF Run
    <3>2. \/ SetRun(sched.job, sched.attempt, NoRun)
          \/ SetRun(sched.job, sched.attempt, [NoRun EXCEPT !.pc = "driving"])
      BY <2>2 DEF SchedStart
    <3> QED
      BY <1>a, <3>1, <3>2, NoRunIsRun, RunUpdates
  <2>3. CASE SchedTop \/ SchedSettings \/ SchedCount \/ SchedIdle \/ SchedRegister
    BY <1>b, <2>3 DEF SchedTop, SchedSettings, SchedCount, SchedIdle, SchedRegister
  <2> QED
    BY <1>2, <2>1, <2>2, <2>3 DEF SchedStep
<1>3. ASSUME NEW j \in Jobs, NEW a \in Attempts, TaskStep(j, a) \/ DriverStep(j, a)
      PROVE  RunTypeOK'
  BY <1>3, TaskRunType, DriverRunType
<1>4. CASE ShutdownStep
  <2>1. CASE ShutdownCollect
    BY <1>a, <2>1, StopsAreRuns DEF ShutdownCollect, RunTypeOK
  <2> QED
    BY <1>4, <1>b, <2>1 DEF ShutdownStep, ShutdownBegin, ShutdownCount, ShutdownCheck, ShutdownRegister,
       ShutdownTimeout
<1>5. CASE Crash
  BY <1>5, <1>c DEF Crash, ProcessEnds
<1>6. CASE OpenStep
  BY <1>6, <1>b, <1>c DEF OpenStep, OpenQueue, RecoverJob, OpenReturns, OpenFails, ProcessEnds,
     volatileVars
<1>7. CASE UNCHANGED vars
  BY <1>7, <1>b DEF vars, volatileVars
<1> QED
  BY <1>1, <1>2, <1>3, <1>4, <1>5, <1>6, <1>7 DEF Next

-----------------------------------------------------------------------------
(* Types of the calls, and what a call under way knows.                    *)

ClientOK == ClientTypeOK /\ CallsHaveJobs

(* A call that only returns or moves on, keeping its job and operation.    *)
LEMMA CallMovesOn ==
    ASSUME ClientOK, NEW c \in Clients,
           \/ Return(c)
           \/ GoTo(c, "kick")
           \/ GoTo(c, "waiting") /\ client[c].job \in Jobs
           \/ GoTo(c, "requeue") /\ client[c].job \in Jobs /\ client[c].op = "resume"
    PROVE  ClientOK'
<1>1. Idle \in Client
  BY DEF Idle, Client, ClientPcs
<1>2. CASE Return(c)
  BY <1>1, <1>2 DEF ClientOK, ClientTypeOK, CallsHaveJobs, Return, Idle
<1>3. ASSUME NEW pc \in ClientPcs, GoTo(c, pc) PROVE ClientTypeOK'
  BY <1>3 DEF ClientOK, ClientTypeOK, GoTo, Client
<1>4. ASSUME NEW pc \in {"kick", "waiting", "requeue"}, GoTo(c, pc),
             pc # "kick" => client[c].job \in Jobs,
             pc = "requeue" => client[c].op = "resume"
      PROVE  CallsHaveJobs'
  BY <1>4 DEF ClientOK, ClientTypeOK, CallsHaveJobs, GoTo, Client
<1> QED
  BY <1>2, <1>3, <1>4 DEF ClientOK, ClientPcs

LEMMA ClientStepTypes == IInv /\ [Next]_vars => ClientOK'
<1> SUFFICES ASSUME IInv, [Next]_vars PROVE ClientOK'
    OBVIOUS
<1>a. ClientOK /\ ClientTypeOK /\ CallsHaveJobs
  BY DEF IInv, ClientOK
<1>b. ASSUME UNCHANGED client PROVE ClientOK'
  BY <1>a, <1>b DEF ClientOK, ClientTypeOK, CallsHaveJobs
<1>c. ASSUME client' = AllIdle PROVE ClientOK'
  BY <1>c DEF ClientOK, ClientTypeOK, CallsHaveJobs, AllIdle, Idle, Client, ClientPcs
<1>1. ASSUME NEW c \in Clients, ClientCall(c) PROVE ClientOK'
  <2>1. ASSUME NEW j \in Jobs, CallEnqueue(c, j) PROVE ClientOK'
    BY <1>a, <2>1 DEF ClientOK, ClientTypeOK, CallsHaveJobs, CallEnqueue, Client, ClientPcs,
       AllCommands
  <2>2. ASSUME NEW op \in AllCommands, NEW j \in Jobs, CallOnJob(c, op, j) PROVE ClientOK'
    <3> DEFINE call == [pc |-> IF op = "retry" THEN "requeue" ELSE "act",
                        op |-> op, job |-> j, seen |-> jobs[j].state]
    <3>1. jobs[j].state \in JobStates
      BY <2>2, StatesDiffer DEF CallOnJob, Accepts, RestingStates, JobStates, StoppedStates,
         TerminalStates
    <3>2. call \in Client
      BY <3>1 DEF Client, ClientPcs
    <3>3. client' = [client EXCEPT ![c] = call]
      BY <2>2 DEF CallOnJob
    <3>4. call.job \in Jobs /\ (call.pc = "requeue" => call.op \in {"resume", "retry"})
      OBVIOUS
    <3> HIDE DEF call
    <3> QED
      BY <1>a, <3>2, <3>3, <3>4 DEF ClientOK, ClientTypeOK, CallsHaveJobs
  <2>3. ASSUME NEW limit \in Concurrencies, ChangeSettings(c, limit) PROVE ClientOK'
    <3> DEFINE call == [client[c] EXCEPT !.pc = "kick", !.op = "settings"]
    <3>1. client' = [client EXCEPT ![c] = call]
      BY <2>3 DEF ChangeSettings
    <3>2. call \in Client /\ call.pc = "kick"
      BY <1>a DEF ClientTypeOK, Client, ClientPcs, AllCommands
    <3> HIDE DEF call
    <3> QED
      BY <1>a, <3>1, <3>2 DEF ClientOK, ClientTypeOK, CallsHaveJobs
  <2> QED
    BY <1>1, <2>1, <2>2, <2>3 DEF ClientCall
<1>2. ASSUME NEW c \in Clients, ClientStep(c) PROVE ClientOK'
  <2>1. CASE InsertEnqueued(c)
    BY <1>a, <2>1, CallMovesOn DEF InsertEnqueued
  <2>2. CASE Kick(c) \/ PauseQueued(c) \/ SeeStopped(c) \/ CancelStopped(c) \/ RemoveCompleted(c)
    BY <1>a, <2>2, CallMovesOn DEF Kick, PauseQueued, SeeStopped, CancelStopped, RemoveCompleted
  <2>3. CASE StopActive(c)
    <3>1. client[c].job \in Jobs
      BY <1>a, <2>3 DEF StopActive, CallsHaveJobs
    <3> QED
      BY <1>a, <2>3, <3>1, CallMovesOn DEF StopActive
  <2>4. CASE ResumeInactive(c)
    <3>1. client[c].job \in Jobs /\ client[c].op = "resume" /\ GoTo(c, "requeue")
      BY <1>a, <2>4 DEF ResumeInactive, At, CallsHaveJobs
    <3> QED
      BY <1>a, <3>1, CallMovesOn
  <2>5. CASE RequeueJob(c)
    BY <1>a, <2>5, CallMovesOn DEF RequeueJob
  <2> QED
    BY <1>2, <2>1, <2>2, <2>3, <2>4, <2>5 DEF ClientStep
<1>3. CASE SchedStep
  BY <1>3, <1>b DEF SchedStep, SchedTop, SchedSettings, SchedCount, SchedIdle, SchedRegister,
     SchedStart, SchedClaim
<1>4. ASSUME NEW j \in Jobs, NEW a \in Attempts, TaskStep(j, a) \/ DriverStep(j, a)
      PROVE  ClientOK'
  BY <1>4, <1>b DEF TaskStep, Advance, ReportProgress, LoseEvents, EndTask, OnlyRunChanges,
     DriverStep, PersistEvent, Finish, RetainPartials, FinishRetained, Retire
<1>5. CASE ShutdownStep
  BY <1>5, <1>b DEF ShutdownStep, ShutdownBegin, ShutdownCount, ShutdownCollect, ShutdownCheck, ShutdownRegister,
     ShutdownTimeout
<1>6. CASE Crash
  BY <1>6, <1>c DEF Crash, ProcessEnds
<1>7. CASE OpenStep
  BY <1>7, <1>b, <1>c DEF OpenStep, OpenQueue, RecoverJob, OpenReturns, OpenFails, ProcessEnds,
     volatileVars
<1>8. CASE UNCHANGED vars
  BY <1>8, <1>b DEF vars, volatileVars
<1> QED
  BY <1>1, <1>2, <1>3, <1>4, <1>5, <1>6, <1>7, <1>8 DEF Next

-----------------------------------------------------------------------------
(* Types of the scheduler.                                                 *)

SchedOK == SchedTypeOK /\ StartHasJob

LEMMA SchedAtTyped ==
    ASSUME NEW pc \in SchedPcs
    PROVE  SchedAt(pc) \in Sched /\ SchedAt(pc).pc = pc
  BY DEF SchedAt, Sched

(* Wherever the loop goes on its own, except into a start.                 *)
LEMMA SchedMoves ==
    ASSUME NEW pc \in SchedPcs \ {"starting"}, sched' = SchedAt(pc)
    PROVE  SchedOK'
  BY SchedAtTyped DEF SchedOK, SchedTypeOK, StartHasJob

LEMMA SchedWoken ==
    ASSUME SchedOK, sched' = Woken(sched)
    PROVE  SchedOK'
<1>1. CASE sched' = SchedAt("top")
  BY <1>1, SchedMoves DEF SchedPcs
<1>2. CASE sched' = sched
  BY <1>2 DEF SchedOK, SchedTypeOK, StartHasJob
<1> QED
  BY <1>1, <1>2 DEF Woken

LEMMA RegisteredCounts == Cardinality(Registered) \in Nat
  BY QueueAssumption, FS_Subset, FS_CardinalityType DEF Registered

LEMMA ClaimedAttempt ==
    ASSUME IInv, NEW j \in Jobs, Present(j)
    PROVE  jobs[j].attempt \in Attempts
  BY StoreAssumption DEF IInv, StoreTypeOK, QueueOrder, AttemptsFit, Attempts, Row

LEMMA SchedStepTypes == IInv /\ [Next]_vars => SchedOK'
<1> SUFFICES ASSUME IInv, [Next]_vars PROVE SchedOK'
    OBVIOUS
<1>a. SchedOK /\ sched \in Sched
  BY DEF IInv, SchedOK, SchedTypeOK
<1>b. ASSUME UNCHANGED sched PROVE SchedOK'
  BY <1>a, <1>b DEF SchedOK, SchedTypeOK, StartHasJob
<1>c. /\ sched' = SchedAt("stopped") => SchedOK'
      /\ sched' = SchedAt("top") => SchedOK'
      /\ sched' = SchedAt("settings") => SchedOK'
      /\ sched' = SchedAt("registering") => SchedOK'
      /\ sched' = SchedAt("waiting") => SchedOK'
  BY SchedMoves DEF SchedPcs
<1>1. ASSUME NEW c \in Clients, ClientCall(c) \/ ClientStep(c) PROVE SchedOK'
  <2>1. CASE Kick(c)
    BY <1>a, <1>c, <2>1, SchedWoken DEF Kick, KickScheduler
  <2>2. CASE ~Kick(c)
    BY <1>1, <1>b, <2>2 DEF ClientCall, ClientStep, CallEnqueue, CallOnJob, ChangeSettings,
       InsertEnqueued, PauseQueued, StopActive, SeeStopped, CancelStopped, ResumeInactive,
       RequeueJob, RemoveCompleted
  <2> QED
    BY <2>1, <2>2
<1>2. CASE SchedStep
  <2>1. CASE SchedTop \/ SchedIdle \/ SchedRegister \/ SchedStart
    BY <1>c, <2>1 DEF SchedTop, SchedIdle, SchedRegister, SchedStart, ReleaseScheduler
  <2>2. CASE SchedSettings
    <3>1. CASE sched' = [SchedAt("count") EXCEPT !.limit = concurrency]
      <4>1. sched'.pc = "count" /\ sched' \in Sched
        BY <3>1 DEF SchedAt, Sched, SchedPcs, IInv, StoreTypeOK
      <4> QED
        BY <4>1 DEF SchedOK, SchedTypeOK, StartHasJob
    <3> QED
      BY <1>c, <2>2, <3>1 DEF SchedSettings, ReleaseScheduler
  <2>3. CASE SchedCount
    <3>1. CASE sched' = [SchedAt("claim") EXCEPT !.seen = Cardinality(Registered)]
      <4>1. sched'.pc = "claim" /\ sched' \in Sched
        BY <3>1, RegisteredCounts DEF SchedAt, Sched, SchedPcs
      <4> QED
        BY <4>1 DEF SchedOK, SchedTypeOK, StartHasJob
    <3> QED
      BY <1>c, <2>3, <3>1 DEF SchedCount
  <2>4. ASSUME NEW j \in Jobs, SchedClaim(j) PROVE SchedOK'
    <3>1. jobs[j].attempt \in Attempts
      BY <2>4, ClaimedAttempt, StatesDiffer DEF SchedClaim, ClaimNext, IsNextInLine, Present
    <3>2. sched' = [SchedAt("starting") EXCEPT !.job = j, !.attempt = jobs[j].attempt]
      BY <2>4 DEF SchedClaim
    <3>3. sched' \in Sched /\ sched'.job = j /\ sched'.attempt = jobs[j].attempt
      BY <3>1, <3>2 DEF SchedAt, Sched, SchedPcs
    <3> QED
      BY <3>1, <3>3 DEF SchedOK, SchedTypeOK, StartHasJob
  <2> QED
    BY <1>2, <2>1, <2>2, <2>3, <2>4 DEF SchedStep
<1>3. ASSUME NEW j \in Jobs, NEW a \in Attempts, TaskStep(j, a) \/ DriverStep(j, a)
      PROVE  SchedOK'
  <2>1. CASE Retire(j, a)
    BY <1>a, <2>1, SchedWoken DEF Retire
  <2>2. CASE ~Retire(j, a)
    BY <1>3, <1>b, <2>2 DEF TaskStep, Advance, ReportProgress, LoseEvents, EndTask, OnlyRunChanges,
       DriverStep, PersistEvent, Finish, RetainPartials, FinishRetained
  <2> QED
    BY <2>1, <2>2
<1>4. CASE ShutdownStep
  <2>1. CASE ShutdownBegin
    BY <1>a, <2>1, SchedWoken DEF ShutdownBegin
  <2> QED
    BY <1>4, <1>b, <2>1 DEF ShutdownStep, ShutdownCollect, ShutdownCount, ShutdownCheck, ShutdownRegister,
       ShutdownTimeout
<1>5. CASE Crash
  BY <1>5, <1>c DEF Crash, ProcessEnds
<1>6. CASE OpenStep
  BY <1>6, <1>b, <1>c DEF OpenStep, OpenQueue, RecoverJob, OpenReturns, OpenFails, ProcessEnds,
     volatileVars
<1>7. CASE UNCHANGED vars
  BY <1>7, <1>b DEF vars, volatileVars
<1> QED
  BY <1>1, <1>2, <1>3, <1>4, <1>5, <1>6, <1>7 DEF Next

-----------------------------------------------------------------------------
(* Types of the active map and of the flags.                               *)

LEMMA ActiveStepTypes == IInv /\ [Next]_vars => ActiveTypeOK'
<1> SUFFICES ASSUME IInv, [Next]_vars PROVE ActiveTypeOK'
    OBVIOUS
<1>a. ActiveTypeOK /\ StartHasJob
  BY DEF IInv
<1>b. ASSUME UNCHANGED active PROVE ActiveTypeOK'
  BY <1>a, <1>b DEF ActiveTypeOK
<1>c. ASSUME active' = NoneActive PROVE ActiveTypeOK'
  BY <1>c DEF ActiveTypeOK, NoneActive
<1>1. ASSUME NEW c \in Clients, ClientCall(c) \/ ClientStep(c) PROVE ActiveTypeOK'
  BY <1>1, <1>b DEF ClientCall, ClientStep, CallEnqueue, CallOnJob, ChangeSettings, InsertEnqueued,
     Kick, PauseQueued, StopActive, SeeStopped, CancelStopped, ResumeInactive, RequeueJob,
     RemoveCompleted
<1>2. CASE SchedStep
  <2>1. CASE SchedStart
    <3>1. UNCHANGED active \/ active' = [active EXCEPT ![sched.job] = sched.attempt]
      BY <2>1 DEF SchedStart
    <3>2. sched.attempt \in Attempts
      BY <1>a, <2>1 DEF SchedStart, StartHasJob
    <3> QED
      BY <1>a, <1>b, <3>1, <3>2 DEF ActiveTypeOK
  <2> QED
    BY <1>2, <1>b, <2>1 DEF SchedStep, SchedTop, SchedSettings, SchedCount, SchedIdle,
       SchedRegister, SchedClaim
<1>3. ASSUME NEW j \in Jobs, NEW a \in Attempts, TaskStep(j, a) \/ DriverStep(j, a)
      PROVE  ActiveTypeOK'
  <2>1. CASE Retire(j, a)
    BY <1>a, <2>1 DEF Retire, ActiveTypeOK
  <2> QED
    BY <1>3, <1>b, <2>1 DEF TaskStep, Advance, ReportProgress, LoseEvents, EndTask, OnlyRunChanges,
       DriverStep, PersistEvent, Finish, RetainPartials, FinishRetained
<1>4. CASE ShutdownStep
  BY <1>4, <1>b DEF ShutdownStep, ShutdownBegin, ShutdownCount, ShutdownCollect, ShutdownCheck, ShutdownRegister,
     ShutdownTimeout
<1>5. CASE Crash
  BY <1>5, <1>c DEF Crash, ProcessEnds
<1>6. CASE OpenStep
  BY <1>6, <1>b, <1>c DEF OpenStep, OpenQueue, RecoverJob, OpenReturns, OpenFails, ProcessEnds,
     volatileVars
<1>7. CASE UNCHANGED vars
  BY <1>7, <1>b DEF vars, volatileVars
<1> QED
  BY <1>1, <1>2, <1>3, <1>4, <1>5, <1>6, <1>7 DEF Next

LEMMA FlagsStepTypes == IInv /\ [Next]_vars => FlagsTypeOK'
<1> SUFFICES ASSUME IInv, [Next]_vars PROVE FlagsTypeOK'
    OBVIOUS
<1> USE QueueAssumption DEF IInv, FlagsTypeOK
<1>1. ASSUME NEW c \in Clients, ClientCall(c) PROVE FlagsTypeOK'
  <2>1. UNCHANGED <<phase, recovering, crashes, service, closing, kicked, shutdown, requested>>
    BY <1>1 DEF ClientCall, CallEnqueue, CallOnJob, ChangeSettings
  <2> QED
    BY <2>1
<1>2. ASSUME NEW c \in Clients, ClientStep(c) PROVE FlagsTypeOK'
  <2>1. CASE Kick(c)
    <3>1. requested' \in BOOLEAN
      BY <2>1 DEF Kick
    <3>2. kicked' \in BOOLEAN
      BY <2>1 DEF Kick, KickScheduler
    <3> QED
      BY <2>1, <3>1, <3>2 DEF Kick
  <2> QED
    BY <1>2, <2>1 DEF ClientStep, InsertEnqueued, PauseQueued, StopActive, SeeStopped,
       CancelStopped, ResumeInactive, RequeueJob, RemoveCompleted
<1>3. CASE SchedStep
  <2>1. UNCHANGED <<phase, recovering, crashes, service, closing, requested>>
    BY <1>3 DEF SchedStep, SchedTop, SchedSettings, SchedCount, SchedIdle, SchedRegister,
       SchedStart, SchedClaim
  <2>2. kicked' \in BOOLEAN
    BY <1>3 DEF SchedStep, SchedTop, SchedSettings, SchedCount, SchedIdle, SchedRegister,
       SchedStart, SchedClaim, ReleaseScheduler
  <2>3. shutdown' \in ShutdownPcs
    <3>1. UNCHANGED shutdown \/ NotifyShutdown \/ shutdown' = "overtaken"
      BY <1>3 DEF SchedStep, SchedTop, SchedSettings, SchedCount, SchedIdle, SchedRegister,
         SchedStart, SchedClaim, ReleaseScheduler
    <3> QED
      BY <3>1 DEF NotifyShutdown, ShutdownPcs
  <2> QED
    BY <2>1, <2>2, <2>3
<1>4. ASSUME NEW j \in Jobs, NEW a \in Attempts, TaskStep(j, a) PROVE FlagsTypeOK'
  BY <1>4 DEF TaskStep, Advance, ReportProgress, LoseEvents, EndTask, OnlyRunChanges
<1>5. ASSUME NEW j \in Jobs, NEW a \in Attempts, DriverStep(j, a) PROVE FlagsTypeOK'
  <2>1. UNCHANGED <<phase, recovering, crashes, service, closing, kicked, requested>>
    BY <1>5 DEF DriverStep, PersistEvent, Finish, RetainPartials, FinishRetained, Retire
  <2>2. UNCHANGED shutdown \/ NotifyShutdown
    BY <1>5 DEF DriverStep, PersistEvent, Finish, RetainPartials, FinishRetained, Retire
  <2> QED
    BY <2>1, <2>2 DEF NotifyShutdown, ShutdownPcs
<1>6. CASE ShutdownStep
  BY <1>6 DEF ShutdownStep, ShutdownBegin, ShutdownCount, ShutdownCollect, ShutdownCheck, ShutdownRegister,
     ShutdownTimeout, ShutdownPcs
<1>7. CASE Crash
  <2>1. crashes' \in 0..MaxCrashes
    BY <1>7 DEF Crash
  <2>2. /\ phase' = "down" /\ recovering' = {} /\ closing' = FALSE /\ kicked' = FALSE
        /\ shutdown' = "off" /\ requested' = FALSE /\ service' = service
    BY <1>7 DEF Crash, ProcessEnds
  <2> QED
    BY <2>1, <2>2, Zenon DEF ShutdownPcs
<1>8. CASE OpenStep
  BY <1>8 DEF OpenStep, OpenQueue, RecoverJob, OpenReturns, OpenFails, ProcessEnds,
     volatileVars, ShutdownPcs
<1>9. CASE UNCHANGED vars
  BY <1>9 DEF vars, volatileVars
<1> QED
  BY <1>1, <1>2, <1>3, <1>4, <1>5, <1>6, <1>7, <1>8, <1>9 DEF Next

-----------------------------------------------------------------------------
(* The theorems.                                                           *)

LEMMA IInvInit == Init => IInv
<1> SUFFICES ASSUME Init PROVE IInv
    OBVIOUS
<1>1. StoreTypeOK /\ QueueOrder /\ AttemptsFit
  BY StoreTypeInit, QueueOrderInit, AttemptsFitInit DEF Init
<1>2. RunTypeOK /\ ActiveTypeOK
  BY NoRunIsRun DEF Init, VolatileInit, RunTypeOK, ActiveTypeOK, NoRuns, NoneActive
<1>3. ClientTypeOK /\ CallsHaveJobs
  BY DEF Init, VolatileInit, ClientTypeOK, CallsHaveJobs, AllIdle, Idle, Client, ClientPcs
<1>4. SchedTypeOK /\ StartHasJob
  BY SchedAtTyped DEF Init, VolatileInit, SchedTypeOK, StartHasJob, SchedPcs
<1>5. FlagsTypeOK
  <2>1. crashes \in 0..MaxCrashes
    BY QueueAssumption DEF Init
  <2>2. service \in BOOLEAN
    BY QueueAssumption DEF Init
  <2> QED
    BY <2>1, <2>2, Zenon DEF Init, VolatileInit, FlagsTypeOK, ShutdownPcs
<1> QED
  BY <1>1, <1>2, <1>3, <1>4, <1>5 DEF IInv

LEMMA IInvStep == IInv /\ [Next]_vars => IInv'
<1> SUFFICES ASSUME IInv, [Next]_vars PROVE IInv'
    OBVIOUS
<1>1. [StoreNext]_storeVars
  BY StoreStep
<1>2. StoreTypeOK' /\ QueueOrder' /\ AttemptsFit'
  BY <1>1, StoreTypeStep, QueueOrderStep, AttemptsFitStep DEF IInv
<1>3. RunTypeOK' /\ ClientOK' /\ SchedOK' /\ ActiveTypeOK' /\ FlagsTypeOK'
  BY RunTypeStep, ClientStepTypes, SchedStepTypes, ActiveStepTypes, FlagsStepTypes
<1> QED
  BY <1>2, <1>3 DEF IInv, ClientOK, SchedOK

(* Every variable of the queue keeps its type; in particular no attempt    *)
(* runs out of the queue places that exist.                                *)
THEOREM QueueTypeCorrect == Spec => []TypeOK
<1>1. Init => IInv
  BY IInvInit
<1>2. IInv /\ [Next]_vars => IInv'
  BY IInvStep
<1>3. IInv => TypeOK
  BY IInvImpliesType
<1> QED
  BY <1>1, <1>2, <1>3, PTL DEF Spec

(* The queue touches the store through its transactions only, so what      *)
(* holds of the store in any order of transactions holds of the queue.     *)
LEMMA QueueImplementsStore == Spec => StoreSpec
<1>1. Init => IInv /\ StoreInit
  BY IInvInit DEF Init
<1>2. IInv /\ [Next]_vars => IInv' /\ [StoreNext]_storeVars
  BY IInvStep, StoreStep
<1> QED
  BY <1>1, <1>2, PTL DEF Spec, StoreSpec

(* What holds of the store holds of the running queue: distinct places, an *)
(* end that is the last attempt's, the validated lifecycle.                *)
THEOREM QueueKeepsStorePromises ==
    Spec => []QueueOrder /\ []RowConsistent /\ QueuePlacesAreStable /\ ImplementsHistory
  BY QueueImplementsStore, QueueOrderHolds, RowsStayConsistent, PlacesAreStable,
     StoreImplementsHistory, PTL

-----------------------------------------------------------------------------
(* What starts the scheduler.                                              *)

OpsAreCommands == \A c \in Clients : client[c].op \in Commands \union {"none"}

LEMMA OpsAreCommandsStep ==
    IInv /\ OpsAreCommands /\ [Next]_vars => OpsAreCommands'
<1> SUFFICES ASSUME IInv, OpsAreCommands, [Next]_vars PROVE OpsAreCommands'
    OBVIOUS
<1> USE DEF IInv, ClientTypeOK, Client, OpsAreCommands
<1>a. ASSUME UNCHANGED client PROVE OpsAreCommands'
  BY <1>a
<1>b. ASSUME client' = AllIdle PROVE OpsAreCommands'
  BY <1>b DEF AllIdle, Idle
<1>c. ASSUME NEW c \in Clients, Return(c) \/ \E pc \in ClientPcs : GoTo(c, pc) PROVE OpsAreCommands'
  BY <1>c DEF Return, GoTo, Idle
<1>1. ASSUME NEW c \in Clients, ClientCall(c) PROVE OpsAreCommands'
  BY <1>1 DEF ClientCall, CallEnqueue, CallOnJob, ChangeSettings
<1>2. ASSUME NEW c \in Clients, ClientStep(c) PROVE OpsAreCommands'
  BY <1>2, <1>c DEF ClientStep, InsertEnqueued, Kick, PauseQueued, StopActive, SeeStopped,
     CancelStopped, ResumeInactive, RequeueJob, RemoveCompleted, ClientPcs
<1>3. CASE SchedStep
  BY <1>3, <1>a DEF SchedStep, SchedTop, SchedSettings, SchedCount, SchedIdle, SchedRegister,
     SchedStart, SchedClaim
<1>4. ASSUME NEW j \in Jobs, NEW a \in Attempts, TaskStep(j, a) \/ DriverStep(j, a)
      PROVE  OpsAreCommands'
  BY <1>4, <1>a DEF TaskStep, Advance, ReportProgress, LoseEvents, EndTask, OnlyRunChanges,
     DriverStep, PersistEvent, Finish, RetainPartials, FinishRetained, Retire
<1>5. CASE ShutdownStep
  BY <1>5, <1>a DEF ShutdownStep, ShutdownBegin, ShutdownCount, ShutdownCollect, ShutdownCheck,
     ShutdownRegister, ShutdownTimeout
<1>6. CASE Crash
  BY <1>6, <1>b DEF Crash, ProcessEnds
<1>7. CASE OpenStep
  BY <1>7, <1>a, <1>b DEF OpenStep, OpenQueue, RecoverJob, OpenReturns, OpenFails, ProcessEnds,
     volatileVars
<1>8. CASE UNCHANGED vars
  BY <1>8, <1>a DEF vars, volatileVars
<1> QED
  BY <1>1, <1>2, <1>3, <1>4, <1>5, <1>6, <1>7, <1>8 DEF Next

LEMMA SchedulerOnlyOnRequestStep ==
    ASSUME "settings" \notin Commands, IInv, OpsAreCommands, SchedulerOnlyOnRequest, [Next]_vars
    PROVE  SchedulerOnlyOnRequest'
<1> USE DEF SchedulerOnlyOnRequest
<1>a. ASSUME UNCHANGED <<sched, requested>> PROVE SchedulerOnlyOnRequest'
  BY <1>a
<1>b. ASSUME sched.pc # "stopped", UNCHANGED requested PROVE SchedulerOnlyOnRequest'
  BY <1>b
<1>c. ASSUME sched' = SchedAt("stopped") PROVE SchedulerOnlyOnRequest'
  BY <1>c DEF SchedAt
<1>d. ASSUME sched' = Woken(sched), UNCHANGED requested PROVE SchedulerOnlyOnRequest'
  BY <1>d DEF Woken, SchedAt
<1>1. ASSUME NEW c \in Clients, ClientCall(c) \/ ClientStep(c) PROVE SchedulerOnlyOnRequest'
  <2>1. CASE Kick(c)
    <3>1. client[c].op # "settings"
      BY DEF OpsAreCommands
    <3>2. requested'
      BY <2>1, <3>1 DEF Kick
    <3> QED
      BY <3>2
  <2>2. CASE ~Kick(c)
    BY <1>1, <1>a, <2>2 DEF ClientCall, ClientStep, CallEnqueue, CallOnJob, ChangeSettings,
       InsertEnqueued, PauseQueued, StopActive, SeeStopped, CancelStopped, ResumeInactive,
       RequeueJob, RemoveCompleted
  <2> QED
    BY <2>1, <2>2
<1>2. CASE SchedStep
  <2>1. sched.pc # "stopped" /\ UNCHANGED requested
    BY <1>2 DEF SchedStep, SchedTop, SchedSettings, SchedCount, SchedIdle, SchedRegister,
       SchedStart, SchedClaim
  <2> QED
    BY <1>b, <2>1
<1>3. ASSUME NEW j \in Jobs, NEW a \in Attempts, TaskStep(j, a) \/ DriverStep(j, a)
      PROVE  SchedulerOnlyOnRequest'
  <2>1. CASE Retire(j, a)
    BY <1>d, <2>1 DEF Retire
  <2>2. CASE ~Retire(j, a)
    BY <1>3, <1>a, <2>2 DEF TaskStep, Advance, ReportProgress, LoseEvents, EndTask,
       OnlyRunChanges, DriverStep, PersistEvent, Finish, RetainPartials, FinishRetained
  <2> QED
    BY <2>1, <2>2
<1>4. CASE ShutdownStep
  BY <1>4, <1>a, <1>d DEF ShutdownStep, ShutdownBegin, ShutdownCount, ShutdownCollect, ShutdownCheck,
     ShutdownRegister, ShutdownTimeout
<1>5. CASE Crash
  BY <1>5, <1>c DEF Crash, ProcessEnds
<1>6. CASE OpenStep
  BY <1>6, <1>a, <1>c DEF OpenStep, OpenQueue, RecoverJob, OpenReturns, OpenFails, ProcessEnds,
     volatileVars
<1>7. CASE UNCHANGED vars
  BY <1>7, <1>a DEF vars, volatileVars
<1> QED
  BY <1>1, <1>2, <1>3, <1>4, <1>5, <1>6, <1>7 DEF Next

(* If no settings are changed, the scheduler runs only after a client has  *)
(* enqueued, resumed or retried a job since the queue was opened, whatever *)
(* crashed, failed or interleaved.  Changing the settings is the one other *)
(* way to start it.                                                        *)
THEOREM OnlyRequestsStartScheduler ==
    ASSUME "settings" \notin Commands
    PROVE  Spec => []SchedulerOnlyOnRequest
<1> DEFINE Inv == IInv /\ OpsAreCommands /\ SchedulerOnlyOnRequest
<1>1. Init => Inv
  BY IInvInit DEF Init, VolatileInit, OpsAreCommands, AllIdle, Idle, SchedulerOnlyOnRequest,
     SchedAt
<1>2. Inv /\ [Next]_vars => Inv'
  BY IInvStep, OpsAreCommandsStep, SchedulerOnlyOnRequestStep
<1> QED
  BY <1>1, <1>2, PTL DEF Spec

-----------------------------------------------------------------------------
(* One run per job.                                                        *)
(*                                                                         *)
(* With several slots, a resume or a retry may start the next attempt of a *)
(* job before the driver of the last one is gone, and that driver then     *)
(* takes the new attempt out of the active map (MCRetryLimit.cfg shows     *)
(* it).  What holds of the active map holds where this cannot happen: when *)
(* the setting allows one slot only, or when no job is put back.           *)

OneSlot     == Concurrencies = {1}
NoSecondRun == "resume" \notin Commands /\ "retry" \notin Commands
RunsOnce    == OneSlot \/ NoSecondRun

(* The limit the scheduler counted against is still the configured one.    *)
FixedLimit == OneSlot \/ "settings" \notin Commands

DriverPcs == {"driving", "retaining", "finished"}

(* The claimed run is the one the scheduler is about to start.             *)
ClaimIsStarted ==
    \A j \in Jobs, a \in Attempts :
        run[j][a].pc = "claimed" <=>
            sched.pc = "starting" /\ sched.job = j /\ sched.attempt = a

OneRunEach ==
    \A j \in Jobs : \A a, b \in Attempts :
        run[j][a].pc # "none" /\ run[j][b].pc # "none" => a = b

NeverClaimedTwice ==
    NoSecondRun =>
        \A j \in Jobs, a \in Attempts :
            run[j][a].pc # "none" => jobs[j].state \notin {"queued", "unused"}

(* The scheduler claims a job only while there is room for it.             *)
Room ==
    FixedLimit =>
        /\ Cardinality(Registered) <= concurrency
        /\ sched.pc \in {"claim", "starting"} => Cardinality(Registered) < concurrency
        /\ sched.pc = "count" => sched.limit <= concurrency

RunsInv ==
    ClaimIsStarted /\ OneRunEach /\ DriversAreRegistered /\ NeverClaimedTwice /\ Room

(* What a step does to the runs, the active map and the scheduler: it      *)
(* leaves every run where it is or moves it on under its driver, claims,   *)
(* starts or retires a run, or ends the process.                           *)
SchedKeeps ==
    \/ UNCHANGED sched
    \/ /\ sched.pc # "starting" /\ sched'.pc # "starting"
       /\ sched'.pc = "count" => sched'.limit = concurrency
       /\ sched'.pc = "claim" => sched.pc = "count" /\ Cardinality(Registered) < sched.limit

PcsKeep ==
    \A j \in Jobs, a \in Attempts :
        \/ run'[j][a].pc = run[j][a].pc
        \/ run[j][a].pc \in DriverPcs /\ run'[j][a].pc \in DriverPcs

PcsStay == \A j \in Jobs, a \in Attempts : run'[j][a].pc = run[j][a].pc

Keeps == UNCHANGED active /\ PcsKeep /\ SchedKeeps

Ends ==
    /\ active' = NoneActive /\ run' = NoRuns /\ sched' = SchedAt("stopped")
    /\ shutdown' = "off" /\ phase' = "down"

LEMMA PcOfSetRun ==
    ASSUME RunTypeOK, NEW j \in Jobs, NEW a \in Attempts, NEW r, SetRun(j, a, r)
    PROVE  /\ run'[j][a] = r
           /\ \A k \in Jobs, b \in Attempts : <<k, b>> # <<j, a>> => run'[k][b] = run[k][b]
  BY DEF RunTypeOK, SetRun

LEMMA SetRunKeeps ==
    ASSUME RunTypeOK, NEW j \in Jobs, NEW a \in Attempts, NEW r, SetRun(j, a, r),
           \/ r.pc = run[j][a].pc
           \/ run[j][a].pc \in DriverPcs /\ r.pc \in DriverPcs
    PROVE  PcsKeep
  BY PcOfSetRun DEF PcsKeep

LEMMA SetRunStays ==
    ASSUME RunTypeOK, NEW j \in Jobs, NEW a \in Attempts, NEW r, SetRun(j, a, r),
           r.pc = run[j][a].pc
    PROVE  PcsStay
  BY PcOfSetRun DEF PcsStay

LEMMA StopsKeepPc ==
    ASSUME NEW r \in Run
    PROVE  PauseRun(r).pc = r.pc /\ CancelRun(r).pc = r.pc
  BY DEF Run, PauseRun, CancelRun

LEMMA SchedWokenKeeps ==
    ASSUME SchedTypeOK, sched' = Woken(sched)
    PROVE  SchedKeeps
  BY DEF SchedTypeOK, Sched, Woken, SchedAt, SchedKeeps

LEMMA TaskKeepsPcs ==
    ASSUME IInv, NEW j \in Jobs, NEW a \in Attempts, TaskStep(j, a)
    PROVE  PcsStay
<1> DEFINE r == run[j][a]
<1>a. RunTypeOK /\ r \in Run
  BY DEF IInv, RunTypeOK
<1> HIDE DEF r
<1>1. ASSUME NEW x PROVE [r EXCEPT !.pending = x].pc = r.pc /\ [r EXCEPT !.result = x].pc = r.pc
  BY <1>a DEF Run
<1>2. ASSUME NEW x, NEW y PROVE [r EXCEPT !.stage = x, !.pending = y].pc = r.pc
  BY <1>a DEF Run
<1>3. CASE Advance(j, a)
  BY <1>a, <1>2, <1>3, SetRunStays DEF Advance, r
<1>4. CASE ReportProgress(j, a)
  BY <1>a, <1>1, <1>4, SetRunStays DEF ReportProgress, r
<1>5. CASE LoseEvents(j, a)
  BY <1>a, <1>1, <1>5, SetRunStays DEF LoseEvents, r
<1>6. CASE EndTask(j, a)
  BY <1>a, <1>1, <1>6, SetRunStays DEF EndTask, r
<1> QED
  BY <1>3, <1>4, <1>5, <1>6 DEF TaskStep, r

LEMMA DriverKeepsPcs ==
    ASSUME IInv, NEW j \in Jobs, NEW a \in Attempts, DriverStep(j, a), ~Retire(j, a)
    PROVE  PcsKeep
<1> DEFINE r == run[j][a]
<1>a. RunTypeOK /\ r \in Run
  BY DEF IInv, RunTypeOK
<1> HIDE DEF r
<1>b. [r EXCEPT !.pc = "finished"].pc \in DriverPcs
  BY <1>a DEF Run, DriverPcs
<1>1. CASE PersistEvent(j, a)
  <2> DEFINE rest == [r EXCEPT !.pending = Tail(r.pending)]
  <2>1. rest \in [pc : {r.pc}, stage : {r.stage}, pending : {Tail(r.pending)},
                  stop : {r.stop}, result : {r.result}]
    BY <1>a DEF Run
  <2>2. /\ \/ SetRun(j, a, IF closing THEN Stopping(rest, PauseRun(rest)) ELSE rest)
           \/ SetRun(j, a, Stopping(rest, CancelRun(rest)))
        /\ r.pc \in DriverPcs
    BY <1>1 DEF PersistEvent, r, DriverPcs
  <2> HIDE DEF rest
  <2>3. /\ rest.pc = r.pc /\ PauseRun(rest).pc = r.pc /\ CancelRun(rest).pc = r.pc
    BY <2>1 DEF PauseRun, CancelRun
  <2> QED
    BY <1>a, <2>2, <2>3, SetRunKeeps DEF Stopping, r
<1>2. CASE Finish(j, a)
  BY <1>a, <1>b, <1>2, SetRunKeeps DEF Finish, DriverIsDone, r, DriverPcs
<1>3. CASE RetainPartials(j, a)
  <2> DEFINE next == [r EXCEPT !.pc = "retaining",
                               !.result = IF closing THEN "interrupted" ELSE "paused"]
  <2>1. next.pc \in DriverPcs
    BY <1>a DEF Run, DriverPcs
  <2>2. /\ SetRun(j, a, next) \/ SetRun(j, a, [r EXCEPT !.pc = "finished"])
        /\ r.pc \in DriverPcs
    BY <1>3 DEF RetainPartials, DriverIsDone, r, DriverPcs
  <2> HIDE DEF next
  <2> QED
    BY <1>a, <1>b, <2>1, <2>2, SetRunKeeps DEF r
<1>4. CASE FinishRetained(j, a)
  BY <1>a, <1>b, <1>4, SetRunKeeps DEF FinishRetained, r, DriverPcs
<1> QED
  BY <1>1, <1>2, <1>3, <1>4 DEF DriverStep

LEMMA SchedLoopKeeps ==
    ASSUME IInv, SchedTop \/ SchedSettings \/ SchedCount \/ SchedIdle \/ SchedRegister
    PROVE  SchedKeeps
<1>a. SchedTypeOK
  BY DEF IInv
<1>b. ASSUME NEW pc \in SchedPcs, sched.pc # "starting", sched' = SchedAt(pc),
             pc \notin {"starting", "count", "claim"}
      PROVE  SchedKeeps
  BY <1>b, SchedAtTyped DEF SchedKeeps
<1>c. ASSUME sched.pc # "starting", ReleaseScheduler PROVE SchedKeeps
  BY <1>b, <1>c DEF ReleaseScheduler, SchedPcs
<1>1. CASE SchedTop
  BY <1>1, <1>b DEF SchedTop, SchedPcs
<1>2. CASE SchedSettings
  <2>1. CASE sched' = [SchedAt("count") EXCEPT !.limit = concurrency]
    BY <1>2, <2>1 DEF SchedSettings, SchedAt, SchedKeeps
  <2> QED
    BY <1>2, <1>c, <2>1 DEF SchedSettings
<1>3. CASE SchedCount
  <2> DEFINE seen == Cardinality(Registered)
  <2>1. CASE seen >= sched.limit
    BY <1>3, <1>b, <2>1 DEF SchedCount, SchedPcs
  <2>2. CASE ~(seen >= sched.limit)
    <3>0. sched.limit \in {0} \union Concurrencies
      BY <1>a DEF SchedTypeOK, Sched
    <3>1. seen \in Nat /\ sched.limit \in Nat
      <4>1. \A limit \in {0} \union Concurrencies : limit \in Nat
        BY StoreAssumption
      <4> QED
        BY <3>0, <4>1, RegisteredCounts
    <3>2. sched' = [SchedAt("claim") EXCEPT !.seen = seen] /\ sched.pc = "count"
      BY <1>3, <2>2 DEF SchedCount
    <3>3. sched'.pc = "claim"
      BY <3>2 DEF SchedAt
    <3> QED
      BY <2>2, <3>1, <3>2, <3>3 DEF SchedKeeps
  <2> QED
    BY <2>1, <2>2
<1>4. CASE SchedIdle
  BY <1>4, <1>b, <1>c DEF SchedIdle, SchedPcs
<1>5. CASE SchedRegister
  BY <1>5, <1>b DEF SchedRegister, SchedPcs
<1> QED
  BY <1>1, <1>2, <1>3, <1>4, <1>5

LEMMA StepKinds ==
    ASSUME IInv, [Next]_vars
    PROVE  \/ Keeps
           \/ \E j \in Jobs : SchedClaim(j)
           \/ SchedStart
           \/ \E j \in Jobs, a \in Attempts : Retire(j, a)
           \/ Ends
<1>a. RunTypeOK /\ SchedTypeOK /\ ActiveTypeOK /\ CallsHaveJobs
  BY DEF IInv
<1>b. ASSUME UNCHANGED run PROVE PcsKeep
  BY <1>b DEF PcsKeep
<1>c. UNCHANGED sched => SchedKeeps
  BY DEF SchedKeeps
<1>1. ASSUME NEW c \in Clients, ClientCall(c) \/ ClientStep(c) PROVE Keeps
  <2>1. UNCHANGED active
    BY <1>1 DEF ClientCall, ClientStep, CallEnqueue, CallOnJob, ChangeSettings, InsertEnqueued,
       Kick, PauseQueued, StopActive, SeeStopped, CancelStopped, ResumeInactive, RequeueJob,
       RemoveCompleted
  <2>2. SchedKeeps
    <3>1. CASE Kick(c)
      <4>1. CASE sched' = Woken(sched)
        BY <1>a, <4>1, SchedWokenKeeps
      <4>2. CASE sched.pc = "stopped" /\ sched' = SchedAt("top")
        BY <4>2 DEF SchedAt, SchedKeeps
      <4> QED
        BY <3>1, <4>1, <4>2 DEF Kick, KickScheduler
    <3> QED
      BY <1>1, <1>c, <3>1 DEF ClientCall, ClientStep, CallEnqueue, CallOnJob, ChangeSettings,
         InsertEnqueued, PauseQueued, StopActive, SeeStopped, CancelStopped, ResumeInactive,
         RequeueJob, RemoveCompleted
  <2>3. PcsKeep
    <3>1. CASE StopActive(c)
      <4> DEFINE j == client[c].job
                 a == active[j]
      <4>1. CASE UNCHANGED run
        BY <4>1, <1>b
      <4>2. CASE a # None
        <5>1. j \in Jobs
          BY <1>a, <3>1 DEF StopActive, CallsHaveJobs
        <5>2. a \in Attempts
          BY <1>a, <4>2, <5>1 DEF ActiveTypeOK
        <5>3. run[j][a] \in Run
          BY <1>a, <5>1, <5>2 DEF RunTypeOK
        <5>4. SetRun(j, a, PauseRun(run[j][a])) \/ SetRun(j, a, CancelRun(run[j][a]))
          BY <3>1, <4>2 DEF StopActive
        <5> HIDE DEF j, a
        <5> QED
          BY <1>a, <5>1, <5>2, <5>3, <5>4, StopsKeepPc, SetRunKeeps
      <4> QED
        BY <3>1, <4>1, <4>2 DEF StopActive
    <3> QED
      BY <1>1, <1>b, <3>1 DEF ClientCall, ClientStep, CallEnqueue, CallOnJob, ChangeSettings,
         InsertEnqueued, Kick, PauseQueued, SeeStopped, CancelStopped, ResumeInactive,
         RequeueJob, RemoveCompleted
  <2> QED
    BY <2>1, <2>2, <2>3 DEF Keeps
<1>2. CASE SchedStep
  <2>1. ASSUME SchedTop \/ SchedSettings \/ SchedCount \/ SchedIdle \/ SchedRegister PROVE Keeps
    <3>1. UNCHANGED <<active, run>>
      BY <2>1 DEF SchedTop, SchedSettings, SchedCount, SchedIdle, SchedRegister
    <3> QED
      BY <1>b, <2>1, <3>1, SchedLoopKeeps DEF Keeps
  <2> QED
    BY <1>2, <2>1 DEF SchedStep
<1>3. ASSUME NEW j \in Jobs, NEW a \in Attempts, TaskStep(j, a) PROVE Keeps
  <2>1. UNCHANGED <<active, sched>>
    BY <1>3 DEF TaskStep, Advance, ReportProgress, LoseEvents, EndTask, OnlyRunChanges
  <2> QED
    BY <1>3, <1>c, <2>1, TaskKeepsPcs DEF Keeps, PcsKeep, PcsStay
<1>4. ASSUME NEW j \in Jobs, NEW a \in Attempts, DriverStep(j, a), ~Retire(j, a) PROVE Keeps
  <2>1. UNCHANGED <<active, sched>>
    BY <1>4 DEF DriverStep, PersistEvent, Finish, RetainPartials, FinishRetained
  <2> QED
    BY <1>4, <1>c, <2>1, DriverKeepsPcs DEF Keeps
<1>5. CASE ShutdownStep
  <2>1. UNCHANGED active
    BY <1>5 DEF ShutdownStep, ShutdownBegin, ShutdownCount, ShutdownCollect, ShutdownCheck, ShutdownRegister,
       ShutdownTimeout
  <2>2. SchedKeeps
    BY <1>5, <1>a, <1>c, SchedWokenKeeps DEF ShutdownStep, ShutdownBegin, ShutdownCount, ShutdownCollect,
       ShutdownCheck, ShutdownRegister, ShutdownTimeout
  <2>3. PcsKeep
    <3>1. CASE ShutdownCollect
      <4>1. \A j \in Jobs, a \in Attempts : run'[j][a].pc = run[j][a].pc
        BY <1>a, <3>1, StopsKeepPc DEF ShutdownCollect, RunTypeOK
      <4> QED
        BY <4>1 DEF PcsKeep
    <3> QED
      BY <1>5, <1>b, <3>1 DEF ShutdownStep, ShutdownBegin, ShutdownCount, ShutdownCheck, ShutdownRegister,
         ShutdownTimeout
  <2> QED
    BY <2>1, <2>2, <2>3 DEF Keeps
<1>6. CASE Crash
  BY <1>6 DEF Crash, ProcessEnds, Ends
<1>7. CASE OpenStep
  <2>1. CASE OpenFails
    BY <2>1 DEF OpenFails, ProcessEnds, Ends
  <2>2. ASSUME ~OpenFails PROVE Keeps
    <3>1. UNCHANGED <<active, run, sched>>
      BY <1>7, <2>2 DEF OpenStep, OpenQueue, RecoverJob, OpenReturns, volatileVars
    <3> QED
      BY <1>b, <1>c, <3>1 DEF Keeps
  <2> QED
    BY <2>1, <2>2
<1>8. ASSUME UNCHANGED vars PROVE Keeps
  BY <1>8, <1>b, <1>c DEF vars, volatileVars, Keeps
<1> QED
  BY <1>1, <1>2, <1>3, <1>4, <1>5, <1>6, <1>7, <1>8 DEF Next

-----------------------------------------------------------------------------
(* The claimed run.                                                        *)

LEMMA ClaimedNow ==
    ASSUME IInv, NEW j \in Jobs, SchedClaim(j)
    PROVE  /\ jobs[j].attempt \in Attempts
           /\ run'[j][jobs[j].attempt].pc = "claimed"
           /\ \A k \in Jobs, b \in Attempts :
                  <<k, b>> # <<j, jobs[j].attempt>> => run'[k][b] = run[k][b]
           /\ sched.pc = "claim"
           /\ sched'.pc = "starting" /\ sched'.job = j /\ sched'.attempt = jobs[j].attempt
           /\ UNCHANGED active
<1> DEFINE a == jobs[j].attempt
           r == [NoRun EXCEPT !.pc = "claimed"]
<1>1. Present(j)
  BY DEF SchedClaim, ClaimNext, IsNextInLine, Present, JobStates
<1>2. sched' = [SchedAt("starting") EXCEPT !.job = j, !.attempt = a] /\ SetRun(j, a, r)
      /\ sched.pc = "claim" /\ UNCHANGED active
  BY DEF SchedClaim
<1>3. sched'.pc = "starting" /\ sched'.job = j /\ sched'.attempt = a
  BY <1>2 DEF SchedAt
<1>4. r.pc = "claimed"
  BY DEF NoRun
<1>5. a \in Attempts /\ RunTypeOK
  BY <1>1, ClaimedAttempt DEF IInv
<1> HIDE DEF a, r
<1>6. /\ run'[j][a] = r
      /\ \A k \in Jobs, b \in Attempts : <<k, b>> # <<j, a>> => run'[k][b] = run[k][b]
  BY <1>2, <1>5, PcOfSetRun
<1> QED
  BY <1>2, <1>3, <1>4, <1>5, <1>6 DEF a

LEMMA StartedNow ==
    ASSUME IInv, SchedStart
    PROVE  /\ sched.job \in Jobs /\ sched.attempt \in Attempts
           /\ sched.pc = "starting" /\ sched'.pc = "top"
           /\ \/ /\ run'[sched.job][sched.attempt].pc = "none"
                 /\ UNCHANGED active
              \/ /\ run'[sched.job][sched.attempt].pc = "driving"
                 /\ active' = [active EXCEPT ![sched.job] = sched.attempt]
           /\ \A k \in Jobs, b \in Attempts :
                  <<k, b>> # <<sched.job, sched.attempt>> => run'[k][b] = run[k][b]
<1>1. sched.job \in Jobs /\ sched.attempt \in Attempts /\ RunTypeOK
  BY DEF SchedStart, IInv, StartHasJob
<1>2. \/ SetRun(sched.job, sched.attempt, NoRun) /\ UNCHANGED active
      \/ /\ SetRun(sched.job, sched.attempt, [NoRun EXCEPT !.pc = "driving"])
         /\ active' = [active EXCEPT ![sched.job] = sched.attempt]
  BY DEF SchedStart
<1>3. sched.pc = "starting" /\ sched'.pc = "top"
  BY DEF SchedStart, SchedAt
<1>4. CASE SetRun(sched.job, sched.attempt, NoRun) /\ UNCHANGED active
  <2>1. NoRun.pc = "none"
    BY DEF NoRun
  <2> QED
    BY <1>1, <1>3, <1>4, <2>1, PcOfSetRun
<1>5. CASE /\ SetRun(sched.job, sched.attempt, [NoRun EXCEPT !.pc = "driving"])
           /\ active' = [active EXCEPT ![sched.job] = sched.attempt]
  <2> DEFINE r == [NoRun EXCEPT !.pc = "driving"]
  <2>1. r.pc = "driving"
    BY DEF NoRun
  <2> HIDE DEF r
  <2>2. SetRun(sched.job, sched.attempt, r)
    BY <1>5 DEF r
  <2> QED
    BY <1>1, <1>3, <1>5, <2>1, <2>2, PcOfSetRun
<1> QED
  BY <1>2, <1>4, <1>5

LEMMA RetiredNow ==
    ASSUME IInv, NEW j \in Jobs, NEW a \in Attempts, Retire(j, a)
    PROVE  /\ run[j][a].pc = "finished" /\ run'[j][a].pc = "none"
           /\ active' = [active EXCEPT ![j] = None]
           /\ sched' = Woken(sched)
           /\ \A k \in Jobs, b \in Attempts : <<k, b>> # <<j, a>> => run'[k][b] = run[k][b]
<1>1. RunTypeOK /\ SetRun(j, a, NoRun)
  BY DEF Retire, IInv
<1>2. NoRun.pc = "none"
  BY DEF NoRun
<1> QED
  BY <1>1, <1>2, PcOfSetRun DEF Retire

LEMMA EndedNow ==
    ASSUME Ends
    PROVE  /\ \A j \in Jobs, a \in Attempts : run'[j][a].pc = "none"
           /\ \A j \in Jobs : active'[j] = None
           /\ sched'.pc = "stopped"
  BY DEF Ends, NoRuns, NoRun, NoneActive, SchedAt

LEMMA ClaimIsStartedStep ==
    ASSUME IInv, ClaimIsStarted, [Next]_vars
    PROVE  ClaimIsStarted'
<1> USE DEF ClaimIsStarted
<1>1. CASE Keeps
  BY <1>1 DEF Keeps, PcsKeep, SchedKeeps, DriverPcs
<1>2. ASSUME NEW j \in Jobs, SchedClaim(j) PROVE ClaimIsStarted'
  <2>1. ASSUME NEW k \in Jobs, NEW b \in Attempts, <<k, b>> # <<j, jobs[j].attempt>>
        PROVE  run'[k][b].pc # "claimed"
    BY <1>2, <2>1, ClaimedNow
  <2> QED
    BY <1>2, <2>1, ClaimedNow
<1>3. CASE SchedStart
  BY <1>3, StartedNow
<1>4. ASSUME NEW j \in Jobs, NEW a \in Attempts, Retire(j, a) PROVE ClaimIsStarted'
  <2>1. sched' = sched \/ (sched.pc # "starting" /\ sched'.pc # "starting")
    BY <1>4, RetiredNow DEF Woken, SchedAt
  <2> QED
    BY <1>4, <2>1, RetiredNow
<1>5. CASE Ends
  BY <1>5, EndedNow
<1> QED
  BY <1>1, <1>2, <1>3, <1>4, <1>5, StepKinds

-----------------------------------------------------------------------------
(* What only a resume or a retry can do.                                   *)

LEMMA NoRequeueWrites ==
    ASSUME IInv, OpsAreCommands, NoSecondRun, [Next]_vars
    PROVE  [StoreWrite]_storeVars
<1>1. ASSUME NEW c \in Clients, RequeueJob(c) PROVE FALSE
  BY <1>1 DEF RequeueJob, IInv, CallsHaveJobs, OpsAreCommands, NoSecondRun
<1> QED
  BY <1>1, StoreWriteStep

(* Without one, no job comes back into the queue.                          *)
LEMMA WritesLeaveQueue ==
    ASSUME StoreTypeOK, [StoreWrite]_storeVars, NEW j \in Jobs,
           jobs[j].state \notin {"queued", "unused"}
    PROVE  jobs'[j].state \notin {"queued", "unused"}
<1> USE DEF StoreTypeOK, Row
<1>1. CASE UNCHANGED storeVars
  BY <1>1 DEF storeVars
<1>2. CASE RecoverActive
  BY <1>2 DEF RecoverActive
<1>3. ASSUME NEW limit \in Concurrencies, UpdateSettings(limit)
      PROVE  jobs'[j].state \notin {"queued", "unused"}
  BY <1>3 DEF UpdateSettings
<1>4. ASSUME NEW k \in Jobs, InsertJob(k) PROVE jobs'[j].state \notin {"queued", "unused"}
  BY <1>4 DEF InsertJob
<1>5. ASSUME NEW k \in Jobs, ClaimNext(k) PROVE jobs'[j].state \notin {"queued", "unused"}
  BY <1>5 DEF ClaimNext
<1>6. ASSUME NEW k \in Jobs, NEW state \in ActiveStates, NEW reports \in BOOLEAN,
             SaveProgress(k, state, reports)
      PROVE  jobs'[j].state \notin {"queued", "unused"}
  BY <1>6 DEF SaveProgress, ActiveStates
<1>7. ASSUME NEW k \in Jobs, NEW state \in StoppedStates, FinishJob(k, state)
      PROVE  jobs'[j].state \notin {"queued", "unused"}
  BY <1>7 DEF FinishJob, StoppedStates, TerminalStates, RestingStates
<1>8. ASSUME NEW k \in Jobs, TransitionStopped(k, "paused")
      PROVE  jobs'[j].state \notin {"queued", "unused"}
  BY <1>8 DEF TransitionStopped
<1>9. ASSUME NEW k \in Jobs, SetRecoveryFailure(k)
      PROVE  jobs'[j].state \notin {"queued", "unused"}
  BY <1>9 DEF SetRecoveryFailure
<1>10. ASSUME NEW k \in Jobs, NEW some \in BOOLEAN, ReplaceOwnedPaths(k, some)
       PROVE  jobs'[j].state \notin {"queued", "unused"}
  BY <1>10 DEF ReplaceOwnedPaths
<1>11. ASSUME NEW k \in Jobs, DeleteCompleted(k) PROVE jobs'[j].state \notin {"queued", "unused"}
  BY <1>11 DEF DeleteCompleted, NoRow
<1> QED
  BY <1>1, <1>2, <1>3, <1>4, <1>5, <1>6, <1>7, <1>8, <1>9, <1>10, <1>11 DEF StoreWrite

-----------------------------------------------------------------------------
(* A job that is claimed has no run.                                       *)

LEMMA ClaimedHasNoRun ==
    ASSUME IInv, RunsOnce, RunsInv, NEW j \in Jobs, SchedClaim(j)
    PROVE  \A a \in Attempts : run[j][a].pc = "none"
<1>1. CASE NoSecondRun
  BY <1>1 DEF RunsInv, NeverClaimedTwice, SchedClaim, ClaimNext, IsNextInLine
<1>2. CASE OneSlot
  <2>1. concurrency = 1 /\ sched.pc = "claim"
    BY <1>2, ClaimedNow DEF OneSlot, IInv, StoreTypeOK
  <2>2. Cardinality(Registered) = 0
    BY <1>2, <2>1, RegisteredCounts DEF RunsInv, Room, FixedLimit
  <2>3. IsFiniteSet(Registered)
    BY QueueAssumption, FS_Subset DEF Registered
  <2>4. Registered = {}
    BY <2>2, <2>3, FS_EmptySet
  <2>5. ASSUME NEW a \in Attempts, run[j][a].pc \in DriverPcs PROVE FALSE
    <3>1. <<j, a>> \in Drivers
      BY <2>5 DEF Drivers, DriverPcs
    <3>2. active[j] = a /\ a # None
      BY <3>1 DEF RunsInv, DriversAreRegistered, Attempts, None
    <3> QED
      BY <2>4, <3>2 DEF Registered
  <2>6. ASSUME NEW a \in Attempts PROVE run[j][a].pc \in {"none", "claimed"} \union DriverPcs
    BY DEF IInv, RunTypeOK, Run, DriverPcs
  <2> QED
    BY <2>1, <2>5, <2>6 DEF RunsInv, ClaimIsStarted
<1> QED
  BY <1>1, <1>2 DEF RunsOnce

LEMMA OneRunEachStep ==
    ASSUME IInv, RunsOnce, RunsInv, [Next]_vars
    PROVE  OneRunEach'
<1>a. OneRunEach /\ ClaimIsStarted
  BY DEF RunsInv
<1> USE DEF OneRunEach
<1>1. CASE Keeps
  BY <1>1, <1>a DEF Keeps, PcsKeep, DriverPcs
<1>2. ASSUME NEW j \in Jobs, SchedClaim(j) PROVE OneRunEach'
  BY <1>2, <1>a, ClaimedNow, ClaimedHasNoRun
<1>3. CASE SchedStart
  <2>1. run[sched.job][sched.attempt].pc = "claimed"
    BY <1>3, <1>a, StartedNow DEF ClaimIsStarted
  <2> QED
    BY <1>3, <1>a, <2>1, StartedNow
<1>4. ASSUME NEW j \in Jobs, NEW a \in Attempts, Retire(j, a) PROVE OneRunEach'
  BY <1>4, <1>a, RetiredNow
<1>5. CASE Ends
  BY <1>5, EndedNow
<1> QED
  BY <1>1, <1>2, <1>3, <1>4, <1>5, StepKinds

(* Whose entry the active map holds, in terms of the runs' positions.      *)
LEMMA RegisteredRuns ==
    DriversAreRegistered <=>
        /\ \A j \in Jobs, a \in Attempts : run[j][a].pc \in DriverPcs => active[j] = a
        /\ \A j \in Jobs : active[j] # None =>
               active[j] \in Attempts /\ run[j][active[j]].pc \in DriverPcs
<1>1. \A j, a : <<j, a>> \in Drivers <=> j \in Jobs /\ a \in Attempts /\ run[j][a].pc \in DriverPcs
  BY DEF Drivers, DriverPcs
<1>2. (\A ja \in Drivers : active[ja[1]] = ja[2])
        <=> \A j \in Jobs, a \in Attempts : <<j, a>> \in Drivers => active[j] = a
  BY DEF Drivers
<1> QED
  BY <1>1, <1>2 DEF DriversAreRegistered, Registered

LEMMA DriversAreRegisteredStep ==
    ASSUME IInv, RunsOnce, RunsInv, [Next]_vars
    PROVE  DriversAreRegistered'
<1>a. OneRunEach /\ ClaimIsStarted /\ ActiveTypeOK /\ RunTypeOK
  BY DEF RunsInv, IInv
<1>b. /\ \A j \in Jobs, a \in Attempts : run[j][a].pc \in DriverPcs => active[j] = a
      /\ \A j \in Jobs : active[j] # None =>
             active[j] \in Attempts /\ run[j][active[j]].pc \in DriverPcs
  BY RegisteredRuns DEF RunsInv
<1> SUFFICES
        /\ \A j \in Jobs, a \in Attempts : run'[j][a].pc \in DriverPcs => active'[j] = a
        /\ \A j \in Jobs : active'[j] # None =>
               active'[j] \in Attempts /\ run'[j][active'[j]].pc \in DriverPcs
  <2>1. DriversAreRegistered' <=>
        /\ \A j \in Jobs, a \in Attempts : run'[j][a].pc \in DriverPcs => active'[j] = a
        /\ \A j \in Jobs : active'[j] # None =>
               active'[j] \in Attempts /\ run'[j][active'[j]].pc \in DriverPcs
    BY DEF DriversAreRegistered, Drivers, Registered, DriverPcs
  <2> QED
    BY <2>1
<1> DEFINE Goal ==
        /\ \A j \in Jobs, a \in Attempts : run'[j][a].pc \in DriverPcs => active'[j] = a
        /\ \A j \in Jobs : active'[j] # None =>
               active'[j] \in Attempts /\ run'[j][active'[j]].pc \in DriverPcs
<1>1. CASE Keeps
  BY <1>1, <1>b DEF Keeps, PcsKeep
<1>2. ASSUME NEW j \in Jobs, SchedClaim(j) PROVE Goal
  <2>1. \A a \in Attempts : run[j][a].pc \notin DriverPcs
    BY <1>2, ClaimedHasNoRun DEF DriverPcs
  <2>2. \A k \in Jobs, a \in Attempts :
            run'[k][a].pc = run[k][a].pc \/ (k = j /\ run'[k][a].pc = "claimed")
    <3>1. ASSUME NEW k \in Jobs, NEW a \in Attempts
          PROVE  run'[k][a].pc = run[k][a].pc \/ (k = j /\ run'[k][a].pc = "claimed")
      BY <1>2, ClaimedNow
    <3> QED
      BY <3>1
  <2> QED
    BY <1>2, <1>b, <2>1, <2>2, ClaimedNow DEF DriverPcs
<1>3. CASE SchedStart
  <2>1. run[sched.job][sched.attempt].pc = "claimed"
    BY <1>3, <1>a, StartedNow DEF ClaimIsStarted
  <2>2. \A b \in Attempts : b # sched.attempt => run'[sched.job][b].pc = "none"
    BY <1>3, <1>a, <2>1, StartedNow DEF OneRunEach
  <2>3. active[sched.job] = None
    BY <1>3, <1>a, <1>b, <2>1, StartedNow DEF OneRunEach, DriverPcs
  <2>4. CASE run'[sched.job][sched.attempt].pc = "none" /\ UNCHANGED active
    BY <1>3, <1>b, <2>2, <2>3, <2>4, StartedNow DEF DriverPcs
  <2>5. CASE /\ run'[sched.job][sched.attempt].pc = "driving"
             /\ active' = [active EXCEPT ![sched.job] = sched.attempt]
    <3>1. ASSUME NEW k \in Jobs, k # sched.job
          PROVE  active'[k] = active[k] /\ \A b \in Attempts : run'[k][b] = run[k][b]
      BY <1>3, <1>a, <2>5, <3>1, StartedNow DEF ActiveTypeOK
    <3>2. active'[sched.job] = sched.attempt /\ sched.attempt \in Attempts
      BY <1>3, <1>a, <2>5, StartedNow DEF ActiveTypeOK
    <3> QED
      BY <1>b, <2>2, <2>5, <3>1, <3>2 DEF DriverPcs
  <2> QED
    BY <1>3, <2>4, <2>5, StartedNow
<1>4. ASSUME NEW j \in Jobs, NEW a \in Attempts, Retire(j, a) PROVE Goal
  <2>1. \A b \in Attempts : run'[j][b].pc = "none"
    BY <1>4, <1>a, RetiredNow DEF OneRunEach
  <2>2. active'[j] = None
    BY <1>4, <1>a, RetiredNow DEF ActiveTypeOK
  <2>3. ASSUME NEW k \in Jobs, k # j
        PROVE  active'[k] = active[k] /\ \A b \in Attempts : run'[k][b] = run[k][b]
    BY <1>4, <1>a, <2>3, RetiredNow DEF ActiveTypeOK
  <2> QED
    BY <1>b, <2>1, <2>2, <2>3 DEF DriverPcs
<1>5. CASE Ends
  BY <1>5, EndedNow DEF DriverPcs
<1> QED
  BY <1>1, <1>2, <1>3, <1>4, <1>5, StepKinds

LEMMA NeverClaimedTwiceStep ==
    ASSUME IInv, OpsAreCommands, RunsInv, [Next]_vars
    PROVE  NeverClaimedTwice'
<1> SUFFICES ASSUME NoSecondRun, NEW j \in Jobs, NEW a \in Attempts, run'[j][a].pc # "none"
             PROVE  jobs'[j].state \notin {"queued", "unused"}
  BY DEF NeverClaimedTwice, NoSecondRun
<1>a. NeverClaimedTwice /\ ClaimIsStarted /\ RunTypeOK /\ StoreTypeOK
  BY DEF RunsInv, IInv
<1>b. jobs[j].state \notin {"queued", "unused"} => jobs'[j].state \notin {"queued", "unused"}
  BY <1>a, NoRequeueWrites, WritesLeaveQueue
<1>c. run[j][a].pc # "none" => jobs'[j].state \notin {"queued", "unused"}
  BY <1>a, <1>b DEF NeverClaimedTwice
<1>1. CASE Keeps
  BY <1>1, <1>c DEF Keeps, PcsKeep, DriverPcs
<1>2. ASSUME NEW k \in Jobs, SchedClaim(k) PROVE jobs'[j].state \notin {"queued", "unused"}
  <2>1. CASE j = k
    BY <1>2, <1>a, <2>1 DEF SchedClaim, ClaimNext, StoreTypeOK, Row
  <2>2. CASE j # k
    <3>1. run'[j][a] = run[j][a]
      BY <1>2, <2>2, ClaimedNow
    <3> QED
      BY <1>c, <3>1
  <2> QED
    BY <2>1, <2>2
<1>3. CASE SchedStart
  BY <1>3, <1>a, <1>c, StartedNow DEF ClaimIsStarted
<1>4. ASSUME NEW k \in Jobs, NEW b \in Attempts, Retire(k, b)
      PROVE  jobs'[j].state \notin {"queued", "unused"}
  BY <1>4, <1>c, RetiredNow
<1>5. CASE Ends
  BY <1>5, EndedNow
<1> QED
  BY <1>1, <1>2, <1>3, <1>4, <1>5, StepKinds

-----------------------------------------------------------------------------
(* The slots.                                                              *)

LEMMA LimitIsFixed ==
    ASSUME IInv, FixedLimit, [Next]_vars
    PROVE  concurrency' = concurrency
<1>a. StoreTypeOK /\ StoreTypeOK'
  BY IInvStep DEF IInv
<1>1. CASE OneSlot
  BY <1>a, <1>1 DEF OneSlot, StoreTypeOK
<1>2. CASE "settings" \notin Commands
  <2>1. ASSUME NEW c \in Clients, NEW limit \in Concurrencies, ChangeSettings(c, limit) PROVE FALSE
    BY <1>2, <2>1 DEF ChangeSettings
  <2>2. ASSUME NEW c \in Clients, ClientCall(c) \/ ClientStep(c) PROVE UNCHANGED concurrency
    BY <2>1, <2>2 DEF ClientCall, ClientStep, CallEnqueue, CallOnJob, InsertEnqueued, Kick,
       PauseQueued, StopActive, SeeStopped, CancelStopped, ResumeInactive, RequeueJob,
       RemoveCompleted, storeVars, InsertJob, TransitionStopped, FinishJob, Requeue,
       DeleteCompleted
  <2>3. CASE SchedStep
    BY <2>3 DEF SchedStep, SchedTop, SchedSettings, SchedCount, SchedIdle, SchedRegister,
       SchedStart, SchedClaim, ClaimNext, WriteFinal, FinishJob, storeVars
  <2>4. ASSUME NEW j \in Jobs, NEW a \in Attempts, TaskStep(j, a) \/ DriverStep(j, a)
        PROVE  UNCHANGED concurrency
    BY <2>4 DEF TaskStep, Advance, ReportProgress, LoseEvents, EndTask, OnlyRunChanges,
       DriverStep, PersistEvent, Finish, RetainPartials, FinishRetained, Retire, SaveProgress,
       WriteFinal, FinishJob, ReplaceOwnedPaths, storeVars
  <2>5. CASE ShutdownStep
    BY <2>5 DEF ShutdownStep, ShutdownBegin, ShutdownCount, ShutdownCollect, ShutdownCheck, ShutdownRegister,
       ShutdownTimeout, storeVars
  <2>6. CASE Crash
    BY <2>6 DEF Crash, ProcessEnds, storeVars
  <2>7. CASE OpenStep
    BY <2>7 DEF OpenStep, OpenQueue, RecoverActive, RecoverJob, SetRecoveryFailure,
       ReplaceOwnedPaths, OpenReturns, OpenFails, ProcessEnds, storeVars
  <2>8. CASE UNCHANGED vars
    BY <2>8 DEF vars, storeVars
  <2> QED
    BY <2>2, <2>3, <2>4, <2>5, <2>6, <2>7, <2>8 DEF Next
<1> QED
  BY <1>1, <1>2 DEF FixedLimit

LEMMA LimitIsPositive == StoreTypeOK => concurrency \in Nat \ {0}
<1>1. \A limit \in Concurrencies : limit \in Nat \ {0}
  BY StoreAssumption
<1> QED
  BY <1>1 DEF StoreTypeOK

LEMMA RegisteredIsFinite == IsFiniteSet(Registered)
  BY QueueAssumption, FS_Subset DEF Registered

LEMMA FewerRegistered ==
    ASSUME Registered' \subseteq Registered
    PROVE  Cardinality(Registered') <= Cardinality(Registered) /\ Cardinality(Registered') \in Nat
  BY RegisteredIsFinite, FS_Subset, FS_CardinalityType

LEMMA RoomStep ==
    ASSUME IInv, Room, [Next]_vars
    PROVE  Room'
<1> SUFFICES ASSUME FixedLimit
             PROVE  /\ Cardinality(Registered') <= concurrency'
                    /\ sched'.pc \in {"claim", "starting"} =>
                          Cardinality(Registered') < concurrency'
                    /\ sched'.pc = "count" => sched'.limit <= concurrency'
  BY DEF Room, FixedLimit, OneSlot
<1>a. /\ Cardinality(Registered) <= concurrency
      /\ sched.pc \in {"claim", "starting"} => Cardinality(Registered) < concurrency
      /\ sched.pc = "count" => sched.limit <= concurrency
  BY DEF Room
<1>b. concurrency' = concurrency /\ concurrency \in Nat \ {0} /\ ActiveTypeOK /\ SchedTypeOK
  BY LimitIsFixed, LimitIsPositive DEF IInv
<1>c. Cardinality(Registered) \in Nat
  BY RegisteredCounts
<1>d. \A limit \in {0} \union Concurrencies : limit \in Nat
  BY StoreAssumption
<1>e. sched.limit \in Nat
  BY <1>b, <1>d DEF SchedTypeOK, Sched
<1>1. CASE Keeps
  <2>1. Registered' = Registered
    BY <1>1 DEF Keeps, Registered
  <2>2. CASE sched' = sched
    BY <1>a, <1>b, <2>1, <2>2
  <2>3. CASE /\ sched'.pc # "starting"
             /\ sched'.pc = "count" => sched'.limit = concurrency
             /\ sched'.pc = "claim" => sched.pc = "count" /\ Cardinality(Registered) < sched.limit
    BY <1>a, <1>b, <1>c, <1>e, <2>1, <2>3
  <2> QED
    BY <1>1, <2>2, <2>3 DEF Keeps, SchedKeeps
<1>2. ASSUME NEW j \in Jobs, SchedClaim(j)
      PROVE  /\ Cardinality(Registered') <= concurrency'
             /\ sched'.pc \in {"claim", "starting"} => Cardinality(Registered') < concurrency'
             /\ sched'.pc = "count" => sched'.limit <= concurrency'
  <2>1. Registered' = Registered /\ sched.pc = "claim" /\ sched'.pc = "starting"
    BY <1>2, ClaimedNow DEF Registered
  <2> QED
    BY <1>a, <1>b, <1>c, <2>1
<1>3. CASE SchedStart
  <2>1. sched.pc = "starting" /\ sched'.pc = "top" /\ sched.job \in Jobs
    BY <1>3, StartedNow
  <2>2. Registered' \subseteq Registered \union {sched.job}
    BY <1>3, <1>b, StartedNow DEF Registered, ActiveTypeOK
  <2>3. /\ IsFiniteSet(Registered \union {sched.job})
        /\ Cardinality(Registered \union {sched.job}) <= Cardinality(Registered) + 1
        /\ Cardinality(Registered \union {sched.job}) \in Nat
    <3>1. /\ IsFiniteSet(Registered \union {sched.job})
          /\ Cardinality(Registered \union {sched.job}) =
                IF sched.job \in Registered THEN Cardinality(Registered)
                                            ELSE Cardinality(Registered) + 1
      BY RegisteredIsFinite, FS_AddElement
    <3> QED
      BY <1>c, <3>1
  <2>4. /\ Cardinality(Registered') <= Cardinality(Registered \union {sched.job})
        /\ Cardinality(Registered') \in Nat
    BY <2>2, <2>3, FS_Subset, FS_CardinalityType
  <2>5. Cardinality(Registered') <= concurrency
    BY <1>a, <1>b, <1>c, <2>1, <2>3, <2>4
  <2> QED
    BY <1>b, <2>1, <2>5
<1>4. ASSUME NEW j \in Jobs, NEW a \in Attempts, Retire(j, a)
      PROVE  /\ Cardinality(Registered') <= concurrency'
             /\ sched'.pc \in {"claim", "starting"} => Cardinality(Registered') < concurrency'
             /\ sched'.pc = "count" => sched'.limit <= concurrency'
  <2>1. Registered' \subseteq Registered
    BY <1>4, <1>b, RetiredNow DEF Registered, ActiveTypeOK
  <2>2. Cardinality(Registered') <= Cardinality(Registered) /\ Cardinality(Registered') \in Nat
    BY <2>1, FewerRegistered
  <2>3. sched' = sched \/ sched'.pc = "top"
    BY <1>4, RetiredNow DEF Woken, SchedAt
  <2> QED
    BY <1>a, <1>b, <1>c, <2>2, <2>3
<1>5. CASE Ends
  <2>1. Registered' \subseteq Registered /\ sched'.pc = "stopped"
    BY <1>5, EndedNow DEF Registered
  <2>2. Cardinality(Registered') <= Cardinality(Registered) /\ Cardinality(Registered') \in Nat
    BY <2>1, FewerRegistered
  <2> QED
    BY <1>a, <1>b, <1>c, <2>1, <2>2
<1> QED
  BY <1>1, <1>2, <1>3, <1>4, <1>5, StepKinds

LEMMA RunsInvInit == Init => OpsAreCommands /\ RunsInv
<1> SUFFICES ASSUME Init PROVE OpsAreCommands /\ RunsInv
    OBVIOUS
<1>1. /\ \A j \in Jobs, a \in Attempts : run[j][a].pc = "none"
      /\ \A j \in Jobs : active[j] = None
      /\ sched.pc = "stopped"
  BY DEF Init, VolatileInit, NoRuns, NoRun, NoneActive, SchedAt
<1>2. OpsAreCommands
  BY DEF Init, VolatileInit, OpsAreCommands, AllIdle, Idle
<1>3. ClaimIsStarted /\ OneRunEach /\ NeverClaimedTwice
  BY <1>1 DEF ClaimIsStarted, OneRunEach, NeverClaimedTwice
<1>4. DriversAreRegistered
  BY <1>1 DEF DriversAreRegistered, Drivers, Registered
<1>5. Room
  <2>1. Registered = {}
    BY <1>1 DEF Registered
  <2>2. Cardinality(Registered) = 0 /\ concurrency \in Nat \ {0}
    BY <2>1, FS_EmptySet, IInvInit, LimitIsPositive DEF IInv
  <2> QED
    BY <1>1, <2>2 DEF Room
<1> QED
  BY <1>2, <1>3, <1>4, <1>5 DEF RunsInv

LEMMA RunsInvStep ==
    ASSUME RunsOnce
    PROVE  IInv /\ OpsAreCommands /\ RunsInv /\ [Next]_vars => RunsInv'
  BY ClaimIsStartedStep, OneRunEachStep, DriversAreRegisteredStep, NeverClaimedTwiceStep, RoomStep
     DEF RunsInv

LEMMA RunsAreWithinLimit ==
    ASSUME FixedLimit
    PROVE  IInv /\ RunsInv => WithinLimit
<1> SUFFICES ASSUME IInv, RunsInv PROVE Cardinality(LiveRuns) <= concurrency
    BY DEF WithinLimit
<1> DEFINE jobOf == [ja \in LiveRuns |-> ja[1]]
<1>1. ASSUME NEW ja \in LiveRuns
      PROVE  ja = <<ja[1], active[ja[1]]>> /\ ja[1] \in Registered
  <2>1. ja[1] \in Jobs /\ ja[2] \in Attempts /\ ja = <<ja[1], ja[2]>> /\ IsLive(ja[1], ja[2])
    BY DEF LiveRuns
  <2>2. active[ja[1]] = ja[2]
    BY <2>1, RegisteredRuns DEF IsLive, RunsInv, DriverPcs
  <2>3. ja[1] \in Registered
    BY <2>1, <2>2 DEF Registered, None, Attempts
  <2> QED
    BY <2>1, <2>2, <2>3
<1>2. jobOf \in Injection(LiveRuns, Registered)
  <2>1. jobOf \in [LiveRuns -> Registered]
    BY <1>1
  <2>2. \A x, y \in LiveRuns : jobOf[x] = jobOf[y] => x = y
    BY <1>1
  <2> QED
    BY <2>1, <2>2 DEF Injection, IsInjective
<1>3. Cardinality(LiveRuns) <= Cardinality(Registered) /\ IsFiniteSet(LiveRuns)
  BY <1>2, RegisteredIsFinite, FS_Injection
<1>4. Cardinality(Registered) <= concurrency
  BY DEF RunsInv, Room
<1>5. /\ concurrency \in Nat /\ Cardinality(Registered) \in Nat
      /\ Cardinality(LiveRuns) \in Nat
  BY <1>3, LimitIsPositive, RegisteredCounts, FS_CardinalityType DEF IInv
<1> QED
  BY <1>3, <1>4, <1>5

(* The active map holds exactly the runs that have a driver, so pause,     *)
(* cancel and shutdown reach every download and no slot is lost, whatever  *)
(* clients, failures and crashes do, if the setting allows one slot only   *)
(* or no job is resumed or retried.                                        *)
THEOREM ActiveMapIsExact ==
    ASSUME RunsOnce
    PROVE  Spec => []DriversAreRegistered
<1> DEFINE Inv == IInv /\ OpsAreCommands /\ RunsInv
<1>1. Init => Inv
  BY IInvInit, RunsInvInit
<1>2. Inv /\ [Next]_vars => Inv'
  BY IInvStep, OpsAreCommandsStep, RunsInvStep
<1>3. Inv => DriversAreRegistered
  BY DEF RunsInv
<1> QED
  BY <1>1, <1>2, <1>3, PTL DEF Spec

(* Never more downloads with a process tree than slots, for every number   *)
(* of slots, under the same condition and while no client changes the      *)
(* number of slots.                                                        *)
THEOREM LimitIsRespected ==
    ASSUME RunsOnce, FixedLimit
    PROVE  Spec => []WithinLimit
<1> DEFINE Inv == IInv /\ OpsAreCommands /\ RunsInv
<1>1. Init => Inv
  BY IInvInit, RunsInvInit
<1>2. Inv /\ [Next]_vars => Inv'
  BY IInvStep, OpsAreCommandsStep, RunsInvStep
<1>3. Inv => WithinLimit
  BY RunsAreWithinLimit
<1> QED
  BY <1>1, <1>2, <1>3, PTL DEF Spec

-----------------------------------------------------------------------------
(* Any number of runs per job.                                             *)
(*                                                                         *)
(* What is left of the exact map where several slots, resume and retry     *)
(* meet and a late driver may take the next attempt's entry with it.       *)

(* A run is of an attempt its job has come to, and the attempt a queued    *)
(* job waits for has none yet, so that a claim never takes over a run.     *)
RunsAreCounted ==
    \A j \in Jobs, a \in Attempts : run[j][a].pc # "none" =>
        /\ jobs[j].state = "deleted" \/ a <= jobs[j].attempt
        /\ jobs[j].state = "queued" => a < jobs[j].attempt

(* No slot is taken by an entry whose driver is gone.                      *)
EntriesAreDriven == \A j \in Registered : <<j, active[j]>> \in Drivers

(* A job in its first attempt is in reach of its controls.                 *)
FirstRunsAreRegistered ==
    \A ja \in Drivers :
        Present(ja[1]) /\ jobs[ja[1]].attempt = 1 => active[ja[1]] = ja[2]

SlotsAreKept == Cardinality(Registered) <= concurrency

MapInv ==
    /\ UnusedIsBlank /\ ClaimIsStarted /\ Room
    /\ RunsAreCounted /\ EntriesAreDriven /\ FirstRunsAreRegistered

LEMMA DeletedStays ==
    ASSUME StoreTypeOK, [StoreNext]_storeVars, NEW j \in Jobs, jobs[j].state = "deleted"
    PROVE  jobs'[j].state = "deleted"
<1>1. [History!Next]_StateView
  BY HistoryStep
<1>2. StateView[j] = "deleted" /\ StateView'[j] = jobs'[j].state
  BY DEF StateView
<1>3. \A to : ~History!CanTransitionTo("deleted", to)
  <2>1. History!RestingStates = {"paused", "interrupted"}
    BY DEF History!RestingStates
  <2>2. History!Successors("deleted") = {}
    BY <2>1 DEF History!Successors
  <2> QED
    BY <2>2 DEF History!CanTransitionTo
<1>4. CASE UNCHANGED StateView
  BY <1>2, <1>4
<1>5. CASE History!Interrupt
  BY <1>2, <1>5 DEF History!Interrupt, History!ActiveStates, StateView
<1>6. ASSUME NEW k \in Jobs, History!Submit(k) \/ History!Forget(k)
      PROVE  jobs'[j].state = "deleted"
  BY <1>2, <1>6 DEF History!Submit, History!Forget, StateView
<1>7. ASSUME NEW k \in Jobs, NEW to, History!Move(k, to)
      PROVE  jobs'[j].state = "deleted"
  BY <1>2, <1>3, <1>7 DEF History!Move, StateView
<1> QED
  BY <1>1, <1>4, <1>5, <1>6, <1>7 DEF History!Next, StateView

(* A run that exists stays counted, whatever happens to its job's row.     *)
LEMMA CountedRunsStay ==
    ASSUME IInv, UnusedIsBlank, RunsAreCounted, [Next]_vars,
           NEW j \in Jobs, NEW a \in Attempts, run[j][a].pc # "none"
    PROVE  /\ jobs'[j].state = "deleted" \/ a <= jobs'[j].attempt
           /\ jobs'[j].state = "queued" => a < jobs'[j].attempt
           /\ jobs'[j].state # "deleted" =>
                 /\ Present(j) /\ a <= jobs[j].attempt
                 /\ jobs'[j].attempt \in {jobs[j].attempt, jobs[j].attempt + 1}
<1>1. [StoreNext]_storeVars /\ StoreTypeOK /\ StoreTypeOK'
  BY StoreStep, IInvStep DEF IInv
<1>2. CASE jobs[j].state = "deleted"
  <2>1. jobs'[j].state = "deleted"
    BY <1>1, <1>2, DeletedStays
  <2> QED
    BY <2>1
<1>3. CASE jobs[j].state # "deleted"
  <2>1. /\ a <= jobs[j].attempt /\ a \in Nat /\ a >= 1
        /\ jobs[j].state = "queued" => a < jobs[j].attempt
        /\ jobs[j].attempt \in Nat
    BY <1>1, <1>3 DEF RunsAreCounted, Attempts, StoreTypeOK, Row
  <2>2. jobs[j].state # "unused"
    <3>1. NoRow("unused").attempt = 0
      BY DEF NoRow
    <3> QED
      BY <2>1, <3>1 DEF UnusedIsBlank
  <2>3. Present(j)
    BY <1>1, <1>3, <2>2 DEF StoreTypeOK, Row, Present
  <2>4. PlaceKept(j)
    BY <1>1, PlacesStep DEF IInv
  <2>5. CASE jobs'[j].state = "queued" /\ jobs[j].state # "queued"
    BY <2>1, <2>3, <2>4, <2>5 DEF PlaceKept, GoesToTheTail
  <2>6. CASE ~(jobs'[j].state = "queued" /\ jobs[j].state # "queued")
    BY <2>1, <2>3, <2>4, <2>6 DEF PlaceKept
  <2> QED
    BY <2>5, <2>6
<1> QED
  BY <1>2, <1>3

LEMMA ClaimedIsNew ==
    ASSUME IInv, RunsAreCounted, NEW j \in Jobs, SchedClaim(j)
    PROVE  /\ run[j][jobs[j].attempt].pc = "none"
           /\ jobs'[j].state = "analyzing" /\ jobs'[j].attempt = jobs[j].attempt
<1>1. jobs[j].state = "queued" /\ jobs' = [jobs EXCEPT ![j].state = "analyzing"]
  BY DEF SchedClaim, ClaimNext, IsNextInLine
<1>2. jobs[j].attempt \in Attempts
  BY ClaimedNow
<1>3. run[j][jobs[j].attempt].pc = "none"
  BY <1>1, <1>2 DEF RunsAreCounted, Attempts
<1>4. jobs'[j].state = "analyzing" /\ jobs'[j].attempt = jobs[j].attempt
  BY <1>1 DEF IInv, StoreTypeOK, Row
<1> QED
  BY <1>3, <1>4

LEMMA RunsAreCountedStep ==
    ASSUME IInv, UnusedIsBlank, ClaimIsStarted, RunsAreCounted, [Next]_vars
    PROVE  RunsAreCounted'
<1> SUFFICES ASSUME NEW j \in Jobs, NEW a \in Attempts, run'[j][a].pc # "none"
             PROVE  /\ jobs'[j].state = "deleted" \/ a <= jobs'[j].attempt
                    /\ jobs'[j].state = "queued" => a < jobs'[j].attempt
    BY DEF RunsAreCounted
<1> DEFINE Goal == /\ jobs'[j].state = "deleted" \/ a <= jobs'[j].attempt
                   /\ jobs'[j].state = "queued" => a < jobs'[j].attempt
<1>0. ASSUME run[j][a].pc # "none" PROVE Goal
  BY <1>0, CountedRunsStay
<1>1. CASE Keeps
  BY <1>0, <1>1 DEF Keeps, PcsKeep, DriverPcs
<1>2. ASSUME NEW k \in Jobs, SchedClaim(k) PROVE Goal
  <2>1. CASE j = k /\ a = jobs[k].attempt
    BY <1>2, <2>1, ClaimedIsNew DEF Attempts
  <2>2. CASE <<j, a>> # <<k, jobs[k].attempt>>
    <3>1. run'[j][a] = run[j][a]
      BY <1>2, <2>2, ClaimedNow
    <3> QED
      BY <1>0, <3>1
  <2> QED
    BY <2>1, <2>2
<1>3. CASE SchedStart
  <2>1. run[sched.job][sched.attempt].pc = "claimed"
    BY <1>3, StartedNow DEF ClaimIsStarted
  <2>2. CASE <<j, a>> # <<sched.job, sched.attempt>>
    <3>1. run'[j][a] = run[j][a]
      BY <1>3, <2>2, StartedNow
    <3> QED
      BY <1>0, <3>1
  <2> QED
    BY <1>0, <2>1, <2>2
<1>4. ASSUME NEW k \in Jobs, NEW b \in Attempts, Retire(k, b) PROVE Goal
  <2>1. run'[j][a] = run[j][a]
    BY <1>4, RetiredNow
  <2> QED
    BY <1>0, <2>1
<1>5. CASE Ends
  BY <1>5, EndedNow
<1> QED
  BY <1>1, <1>2, <1>3, <1>4, <1>5, StepKinds

LEMMA DriversByPc ==
    /\ EntriesAreDriven <=>
           \A j \in Jobs : active[j] # None =>
               active[j] \in Attempts /\ run[j][active[j]].pc \in DriverPcs
    /\ FirstRunsAreRegistered <=>
           \A j \in Jobs, a \in Attempts :
               run[j][a].pc \in DriverPcs /\ Present(j) /\ jobs[j].attempt = 1 => active[j] = a
<1>1. \A j, a : <<j, a>> \in Drivers <=> j \in Jobs /\ a \in Attempts /\ run[j][a].pc \in DriverPcs
  BY DEF Drivers, DriverPcs
<1>2. FirstRunsAreRegistered <=>
          \A j \in Jobs, a \in Attempts :
              <<j, a>> \in Drivers => (Present(j) /\ jobs[j].attempt = 1 => active[j] = a)
  BY DEF FirstRunsAreRegistered, Drivers
<1> QED
  BY <1>1, <1>2 DEF EntriesAreDriven, Registered

LEMMA EntriesAreDrivenStep ==
    ASSUME IInv, ClaimIsStarted, RunsAreCounted, EntriesAreDriven, [Next]_vars
    PROVE  EntriesAreDriven'
<1>a. \A j \in Jobs : active[j] # None =>
          active[j] \in Attempts /\ run[j][active[j]].pc \in DriverPcs
  BY DriversByPc
<1>b. ActiveTypeOK
  BY DEF IInv
<1> SUFFICES ASSUME NEW j \in Jobs, active'[j] # None
             PROVE  active'[j] \in Attempts /\ run'[j][active'[j]].pc \in DriverPcs
  <2>1. EntriesAreDriven' <=>
            \A j \in Jobs : active'[j] # None =>
                active'[j] \in Attempts /\ run'[j][active'[j]].pc \in DriverPcs
    BY DEF EntriesAreDriven, Registered, Drivers, DriverPcs
  <2> QED
    BY <2>1
<1> DEFINE Goal == active'[j] \in Attempts /\ run'[j][active'[j]].pc \in DriverPcs
<1>1. CASE Keeps
  BY <1>1, <1>a DEF Keeps, PcsKeep
<1>2. ASSUME NEW k \in Jobs, SchedClaim(k) PROVE Goal
  <2>1. active' = active /\ run[k][jobs[k].attempt].pc = "none"
    BY <1>2, ClaimedNow, ClaimedIsNew
  <2>2. <<j, active[j]>> # <<k, jobs[k].attempt>>
    BY <1>a, <2>1 DEF DriverPcs
  <2>3. run'[j][active[j]] = run[j][active[j]]
    BY <1>2, <1>a, <2>1, <2>2, ClaimedNow
  <2> QED
    BY <1>a, <2>1, <2>3
<1>3. CASE SchedStart
  <2>1. run[sched.job][sched.attempt].pc = "claimed"
    BY <1>3, StartedNow DEF ClaimIsStarted
  <2>2. CASE active'[j] = active[j]
    <3>1. <<j, active[j]>> # <<sched.job, sched.attempt>>
      BY <1>a, <2>1, <2>2 DEF DriverPcs
    <3>2. run'[j][active[j]] = run[j][active[j]]
      BY <1>3, <1>a, <2>2, <3>1, StartedNow
    <3> QED
      BY <1>a, <2>2, <3>2
  <2>3. CASE active'[j] # active[j]
    <3>1. /\ active' = [active EXCEPT ![sched.job] = sched.attempt]
          /\ run'[sched.job][sched.attempt].pc = "driving"
      BY <1>3, <2>3, StartedNow
    <3>2. j = sched.job /\ active'[j] = sched.attempt
      BY <1>b, <2>3, <3>1 DEF ActiveTypeOK
    <3> QED
      BY <1>3, <3>1, <3>2, StartedNow DEF DriverPcs
  <2> QED
    BY <2>2, <2>3
<1>4. ASSUME NEW k \in Jobs, NEW b \in Attempts, Retire(k, b) PROVE Goal
  <2>1. j # k /\ active'[j] = active[j]
    BY <1>4, <1>b, RetiredNow DEF ActiveTypeOK
  <2>2. run'[j][active[j]] = run[j][active[j]]
    BY <1>4, <1>a, <2>1, RetiredNow
  <2> QED
    BY <1>a, <2>1, <2>2
<1>5. CASE Ends
  BY <1>5, EndedNow
<1> QED
  BY <1>1, <1>2, <1>3, <1>4, <1>5, StepKinds

(* In its first attempt a job has one run at most, so nobody else's end    *)
(* takes its entry away.                                                   *)
LEMMA FirstRunsAreRegisteredStep ==
    ASSUME IInv, UnusedIsBlank, ClaimIsStarted, RunsAreCounted, FirstRunsAreRegistered, [Next]_vars
    PROVE  FirstRunsAreRegistered'
<1>a. \A j \in Jobs, a \in Attempts :
          run[j][a].pc \in DriverPcs /\ Present(j) /\ jobs[j].attempt = 1 => active[j] = a
  BY DriversByPc
<1>b. ActiveTypeOK /\ StoreTypeOK
  BY DEF IInv
<1> SUFFICES ASSUME NEW j \in Jobs, NEW a \in Attempts,
                    run'[j][a].pc \in DriverPcs, jobs'[j].state \in JobStates, jobs'[j].attempt = 1
             PROVE  active'[j] = a
  <2>1. FirstRunsAreRegistered' <=>
            \A j \in Jobs, a \in Attempts :
                run'[j][a].pc \in DriverPcs /\ jobs'[j].state \in JobStates /\ jobs'[j].attempt = 1
                    => active'[j] = a
    <3>1. \A j, a : <<j, a>> \in Drivers' <=>
              j \in Jobs /\ a \in Attempts /\ run'[j][a].pc \in DriverPcs
      BY DEF Drivers, DriverPcs
    <3>2. FirstRunsAreRegistered' <=>
            \A j \in Jobs, a \in Attempts :
                <<j, a>> \in Drivers' =>
                    (jobs'[j].state \in JobStates /\ jobs'[j].attempt = 1 => active'[j] = a)
      BY DEF FirstRunsAreRegistered, Drivers, Present
    <3> QED
      BY <3>1, <3>2
  <2> QED
    BY <2>1
<1>c. jobs'[j].state # "deleted"
  BY StatesDiffer
<1>d. ASSUME NEW b \in Attempts, run[j][b].pc # "none"
      PROVE  Present(j) /\ jobs[j].attempt = 1 /\ b = 1
  <2>1. /\ Present(j) /\ b <= jobs[j].attempt
        /\ jobs'[j].attempt \in {jobs[j].attempt, jobs[j].attempt + 1}
    BY <1>c, <1>d, CountedRunsStay
  <2>2. b >= 1 /\ b \in Nat /\ jobs[j].attempt \in Nat
    BY <1>b DEF Attempts, StoreTypeOK, Row
  <2> QED
    BY <2>1, <2>2
<1>e. ASSUME run[j][a].pc \in DriverPcs PROVE active[j] = a /\ a = 1
  <2>1. run[j][a].pc # "none"
    BY <1>e DEF DriverPcs
  <2> QED
    BY <1>a, <1>d, <1>e, <2>1
<1>1. CASE Keeps
  BY <1>1, <1>e DEF Keeps, PcsKeep
<1>2. ASSUME NEW k \in Jobs, SchedClaim(k) PROVE active'[j] = a
  <2>1. <<j, a>> # <<k, jobs[k].attempt>>
    BY <1>2, ClaimedNow DEF DriverPcs
  <2>2. run'[j][a] = run[j][a] /\ active' = active
    BY <1>2, <2>1, ClaimedNow
  <2> QED
    BY <1>e, <2>2
<1>3. CASE SchedStart
  <2>1. run[sched.job][sched.attempt].pc = "claimed" /\ sched.job \in Jobs /\ sched.attempt \in Attempts
    BY <1>3, StartedNow DEF ClaimIsStarted
  <2>2. CASE <<j, a>> = <<sched.job, sched.attempt>>
    <3>1. active' = [active EXCEPT ![sched.job] = sched.attempt]
      BY <1>3, <2>2, StartedNow DEF DriverPcs
    <3> QED
      BY <1>b, <2>2, <3>1 DEF ActiveTypeOK
  <2>3. CASE <<j, a>> # <<sched.job, sched.attempt>>
    <3>1. run'[j][a] = run[j][a]
      BY <1>3, <2>3, StartedNow
    <3>2. active[j] = a /\ a = 1
      BY <1>e, <3>1
    <3>3. j # sched.job
      BY <1>d, <2>1, <2>3, <3>2
    <3>4. active'[j] = active[j]
      BY <1>3, <1>b, <3>3, StartedNow DEF ActiveTypeOK
    <3> QED
      BY <3>2, <3>4
  <2> QED
    BY <2>2, <2>3
<1>4. ASSUME NEW k \in Jobs, NEW b \in Attempts, Retire(k, b) PROVE active'[j] = a
  <2>1. <<j, a>> # <<k, b>>
    BY <1>4, RetiredNow DEF DriverPcs
  <2>2. run'[j][a] = run[j][a]
    BY <1>4, <2>1, RetiredNow
  <2>3. active[j] = a /\ a = 1
    BY <1>e, <2>2
  <2>4. j # k
    BY <1>4, <1>d, <2>1, <2>3, RetiredNow
  <2>5. active'[j] = active[j]
    BY <1>4, <1>b, <2>4, RetiredNow DEF ActiveTypeOK
  <2> QED
    BY <2>3, <2>5
<1>5. CASE Ends
  BY <1>5, EndedNow DEF DriverPcs
<1> QED
  BY <1>1, <1>2, <1>3, <1>4, <1>5, StepKinds

LEMMA MapInvInit == Init => MapInv
<1> SUFFICES ASSUME Init PROVE MapInv
    OBVIOUS
<1>1. ClaimIsStarted /\ Room /\ DriversAreRegistered
  BY RunsInvInit DEF RunsInv
<1>2. UnusedIsBlank
  BY DEF Init, StoreInit, UnusedIsBlank, NoRow
<1>3. \A j \in Jobs, a \in Attempts : run[j][a].pc = "none"
  BY DEF Init, VolatileInit, NoRuns, NoRun
<1>4. RunsAreCounted
  BY <1>3 DEF RunsAreCounted
<1>5. EntriesAreDriven /\ FirstRunsAreRegistered
  BY <1>1 DEF DriversAreRegistered, EntriesAreDriven, FirstRunsAreRegistered
<1> QED
  BY <1>1, <1>2, <1>4, <1>5 DEF MapInv

LEMMA MapInvStep == IInv /\ MapInv /\ [Next]_vars => MapInv'
<1> SUFFICES ASSUME IInv, MapInv, [Next]_vars PROVE MapInv'
    OBVIOUS
<1>1. UnusedIsBlank'
  BY StoreStep, UnusedIsBlankStep DEF IInv, MapInv
<1> QED
  BY <1>1, ClaimIsStartedStep, RoomStep, RunsAreCountedStep, EntriesAreDrivenStep,
     FirstRunsAreRegisteredStep DEF MapInv

(* Whatever clients, failures and crashes do, with any number of slots:    *)
(* an entry of the active map is always that of a driver that runs, so no  *)
(* slot stays taken and no shutdown waits for a download that is over.     *)
THEOREM EntriesAreReal == Spec => []EntriesAreDriven
<1>1. Init => IInv /\ MapInv
  BY IInvInit, MapInvInit
<1>2. IInv /\ MapInv /\ [Next]_vars => IInv' /\ MapInv'
  BY IInvStep, MapInvStep
<1>3. MapInv => EntriesAreDriven
  BY DEF MapInv
<1> QED
  BY <1>1, <1>2, <1>3, PTL DEF Spec

(* A driver can only be missing from the map once its job was put back: a  *)
(* job that was never resumed or retried is always in reach of pause,      *)
(* cancel and shutdown, with any number of slots and any commands.         *)
THEOREM FirstAttemptsAreReachable == Spec => []FirstRunsAreRegistered
<1>1. Init => IInv /\ MapInv
  BY IInvInit, MapInvInit
<1>2. IInv /\ MapInv /\ [Next]_vars => IInv' /\ MapInv'
  BY IInvStep, MapInvStep
<1>3. MapInv => FirstRunsAreRegistered
  BY DEF MapInv
<1> QED
  BY <1>1, <1>2, <1>3, PTL DEF Spec

(* An attempt is run once: the scheduler never claims an attempt that has  *)
(* a run, although an earlier attempt of the same job may still have one.  *)
THEOREM AttemptsRunOnce == Spec => []RunsAreCounted
<1>1. Init => IInv /\ MapInv
  BY IInvInit, MapInvInit
<1>2. IInv /\ MapInv /\ [Next]_vars => IInv' /\ MapInv'
  BY IInvStep, MapInvStep
<1>3. MapInv => RunsAreCounted
  BY DEF MapInv
<1> QED
  BY <1>1, <1>2, <1>3, PTL DEF Spec

(* The active map itself never holds more downloads than there are slots,  *)
(* with any commands that leave the setting alone: the limit is exceeded   *)
(* only by drivers that have lost their entry.                             *)
THEOREM SlotsAreNotOverdrawn ==
    ASSUME FixedLimit
    PROVE  Spec => []SlotsAreKept
<1>1. Init => IInv /\ MapInv
  BY IInvInit, MapInvInit
<1>2. IInv /\ MapInv /\ [Next]_vars => IInv' /\ MapInv'
  BY IInvStep, MapInvStep
<1>3. MapInv => SlotsAreKept
  BY DEF MapInv, Room, SlotsAreKept
<1> QED
  BY <1>1, <1>2, <1>3, PTL DEF Spec

-----------------------------------------------------------------------------
(* A process that is not open runs nothing, and shutdown has closed the    *)
(* queue for good.                                                         *)

ClosedIsIdle ==
    ~Open => /\ active = NoneActive /\ run = NoRuns /\ sched = SchedAt("stopped")
             /\ shutdown = "off"

(* When shutdown succeeds, it has seen the active map empty and then the   *)
(* scheduler stopped; a loop that starts later stops at its top.  Where an *)
(* attempt was started between the two, it is the only one.                *)
LoopIsOver    == sched.pc \in {"stopped", "top"}
OneRegistered == /\ \A j, k \in Registered : j = k
                 /\ Jobs # {} /\ Attempts # {}

ShutdownInv ==
    /\ shutdown # "off" => closing
    /\ shutdown \in {"counted", "done"} => Registered = {}
    /\ shutdown \in {"overtaken", "missed"} => OneRegistered
    /\ shutdown \in {"overtaken", "missed", "done"} => LoopIsOver

LEMMA OpenStepsStayOpen ==
    ASSUME [Next]_vars
    PROVE  \/ Open /\ UNCHANGED phase
           \/ Ends
           \/ UNCHANGED <<active, run, sched, shutdown>> /\ (OpenStep \/ UNCHANGED vars)
<1>1. ASSUME NEW c \in Clients, ClientCall(c) \/ ClientStep(c) PROVE Open /\ UNCHANGED phase
  BY <1>1 DEF ClientCall, ClientStep, CallEnqueue, CallOnJob, ChangeSettings, InsertEnqueued,
     Kick, PauseQueued, StopActive, SeeStopped, CancelStopped, ResumeInactive, RequeueJob,
     RemoveCompleted, At
<1>2. ASSUME SchedStep PROVE Open /\ UNCHANGED phase
  BY <1>2 DEF SchedStep, SchedTop, SchedSettings, SchedCount, SchedIdle, SchedRegister,
     SchedStart, SchedClaim
<1>3. ASSUME NEW j \in Jobs, NEW a \in Attempts, TaskStep(j, a) \/ DriverStep(j, a)
      PROVE  Open /\ UNCHANGED phase
  BY <1>3 DEF TaskStep, Advance, ReportProgress, LoseEvents, EndTask, OnlyRunChanges,
     DriverStep, PersistEvent, Finish, RetainPartials, FinishRetained, Retire
<1>4. ASSUME ShutdownStep PROVE Open /\ UNCHANGED phase
  BY <1>4 DEF ShutdownStep, ShutdownBegin, ShutdownCount, ShutdownCollect, ShutdownCheck, ShutdownRegister,
     ShutdownTimeout
<1>5. ASSUME Crash \/ OpenFails PROVE Ends
  BY <1>5 DEF Crash, OpenFails, ProcessEnds, Ends
<1>6. ASSUME OpenStep, ~OpenFails PROVE UNCHANGED <<active, run, sched, shutdown>>
  BY <1>6 DEF OpenStep, OpenQueue, RecoverJob, OpenReturns, volatileVars
<1>7. ASSUME UNCHANGED vars PROVE UNCHANGED <<active, run, sched, shutdown>>
  BY <1>7 DEF vars, volatileVars
<1> QED
  BY <1>1, <1>2, <1>3, <1>4, <1>5, <1>6, <1>7 DEF Next

LEMMA ClosedIsIdleStep ==
    ASSUME ClosedIsIdle, [Next]_vars
    PROVE  ClosedIsIdle'
<1>1. CASE Open /\ UNCHANGED phase
  BY <1>1 DEF ClosedIsIdle, Open
<1>2. CASE Ends
  BY <1>2 DEF ClosedIsIdle, Ends
<1>3. CASE UNCHANGED <<active, run, sched, shutdown>> /\ (OpenStep \/ UNCHANGED vars)
  <2>1. ~Open' => ~Open
    BY <1>3 DEF Open, OpenStep, OpenQueue, RecoverJob, OpenReturns, OpenFails, ProcessEnds, vars
  <2> QED
    BY <1>3, <2>1 DEF ClosedIsIdle
<1> QED
  BY <1>1, <1>2, <1>3, OpenStepsStayOpen

LEMMA ShutdownInvStep ==
    ASSUME IInv, ShutdownInv, [Next]_vars
    PROVE  ShutdownInv'
<1> USE DEF ShutdownInv
<1>a. ActiveTypeOK
  BY DEF IInv
<1>b. ASSUME UNCHANGED <<shutdown, closing, active>>,
             \/ UNCHANGED sched
             \/ sched' = Woken(sched)
             \/ sched.pc = "stopped" /\ sched' = SchedAt("top")
      PROVE  ShutdownInv'
  BY <1>b DEF Registered, OneRegistered, LoopIsOver, Woken, SchedAt
<1>c. ASSUME NotifyShutdown \/ UNCHANGED shutdown
      PROVE  \/ shutdown' = shutdown
             \/ shutdown = "waiting" /\ shutdown' = "check"
  BY <1>c DEF NotifyShutdown
<1>1. ASSUME NEW c \in Clients, ClientCall(c) \/ ClientStep(c) PROVE ShutdownInv'
  <2>1. CASE Kick(c)
    BY <1>b, <2>1 DEF Kick, KickScheduler
  <2> QED
    BY <1>1, <1>b, <2>1 DEF ClientCall, ClientStep, CallEnqueue, CallOnJob, ChangeSettings,
       InsertEnqueued, PauseQueued, StopActive, SeeStopped, CancelStopped, ResumeInactive,
       RequeueJob, RemoveCompleted
<1>2. CASE SchedStep
  <2>1. CASE SchedStart
    <3> DEFINE j == sched.job
               a == sched.attempt
    <3>1. /\ j \in Jobs /\ a \in Attempts
          /\ sched.pc = "starting" /\ sched'.pc = "top" /\ UNCHANGED closing
      BY <2>1, StartedNow DEF SchedStart
    <3>2. shutdown \notin {"overtaken", "missed", "done"}
      BY <3>1 DEF LoopIsOver
    <3>3. CASE UNCHANGED <<active, shutdown>>
      BY <3>1, <3>2, <3>3 DEF Registered, LoopIsOver
    <3>4. CASE /\ active' = [active EXCEPT ![j] = a]
               /\ shutdown' = IF shutdown = "counted" THEN "overtaken" ELSE shutdown
      <4>1. CASE shutdown = "counted"
        <5>1. Registered = {}
          BY <4>1
        <5>2. Registered' \subseteq {j}
          BY <1>a, <3>1, <3>4, <5>1 DEF Registered, ActiveTypeOK
        <5>3. OneRegistered'
          BY <3>1, <5>2 DEF OneRegistered
        <5> QED
          BY <3>1, <3>4, <4>1, <5>3 DEF LoopIsOver
      <4>2. CASE shutdown # "counted"
        BY <3>1, <3>2, <3>4, <4>2
      <4> QED
        BY <4>1, <4>2
    <3> QED
      BY <2>1, <3>3, <3>4 DEF SchedStart
  <2>2. CASE ~SchedStart
    <3>1. UNCHANGED <<closing, active>> /\ (UNCHANGED shutdown \/ NotifyShutdown)
      BY <1>2, <2>2 DEF SchedStep, SchedTop, SchedSettings, SchedCount, SchedIdle, SchedRegister,
         SchedClaim, ReleaseScheduler
    <3>2. LoopIsOver /\ closing => LoopIsOver'
      <4> SUFFICES ASSUME LoopIsOver, closing PROVE LoopIsOver'
          OBVIOUS
      <4>1. SchedTop
        BY <1>2, <2>2 DEF LoopIsOver, SchedStep, SchedSettings, SchedCount, SchedIdle,
           SchedRegister, SchedClaim
      <4> QED
        BY <4>1 DEF SchedTop, SchedAt, LoopIsOver
    <3> QED
      BY <1>c, <3>1, <3>2 DEF Registered, OneRegistered
  <2> QED
    BY <2>1, <2>2
<1>3. ASSUME NEW j \in Jobs, NEW a \in Attempts, TaskStep(j, a) \/ DriverStep(j, a)
      PROVE  ShutdownInv'
  <2>1. CASE Retire(j, a)
    <3>1. Registered' \subseteq Registered
      BY <1>a, <2>1 DEF Retire, Registered, ActiveTypeOK
    <3>2. (UNCHANGED shutdown \/ NotifyShutdown) /\ UNCHANGED closing
      BY <2>1 DEF Retire
    <3>3. LoopIsOver => LoopIsOver'
      BY <2>1 DEF Retire, Woken, SchedAt, LoopIsOver
    <3>4. OneRegistered => OneRegistered'
      BY <3>1 DEF OneRegistered
    <3> QED
      BY <1>c, <3>1, <3>2, <3>3, <3>4
  <2>2. CASE ~Retire(j, a)
    BY <1>3, <1>b, <2>2 DEF TaskStep, Advance, ReportProgress, LoseEvents, EndTask,
       OnlyRunChanges, DriverStep, PersistEvent, Finish, RetainPartials, FinishRetained
  <2> QED
    BY <2>1, <2>2
<1>4. CASE ShutdownStep
  <2>1. CASE ShutdownBegin
    BY <2>1 DEF ShutdownBegin
  <2>2. CASE ShutdownCount
    BY <2>2 DEF ShutdownCount, Registered
  <2>3. CASE ShutdownCheck
    BY <2>3 DEF ShutdownCheck, Registered, OneRegistered, LoopIsOver
  <2> QED
    BY <1>4, <2>1, <2>2, <2>3 DEF ShutdownStep, ShutdownCollect, ShutdownRegister, ShutdownTimeout
<1>5. CASE Crash \/ OpenFails
  BY <1>5 DEF Crash, OpenFails, ProcessEnds
<1>6. ASSUME OpenStep, ~OpenFails PROVE ShutdownInv'
  BY <1>6, <1>b DEF OpenStep, OpenQueue, RecoverJob, OpenReturns, volatileVars
<1>7. CASE UNCHANGED vars
  BY <1>7, <1>b DEF vars, volatileVars
<1> QED
  BY <1>1, <1>2, <1>3, <1>4, <1>5, <1>6, <1>7 DEF Next

-----------------------------------------------------------------------------
(* Where a job becomes active, and where a run ends.                       *)

NoNewActive ==
    \A j \in Jobs : jobs'[j].state \in ActiveStates => jobs'[j].state = jobs[j].state

LEMMA StoppingIsNotActivating ==
    ASSUME StoreTypeOK, NEW j \in Jobs, NEW state,
           state \notin ActiveStates,
           \/ jobs' = [jobs EXCEPT ![j].state = state]
           \/ FinishJob(j, state)
    PROVE  NoNewActive
  BY DEF StoreTypeOK, Row, FinishJob, NoNewActive

LEMMA ActiveWrites ==
    ASSUME IInv, [Next]_vars
    PROVE  \/ NoNewActive
           \/ \E j \in Jobs : SchedClaim(j)
           \/ \E j \in Jobs, a \in Attempts : PersistEvent(j, a)
<1>a. StoreTypeOK /\ CallsHaveJobs /\ RunTypeOK
  BY DEF IInv
<1>b. UNCHANGED jobs => NoNewActive
  BY DEF NoNewActive
<1>c. /\ StoppedStates \intersect ActiveStates = {} /\ "queued" \notin ActiveStates
      /\ "deleted" \notin ActiveStates /\ "paused" \notin ActiveStates
      /\ "cancelled" \notin ActiveStates /\ "failed" \notin ActiveStates
      /\ "interrupted" \notin ActiveStates
  BY DEF StoppedStates, TerminalStates, RestingStates, ActiveStates
<1>1. ASSUME NEW c \in Clients, ClientCall(c) PROVE NoNewActive
  BY <1>1, <1>b DEF ClientCall, CallEnqueue, CallOnJob, ChangeSettings, UpdateSettings, storeVars
<1>2. ASSUME NEW c \in Clients, ClientStep(c) PROVE NoNewActive
  <2> DEFINE j == client[c].job
  <2>1. CASE InsertEnqueued(c)
    <3>1. j \in Jobs
      BY <1>a, <2>1 DEF InsertEnqueued, At, CallsHaveJobs
    <3>2. CASE InsertJob(j)
      BY <1>a, <1>c, <3>1, <3>2 DEF InsertJob, NoRow, NoNewActive, StoreTypeOK
    <3> QED
      BY <1>b, <2>1, <3>2 DEF InsertEnqueued, storeVars
  <2>2. CASE PauseQueued(c)
    <3>1. j \in Jobs
      BY <1>a, <2>2 DEF PauseQueued, At, CallsHaveJobs
    <3> QED
      BY <1>a, <1>b, <1>c, <2>2, <3>1, StoppingIsNotActivating
         DEF PauseQueued, TransitionStopped, storeVars
  <2>3. CASE CancelStopped(c)
    <3>1. j \in Jobs
      BY <1>a, <2>3 DEF CancelStopped, At, CallsHaveJobs
    <3> QED
      BY <1>a, <1>b, <1>c, <2>3, <3>1, StoppingIsNotActivating DEF CancelStopped, storeVars
  <2>4. CASE RequeueJob(c)
    <3>1. j \in Jobs
      BY <1>a, <2>4 DEF RequeueJob, CallsHaveJobs
    <3>2. CASE Requeue(j, client[c].op)
      <4>1. jobs'[j].state = "queued"
        <5> DEFINE requeued == [jobs[j] EXCEPT !.state = "queued", !.attempt = @ + 1,
                                               !.sequence = nextSequence, !.error = FALSE,
                                               !.output = FALSE]
        <5>1. jobs[j] \in Row
          BY <1>a, <3>1 DEF StoreTypeOK
        <5>2. requeued.state = "queued"
          BY <5>1 DEF Row
        <5>3. jobs'[j] = requeued
          BY <1>a, <3>1, <3>2 DEF Requeue, StoreTypeOK
        <5> HIDE DEF requeued
        <5> QED
          BY <5>2, <5>3
      <4>2. \A k \in Jobs : k # j => jobs'[k] = jobs[k]
        BY <1>a, <3>1, <3>2 DEF Requeue, StoreTypeOK
      <4> QED
        BY <1>c, <4>1, <4>2 DEF NoNewActive
    <3> QED
      BY <1>b, <2>4, <3>2 DEF RequeueJob, storeVars
  <2>5. CASE RemoveCompleted(c)
    <3>1. j \in Jobs
      BY <1>a, <2>5 DEF RemoveCompleted, At, CallsHaveJobs
    <3>2. CASE DeleteCompleted(j)
      BY <1>a, <1>c, <3>1, <3>2 DEF DeleteCompleted, NoRow, NoNewActive, StoreTypeOK
    <3> QED
      BY <1>b, <2>5, <3>2 DEF RemoveCompleted, storeVars
  <2> QED
    BY <1>2, <1>b, <2>1, <2>2, <2>3, <2>4, <2>5 DEF ClientStep, Kick, StopActive, SeeStopped,
       ResumeInactive, storeVars
<1>3. CASE SchedStep
  <2>1. CASE SchedStart
    <3>1. sched.job \in Jobs
      BY <2>1 DEF SchedStart, IInv, StartHasJob
    <3>2. UNCHANGED storeVars \/ FinishJob(sched.job, "failed")
      BY <2>1 DEF SchedStart, WriteFinal
    <3> QED
      BY <1>a, <1>b, <1>c, <3>1, <3>2, StoppingIsNotActivating DEF storeVars
  <2> QED
    BY <1>3, <1>b, <2>1 DEF SchedStep, SchedTop, SchedSettings, SchedCount, SchedIdle,
       SchedRegister, storeVars
<1>4. ASSUME NEW j \in Jobs, NEW a \in Attempts, TaskStep(j, a) \/ DriverStep(j, a),
             ~PersistEvent(j, a)
      PROVE  NoNewActive
  <2> DEFINE r == run[j][a]
  <2>a. r \in Run
    BY <1>a DEF RunTypeOK
  <2>1. CASE TaskStep(j, a) \/ Retire(j, a)
    BY <2>1, <1>b DEF TaskStep, Advance, ReportProgress, LoseEvents, EndTask, OnlyRunChanges,
       Retire, storeVars
  <2>2. CASE Finish(j, a)
    <3>1. FinalState(r.result) \notin ActiveStates
      BY <1>c, <2>a, <2>2, FinalStatesAreStopped DEF Finish, DriverIsDone
    <3>2. UNCHANGED storeVars \/ FinishJob(j, FinalState(r.result))
      BY <2>2 DEF Finish, WriteFinal
    <3> QED
      BY <1>a, <1>b, <3>1, <3>2, StoppingIsNotActivating DEF storeVars
  <2>3. CASE RetainPartials(j, a)
    <3>1. \/ UNCHANGED storeVars \/ FinishJob(j, "failed")
          \/ \E some \in BOOLEAN : ReplaceOwnedPaths(j, some)
      BY <2>3 DEF RetainPartials, WriteFinal
    <3>2. ASSUME NEW some \in BOOLEAN, ReplaceOwnedPaths(j, some) PROVE NoNewActive
      BY <1>a, <3>2 DEF ReplaceOwnedPaths, NoNewActive, StoreTypeOK, Row
    <3> QED
      BY <1>a, <1>b, <1>c, <3>1, <3>2, StoppingIsNotActivating DEF storeVars
  <2>4. CASE FinishRetained(j, a)
    <3>1. r.result \notin ActiveStates
      BY <2>a DEF Run, ActiveStates
    <3>2. UNCHANGED storeVars \/ FinishJob(j, r.result)
      BY <2>4 DEF FinishRetained, WriteFinal
    <3> QED
      BY <1>a, <1>b, <3>1, <3>2, StoppingIsNotActivating DEF storeVars
  <2> QED
    BY <1>4, <2>1, <2>2, <2>3, <2>4 DEF DriverStep
<1>5. CASE ShutdownStep
  BY <1>5, <1>b DEF ShutdownStep, ShutdownBegin, ShutdownCount, ShutdownCollect, ShutdownCheck,
     ShutdownRegister, ShutdownTimeout, storeVars
<1>6. CASE Crash \/ OpenFails \/ OpenReturns
  BY <1>6, <1>b DEF Crash, OpenFails, OpenReturns, ProcessEnds, storeVars
<1>7. CASE OpenQueue
  BY <1>7, <1>a, <1>c DEF OpenQueue, RecoverActive, NoNewActive, StoreTypeOK, Row
<1>8. ASSUME NEW j \in Jobs, RecoverJob(j) PROVE NoNewActive
  BY <1>8, <1>a DEF RecoverJob, SetRecoveryFailure, ReplaceOwnedPaths, NoNewActive, StoreTypeOK,
     Row
<1>9. CASE UNCHANGED vars
  BY <1>9, <1>b DEF vars, storeVars
<1> QED
  BY <1>1, <1>2, <1>3, <1>4, <1>5, <1>6, <1>7, <1>8, <1>9 DEF Next, SchedStep, OpenStep

LEMMA PersistWritesOneJob ==
    ASSUME IInv, NEW j \in Jobs, NEW a \in Attempts, PersistEvent(j, a)
    PROVE  /\ run[j][a].pc = "driving" /\ UNCHANGED <<active, sched, phase>>
           /\ \A k \in Jobs : k # j => jobs'[k] = jobs[k]
<1>1. UNCHANGED jobs \/ \E reports \in BOOLEAN : SaveProgress(j, Head(run[j][a].pending), reports)
  BY PersistSaves DEF storeVars
<1> QED
  BY <1>1 DEF PersistEvent, SaveProgress, IInv, StoreTypeOK

LEMMA ClaimWritesOneJob ==
    ASSUME IInv, NEW j \in Jobs, SchedClaim(j)
    PROVE  \A k \in Jobs : k # j => jobs'[k] = jobs[k]
  BY DEF SchedClaim, ClaimNext, IInv, StoreTypeOK

-----------------------------------------------------------------------------
(* What a run's events and result tell of the job's state, where no write  *)
(* of a state is lost: the queue has a service, events are not dropped and *)
(* the store's writes of progress and final states do not fail.            *)

NothingLost ==
    ~MayLag /\ Services = {TRUE} /\ "finish" \notin FaultyOps /\ "progress" \notin FaultyOps

(* "analyzing" can only be the first event a driver has not persisted, and *)
(* "downloading" follows it.                                               *)
EventsFit(r) ==
    /\ r.stage = "none" => r.pending = <<>>
    /\ r.stage = "analyzing" => r.pending \in {<<>>, <<"analyzing">>}
    /\ \A i \in 1..Len(r.pending) :
           r.pending[i] = "analyzing" =>
               /\ i = 1
               /\ \/ r.stage = "analyzing"
                  \/ Len(r.pending) >= 2 /\ r.pending[2] = "downloading"

ResultFits(r) ==
    /\ r.result = "ok" => r.stage = "finalizing"
    /\ r.pc = "retaining" => r.result \in {"paused", "interrupted"}

RunsFit == \A j \in Jobs, a \in Attempts : EventsFit(run[j][a]) /\ ResultFits(run[j][a])

(* A job the store still shows as analyzing, whose download has come       *)
(* further, has the event that moves it on pending.                        *)
Overdue(r) == r.stage \notin {"none", "analyzing"}

DownloadingIsComing ==
    \A j \in Jobs, a \in Attempts :
        run[j][a].pc = "driving" /\ jobs[j].state = "analyzing" /\ Overdue(run[j][a]) =>
            /\ run[j][a].pending # <<>>
            /\ Head(run[j][a].pending) \in {"analyzing", "downloading"}

FinishedIsStopped ==
    \A j \in Jobs, a \in Attempts :
        run[j][a].pc = "finished" => jobs[j].state \notin ActiveStates

OpeningIsStopped == phase = "opening" => InState(ActiveStates) = {}

ActiveInv ==
    /\ service = TRUE /\ RunsFit /\ DownloadingIsComing /\ FinishedIsStopped
    /\ OpeningIsStopped /\ ActiveHasRun

LEMMA FitsSetRun ==
    ASSUME RunTypeOK, RunsFit, NEW j \in Jobs, NEW a \in Attempts, NEW r, SetRun(j, a, r),
           EventsFit(r), ResultFits(r)
    PROVE  RunsFit'
<1>1. ASSUME NEW k \in Jobs, NEW b \in Attempts PROVE run'[k][b] = r \/ run'[k][b] = run[k][b]
  BY PcOfSetRun
<1>2. ASSUME NEW k \in Jobs, NEW b \in Attempts
      PROVE  EventsFit(run'[k][b]) /\ ResultFits(run'[k][b])
  <2>1. CASE run'[k][b] = r
    BY <2>1
  <2>2. CASE run'[k][b] = run[k][b]
    BY <2>2 DEF RunsFit
  <2> QED
    BY <1>1, <2>1, <2>2
<1>3. RunsFit' <=>
          \A k \in Jobs, b \in Attempts : EventsFit(run'[k][b]) /\ ResultFits(run'[k][b])
  BY DEF RunsFit, EventsFit, ResultFits
<1> QED
  BY <1>2, <1>3

LEMMA NoRunFits == \A pc : pc # "retaining" =>
                       EventsFit([NoRun EXCEPT !.pc = pc]) /\ ResultFits([NoRun EXCEPT !.pc = pc])
<1> SUFFICES ASSUME NEW pc, pc # "retaining"
             PROVE  EventsFit([NoRun EXCEPT !.pc = pc]) /\ ResultFits([NoRun EXCEPT !.pc = pc])
    OBVIOUS
<1> DEFINE r == [NoRun EXCEPT !.pc = pc]
<1>1. r.pc = pc /\ r.stage = "none" /\ r.pending = <<>> /\ r.result = "none"
  BY DEF NoRun
<1> HIDE DEF r
<1>2. Len(r.pending) = 0
  BY <1>1
<1>3. EventsFit(r) /\ ResultFits(r)
  BY <1>1, <1>2 DEF EventsFit, ResultFits
<1> QED
  BY <1>3 DEF r

LEMMA FirstRunFits == EventsFit(NoRun) /\ ResultFits(NoRun)
<1>1. NoRun.pc = "none" /\ NoRun.stage = "none" /\ NoRun.pending = <<>> /\ NoRun.result = "none"
  BY DEF NoRun
<1>2. Len(NoRun.pending) = 0
  BY <1>1
<1> QED
  BY <1>1, <1>2 DEF EventsFit, ResultFits

(* Being told to stop changes neither the events nor the result.           *)
LEMMA StoppedRunFits ==
    ASSUME NEW r \in Run, EventsFit(r), ResultFits(r)
    PROVE  /\ EventsFit(PauseRun(r)) /\ ResultFits(PauseRun(r))
           /\ EventsFit(CancelRun(r)) /\ ResultFits(CancelRun(r))
<1>1. /\ PauseRun(r).stage = r.stage /\ PauseRun(r).pending = r.pending
      /\ PauseRun(r).result = r.result /\ PauseRun(r).pc = r.pc
      /\ CancelRun(r).stage = r.stage /\ CancelRun(r).pending = r.pending
      /\ CancelRun(r).result = r.result /\ CancelRun(r).pc = r.pc
  BY DEF Run, PauseRun, CancelRun
<1> QED
  BY <1>1 DEF EventsFit, ResultFits

(* The driver takes the oldest event.                                      *)
LEMMA TailFits ==
    ASSUME NEW r \in Run, EventsFit(r), ResultFits(r), r.pending # <<>>
    PROVE  LET rest == [r EXCEPT !.pending = Tail(r.pending)] IN
           rest \in Run /\ EventsFit(rest) /\ ResultFits(rest)
<1> DEFINE rest == [r EXCEPT !.pending = Tail(r.pending)]
<1>1. r.pending \in Seq(Stages)
  BY DEF Run
<1>2. /\ Tail(r.pending) \in Seq(Stages)
      /\ Len(Tail(r.pending)) = Len(r.pending) - 1
      /\ \A i \in 1..Len(Tail(r.pending)) : Tail(r.pending)[i] = r.pending[i + 1]
      /\ Len(r.pending) \in Nat
  BY <1>1, HeadTailProperties, LenProperties
<1>3. rest \in Run /\ rest.pc = r.pc /\ rest.stage = r.stage /\ rest.result = r.result
      /\ rest.pending = Tail(r.pending)
  BY <1>2 DEF Run
<1>4. ResultFits(rest)
  BY <1>3 DEF ResultFits
<1>5. r.stage \in {"none", "analyzing"} => rest.pending = <<>>
  <2>1. r.stage # "none"
    BY DEF EventsFit
  <2>2. ASSUME r.stage = "analyzing" PROVE Tail(r.pending) = <<>>
    <3>1. r.pending = <<"analyzing">>
      BY <2>2 DEF EventsFit
    <3>2. Len(r.pending) = 1
      BY <3>1
    <3>3. Len(Tail(r.pending)) = 0
      BY <1>2, <3>2
    <3>4. \A s \in Seq(Stages) : Len(s) = 0 => s = <<>>
      BY EmptySeq
    <3> QED
      BY <1>2, <3>3, <3>4
  <2> QED
    BY <1>3, <2>1, <2>2
<1>6. \A i \in 1..Len(rest.pending) : rest.pending[i] # "analyzing"
  <2> SUFFICES ASSUME NEW i \in 1..Len(Tail(r.pending)) PROVE Tail(r.pending)[i] # "analyzing"
    BY <1>3
  <2>1. i + 1 \in 1..Len(r.pending) /\ i + 1 # 1 /\ Tail(r.pending)[i] = r.pending[i + 1]
    BY <1>2
  <2> QED
    BY <2>1 DEF EventsFit
<1> HIDE DEF rest
<1>7. EventsFit(rest)
  BY <1>3, <1>5, <1>6 DEF EventsFit
<1> QED
  BY <1>3, <1>4, <1>7 DEF rest

(* The task appends the stage it enters.                                   *)
LEMMA AdvancedFits ==
    ASSUME NEW r \in Run, EventsFit(r), ResultFits(r), r.result = "none",
           NEW stage \in FollowingStages(r.stage)
    PROVE  LET next == [r EXCEPT !.stage = stage, !.pending = Append(r.pending, stage)] IN
           EventsFit(next) /\ ResultFits(next)
<1> DEFINE next == [r EXCEPT !.stage = stage, !.pending = Append(r.pending, stage)]
<1>1. r.pending \in Seq(Stages) /\ stage \in Stages
  BY StagesTyped DEF Run, FollowingStages
<1>2. /\ Len(Append(r.pending, stage)) = Len(r.pending) + 1
      /\ \A i \in 1..Len(r.pending) : Append(r.pending, stage)[i] = r.pending[i]
      /\ Append(r.pending, stage)[Len(r.pending) + 1] = stage
      /\ Len(r.pending) \in Nat
  BY <1>1, AppendProperties, LenProperties
<1>3. /\ next.pc = r.pc /\ next.stage = stage /\ next.result = r.result
      /\ next.pending = Append(r.pending, stage)
  BY DEF Run
<1> HIDE DEF next
<1>4. ResultFits(next)
  BY <1>3 DEF ResultFits
<1>5. CASE r.stage = "none"
  <2>1. stage = "analyzing" /\ r.pending = <<>>
    BY <1>5 DEF FollowingStages, NextStages, EventsFit
  <2>2. next.pending = <<"analyzing">> /\ Len(next.pending) = 1 /\ next.pending[1] = "analyzing"
    BY <1>3, <2>1
  <2>3. EventsFit(next)
    BY <1>3, <2>1, <2>2 DEF EventsFit
  <2> QED
    BY <1>4, <2>3 DEF next
<1>6. CASE r.stage # "none"
  <2>1. stage \notin {"none", "analyzing"}
    BY <1>6 DEF FollowingStages, NextStages
  <2>2. ASSUME NEW i \in 1..Len(next.pending), next.pending[i] = "analyzing"
        PROVE  i = 1 /\ Len(next.pending) >= 2 /\ next.pending[2] = "downloading"
    <3>1. i \in 1..Len(r.pending) /\ r.pending[i] = "analyzing"
      BY <1>2, <1>3, <2>1, <2>2
    <3>2. i = 1
      BY <3>1 DEF EventsFit
    <3>3. CASE r.stage = "analyzing"
      <4>1. stage = "downloading" /\ r.pending = <<"analyzing">>
        BY <1>1, <3>1, <3>3 DEF FollowingStages, NextStages, EventsFit
      <4>2. Len(r.pending) = 1
        BY <4>1
      <4>3. Len(next.pending) = 2 /\ next.pending[2] = "downloading"
        BY <1>2, <1>3, <4>1, <4>2
      <4> QED
        BY <3>2, <4>3
    <3>4. CASE r.stage # "analyzing"
      <4>1. Len(r.pending) >= 2 /\ r.pending[2] = "downloading"
        BY <3>1, <3>4 DEF EventsFit
      <4> QED
        BY <1>2, <1>3, <3>2, <4>1
    <3> QED
      BY <3>3, <3>4
  <2>3. EventsFit(next)
    BY <1>3, <2>1, <2>2 DEF EventsFit
  <2> QED
    BY <1>4, <2>3 DEF next
<1> QED
  BY <1>5, <1>6

LEMMA TaskRunFits ==
    ASSUME NothingLost, IInv, RunsFit, NEW j \in Jobs, NEW a \in Attempts, TaskStep(j, a)
    PROVE  RunsFit'
<1> DEFINE r == run[j][a]
<1>a. r \in Run /\ RunTypeOK /\ EventsFit(r) /\ ResultFits(r)
  BY DEF IInv, RunTypeOK, RunsFit
<1> HIDE DEF r
<1>1. CASE Advance(j, a)
  <2>1. PICK stage \in FollowingStages(r.stage) :
            SetRun(j, a, [r EXCEPT !.stage = stage, !.pending = Append(r.pending, stage)])
    BY <1>1 DEF Advance, r
  <2>2. r.result = "none"
    BY <1>1 DEF Advance, IsLive, r
  <2> DEFINE next == [r EXCEPT !.stage = stage, !.pending = Append(r.pending, stage)]
  <2>3. EventsFit(next) /\ ResultFits(next)
    BY <1>a, <2>2, AdvancedFits
  <2> HIDE DEF next
  <2>4. SetRun(j, a, next)
    BY <2>1 DEF next
  <2> QED
    BY <1>a, <2>3, <2>4, FitsSetRun
<1>2. CASE ReportProgress(j, a)
  <2> DEFINE next == [r EXCEPT !.pending = <<r.stage>>]
  <2>1. r.stage \in {"downloading", "merging", "converting"} /\ SetRun(j, a, next)
    BY <1>2 DEF ReportProgress, ReportingStages, r
  <2>2. /\ next.pc = r.pc /\ next.stage = r.stage /\ next.result = r.result
        /\ next.pending = <<r.stage>>
    BY <1>a DEF Run
  <2> HIDE DEF next
  <2>3. Len(next.pending) = 1 /\ next.pending[1] = r.stage
    BY <2>2
  <2>4. EventsFit(next) /\ ResultFits(next)
    BY <1>a, <2>1, <2>2, <2>3 DEF EventsFit, ResultFits
  <2> QED
    BY <1>a, <2>1, <2>4, FitsSetRun
<1>3. CASE LoseEvents(j, a)
  BY <1>3 DEF LoseEvents, NothingLost
<1>4. CASE EndTask(j, a)
  <2>1. PICK result \in Outcomes(r) : SetRun(j, a, [r EXCEPT !.result = result])
    BY <1>4 DEF EndTask, r
  <2> DEFINE next == [r EXCEPT !.result = result]
  <2>2. /\ result = "ok" => r.stage = "finalizing"
        /\ r.pc = "driving"
    BY <1>4 DEF Outcomes, EndTask, IsLive, r
  <2>3. /\ next.pc = r.pc /\ next.stage = r.stage /\ next.result = result
        /\ next.pending = r.pending
    BY <1>a DEF Run
  <2> HIDE DEF next
  <2>4. EventsFit(next) /\ ResultFits(next)
    BY <1>a, <2>2, <2>3 DEF EventsFit, ResultFits
  <2>5. SetRun(j, a, next)
    BY <2>1 DEF next
  <2> QED
    BY <1>a, <2>4, <2>5, FitsSetRun
<1> QED
  BY <1>1, <1>2, <1>3, <1>4 DEF TaskStep

LEMMA DriverRunFits ==
    ASSUME IInv, RunsFit, NEW j \in Jobs, NEW a \in Attempts, DriverStep(j, a)
    PROVE  RunsFit'
<1> DEFINE r == run[j][a]
<1>a. r \in Run /\ RunTypeOK /\ EventsFit(r) /\ ResultFits(r)
  BY DEF IInv, RunTypeOK, RunsFit
<1> HIDE DEF r
<1> DEFINE done == [r EXCEPT !.pc = "finished"]
<1>b. EventsFit(done) /\ ResultFits(done)
  <2>1. /\ done.pc = "finished" /\ done.stage = r.stage /\ done.result = r.result
        /\ done.pending = r.pending
    BY <1>a DEF Run
  <2> HIDE DEF done
  <2> QED
    BY <1>a, <2>1 DEF EventsFit, ResultFits
<1> HIDE DEF done
<1>1. CASE PersistEvent(j, a)
  <2> DEFINE rest == [r EXCEPT !.pending = Tail(r.pending)]
  <2>1. r.pending # <<>>
    BY <1>1 DEF PersistEvent, r
  <2>2. rest \in Run /\ EventsFit(rest) /\ ResultFits(rest)
    BY <1>a, <2>1, TailFits
  <2>3. \/ SetRun(j, a, IF closing THEN Stopping(rest, PauseRun(rest)) ELSE rest)
        \/ SetRun(j, a, Stopping(rest, CancelRun(rest)))
    BY <1>1 DEF PersistEvent, r
  <2> HIDE DEF rest
  <2>4. \/ SetRun(j, a, rest) \/ SetRun(j, a, PauseRun(rest)) \/ SetRun(j, a, CancelRun(rest))
    BY <2>3 DEF Stopping
  <2> QED
    BY <1>a, <2>2, <2>4, StoppedRunFits, FitsSetRun
<1>2. CASE Finish(j, a)
  BY <1>a, <1>b, <1>2, FitsSetRun DEF Finish, r, done
<1>3. CASE RetainPartials(j, a)
  <2> DEFINE result == IF closing THEN "interrupted" ELSE "paused"
             next == [r EXCEPT !.pc = "retaining", !.result = result]
  <2>1. /\ next.pc = "retaining" /\ next.stage = r.stage /\ next.pending = r.pending
        /\ next.result \in {"paused", "interrupted"}
    BY <1>a DEF Run
  <2>2. SetRun(j, a, next) \/ SetRun(j, a, done)
    BY <1>3 DEF RetainPartials, r, done
  <2> HIDE DEF next
  <2>3. EventsFit(next) /\ ResultFits(next)
    BY <1>a, <2>1 DEF EventsFit, ResultFits
  <2> QED
    BY <1>a, <1>b, <2>2, <2>3, FitsSetRun
<1>4. CASE FinishRetained(j, a)
  BY <1>a, <1>b, <1>4, FitsSetRun DEF FinishRetained, r, done
<1>5. CASE Retire(j, a)
  BY <1>a, <1>5, FirstRunFits, FitsSetRun DEF Retire
<1> QED
  BY <1>1, <1>2, <1>3, <1>4, <1>5 DEF DriverStep

LEMMA RunsFitStep ==
    ASSUME NothingLost, IInv, RunsFit, [Next]_vars
    PROVE  RunsFit'
<1>a. RunTypeOK /\ ActiveTypeOK /\ CallsHaveJobs
  BY DEF IInv
<1>b. ASSUME UNCHANGED run PROVE RunsFit'
  BY <1>b DEF RunsFit, EventsFit, ResultFits
<1>c. ASSUME run' = NoRuns PROVE RunsFit'
  <2>1. \A j \in Jobs, a \in Attempts : run'[j][a] = NoRun
    BY <1>c DEF NoRuns
  <2>2. \A j \in Jobs, a \in Attempts : EventsFit(run'[j][a]) /\ ResultFits(run'[j][a])
    BY <2>1, FirstRunFits
  <2> QED
    BY <2>2 DEF RunsFit, EventsFit, ResultFits
<1>1. ASSUME NEW c \in Clients, ClientCall(c) \/ ClientStep(c) PROVE RunsFit'
  <2>1. CASE StopActive(c)
    <3> DEFINE j == client[c].job
               a == active[j]
    <3>1. CASE a # None
      <4>1. j \in Jobs
        BY <1>a, <2>1 DEF StopActive, CallsHaveJobs
      <4>2. a \in Attempts
        BY <1>a, <3>1, <4>1 DEF ActiveTypeOK
      <4>3. run[j][a] \in Run /\ EventsFit(run[j][a]) /\ ResultFits(run[j][a])
        BY <1>a, <4>1, <4>2 DEF RunTypeOK, RunsFit
      <4>4. SetRun(j, a, PauseRun(run[j][a])) \/ SetRun(j, a, CancelRun(run[j][a]))
        BY <2>1, <3>1 DEF StopActive
      <4> HIDE DEF j, a
      <4> QED
        BY <1>a, <4>1, <4>2, <4>3, <4>4, StoppedRunFits, FitsSetRun
    <3> QED
      BY <1>b, <2>1, <3>1 DEF StopActive
  <2> QED
    BY <1>1, <1>b, <2>1 DEF ClientCall, ClientStep, CallEnqueue, CallOnJob, ChangeSettings,
       InsertEnqueued, Kick, PauseQueued, SeeStopped, CancelStopped, ResumeInactive, RequeueJob,
       RemoveCompleted
<1>2. CASE SchedStep
  <2>1. ASSUME NEW j \in Jobs, SchedClaim(j) PROVE RunsFit'
    <3>1. jobs[j].attempt \in Attempts
      BY <2>1, ClaimedNow
    <3> QED
      BY <1>a, <2>1, <3>1, NoRunFits, FitsSetRun DEF SchedClaim
  <2>2. CASE SchedStart
    <3>1. sched.job \in Jobs /\ sched.attempt \in Attempts
      BY <2>2 DEF SchedStart, IInv, StartHasJob
    <3>2. \/ SetRun(sched.job, sched.attempt, NoRun)
          \/ SetRun(sched.job, sched.attempt, [NoRun EXCEPT !.pc = "driving"])
      BY <2>2 DEF SchedStart
    <3> QED
      BY <1>a, <3>1, <3>2, FirstRunFits, NoRunFits, FitsSetRun
  <2> QED
    BY <1>2, <1>b, <2>1, <2>2 DEF SchedStep, SchedTop, SchedSettings, SchedCount, SchedIdle,
       SchedRegister
<1>3. ASSUME NEW j \in Jobs, NEW a \in Attempts, TaskStep(j, a) \/ DriverStep(j, a)
      PROVE  RunsFit'
  BY <1>3, TaskRunFits, DriverRunFits
<1>4. CASE ShutdownStep
  <2>1. CASE ShutdownCollect
    <3>1. ASSUME NEW j \in Jobs, NEW a \in Attempts
          PROVE  EventsFit(run'[j][a]) /\ ResultFits(run'[j][a])
      <4>1. run[j][a] \in Run /\ EventsFit(run[j][a]) /\ ResultFits(run[j][a])
        BY <1>a DEF RunTypeOK, RunsFit
      <4>2. run'[j][a] = run[j][a] \/ run'[j][a] = PauseRun(run[j][a])
        BY <2>1 DEF ShutdownCollect
      <4> QED
        BY <4>1, <4>2, StoppedRunFits
    <3> QED
      BY <3>1 DEF RunsFit, EventsFit, ResultFits
  <2> QED
    BY <1>4, <1>b, <2>1 DEF ShutdownStep, ShutdownBegin, ShutdownCount, ShutdownCheck, ShutdownRegister,
       ShutdownTimeout
<1>5. CASE Crash
  BY <1>5, <1>c DEF Crash, ProcessEnds
<1>6. CASE OpenStep
  BY <1>6, <1>b, <1>c DEF OpenStep, OpenQueue, RecoverJob, OpenReturns, OpenFails, ProcessEnds,
     volatileVars
<1>7. CASE UNCHANGED vars
  BY <1>7, <1>b DEF vars, volatileVars
<1> QED
  BY <1>1, <1>2, <1>3, <1>4, <1>5, <1>6, <1>7 DEF Next

-----------------------------------------------------------------------------
(* The job of a run that drives it.                                        *)

LEMMA ActiveStatesMayStop ==
    ASSUME NEW from \in ActiveStates, NEW to \in StoppedStates,
           from = "analyzing" => to # "completed"
    PROVE  MayWrite(from, to)
  BY DEF MayWrite, CanTransitionTo, Successors, ActiveStates, StoppedStates, TerminalStates,
     RestingStates

(* A final state of an active job is never refused, and it is not lost.    *)
LEMMA FinalWriteStops ==
    ASSUME NothingLost, StoreTypeOK, NEW j \in Jobs, NEW state \in StoppedStates,
           jobs[j].state = "analyzing" => state # "completed",
           WriteFinal(j, state)
    PROVE  jobs'[j].state \notin ActiveStates
<1>1. CASE FinishJob(j, state)
  BY <1>1 DEF FinishJob, StoreTypeOK, Row, StoppedStates, TerminalStates, RestingStates,
     ActiveStates
<1>2. CASE UNCHANGED storeVars /\ ~MayWrite(jobs[j].state, state)
  BY <1>2, ActiveStatesMayStop DEF storeVars
<1> QED
  BY <1>1, <1>2 DEF WriteFinal, MayFail, NothingLost

LEMMA EndingStops ==
    ASSUME NothingLost, IInv, ActiveInv, NEW j \in Jobs, NEW a \in Attempts,
           Finish(j, a) \/ RetainPartials(j, a) \/ FinishRetained(j, a),
           run'[j][a].pc = "finished"
    PROVE  jobs'[j].state \notin ActiveStates
<1> DEFINE r == run[j][a]
<1>a. StoreTypeOK /\ RunTypeOK /\ r \in Run /\ ResultFits(r)
  BY DEF IInv, RunTypeOK, ActiveInv, RunsFit
<1>b. "failed" \in StoppedStates /\ "paused" \in StoppedStates /\ "interrupted" \in StoppedStates
  BY DEF StoppedStates, TerminalStates, RestingStates
<1>1. CASE Finish(j, a)
  <2>1. /\ r.pc = "driving" /\ r.pending = <<>> /\ r.result # "none"
        /\ WriteFinal(j, FinalState(r.result))
    BY <1>1 DEF Finish, DriverIsDone
  <2>2. FinalState(r.result) \in StoppedStates
    BY <1>a, <2>1, FinalStatesAreStopped
  <2>3. jobs[j].state = "analyzing" => FinalState(r.result) # "completed"
    <3> SUFFICES ASSUME jobs[j].state = "analyzing", FinalState(r.result) = "completed" PROVE FALSE
        OBVIOUS
    <3>1. r.result = "ok"
      BY <1>a DEF FinalState, Run
    <3>2. Overdue(r)
      BY <1>a, <3>1 DEF ResultFits, Overdue
    <3> QED
      BY <2>1, <3>2 DEF ActiveInv, DownloadingIsComing
  <2> QED
    BY <1>a, <2>1, <2>2, <2>3, FinalWriteStops
<1>2. CASE RetainPartials(j, a)
  <2>1. CASE SetRun(j, a, [r EXCEPT !.pc = "retaining",
                                    !.result = IF closing THEN "interrupted" ELSE "paused"])
    <3> DEFINE next == [r EXCEPT !.pc = "retaining",
                                 !.result = IF closing THEN "interrupted" ELSE "paused"]
    <3>1. next.pc = "retaining"
      BY <1>a DEF Run
    <3> HIDE DEF next
    <3>2. SetRun(j, a, next)
      BY <2>1 DEF next
    <3>3. run'[j][a] = next
      BY <1>a, <3>2, PcOfSetRun
    <3> QED
      BY <3>1, <3>3
  <2>2. CASE WriteFinal(j, "failed")
    BY <1>a, <1>b, <2>2, FinalWriteStops
  <2>3. CASE UNCHANGED storeVars /\ ~Present(j)
    BY <2>3 DEF storeVars, Present, JobStates
  <2> QED
    BY <1>2, <2>1, <2>2, <2>3 DEF RetainPartials, MayFail, NothingLost
<1>3. CASE FinishRetained(j, a)
  BY <1>a, <1>b, <1>3, FinalWriteStops DEF FinishRetained, ResultFits
<1> QED
  BY <1>1, <1>2, <1>3

(* How a run gets to "finished".                                           *)
LEMMA FinishesNow ==
    ASSUME IInv, [Next]_vars, NEW j \in Jobs, NEW a \in Attempts, run'[j][a].pc = "finished"
    PROVE  \/ run[j][a].pc = "finished"
           \/ Finish(j, a) \/ RetainPartials(j, a) \/ FinishRetained(j, a)
<1>a. RunTypeOK
  BY DEF IInv
<1>b. UNCHANGED run => run'[j][a].pc = run[j][a].pc
  OBVIOUS
<1>c. ASSUME NEW k \in Jobs, NEW b \in Attempts, TaskStep(k, b) \/ DriverStep(k, b)
      PROVE  \/ run[j][a].pc = "finished"
             \/ Finish(j, a) \/ RetainPartials(j, a) \/ FinishRetained(j, a)
  <2>1. CASE <<k, b>> = <<j, a>>
    <3>1. CASE TaskStep(j, a)
      BY <3>1, TaskKeepsPcs DEF PcsStay
    <3>2. CASE PersistEvent(j, a)
      <4> DEFINE r == run[j][a]
                 rest == [r EXCEPT !.pending = Tail(r.pending)]
      <4>1. r \in Run /\ r.pc = "driving"
        BY <1>a, <3>2 DEF RunTypeOK, PersistEvent
      <4>2. rest.pc = "driving" /\ PauseRun(rest).pc = "driving" /\ CancelRun(rest).pc = "driving"
        BY <4>1 DEF Run, PauseRun, CancelRun
      <4>3. \/ SetRun(j, a, IF closing THEN Stopping(rest, PauseRun(rest)) ELSE rest)
            \/ SetRun(j, a, Stopping(rest, CancelRun(rest)))
        BY <3>2 DEF PersistEvent
      <4> HIDE DEF rest
      <4>4. \/ SetRun(j, a, rest) \/ SetRun(j, a, PauseRun(rest)) \/ SetRun(j, a, CancelRun(rest))
        BY <4>3 DEF Stopping
      <4> QED
        BY <1>a, <4>2, <4>4, PcOfSetRun
    <3>3. CASE Retire(j, a)
      BY <3>3, RetiredNow
    <3> QED
      BY <1>c, <2>1, <3>1, <3>2, <3>3 DEF DriverStep
  <2>2. CASE <<k, b>> # <<j, a>>
    <3>1. \E r : SetRun(k, b, r)
      BY <1>c DEF TaskStep, Advance, ReportProgress, LoseEvents, EndTask, DriverStep,
         PersistEvent, Finish, RetainPartials, FinishRetained, Retire
    <3> QED
      BY <1>a, <2>2, <3>1, PcOfSetRun
  <2> QED
    BY <2>1, <2>2
<1>1. ASSUME NEW c \in Clients, ClientCall(c) \/ ClientStep(c) PROVE run[j][a].pc = "finished"
  <2>1. CASE StopActive(c)
    <3> DEFINE k == client[c].job
               b == active[k]
    <3>1. CASE b # None
      <4>1. k \in Jobs
        BY <2>1 DEF StopActive, IInv, CallsHaveJobs
      <4>2. b \in Attempts
        BY <3>1, <4>1 DEF IInv, ActiveTypeOK
      <4>3. run[k][b] \in Run
        BY <1>a, <4>1, <4>2 DEF RunTypeOK
      <4>4. SetRun(k, b, PauseRun(run[k][b])) \/ SetRun(k, b, CancelRun(run[k][b]))
        BY <2>1, <3>1 DEF StopActive
      <4> HIDE DEF k, b
      <4>5. \/ run'[k][b] = PauseRun(run[k][b]) \/ run'[k][b] = CancelRun(run[k][b])
        BY <1>a, <4>1, <4>2, <4>4, PcOfSetRun
      <4>6. <<j, a>> # <<k, b>> => run'[j][a] = run[j][a]
        BY <1>a, <4>1, <4>2, <4>4, PcOfSetRun
      <4> QED
        BY <4>3, <4>5, <4>6, StopsKeepPc
    <3> QED
      BY <1>b, <2>1, <3>1 DEF StopActive
  <2> QED
    BY <1>1, <1>b, <2>1 DEF ClientCall, ClientStep, CallEnqueue, CallOnJob, ChangeSettings,
       InsertEnqueued, Kick, PauseQueued, SeeStopped, CancelStopped, ResumeInactive, RequeueJob,
       RemoveCompleted
<1>2. CASE SchedStep
  <2>1. ASSUME NEW k \in Jobs, SchedClaim(k) PROVE run[j][a].pc = "finished"
    BY <2>1, ClaimedNow
  <2>2. ASSUME SchedStart PROVE run[j][a].pc = "finished"
    BY <2>2, StartedNow
  <2> QED
    BY <1>2, <1>b, <2>1, <2>2 DEF SchedStep, SchedTop, SchedSettings, SchedCount, SchedIdle,
       SchedRegister
<1>3. ASSUME ShutdownStep PROVE run[j][a].pc = "finished"
  <2>1. CASE ShutdownCollect
    <3>1. run[j][a] \in Run
      BY <1>a DEF RunTypeOK
    <3>2. run'[j][a] = run[j][a] \/ run'[j][a] = PauseRun(run[j][a])
      BY <2>1 DEF ShutdownCollect
    <3> QED
      BY <3>1, <3>2, StopsKeepPc
  <2> QED
    BY <1>3, <1>b, <2>1 DEF ShutdownStep, ShutdownBegin, ShutdownCount, ShutdownCheck, ShutdownRegister,
       ShutdownTimeout
<1>4. ASSUME Crash \/ OpenFails PROVE FALSE
  BY <1>4 DEF Crash, OpenFails, ProcessEnds, NoRuns, NoRun
<1>5. ASSUME OpenStep, ~OpenFails PROVE run[j][a].pc = "finished"
  BY <1>5, <1>b DEF OpenStep, OpenQueue, RecoverJob, OpenReturns, volatileVars
<1>6. ASSUME UNCHANGED vars PROVE run[j][a].pc = "finished"
  BY <1>6, <1>b DEF vars, volatileVars
<1> QED
  BY <1>c, <1>1, <1>2, <1>3, <1>4, <1>5, <1>6 DEF Next

LEMMA FinishedIsStoppedStep ==
    ASSUME NothingLost, RunsOnce, IInv, RunsInv, ActiveInv, [Next]_vars
    PROVE  FinishedIsStopped'
<1> SUFFICES ASSUME NEW j \in Jobs, NEW a \in Attempts, run'[j][a].pc = "finished"
             PROVE  jobs'[j].state \notin ActiveStates
    BY DEF FinishedIsStopped
<1>1. CASE Finish(j, a) \/ RetainPartials(j, a) \/ FinishRetained(j, a)
  BY <1>1, EndingStops
<1>2. CASE run[j][a].pc = "finished"
  <2>1. jobs[j].state \notin ActiveStates /\ OneRunEach
    BY <1>2 DEF ActiveInv, FinishedIsStopped, RunsInv
  <2>2. CASE NoNewActive
    BY <2>1, <2>2 DEF NoNewActive
  <2>3. ASSUME NEW k \in Jobs, SchedClaim(k) PROVE jobs'[j].state \notin ActiveStates
    BY <1>2, <2>1, <2>3, ClaimWritesOneJob, ClaimedHasNoRun
  <2>4. ASSUME NEW k \in Jobs, NEW b \in Attempts, PersistEvent(k, b)
        PROVE  jobs'[j].state \notin ActiveStates
    <3>1. run[k][b].pc = "driving"
      BY <2>4, PersistWritesOneJob
    <3>2. k # j
      BY <1>2, <2>1, <3>1 DEF OneRunEach
    <3> QED
      BY <2>1, <2>4, <3>2, PersistWritesOneJob
  <2> QED
    BY <2>2, <2>3, <2>4, ActiveWrites
<1> QED
  BY <1>1, <1>2, FinishesNow

-----------------------------------------------------------------------------
(* What becomes of the events a driver has not persisted.                  *)
EventsKeep ==
    \A j \in Jobs, a \in Attempts :
        run'[j][a].pc = "driving" =>
            \/ run'[j][a].stage = "none"
            \/ /\ run[j][a].pc = "driving"
               /\ run'[j][a].stage = run[j][a].stage /\ run'[j][a].pending = run[j][a].pending

LEMMA SetRunKeepsEvents ==
    ASSUME RunTypeOK, NEW j \in Jobs, NEW a \in Attempts, NEW r, SetRun(j, a, r),
           r.pc = "driving" =>
               \/ r.stage = "none"
               \/ /\ run[j][a].pc = "driving"
                  /\ r.stage = run[j][a].stage /\ r.pending = run[j][a].pending
    PROVE  EventsKeep
  BY PcOfSetRun DEF EventsKeep

LEMMA StopsKeepEvents ==
    ASSUME NEW r \in Run
    PROVE  /\ PauseRun(r).pc = r.pc /\ PauseRun(r).stage = r.stage
           /\ PauseRun(r).pending = r.pending
           /\ CancelRun(r).pc = r.pc /\ CancelRun(r).stage = r.stage
           /\ CancelRun(r).pending = r.pending
  BY DEF Run, PauseRun, CancelRun

LEMMA EventKinds ==
    ASSUME IInv, [Next]_vars
    PROVE  \/ EventsKeep
           \/ \E j \in Jobs, a \in Attempts : TaskStep(j, a) \/ PersistEvent(j, a)
<1>a. RunTypeOK
  BY DEF IInv
<1>b. UNCHANGED run => EventsKeep
  BY DEF EventsKeep
<1>c. ASSUME NEW j \in Jobs, NEW a \in Attempts, NEW r, SetRun(j, a, r), r.pc # "driving"
      PROVE  EventsKeep
  BY <1>a, <1>c, SetRunKeepsEvents
<1>1. ASSUME NEW c \in Clients, ClientCall(c) \/ ClientStep(c) PROVE EventsKeep
  <2>1. CASE StopActive(c)
    <3> DEFINE j == client[c].job
               a == active[j]
    <3>1. CASE a # None
      <4>1. j \in Jobs
        BY <2>1 DEF StopActive, IInv, CallsHaveJobs
      <4>2. a \in Attempts
        BY <3>1, <4>1 DEF IInv, ActiveTypeOK
      <4>3. run[j][a] \in Run
        BY <1>a, <4>1, <4>2 DEF RunTypeOK
      <4>4. SetRun(j, a, PauseRun(run[j][a])) \/ SetRun(j, a, CancelRun(run[j][a]))
        BY <2>1, <3>1 DEF StopActive
      <4> HIDE DEF j, a
      <4> QED
        BY <1>a, <4>1, <4>2, <4>3, <4>4, StopsKeepEvents, SetRunKeepsEvents
    <3> QED
      BY <1>b, <2>1, <3>1 DEF StopActive
  <2> QED
    BY <1>1, <1>b, <2>1 DEF ClientCall, ClientStep, CallEnqueue, CallOnJob, ChangeSettings,
       InsertEnqueued, Kick, PauseQueued, SeeStopped, CancelStopped, ResumeInactive, RequeueJob,
       RemoveCompleted
<1>2. CASE SchedStep
  <2>1. ASSUME NEW j \in Jobs, SchedClaim(j) PROVE EventsKeep
    <3> DEFINE r == [NoRun EXCEPT !.pc = "claimed"]
    <3>1. jobs[j].attempt \in Attempts /\ r.pc # "driving"
      BY <2>1, ClaimedNow DEF NoRun
    <3>2. SetRun(j, jobs[j].attempt, r)
      BY <2>1 DEF SchedClaim
    <3> HIDE DEF r
    <3> QED
      BY <1>c, <3>1, <3>2
  <2>2. CASE SchedStart
    <3> DEFINE r == [NoRun EXCEPT !.pc = "driving"]
    <3>1. sched.job \in Jobs /\ sched.attempt \in Attempts
      BY <2>2 DEF SchedStart, IInv, StartHasJob
    <3>2. NoRun.stage = "none" /\ r.stage = "none"
      BY DEF NoRun
    <3>3. SetRun(sched.job, sched.attempt, NoRun) \/ SetRun(sched.job, sched.attempt, r)
      BY <2>2 DEF SchedStart
    <3> HIDE DEF r
    <3> QED
      BY <1>a, <3>1, <3>2, <3>3, SetRunKeepsEvents
  <2> QED
    BY <1>2, <1>b, <2>1, <2>2 DEF SchedStep, SchedTop, SchedSettings, SchedCount, SchedIdle,
       SchedRegister
<1>3. ASSUME NEW j \in Jobs, NEW a \in Attempts, DriverStep(j, a), ~PersistEvent(j, a)
      PROVE  EventsKeep
  <2> DEFINE r == run[j][a]
             done == [r EXCEPT !.pc = "finished"]
             next == [r EXCEPT !.pc = "retaining",
                               !.result = IF closing THEN "interrupted" ELSE "paused"]
  <2>1. r \in Run
    BY <1>a DEF RunTypeOK
  <2>2. done.pc # "driving" /\ next.pc # "driving" /\ NoRun.pc # "driving"
    BY <2>1 DEF Run, NoRun
  <2>3. SetRun(j, a, done) \/ SetRun(j, a, next) \/ SetRun(j, a, NoRun)
    BY <1>3 DEF DriverStep, Finish, RetainPartials, FinishRetained, Retire
  <2> HIDE DEF done, next
  <2> QED
    BY <1>c, <2>2, <2>3
<1>4. CASE ShutdownStep
  <2>1. CASE ShutdownCollect
    <3>1. ASSUME NEW j \in Jobs, NEW a \in Attempts
          PROVE  /\ run'[j][a].pc = run[j][a].pc /\ run'[j][a].stage = run[j][a].stage
                 /\ run'[j][a].pending = run[j][a].pending
      <4>1. run[j][a] \in Run
        BY <1>a DEF RunTypeOK
      <4>2. run'[j][a] = run[j][a] \/ run'[j][a] = PauseRun(run[j][a])
        BY <2>1 DEF ShutdownCollect
      <4> QED
        BY <4>1, <4>2, StopsKeepEvents
    <3> QED
      BY <3>1 DEF EventsKeep
  <2> QED
    BY <1>4, <1>b, <2>1 DEF ShutdownStep, ShutdownBegin, ShutdownCount, ShutdownCheck, ShutdownRegister,
       ShutdownTimeout
<1>5. CASE Crash \/ OpenFails
  BY <1>5 DEF Crash, OpenFails, ProcessEnds, NoRuns, NoRun, EventsKeep
<1>6. ASSUME OpenStep, ~OpenFails PROVE EventsKeep
  BY <1>6, <1>b DEF OpenStep, OpenQueue, RecoverJob, OpenReturns, volatileVars
<1>7. CASE UNCHANGED vars
  BY <1>7, <1>b DEF vars, volatileVars
<1> QED
  BY <1>1, <1>2, <1>3, <1>4, <1>5, <1>6, <1>7 DEF Next

(* A job that is analyzing before a step on another run.                   *)
LEMMA OtherRunsKeepDownloading ==
    ASSUME ActiveInv, NEW j \in Jobs, NEW a \in Attempts,
           run'[j][a] = run[j][a], jobs'[j].state = jobs[j].state,
           run'[j][a].pc = "driving", jobs'[j].state = "analyzing", Overdue(run'[j][a])
    PROVE  /\ run'[j][a].pending # <<>>
           /\ Head(run'[j][a].pending) \in {"analyzing", "downloading"}
  BY DEF ActiveInv, DownloadingIsComing, Overdue

LEMMA TaskKeepsDownloading ==
    ASSUME NothingLost, IInv, ActiveInv, NEW j \in Jobs, NEW a \in Attempts, TaskStep(j, a),
           jobs[j].state = "analyzing", Overdue(run'[j][a])
    PROVE  /\ run'[j][a].pending # <<>>
           /\ Head(run'[j][a].pending) \in {"analyzing", "downloading"}
<1> DEFINE r == run[j][a]
<1>a. r \in Run /\ RunTypeOK /\ EventsFit(r) /\ r.pending \in Seq(Stages)
  BY DEF IInv, RunTypeOK, ActiveInv, RunsFit, Run
<1>b. r.pc = "driving"
  BY DEF TaskStep, Advance, ReportProgress, LoseEvents, EndTask, IsLive
<1>c. Overdue(r) => r.pending # <<>> /\ Head(r.pending) \in {"analyzing", "downloading"}
  BY <1>b DEF ActiveInv, DownloadingIsComing
<1> HIDE DEF r
<1>1. CASE Advance(j, a)
  <2>1. PICK stage \in FollowingStages(r.stage) :
            SetRun(j, a, [r EXCEPT !.stage = stage, !.pending = Append(r.pending, stage)])
    BY <1>1 DEF Advance, r
  <2> DEFINE next == [r EXCEPT !.stage = stage, !.pending = Append(r.pending, stage)]
  <2>2. next.stage = stage /\ next.pending = Append(r.pending, stage)
    BY <1>a DEF Run
  <2> HIDE DEF next
  <2>3. run'[j][a] = next
    <3>1. SetRun(j, a, next)
      BY <2>1 DEF next
    <3> QED
      BY <1>a, <3>1, PcOfSetRun
  <2>4. stage \in Stages /\ stage \notin {"none", "analyzing"}
    BY <2>2, <2>3, StagesTyped DEF Overdue, FollowingStages
  <2>5. CASE r.stage = "none"
    BY <2>4, <2>5 DEF FollowingStages, NextStages
  <2>6. CASE r.stage = "analyzing"
    <3>1. stage = "downloading" /\ r.pending \in {<<>>, <<"analyzing">>}
      BY <1>a, <2>1, <2>6 DEF FollowingStages, NextStages, EventsFit
    <3>2. Append(r.pending, stage)[1] \in {"analyzing", "downloading"}
      <4>1. CASE Len(r.pending) = 0
        BY <1>a, <2>4, <3>1, <4>1, AppendProperties
      <4>2. CASE Len(r.pending) # 0
        <5>1. r.pending = <<"analyzing">>
          BY <3>1, <4>2
        <5>2. Len(r.pending) = 1 /\ r.pending[1] = "analyzing"
          BY <5>1
        <5> QED
          BY <1>a, <2>4, <5>2, AppendProperties
      <4> QED
        BY <4>1, <4>2
    <3>3. Append(r.pending, stage) # <<>>
      BY <1>a, <2>4, AppendProperties
    <3>4. Head(Append(r.pending, stage)) = Append(r.pending, stage)[1]
      BY <1>a, <2>4, <3>3
    <3> QED
      BY <2>2, <2>3, <3>2, <3>3, <3>4
  <2>7. CASE Overdue(r)
    <3>1. r.pending # <<>> /\ Head(r.pending) \in {"analyzing", "downloading"}
      BY <1>c, <2>7
    <3>2. Len(r.pending) > 0 /\ Head(r.pending) = r.pending[1]
      BY <1>a, <3>1
    <3>3. Append(r.pending, stage) # <<>> /\ Append(r.pending, stage)[1] = r.pending[1]
      BY <1>a, <2>4, <3>2
    <3>4. Head(Append(r.pending, stage)) = Append(r.pending, stage)[1]
      BY <1>a, <2>4, <3>3
    <3> QED
      BY <2>2, <2>3, <3>1, <3>2, <3>3, <3>4
  <2> QED
    BY <2>5, <2>6, <2>7 DEF Overdue
<1>2. CASE ReportProgress(j, a)
  <2>1. r.stage \in {"downloading", "merging", "converting"} /\ r.pending = <<>>
    BY <1>2 DEF ReportProgress, ReportingStages, r
  <2> QED
    BY <1>c, <2>1 DEF Overdue
<1>3. CASE LoseEvents(j, a)
  BY <1>3 DEF LoseEvents, NothingLost
<1>4. CASE EndTask(j, a)
  <2>1. PICK result \in Outcomes(r) : SetRun(j, a, [r EXCEPT !.result = result])
    BY <1>4 DEF EndTask, r
  <2> DEFINE next == [r EXCEPT !.result = result]
  <2>2. next.stage = r.stage /\ next.pending = r.pending
    BY <1>a DEF Run
  <2> HIDE DEF next
  <2>3. run'[j][a] = next
    <3>1. SetRun(j, a, next)
      BY <2>1 DEF next
    <3> QED
      BY <1>a, <3>1, PcOfSetRun
  <2> QED
    BY <1>c, <2>2, <2>3 DEF Overdue
<1> QED
  BY <1>1, <1>2, <1>3, <1>4 DEF TaskStep

(* The event that says analyzing is followed by the one that says          *)
(* downloading, and that one is written.                                   *)
LEMMA PersistKeepsDownloading ==
    ASSUME NothingLost, IInv, ActiveInv, NEW j \in Jobs, NEW a \in Attempts, PersistEvent(j, a),
           jobs'[j].state = "analyzing", Overdue(run'[j][a])
    PROVE  /\ run'[j][a].pending # <<>>
           /\ Head(run'[j][a].pending) \in {"analyzing", "downloading"}
<1> DEFINE r == run[j][a]
           stage == Head(r.pending)
           rest == [r EXCEPT !.pending = Tail(r.pending)]
<1>a. r \in Run /\ RunTypeOK /\ StoreTypeOK /\ EventsFit(r) /\ ResultFits(r)
      /\ r.pending \in Seq(Stages)
  BY DEF IInv, RunTypeOK, ActiveInv, RunsFit, Run
<1>b. r.pc = "driving" /\ r.pending # <<>>
  BY DEF PersistEvent
<1>1. rest \in Run /\ rest.stage = r.stage /\ rest.pending = Tail(r.pending)
  BY <1>a, <1>b, TailFits DEF Run
<1>2. \/ /\ StageHasState(stage) /\ MayWrite(jobs[j].state, stage)
         /\ \E reports \in BOOLEAN : SaveProgress(j, stage, reports)
      \/ ~StageHasState(stage) /\ Present(j) /\ UNCHANGED storeVars
      \/ /\ IF StageHasState(stage) THEN ~MayWrite(jobs[j].state, stage) ELSE ~Present(j)
         /\ UNCHANGED storeVars
  <2>1. \/ ~UNCHANGED storeVars
        \/ ~StageHasState(stage) /\ Present(j) /\ UNCHANGED storeVars
        \/ StageHasState(stage) /\ MayWrite(jobs[j].state, stage) /\ UNCHANGED storeVars
            /\ \E reports \in BOOLEAN : SaveProgress(j, stage, reports)
        \/ /\ IF StageHasState(stage) THEN ~MayWrite(jobs[j].state, stage) ELSE ~Present(j)
           /\ UNCHANGED storeVars
    <3>1. CASE ~(IF StageHasState(stage) THEN MayWrite(jobs[j].state, stage) ELSE Present(j))
      BY <3>1 DEF PersistEvent, MayFail, NothingLost
    <3>2. CASE StageHasState(stage) /\ MayWrite(jobs[j].state, stage)
      <4>1. PICK reports \in BOOLEAN : SaveProgress(j, stage, reports)
        BY <3>2 DEF PersistEvent, MayFail, NothingLost
      <4> QED
        BY <3>2, <4>1
    <3>3. CASE ~StageHasState(stage) /\ Present(j)
      BY <3>3 DEF PersistEvent, MayFail, NothingLost
    <3> QED
      BY <3>1, <3>2, <3>3
  <2>2. ASSUME ~UNCHANGED storeVars
        PROVE  /\ StageHasState(stage) /\ MayWrite(jobs[j].state, stage)
               /\ \E reports \in BOOLEAN : SaveProgress(j, stage, reports)
    BY <2>2, PersistSaves DEF SaveProgress
  <2> QED
    BY <2>1, <2>2
<1>3. \/ SetRun(j, a, IF closing THEN Stopping(rest, PauseRun(rest)) ELSE rest)
      \/ SetRun(j, a, Stopping(rest, CancelRun(rest)))
  BY DEF PersistEvent
<1> HIDE DEF rest
<1>4. run'[j][a] \in {rest, PauseRun(rest), CancelRun(rest)}
  <2>1. \/ SetRun(j, a, rest) \/ SetRun(j, a, PauseRun(rest)) \/ SetRun(j, a, CancelRun(rest))
    BY <1>3 DEF Stopping
  <2> QED
    BY <1>a, <2>1, PcOfSetRun
<1>5. run'[j][a].stage = r.stage /\ run'[j][a].pending = Tail(r.pending)
  BY <1>1, <1>4, StopsKeepEvents
<1>6. Overdue(r)
  BY <1>5 DEF Overdue
<1>7. stage = r.pending[1] /\ stage \in Stages /\ Len(r.pending) \in Nat /\ Len(r.pending) >= 1
  BY <1>a, <1>b, HeadTailProperties
<1>8. CASE stage = "analyzing"
  <2>1. Len(r.pending) >= 2 /\ r.pending[2] = "downloading"
    <3>1. 1 \in 1..Len(r.pending) /\ r.pending[1] = "analyzing"
      BY <1>7, <1>8
    <3> QED
      BY <1>a, <1>6, <3>1 DEF EventsFit, Overdue
  <2>2. Tail(r.pending) # <<>> /\ Head(Tail(r.pending)) = r.pending[2]
    <3>1. /\ Tail(r.pending) \in Seq(Stages) /\ Len(Tail(r.pending)) = Len(r.pending) - 1
          /\ \A i \in 1..Len(Tail(r.pending)) : Tail(r.pending)[i] = r.pending[i + 1]
      BY <1>a, <1>b, HeadTailProperties
    <3>2. Len(Tail(r.pending)) >= 1 /\ Tail(r.pending)[1] = r.pending[2]
      BY <1>7, <2>1, <3>1
    <3>3. Tail(r.pending) # <<>>
      <4>1. Len(<<>>) = 0
        OBVIOUS
      <4>2. Len(Tail(r.pending)) # 0
        BY <3>2
      <4> QED
        BY <4>1, <4>2, Zenon
    <3>4. Head(Tail(r.pending)) = Tail(r.pending)[1]
      BY <3>1, <3>3, HeadTailProperties
    <3> QED
      BY <3>2, <3>3, <3>4
  <2> QED
    BY <1>5, <2>1, <2>2
<1>9. CASE stage # "analyzing"
  <2>1. jobs[j].state = "analyzing" => stage = "downloading"
    BY <1>6, <1>9, <1>b DEF ActiveInv, DownloadingIsComing
  <2>2. jobs[j].state # "analyzing" => ~UNCHANGED storeVars
    BY DEF storeVars
  <2>3. ASSUME NEW reports \in BOOLEAN, SaveProgress(j, stage, reports)
        PROVE  jobs'[j].state = stage
    BY <1>a, <2>3 DEF SaveProgress, StoreTypeOK, Row
  <2>4. StageHasState("downloading") /\ MayWrite("analyzing", "downloading")
    BY DEF StageHasState, ActiveStates, MayWrite, CanTransitionTo, Successors, RestingStates
  <2> QED
    BY <1>2, <1>9, <2>1, <2>2, <2>3, <2>4
<1> QED
  BY <1>8, <1>9

LEMMA DownloadingIsComingStep ==
    ASSUME NothingLost, RunsOnce, IInv, RunsInv, ActiveInv, [Next]_vars
    PROVE  DownloadingIsComing'
<1> SUFFICES ASSUME NEW j \in Jobs, NEW a \in Attempts,
                    run'[j][a].pc = "driving", jobs'[j].state = "analyzing", Overdue(run'[j][a])
             PROVE  /\ run'[j][a].pending # <<>>
                    /\ Head(run'[j][a].pending) \in {"analyzing", "downloading"}
    BY DEF DownloadingIsComing, Overdue
<1>a. RunTypeOK /\ OneRunEach /\ StoreTypeOK
  BY DEF IInv, RunsInv
<1>1. ASSUME NEW k \in Jobs, NEW b \in Attempts, PersistEvent(k, b)
      PROVE  /\ run'[j][a].pending # <<>>
             /\ Head(run'[j][a].pending) \in {"analyzing", "downloading"}
  <2>1. CASE k = j /\ b = a
    BY <1>1, <2>1, PersistKeepsDownloading
  <2>2. CASE ~(k = j /\ b = a)
    <3>1. run'[j][a] = run[j][a]
      <4>1. \E r : SetRun(k, b, r)
        BY <1>1 DEF PersistEvent
      <4> QED
        BY <1>a, <2>2, <4>1, PcOfSetRun
    <3>2. k # j
      BY <1>a, <1>1, <2>2, <3>1, PersistWritesOneJob DEF OneRunEach
    <3>3. jobs'[j] = jobs[j]
      BY <1>1, <3>2, PersistWritesOneJob
    <3> QED
      BY <3>1, <3>3, OtherRunsKeepDownloading
  <2> QED
    BY <2>1, <2>2
<1>2. ASSUME NEW k \in Jobs, SchedClaim(k)
      PROVE  /\ run'[j][a].pending # <<>>
             /\ Head(run'[j][a].pending) \in {"analyzing", "downloading"}
  <2>1. run'[j][a] = run[j][a]
    BY <1>2, ClaimedNow
  <2>2. k # j
    BY <1>2, <2>1, ClaimedHasNoRun
  <2>3. jobs'[j] = jobs[j]
    BY <1>2, <2>2, ClaimWritesOneJob
  <2> QED
    BY <2>1, <2>3, OtherRunsKeepDownloading
<1>3. ASSUME NoNewActive
      PROVE  /\ run'[j][a].pending # <<>>
             /\ Head(run'[j][a].pending) \in {"analyzing", "downloading"}
  <2>1. jobs[j].state = "analyzing"
    BY <1>3 DEF NoNewActive, ActiveStates
  <2>2. CASE EventsKeep
    <3>1. /\ run[j][a].pc = "driving" /\ run'[j][a].stage = run[j][a].stage
          /\ run'[j][a].pending = run[j][a].pending
      BY <2>2 DEF EventsKeep, Overdue
    <3> QED
      BY <2>1, <3>1 DEF ActiveInv, DownloadingIsComing, Overdue
  <2>3. ASSUME NEW k \in Jobs, NEW b \in Attempts, TaskStep(k, b)
        PROVE  /\ run'[j][a].pending # <<>>
               /\ Head(run'[j][a].pending) \in {"analyzing", "downloading"}
    <3>1. CASE k = j /\ b = a
      BY <2>1, <2>3, <3>1, TaskKeepsDownloading
    <3>2. CASE ~(k = j /\ b = a)
      <4>1. \E r : SetRun(k, b, r)
        BY <2>3 DEF TaskStep, Advance, ReportProgress, LoseEvents, EndTask
      <4>2. run'[j][a] = run[j][a]
        BY <1>a, <3>2, <4>1, PcOfSetRun
      <4> QED
        BY <2>1, <4>2, OtherRunsKeepDownloading
    <3> QED
      BY <3>1, <3>2
  <2> QED
    BY <1>1, <2>2, <2>3, EventKinds
<1> QED
  BY <1>1, <1>2, <1>3, ActiveWrites

-----------------------------------------------------------------------------
(* The active jobs and shutdown.                                          *)

LEMMA ServiceStep ==
    ASSUME NothingLost, service = TRUE, [Next]_vars
    PROVE  service' = TRUE
<1>1. ASSUME NEW c \in Clients, ClientCall(c) \/ ClientStep(c) PROVE UNCHANGED service
  BY <1>1 DEF ClientCall, ClientStep, CallEnqueue, CallOnJob, ChangeSettings, InsertEnqueued,
     Kick, PauseQueued, StopActive, SeeStopped, CancelStopped, ResumeInactive, RequeueJob,
     RemoveCompleted
<1>2. CASE SchedStep
  BY <1>2 DEF SchedStep, SchedTop, SchedSettings, SchedCount, SchedIdle, SchedRegister,
     SchedStart, SchedClaim
<1>3. ASSUME NEW j \in Jobs, NEW a \in Attempts, TaskStep(j, a) \/ DriverStep(j, a)
      PROVE  UNCHANGED service
  BY <1>3 DEF TaskStep, Advance, ReportProgress, LoseEvents, EndTask, OnlyRunChanges,
     DriverStep, PersistEvent, Finish, RetainPartials, FinishRetained, Retire
<1>4. CASE ShutdownStep \/ Crash \/ UNCHANGED vars
  BY <1>4 DEF ShutdownStep, ShutdownBegin, ShutdownCount, ShutdownCollect, ShutdownCheck, ShutdownRegister,
     ShutdownTimeout, Crash, ProcessEnds, vars, volatileVars
<1>5. CASE OpenStep
  BY <1>5 DEF OpenStep, OpenQueue, RecoverJob, OpenReturns, OpenFails, ProcessEnds,
     volatileVars, NothingLost
<1> QED
  BY <1>1, <1>2, <1>3, <1>4, <1>5 DEF Next

(* The recovery transaction leaves nothing active, and until open returns  *)
(* nothing but the recovery of single jobs touches the store.              *)
LEMMA OpeningIsStoppedStep ==
    ASSUME IInv, OpeningIsStopped, [Next]_vars
    PROVE  OpeningIsStopped'
<1>a. StoreTypeOK
  BY DEF IInv
<1>1. CASE OpenQueue
  BY <1>1, <1>a DEF OpenQueue, RecoverActive, OpeningIsStopped, InState, StoreTypeOK, Row,
     ActiveStates
<1>2. ASSUME NEW j \in Jobs, RecoverJob(j) PROVE OpeningIsStopped'
  <2>1. \A k \in Jobs : jobs'[k].state = jobs[k].state
    BY <1>2, <1>a DEF RecoverJob, SetRecoveryFailure, ReplaceOwnedPaths, StoreTypeOK, Row
  <2> QED
    BY <1>2, <2>1 DEF RecoverJob, OpeningIsStopped, InState
<1>3. CASE OpenReturns \/ OpenFails
  BY <1>3 DEF OpenReturns, OpenFails, ProcessEnds, OpeningIsStopped
<1>4. CASE Open /\ UNCHANGED phase
  BY <1>4 DEF Open, OpeningIsStopped
<1>5. CASE Ends
  BY <1>5 DEF Ends, OpeningIsStopped
<1>6. CASE UNCHANGED vars
  BY <1>6 DEF vars, storeVars, OpeningIsStopped, InState
<1> QED
  BY <1>1, <1>2, <1>3, <1>4, <1>5, <1>6, OpenStepsStayOpen DEF OpenStep

LEMMA ActiveHasRunStep ==
    ASSUME NothingLost, RunsOnce, IInv, RunsInv, ActiveInv, [Next]_vars
    PROVE  ActiveHasRun'
<1> SUFFICES ASSUME Open', NEW j \in Jobs, jobs'[j].state \in ActiveStates
             PROVE  \E a \in Attempts : run'[j][a].pc # "none"
    BY DEF ActiveHasRun, InState
<1>a. StoreTypeOK /\ RunTypeOK /\ FinishedIsStopped /\ OneRunEach /\ ClaimIsStarted
  BY DEF IInv, ActiveInv, RunsInv
<1>b. ASSUME Open, jobs[j].state \in ActiveStates
      PROVE  \E a \in Attempts : run[j][a].pc # "none"
  BY <1>b DEF ActiveInv, ActiveHasRun, InState
<1>c. ASSUME PcsKeep, NEW a \in Attempts, run[j][a].pc # "none" PROVE run'[j][a].pc # "none"
  BY <1>c DEF PcsKeep, DriverPcs
<1>1. ASSUME NEW k \in Jobs, SchedClaim(k) PROVE \E a \in Attempts : run'[j][a].pc # "none"
  <2>1. CASE k = j
    BY <1>1, <2>1, ClaimedNow
  <2>2. CASE k # j
    <3>1. Open /\ jobs'[j] = jobs[j]
      BY <1>1, <2>2, ClaimWritesOneJob DEF SchedClaim
    <3>2. \A a \in Attempts : run'[j][a] = run[j][a]
      BY <1>1, <2>2, ClaimedNow
    <3> QED
      BY <1>b, <3>1, <3>2
  <2> QED
    BY <2>1, <2>2
<1>2. ASSUME NEW k \in Jobs, NEW b \in Attempts, PersistEvent(k, b)
      PROVE  \E a \in Attempts : run'[j][a].pc # "none"
  <2>1. PcsKeep
    <3>1. ~Retire(k, b)
      BY <1>2 DEF PersistEvent, Retire
    <3> QED
      BY <1>2, <3>1, DriverKeepsPcs DEF DriverStep
  <2>2. CASE k = j
    BY <1>2, <1>c, <2>1, <2>2, PersistWritesOneJob
  <2>3. CASE k # j
    <3>1. Open /\ jobs'[j] = jobs[j]
      BY <1>2, <2>3, PersistWritesOneJob DEF PersistEvent
    <3> QED
      BY <1>b, <1>c, <2>1, <3>1
  <2> QED
    BY <2>2, <2>3
<1>3. ASSUME NoNewActive PROVE \E a \in Attempts : run'[j][a].pc # "none"
  <2>1. jobs[j].state \in ActiveStates
    BY <1>3 DEF NoNewActive
  <2>2. Open
    <3>1. CASE Ends
      BY <3>1 DEF Ends, Open
    <3>2. CASE OpenStep \/ UNCHANGED vars
      <4>1. phase # "opening"
        BY <2>1 DEF ActiveInv, OpeningIsStopped, InState
      <4> QED
        BY <3>2, <4>1 DEF OpenStep, OpenQueue, RecoverJob, OpenReturns, OpenFails, Open, vars
    <3> QED
      BY <3>1, <3>2, OpenStepsStayOpen
  <2>3. PICK a \in Attempts : run[j][a].pc # "none"
    BY <1>b, <2>1, <2>2
  <2>4. CASE Keeps
    BY <1>c, <2>3, <2>4 DEF Keeps
  <2>5. CASE SchedStart
    <3>1. CASE <<j, a>> = <<sched.job, sched.attempt>>
      <4>1. \/ SetRun(j, a, [NoRun EXCEPT !.pc = "driving"])
            \/ WriteFinal(j, "failed")
        BY <2>5, <3>1 DEF SchedStart, ActiveInv
      <4>2. ~WriteFinal(j, "failed")
        BY <1>a, FinalWriteStops DEF StoppedStates, TerminalStates
      <4> DEFINE r == [NoRun EXCEPT !.pc = "driving"]
      <4>3. r.pc = "driving"
        BY DEF NoRun
      <4> HIDE DEF r
      <4>4. SetRun(j, a, r)
        BY <4>1, <4>2 DEF r
      <4> QED
        BY <1>a, <4>3, <4>4, PcOfSetRun
    <3>2. CASE <<j, a>> # <<sched.job, sched.attempt>>
      BY <2>3, <2>5, <3>2, StartedNow
    <3> QED
      BY <3>1, <3>2
  <2>6. ASSUME NEW k \in Jobs, NEW b \in Attempts, Retire(k, b)
        PROVE  run'[j][a].pc # "none"
    <3>1. <<j, a>> # <<k, b>>
      BY <1>a, <2>1, <2>6, RetiredNow DEF FinishedIsStopped
    <3> QED
      BY <2>3, <2>6, <3>1, RetiredNow
  <2>7. CASE Ends
    BY <2>7 DEF Ends, Open
  <2> QED
    BY <1>1, <2>4, <2>5, <2>6, <2>7, StepKinds
<1> QED
  BY <1>1, <1>2, <1>3, ActiveWrites

LEMMA ActiveInvInit ==
    ASSUME NothingLost
    PROVE  Init => ActiveInv /\ ClosedIsIdle /\ ShutdownInv
<1> SUFFICES ASSUME Init PROVE ActiveInv /\ ClosedIsIdle /\ ShutdownInv
    OBVIOUS
<1>1. /\ \A j \in Jobs, a \in Attempts : run[j][a] = NoRun
      /\ phase = "open" /\ shutdown = "off"
      /\ \A j \in Jobs : jobs[j].state = "unused"
  BY DEF Init, VolatileInit, NoRuns, StoreInit, NoRow
<1>2. NoRun.pc = "none"
  BY DEF NoRun
<1>3. service = TRUE
  BY DEF Init, NothingLost
<1>4. RunsFit
  BY <1>1, FirstRunFits DEF RunsFit
<1>5. DownloadingIsComing /\ FinishedIsStopped /\ OpeningIsStopped
  BY <1>1, <1>2 DEF DownloadingIsComing, FinishedIsStopped, OpeningIsStopped
<1>6. ActiveHasRun
  BY <1>1 DEF ActiveHasRun, InState, ActiveStates
<1>7. ClosedIsIdle /\ ShutdownInv
  BY <1>1 DEF ClosedIsIdle, ShutdownInv, Open
<1> QED
  BY <1>3, <1>4, <1>5, <1>6, <1>7 DEF ActiveInv

LEMMA ActiveInvStep ==
    ASSUME NothingLost, RunsOnce
    PROVE  IInv /\ RunsInv /\ ActiveInv /\ [Next]_vars => ActiveInv'
<1> SUFFICES ASSUME IInv, RunsInv, ActiveInv, [Next]_vars PROVE ActiveInv'
    OBVIOUS
<1>1. service' = TRUE /\ RunsFit'
  BY ServiceStep, RunsFitStep DEF ActiveInv
<1>2. DownloadingIsComing' /\ FinishedIsStopped'
  BY DownloadingIsComingStep, FinishedIsStoppedStep
<1>3. OpeningIsStopped' /\ ActiveHasRun'
  BY OpeningIsStoppedStep, ActiveHasRunStep DEF ActiveInv
<1> QED
  BY <1>1, <1>2, <1>3 DEF ActiveInv

(* Once shutdown has returned success: no run, or the one that was missed.  *)
LEMMA DoneIsQuiet ==
    ASSUME IInv, RunsInv, ClosedIsIdle, ShutdownInv, shutdown \in {"done", "missed"},
           NEW j \in Jobs, NEW a \in Attempts, run[j][a].pc # "none"
    PROVE  shutdown = "missed" /\ j \in Registered /\ a = active[j]
<1>1. sched.pc # "starting"
  BY DEF ShutdownInv, LoopIsOver
<1>2. run[j][a].pc # "claimed"
  BY <1>1 DEF RunsInv, ClaimIsStarted
<1>3. run[j][a].pc \in DriverPcs
  BY <1>2 DEF IInv, RunTypeOK, Run, DriverPcs
<1>4. active[j] = a /\ j \in Registered
  BY <1>3, RegisteredRuns DEF RunsInv, Registered, Attempts, None
<1> QED
  BY <1>4 DEF ShutdownInv

LEMMA ActiveJobHasRun ==
    ASSUME ActiveInv, ClosedIsIdle, shutdown # "off", NEW j \in InState(ActiveStates)
    PROVE  \E a \in Attempts : run[j][a].pc # "none"
<1>1. Open
  BY DEF ClosedIsIdle
<1> QED
  BY <1>1 DEF ActiveInv, ActiveHasRun

(* A job the store shows as running is run by someone, at any time the     *)
(* queue is open: whatever pauses, cancels, fails or crashes, no download  *)
(* ends without recording how, where each job has one run at a time and no *)
(* write is lost.                                                          *)
THEOREM RunningJobsHaveRuns ==
    ASSUME RunsOnce, NothingLost
    PROVE  Spec => []ActiveHasRun
<1> DEFINE Inv == IInv /\ OpsAreCommands /\ RunsInv /\ ActiveInv
<1>1. Init => Inv
  BY IInvInit, RunsInvInit, ActiveInvInit
<1>2. Inv /\ [Next]_vars => Inv'
  BY IInvStep, OpsAreCommandsStep, RunsInvStep, ActiveInvStep
<1>3. Inv => ActiveHasRun
  BY DEF ActiveInv
<1> QED
  BY <1>1, <1>2, <1>3, PTL DEF Spec

(* When shutdown returns success, and ever after, no run exists and the    *)
(* store shows nothing as running, but for one attempt that started while  *)
(* shutdown was between its two reads; and no other can start any more.    *)
THEOREM ShutdownLeavesNothing ==
    ASSUME RunsOnce, NothingLost
    PROVE  Spec => []ShutdownQuiescent
<1> DEFINE Inv == /\ IInv /\ OpsAreCommands /\ RunsInv /\ ActiveInv
                  /\ ClosedIsIdle /\ ShutdownInv
<1>1. Init => Inv
  BY IInvInit, RunsInvInit, ActiveInvInit
<1>2. Inv /\ [Next]_vars => Inv'
  BY IInvStep, OpsAreCommandsStep, RunsInvStep, ActiveInvStep, ClosedIsIdleStep, ShutdownInvStep
<1>3. Inv => ShutdownQuiescent
  <2> SUFFICES ASSUME Inv PROVE ShutdownQuiescent
      OBVIOUS
  <2>1. ASSUME shutdown = "done"
        PROVE  /\ \A j \in Jobs, a \in Attempts : run[j][a].pc = "none"
               /\ InState(ActiveStates) = {}
    <3>1. \A j \in Jobs, a \in Attempts : run[j][a].pc = "none"
      BY <2>1, DoneIsQuiet
    <3>2. InState(ActiveStates) = {}
      BY <2>1, <3>1, ActiveJobHasRun DEF InState
    <3> QED
      BY <3>1, <3>2
  <2>2. ASSUME shutdown = "missed"
        PROVE  /\ \E j \in Jobs, a \in Attempts : AllQuietBut(j, a)
               /\ sched.pc \in {"stopped", "top"}
    <3>1. OneRegistered /\ sched.pc \in {"stopped", "top"}
      BY <2>2 DEF ShutdownInv, LoopIsOver
    <3>2. \A k \in Jobs, b \in Attempts : run[k][b].pc # "none" => k \in Registered /\ b = active[k]
      BY <2>2, DoneIsQuiet
    <3>3. PICK j \in Jobs, a \in Attempts : \A k \in Registered : k = j /\ active[k] = a
      <4>1. CASE Registered = {}
        BY <3>1, <4>1 DEF OneRegistered
      <4>2. CASE Registered # {}
        <5>1. PICK j \in Registered : TRUE
          BY <4>2
        <5>2. j \in Jobs /\ active[j] \in Attempts
          BY <5>1 DEF Registered, IInv, ActiveTypeOK
        <5> QED
          BY <3>1, <5>1, <5>2 DEF OneRegistered
      <4> QED
        BY <4>1, <4>2
    <3>4. ASSUME NEW k \in Jobs, NEW b \in Attempts, run[k][b].pc # "none"
          PROVE  <<k, b>> = <<j, a>>
      BY <3>2, <3>3, <3>4
    <3>5. InState(ActiveStates) \subseteq {j}
      BY <2>2, <3>4, ActiveJobHasRun DEF InState
    <3>6. AllQuietBut(j, a)
      BY <3>4, <3>5 DEF AllQuietBut
    <3> QED
      BY <3>1, <3>6
  <2> QED
    BY <2>1, <2>2 DEF ShutdownQuiescent
<1> QED
  BY <1>1, <1>2, <1>3, PTL DEF Spec

-----------------------------------------------------------------------------
(* The store never runs ahead of a download.                               *)

(* An event a driver has not persisted tells of a stage the run has come   *)
(* to, and a run that is only claimed has come to none.                    *)
EventsTrail(r) ==
    /\ r.pc = "claimed" => r.stage = "none"
    /\ \A i \in 1..Len(r.pending) :
           StageHasState(r.pending[i]) => r.pending[i] \in MayShow(r.stage)

TrailInv ==
    /\ \A j \in Jobs, a \in Attempts : run[j][a].pc # "none" => EventsTrail(run[j][a])
    /\ StoreTrailsDownload

(* A step that is no claim, no step of a download and no event persisted   *)
(* leaves a run where it is, starts it or ends it.                         *)
TrailKept(r, s) ==
    \/ s.pc = "none"
    \/ r.pc = "claimed" /\ s.pc = "driving" /\ s.stage = "none" /\ s.pending = <<>>
    \/ /\ r.pc # "none" /\ (s.pc = "claimed" => r.pc = "claimed")
       /\ s.stage = r.stage /\ s.pending = r.pending

TrailKeep == \A j \in Jobs, a \in Attempts : TrailKept(run[j][a], run'[j][a])

LEMMA RunKeepsTrail == \A r : TrailKept(r, r)
  BY DEF TrailKept

LEMMA SetRunKeepsTrail ==
    ASSUME RunTypeOK, NEW j \in Jobs, NEW a \in Attempts, NEW r, SetRun(j, a, r),
           TrailKept(run[j][a], r)
    PROVE  TrailKeep
<1> SUFFICES ASSUME NEW k \in Jobs, NEW b \in Attempts PROVE TrailKept(run[k][b], run'[k][b])
    BY DEF TrailKeep
<1>1. CASE <<k, b>> = <<j, a>>
  BY <1>1, PcOfSetRun
<1>2. CASE <<k, b>> # <<j, a>>
  BY <1>2, PcOfSetRun, RunKeepsTrail
<1> QED
  BY <1>1, <1>2

LEMMA StopsKeepTrail ==
    ASSUME NEW r \in Run
    PROVE  TrailKept(r, PauseRun(r)) /\ TrailKept(r, CancelRun(r))
  BY StopsKeepEvents DEF TrailKept

LEMMA TrailKinds ==
    ASSUME IInv, RunsInv, [Next]_vars
    PROVE  \/ TrailKeep
           \/ \E j \in Jobs : SchedClaim(j)
           \/ \E j \in Jobs, a \in Attempts : TaskStep(j, a) \/ PersistEvent(j, a)
<1>a. RunTypeOK
  BY DEF IInv
<1>b. UNCHANGED run => TrailKeep
  BY RunKeepsTrail DEF TrailKeep
<1>c. NoRun.pc = "none"
  BY DEF NoRun
<1>1. ASSUME NEW c \in Clients, ClientCall(c) \/ ClientStep(c) PROVE TrailKeep
  <2>1. CASE StopActive(c)
    <3> DEFINE j == client[c].job
               a == active[j]
    <3>1. CASE a # None
      <4>1. j \in Jobs
        BY <2>1 DEF StopActive, IInv, CallsHaveJobs
      <4>2. a \in Attempts
        BY <3>1, <4>1 DEF IInv, ActiveTypeOK
      <4>3. run[j][a] \in Run
        BY <1>a, <4>1, <4>2 DEF RunTypeOK
      <4>4. SetRun(j, a, PauseRun(run[j][a])) \/ SetRun(j, a, CancelRun(run[j][a]))
        BY <2>1, <3>1 DEF StopActive
      <4> HIDE DEF j, a
      <4> QED
        BY <1>a, <4>1, <4>2, <4>3, <4>4, StopsKeepTrail, SetRunKeepsTrail
    <3> QED
      BY <1>b, <2>1, <3>1 DEF StopActive
  <2> QED
    BY <1>1, <1>b, <2>1 DEF ClientCall, ClientStep, CallEnqueue, CallOnJob, ChangeSettings,
       InsertEnqueued, Kick, PauseQueued, SeeStopped, CancelStopped, ResumeInactive, RequeueJob,
       RemoveCompleted
<1>2. ASSUME SchedStep, ~(\E j \in Jobs : SchedClaim(j)) PROVE TrailKeep
  <2>1. CASE SchedStart
    <3> DEFINE r == [NoRun EXCEPT !.pc = "driving"]
               old == run[sched.job][sched.attempt]
    <3>1. sched.job \in Jobs /\ sched.attempt \in Attempts
      BY <2>1 DEF SchedStart, IInv, StartHasJob
    <3>2. old.pc = "claimed"
      BY <2>1, <3>1 DEF SchedStart, RunsInv, ClaimIsStarted
    <3>3. r.pc = "driving" /\ r.stage = "none" /\ r.pending = <<>>
      BY DEF NoRun
    <3>4. SetRun(sched.job, sched.attempt, NoRun) \/ SetRun(sched.job, sched.attempt, r)
      BY <2>1 DEF SchedStart
    <3> HIDE DEF r
    <3>5. TrailKept(old, NoRun) /\ TrailKept(old, r)
      BY <1>c, <3>2, <3>3 DEF TrailKept
    <3> QED
      BY <1>a, <3>1, <3>4, <3>5, SetRunKeepsTrail
  <2> QED
    BY <1>2, <1>b, <2>1 DEF SchedStep, SchedTop, SchedSettings, SchedCount, SchedIdle,
       SchedRegister
<1>3. ASSUME NEW j \in Jobs, NEW a \in Attempts, DriverStep(j, a), ~PersistEvent(j, a)
      PROVE  TrailKeep
  <2> DEFINE r == run[j][a]
             done == [r EXCEPT !.pc = "finished"]
             next == [r EXCEPT !.pc = "retaining",
                               !.result = IF closing THEN "interrupted" ELSE "paused"]
  <2>1. r \in Run
    BY <1>a DEF RunTypeOK
  <2>2. /\ done.pc = "finished" /\ done.stage = r.stage /\ done.pending = r.pending
        /\ next.pc = "retaining" /\ next.stage = r.stage /\ next.pending = r.pending
    BY <2>1 DEF Run
  <2>3. r.pc \in DriverPcs
    BY <1>3 DEF DriverStep, Finish, RetainPartials, FinishRetained, Retire, DriverIsDone, DriverPcs
  <2>4. SetRun(j, a, done) \/ SetRun(j, a, next) \/ SetRun(j, a, NoRun)
    BY <1>3 DEF DriverStep, Finish, RetainPartials, FinishRetained, Retire
  <2> HIDE DEF done, next
  <2>5. TrailKept(r, done) /\ TrailKept(r, next) /\ TrailKept(r, NoRun)
    BY <1>c, <2>2, <2>3 DEF TrailKept, DriverPcs
  <2> QED
    BY <1>a, <2>4, <2>5, SetRunKeepsTrail
<1>4. CASE ShutdownStep
  <2>1. CASE ShutdownCollect
    <3>1. ASSUME NEW j \in Jobs, NEW a \in Attempts
          PROVE  TrailKept(run[j][a], run'[j][a])
      <4>1. run[j][a] \in Run
        BY <1>a DEF RunTypeOK
      <4>2. run'[j][a] = run[j][a] \/ run'[j][a] = PauseRun(run[j][a])
        BY <2>1 DEF ShutdownCollect
      <4> QED
        BY <4>1, <4>2, StopsKeepTrail, RunKeepsTrail
    <3> QED
      BY <3>1 DEF TrailKeep
  <2> QED
    BY <1>4, <1>b, <2>1 DEF ShutdownStep, ShutdownBegin, ShutdownCount, ShutdownCheck,
       ShutdownRegister, ShutdownTimeout
<1>5. CASE Crash \/ OpenFails
  BY <1>5, <1>c DEF Crash, OpenFails, ProcessEnds, NoRuns, TrailKeep, TrailKept
<1>6. ASSUME OpenStep, ~OpenFails PROVE TrailKeep
  BY <1>6, <1>b DEF OpenStep, OpenQueue, RecoverJob, OpenReturns, volatileVars
<1>7. CASE UNCHANGED vars
  BY <1>7, <1>b DEF vars, volatileVars
<1> QED
  BY <1>1, <1>2, <1>3, <1>4, <1>5, <1>6, <1>7 DEF Next

LEMMA MayShowGrows ==
    /\ MayShow("none") = {"analyzing"}
    /\ \A stage, next \in Stages \union {"none"} :
          next \in NextStages(stage) =>
              /\ MayShow(stage) \subseteq MayShow(next)
              /\ StageHasState(next) => next \in MayShow(next)
    /\ \A stage \in ReportingStages : stage \in MayShow(stage)
<1> USE DEF MayShow, StageHasState, ActiveStates
<1>1. MayShow("none") = {"analyzing"}
  OBVIOUS
<1>2. ASSUME NEW stage \in Stages \union {"none"}, NEW next \in NextStages(stage)
      PROVE  /\ MayShow(stage) \subseteq MayShow(next)
             /\ StageHasState(next) => next \in MayShow(next)
  <2>1. CASE stage = "none"
    BY <1>2, <2>1 DEF NextStages
  <2>2. CASE stage = "analyzing"
    BY <1>2, <2>2 DEF NextStages
  <2>3. CASE stage = "downloading"
    BY <1>2, <2>3 DEF NextStages
  <2>4. CASE stage \in {"merging", "converting"}
    BY <1>2, <2>4 DEF NextStages
  <2>5. CASE stage = "finalizing"
    BY <1>2, <2>5 DEF NextStages
  <2> QED
    BY <2>1, <2>2, <2>3, <2>4, <2>5 DEF Stages
<1>3. \A stage \in ReportingStages : stage \in MayShow(stage)
  BY DEF ReportingStages
<1> QED
  BY <1>1, <1>2, <1>3

LEMMA TailTrails ==
    ASSUME NEW r, NEW x, EventsTrail(r), r.pending \in Seq(Stages), r.pending # <<>>,
           x.pc # "claimed", x.stage = r.stage, x.pending = Tail(r.pending)
    PROVE  EventsTrail(x)
<1>1. /\ Len(r.pending) \in Nat /\ Len(x.pending) = Len(r.pending) - 1
      /\ \A i \in 1..Len(x.pending) : x.pending[i] = r.pending[i + 1]
  BY HeadTailProperties
<1>2. ASSUME NEW i \in 1..Len(x.pending), StageHasState(x.pending[i])
      PROVE  x.pending[i] \in MayShow(x.stage)
  <2>1. i + 1 \in 1..Len(r.pending) /\ x.pending[i] = r.pending[i + 1]
    BY <1>1
  <2> QED
    BY <1>2, <2>1 DEF EventsTrail
<1> QED
  BY <1>2 DEF EventsTrail

(* A step of the download changes its own run alone: it comes to a further *)
(* stage and tells of it, repeats the stage it is at, or loses events.     *)
LEMMA TaskTrails ==
    ASSUME IInv, NEW j \in Jobs, NEW a \in Attempts, TaskStep(j, a), EventsTrail(run[j][a])
    PROVE  /\ EventsTrail(run'[j][a])
           /\ run[j][a].pc = "driving" /\ run'[j][a].pc = "driving"
           /\ MayShow(run[j][a].stage) \subseteq MayShow(run'[j][a].stage)
           /\ \A k \in Jobs, b \in Attempts : <<k, b>> # <<j, a>> => run'[k][b] = run[k][b]
           /\ UNCHANGED jobs
<1> DEFINE r == run[j][a]
<1>a. RunTypeOK /\ r \in Run
  BY DEF IInv, RunTypeOK
<1>b. r.pc = "driving" /\ UNCHANGED jobs
  BY DEF TaskStep, Advance, ReportProgress, LoseEvents, EndTask, IsLive, OnlyRunChanges, storeVars
<1>c. r.pending \in Seq(Stages) /\ r.stage \in Stages \union {"none"} /\ Len(r.pending) \in Nat
  BY <1>a DEF Run
<1>d. ASSUME NEW x, SetRun(j, a, x), EventsTrail(x), x.pc = "driving",
             MayShow(r.stage) \subseteq MayShow(x.stage)
      PROVE  /\ EventsTrail(run'[j][a])
             /\ run'[j][a].pc = "driving"
             /\ MayShow(r.stage) \subseteq MayShow(run'[j][a].stage)
             /\ \A k \in Jobs, b \in Attempts : <<k, b>> # <<j, a>> => run'[k][b] = run[k][b]
  BY <1>a, <1>d, PcOfSetRun
<1>1. CASE Advance(j, a)
  <2>1. PICK stage \in FollowingStages(r.stage) :
           SetRun(j, a, [r EXCEPT !.stage = stage, !.pending = Append(@, stage)])
    BY <1>1 DEF Advance
  <2>2. stage \in NextStages(r.stage) /\ stage \in Stages
    BY StagesTyped DEF FollowingStages
  <2> DEFINE x == [r EXCEPT !.stage = stage, !.pending = Append(@, stage)]
  <2>3. x.pc = "driving" /\ x.stage = stage /\ x.pending = Append(r.pending, stage)
    BY <1>a, <1>b DEF Run
  <2> HIDE DEF x
  <2>4. MayShow(r.stage) \subseteq MayShow(stage) /\ (StageHasState(stage) => stage \in MayShow(stage))
    BY <1>c, <2>2, MayShowGrows
  <2>5. /\ Len(Append(r.pending, stage)) = Len(r.pending) + 1
        /\ \A i \in 1..Len(r.pending) : Append(r.pending, stage)[i] = r.pending[i]
        /\ Append(r.pending, stage)[Len(r.pending) + 1] = stage
    BY <1>c, <2>2, AppendProperties
  <2>6. ASSUME NEW i \in 1..Len(x.pending), StageHasState(x.pending[i])
        PROVE  x.pending[i] \in MayShow(stage)
    <3>1. i \in 1..Len(r.pending) \/ i = Len(r.pending) + 1
      BY <1>c, <2>3, <2>5
    <3>2. CASE i \in 1..Len(r.pending)
      BY <2>3, <2>4, <2>5, <2>6, <3>2 DEF EventsTrail
    <3>3. CASE i = Len(r.pending) + 1
      BY <2>3, <2>4, <2>5, <2>6, <3>3
    <3> QED
      BY <3>1, <3>2, <3>3
  <2>7. EventsTrail(x)
    BY <2>3, <2>6 DEF EventsTrail
  <2> QED
    BY <1>b, <1>d, <2>1, <2>3, <2>4, <2>7 DEF x
<1>2. CASE ReportProgress(j, a)
  <2> DEFINE x == [r EXCEPT !.pending = <<r.stage>>]
  <2>1. SetRun(j, a, x) /\ r.stage \in ReportingStages
    BY <1>2 DEF ReportProgress
  <2>2. x.pc = "driving" /\ x.stage = r.stage /\ x.pending = <<r.stage>>
    BY <1>a, <1>b DEF Run
  <2> HIDE DEF x
  <2>3. EventsTrail(x)
    BY <2>1, <2>2, MayShowGrows DEF EventsTrail
  <2> QED
    BY <1>b, <1>d, <2>1, <2>2, <2>3
<1>3. CASE LoseEvents(j, a)
  <2> DEFINE x == [r EXCEPT !.pending = Tail(@)]
             y == [r EXCEPT !.pending = <<>>]
  <2>1. (SetRun(j, a, x) \/ SetRun(j, a, y)) /\ Len(r.pending) >= 2
    BY <1>3 DEF LoseEvents
  <2>2. /\ x.pc = "driving" /\ x.stage = r.stage /\ x.pending = Tail(r.pending)
        /\ y.pc = "driving" /\ y.stage = r.stage /\ y.pending = <<>>
    BY <1>a, <1>b DEF Run
  <2> HIDE DEF x, y
  <2>3. EventsTrail(x)
    BY <1>c, <2>1, <2>2, TailTrails
  <2>4. EventsTrail(y)
    BY <2>2 DEF EventsTrail
  <2> QED
    BY <1>b, <1>d, <2>1, <2>2, <2>3, <2>4
<1>4. CASE EndTask(j, a)
  <2>1. PICK result : SetRun(j, a, [r EXCEPT !.result = result])
    BY <1>4 DEF EndTask
  <2> DEFINE x == [r EXCEPT !.result = result]
  <2>2. x.pc = "driving" /\ x.stage = r.stage /\ x.pending = r.pending
    BY <1>a, <1>b DEF Run
  <2> HIDE DEF x
  <2>3. EventsTrail(x)
    BY <1>b, <2>2 DEF EventsTrail
  <2> QED
    BY <1>b, <1>d, <2>1, <2>2, <2>3 DEF x
<1> QED
  BY <1>1, <1>2, <1>3, <1>4 DEF TaskStep

LEMMA PersistTrails ==
    ASSUME IInv, NEW j \in Jobs, NEW a \in Attempts, PersistEvent(j, a), EventsTrail(run[j][a])
    PROVE  /\ EventsTrail(run'[j][a])
           /\ run[j][a].pc = "driving" /\ run'[j][a].stage = run[j][a].stage
           /\ \A k \in Jobs, b \in Attempts : <<k, b>> # <<j, a>> => run'[k][b] = run[k][b]
           /\ \/ jobs'[j].state = jobs[j].state
              \/ jobs'[j].state \in MayShow(run[j][a].stage)
<1> DEFINE r == run[j][a]
           stage == Head(r.pending)
           rest == [r EXCEPT !.pending = Tail(@)]
<1>a. RunTypeOK /\ r \in Run /\ StoreTypeOK
  BY DEF IInv, RunTypeOK
<1>b. r.pc = "driving" /\ r.pending # <<>>
  BY DEF PersistEvent
<1>c. r.pending \in Seq(Stages)
  BY <1>a DEF Run
<1>1. Tail(r.pending) \in Seq(Stages)
  BY <1>b, <1>c, HeadTailProperties
<1>2. rest \in Run /\ rest.pc = "driving" /\ rest.stage = r.stage /\ rest.pending = Tail(r.pending)
  BY <1>a, <1>b, <1>1 DEF Run
<1>3. \/ SetRun(j, a, IF closing THEN Stopping(rest, PauseRun(rest)) ELSE rest)
      \/ SetRun(j, a, Stopping(rest, CancelRun(rest)))
  BY DEF PersistEvent
<1>4. \/ UNCHANGED storeVars
      \/ \E reports \in BOOLEAN : StageHasState(stage) /\ SaveProgress(j, stage, reports)
  BY PersistSaves
<1> HIDE DEF rest
<1>5. \/ SetRun(j, a, rest) \/ SetRun(j, a, PauseRun(rest)) \/ SetRun(j, a, CancelRun(rest))
  BY <1>3 DEF Stopping
<1>6. PICK x \in {rest, PauseRun(rest), CancelRun(rest)} : SetRun(j, a, x)
  BY <1>5
<1>7. x.pc = "driving" /\ x.stage = r.stage /\ x.pending = Tail(r.pending)
  BY <1>2, <1>6, StopsKeepEvents
<1>8. EventsTrail(x)
  BY <1>b, <1>c, <1>7, TailTrails
<1>9. stage = r.pending[1] /\ 1 \in 1..Len(r.pending)
  BY <1>b, <1>c, HeadTailProperties
<1>10. ASSUME NEW reports \in BOOLEAN, StageHasState(stage), SaveProgress(j, stage, reports)
       PROVE  jobs'[j].state \in MayShow(r.stage)
  <2>1. jobs'[j].state = stage
    BY <1>a, <1>10 DEF SaveProgress, StoreTypeOK, Row
  <2> QED
    BY <1>9, <1>10, <2>1 DEF EventsTrail
<1> QED
  BY <1>a, <1>b, <1>4, <1>6, <1>7, <1>8, <1>10, PcOfSetRun DEF storeVars

LEMMA TrailInvStep ==
    ASSUME RunsOnce, IInv, RunsInv, TrailInv, [Next]_vars
    PROVE  TrailInv'
<1>a. RunTypeOK /\ StoreTypeOK /\ OneRunEach
  BY DEF IInv, RunsInv
<1>b. ASSUME NEW j \in Jobs, NEW a \in Attempts, run[j][a].pc # "none"
      PROVE  /\ EventsTrail(run[j][a])
             /\ jobs[j].state \in ActiveStates => jobs[j].state \in MayShow(run[j][a].stage)
  BY <1>b DEF TrailInv, StoreTrailsDownload
<1> SUFFICES ASSUME NEW j \in Jobs, NEW a \in Attempts, run'[j][a].pc # "none"
             PROVE  /\ EventsTrail(run'[j][a])
                    /\ jobs'[j].state \in ActiveStates =>
                           jobs'[j].state \in MayShow(run'[j][a].stage)
    BY DEF TrailInv, StoreTrailsDownload, EventsTrail
<1> DEFINE Goal == /\ EventsTrail(run'[j][a])
                   /\ jobs'[j].state \in ActiveStates =>
                          jobs'[j].state \in MayShow(run'[j][a].stage)
<1>c. ASSUME run'[j][a] = run[j][a], jobs'[j].state = jobs[j].state PROVE Goal
  BY <1>b, <1>c
<1>1. ASSUME NEW k \in Jobs, SchedClaim(k) PROVE Goal
  <2>1. CASE k = j
    <3> DEFINE r == [NoRun EXCEPT !.pc = "claimed"]
    <3>1. jobs[j].attempt \in Attempts /\ SetRun(j, jobs[j].attempt, r)
      BY <1>1, <2>1, ClaimedNow DEF SchedClaim
    <3>2. r.stage = "none" /\ r.pending = <<>>
      BY DEF NoRun
    <3> HIDE DEF r
    <3>3. \A b \in Attempts : b # jobs[j].attempt => run'[j][b].pc = "none"
      BY <1>1, <2>1, ClaimedNow, ClaimedHasNoRun
    <3>4. run'[j][a] = r
      BY <1>a, <3>1, <3>3, PcOfSetRun
    <3>5. jobs'[j].state = "analyzing"
      BY <1>1, <1>a, <2>1 DEF SchedClaim, ClaimNext, StoreTypeOK, Row
    <3>6. EventsTrail(r)
      BY <3>2 DEF EventsTrail
    <3> QED
      BY <3>2, <3>4, <3>5, <3>6, MayShowGrows
  <2>2. CASE k # j
    BY <1>1, <1>c, <2>2, ClaimedNow, ClaimWritesOneJob
  <2> QED
    BY <2>1, <2>2
<1>2. ASSUME NEW k \in Jobs, NEW b \in Attempts, TaskStep(k, b) PROVE Goal
  <2>0. run[k][b].pc # "none"
    BY <1>2 DEF TaskStep, Advance, ReportProgress, LoseEvents, EndTask, IsLive
  <2>1. EventsTrail(run[k][b])
    BY <1>b, <2>0
  <2>2. CASE <<k, b>> = <<j, a>>
    BY <1>2, <1>b, <2>0, <2>1, <2>2, TaskTrails
  <2>3. CASE <<k, b>> # <<j, a>>
    BY <1>2, <1>c, <2>1, <2>3, TaskTrails
  <2> QED
    BY <2>2, <2>3
<1>3. ASSUME NEW k \in Jobs, NEW b \in Attempts, PersistEvent(k, b) PROVE Goal
  <2>0. run[k][b].pc = "driving"
    BY <1>3 DEF PersistEvent
  <2>1. EventsTrail(run[k][b])
    BY <1>b, <2>0
  <2>2. CASE <<k, b>> = <<j, a>>
    BY <1>3, <1>b, <2>0, <2>1, <2>2, PersistTrails
  <2>3. CASE <<k, b>> # <<j, a>>
    <3>1. run'[j][a] = run[j][a]
      BY <1>3, <2>1, <2>3, PersistTrails
    <3>2. k # j
      BY <1>a, <2>0, <2>3, <3>1 DEF OneRunEach
    <3> QED
      BY <1>3, <1>c, <3>1, <3>2, PersistWritesOneJob
  <2> QED
    BY <2>2, <2>3
<1>4. ASSUME TrailKeep, NoNewActive PROVE Goal
  <2>1. jobs'[j].state \in ActiveStates => jobs'[j].state = jobs[j].state
    BY <1>4 DEF NoNewActive
  <2>2. TrailKept(run[j][a], run'[j][a])
    BY <1>4 DEF TrailKeep
  <2>3. run[j][a].pc # "none"
    BY <2>2 DEF TrailKept
  <2>4. /\ EventsTrail(run[j][a])
        /\ jobs[j].state \in ActiveStates => jobs[j].state \in MayShow(run[j][a].stage)
    BY <1>b, <2>3
  <2>5. CASE /\ run[j][a].pc = "claimed" /\ run'[j][a].pc = "driving"
             /\ run'[j][a].stage = "none" /\ run'[j][a].pending = <<>>
    <3>1. run[j][a].stage = "none"
      BY <2>4, <2>5 DEF EventsTrail
    <3> QED
      BY <2>1, <2>4, <2>5, <3>1 DEF EventsTrail
  <2>6. CASE /\ run'[j][a].pc = "claimed" => run[j][a].pc = "claimed"
             /\ run'[j][a].stage = run[j][a].stage /\ run'[j][a].pending = run[j][a].pending
    BY <2>1, <2>4, <2>6 DEF EventsTrail
  <2> QED
    BY <2>2, <2>5, <2>6 DEF TrailKept
<1> QED
  BY <1>1, <1>2, <1>3, <1>4, ActiveWrites, TrailKinds

(* The store never runs ahead of the download: whatever is paused,         *)
(* cancelled, dropped, refused or repeated, and across crashes and         *)
(* recoveries, a stage a job shows is one its own run has come to.         *)
THEOREM TheStoreTrails ==
    ASSUME RunsOnce
    PROVE  Spec => []StoreTrailsDownload
<1> DEFINE Inv == IInv /\ OpsAreCommands /\ RunsInv /\ TrailInv
<1>1. Init => Inv
  <2>1. Init => TrailInv
    BY DEF Init, VolatileInit, NoRuns, NoRun, TrailInv, StoreTrailsDownload
  <2> QED
    BY <2>1, IInvInit, RunsInvInit
<1>2. Inv /\ [Next]_vars => Inv'
  BY IInvStep, OpsAreCommandsStep, RunsInvStep, TrailInvStep
<1>3. Inv => StoreTrailsDownload
  BY DEF TrailInv
<1> QED
  BY <1>1, <1>2, <1>3, PTL DEF Spec
=============================================================================
