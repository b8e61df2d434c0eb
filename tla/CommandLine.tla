----------------------------- MODULE CommandLine -----------------------------
(* One run of the command line program (apps/cli/src/lib.rs) beside the job  *)
(* it submits and watches: the steps of its commands, the events it reads,   *)
(* Ctrl-C, outputs that cannot be written, and the exit code it ends with.   *)
(* The queue runs in the same process: the job is claimed, driven and        *)
(* cancelled step by step, beside the events of other jobs, and any of its   *)
(* reads and writes may fail.                                                *)
EXTENDS Naturals, Sequences, FiniteSets, JobLifecycle, MediaAddress

CONSTANTS
    Addresses,    \* the addresses a user gives
    Capacity,     \* how many events the stream holds for a reader that is late
    MaxProgress   \* bound: how many events this job's attempt and other jobs send

ASSUME CapacityAssumption == Capacity \in Nat \ {0}

VARIABLES
    verb,       \* the command
    json,       \* it answers as JSON
    address,    \* its address
    at,         \* the step the command is at; "done" once the process has ended
    exit,       \* the exit code, "none" before the end
    pressed,    \* Ctrl-C was pressed
    forwarded,  \* cancellation_forwarded
    found,      \* what a cancel has read of the job; "none" before, "unread" if it could not
    listening,  \* the subscription was taken
    stream,     \* the events not read yet
    lagged,     \* some events were dropped and the reader is not told yet
    missed,     \* history: an event which says that the job stopped was dropped
    broken,     \* the outputs that take no more
    job,        \* the state of the job, "none" while there is none
    class,      \* why the job failed
    attempt,    \* how far the queue is with the attempt of the job
    asked,      \* the attempt was told to cancel
    progress,   \* how many events of attempts were sent
    accepted    \* history: the queue took the submission

userVars == <<verb, json, address, pressed, broken>>
stepVars == <<at, exit, forwarded, found>>
eventVars == <<stream, lagged, missed>>
jobVars == <<job, class, attempt, asked, progress, accepted>>
cliVars == <<userVars, stepVars, listening, eventVars, jobVars>>

Driving  == {"download", "resume", "retry"}
Asking   == {"pause", "cancel", "remove", "list"}
Verbs    == {"analyze"} \union Driving \union Asking
Classes  == {"request", "destination", "filesystem", "internal", "process"}

ExitCodes == {"Success", "InvalidInput", "UnsupportedContent", "UnavailableTools",
              "AnalysisFailure", "Cancelled", "DownloadFailure", "OutputFailure", "Paused",
              "PersistenceFailure", "InternalFailure"}

(* Mutant of Steps: the job is submitted before its events are subscribed.   *)
StepsSubmitFirst(v) ==
    CASE v = "analyze"   -> <<"parse", "tools", "analyze">>
      [] v \in Driving   -> <<"parse", "tools", "open", "submit", "subscribe", "drive">>
      [] OTHER           -> <<"parse", "open", "ask">>

(* The steps of a command, one after the other.                              *)
Steps(v) ==
    CASE v = "analyze"   -> <<"parse", "tools", "analyze">>
      [] v \in Driving   -> <<"parse", "tools", "open", "subscribe", "submit", "drive">>
      [] OTHER           -> <<"parse", "open", "ask">>
StepAfter(v, step) ==
    LET i == CHOOSE i \in DOMAIN Steps(v) : Steps(v)[i] = step IN Steps(v)[i + 1]

CliInit ==
    /\ verb \in Verbs
    /\ address \in IF verb \in {"analyze", "download"} THEN Addresses
                   ELSE {CHOOSE a \in Addresses : TRUE}
    /\ json \in IF verb \in Driving THEN BOOLEAN ELSE {FALSE}
    /\ at = "parse" /\ exit = "none"
    /\ pressed = FALSE /\ forwarded = FALSE /\ found = "none"
    /\ listening = FALSE /\ stream = <<>> /\ lagged = FALSE /\ missed = FALSE
    /\ broken = {}
    /\ job \in IF verb \in {"analyze", "download", "list"} THEN {"none"}
               ELSE {"none", "queued"} \union StoppedStates
    /\ class \in IF job = "failed" THEN Classes ELSE {"none"}
    /\ attempt = "none" /\ asked = FALSE /\ progress = 0 /\ accepted = FALSE

At(step) == at = step
Advance == at' = StepAfter(verb, at)
Exit(code) == at' = "done" /\ exit' = code
Continue == Advance /\ UNCHANGED exit

(* An event of the job, with what the attempt has just done or without, and  *)
(* one of another job, which shares the stream.                              *)
Event(state, activity) == [state |-> state, activity |-> activity]
OtherEvent == Event("none", FALSE)

(* A broadcast to the subscriber: the oldest event gives way.                *)
Emit(event) ==
    IF ~listening THEN UNCHANGED eventVars
    ELSE IF Len(stream) < Capacity
    THEN stream' = Append(stream, event) /\ UNCHANGED <<lagged, missed>>
    ELSE /\ stream' = Append(Tail(stream), event) /\ lagged' = TRUE
         /\ missed' = (missed \/ Head(stream).state \in StoppedStates)

(* What a command answers goes to the standard output; what it tells of the  *)
(* download, to the same one as JSON and to the other one for people.        *)
AnswerArrives == "stdout" \notin broken
NewsArrives == (IF json THEN "stdout" ELSE "stderr") \notin broken
AnswerCode == IF AnswerArrives THEN "Success" ELSE "InternalFailure"

-----------------------------------------------------------------------------
(* Up to the submission.                                                     *)

(* Arguments the parser of the options refuses, a quality, a destination, a  *)
(* name or an identity that is not valid, or an address that names no video. *)
(* Of the address the video is kept.                                         *)
ParseArguments ==
    /\ At("parse")
    /\ \/ Exit("InvalidInput") /\ UNCHANGED address
       \/ verb \notin {"analyze", "download"} /\ Continue /\ UNCHANGED address
       \/ /\ verb \in {"analyze", "download"}
          /\ \/ /\ ParseAddress(address).fault = "none"
                /\ Continue /\ address' = Canonical(ParseAddress(address).id)
             \/ /\ ParseAddress(address).fault # "none"
                /\ Exit(IF IsUnsupportedContent(ParseAddress(address).fault)
                        THEN "UnsupportedContent" ELSE "InvalidInput")
                /\ UNCHANGED address
    /\ UNCHANGED <<verb, json, pressed, broken, forwarded, found, listening, eventVars, jobVars>>

(* Tools that do not resolve once Ctrl-C was pressed count as cancelled, but *)
(* not the bundled set, which is verified as a whole.                        *)
ResolveToolsFirst ==
    /\ At("tools")
    /\ \/ Continue
       \/ Exit("UnavailableTools")
       \/ pressed /\ Exit("Cancelled")
       \/ Exit("InternalFailure")
    /\ UNCHANGED <<userVars, forwarded, found, listening, eventVars, jobVars>>

RunAnalysis ==
    /\ At("analyze")
    /\ \/ Exit(AnswerCode)
       \/ Exit("UnsupportedContent")
       \/ Exit(IF pressed THEN "Cancelled" ELSE "AnalysisFailure")
    /\ UNCHANGED <<userVars, forwarded, found, listening, eventVars, jobVars>>

(* The directory may be managed by another process, or not open at all; what *)
(* is found in it may not be usable.                                         *)
OpenQueue ==
    /\ At("open")
    /\ Continue \/ \E code \in {"PersistenceFailure", "OutputFailure"} : Exit(code)
    /\ UNCHANGED <<userVars, forwarded, found, listening, eventVars, jobVars>>

Subscribe ==
    /\ At("subscribe")
    /\ listening' = TRUE
    /\ Continue
    /\ UNCHANGED <<userVars, forwarded, found, eventVars, jobVars>>

MaySubmit ==
    CASE verb = "download" -> job = "none"
      [] verb = "resume"   -> job \in RestingStates
      [] verb = "retry"    -> job \in {"failed", "cancelled"}

Submit ==
    /\ At("submit")
    /\ \/ /\ MaySubmit
          /\ job' = "queued" /\ class' = "none"
          /\ Emit(Event("queued", FALSE))
          /\ Continue
          /\ accepted' = TRUE
          /\ UNCHANGED <<attempt, asked, progress>>
       \/ /\ \/ Exit("PersistenceFailure")
             \/ verb = "download" /\ \E code \in {"InvalidInput", "OutputFailure"} : Exit(code)
          /\ UNCHANGED <<jobVars, eventVars>>
    /\ UNCHANGED <<userVars, forwarded, found, listening>>

(* Without a download service no attempt runs: only resting jobs are moved.  *)
Ask ==
    /\ At("ask")
    /\ \/ verb = "pause" /\ job = "queued" /\ job' = "paused" /\ Exit(AnswerCode)
       \/ /\ verb = "cancel" /\ job \in {"queued"} \union RestingStates
          /\ \/ job' = "cancelled" /\ Exit(AnswerCode)
             \/ job' = job /\ Exit("OutputFailure")
       \/ verb = "remove" /\ job = "completed" /\ job' = "none" /\ Exit(AnswerCode)
       \/ verb = "list" /\ job' = job /\ Exit(AnswerCode)
       \/ job' = job /\ Exit("PersistenceFailure")
    /\ class' = IF job' = "failed" THEN class ELSE "none"
    /\ UNCHANGED <<userVars, forwarded, found, listening, eventVars,
                   attempt, asked, progress, accepted>>

-----------------------------------------------------------------------------
(* The attempt, in the same process.                                         *)

Alive == at # "done"
Queued == Alive /\ accepted /\ attempt = "none" /\ job = "queued"
QueueOnly == UNCHANGED <<userVars, stepVars, listening, accepted>>

(* The scheduler takes the job once those before it left it a place.         *)
Claim ==
    /\ Queued
    /\ attempt' = "claimed" /\ job' = "analyzing"
    /\ Emit(Event("analyzing", FALSE))
    /\ UNCHANGED <<class, asked, progress>> /\ QueueOnly

(* It never does: a read of the scheduler fails, which ends it, or the end   *)
(* of the job it waits for comes before it listens.                          *)
Overlook ==
    /\ Queued
    /\ attempt' = "overlooked"
    /\ UNCHANGED <<job, class, asked, progress, eventVars>> /\ QueueOnly

(* A claimed job can be reached a moment later, unless its request is not    *)
(* valid any more; then nothing runs, and even that may not be written.      *)
Register ==
    /\ Alive /\ attempt = "claimed"
    /\ \/ attempt' = "running" /\ UNCHANGED <<job, class, eventVars>>
       \/ attempt' = "over" /\ UNCHANGED <<job, class, eventVars>>
       \/ /\ MayWrite(job, "failed")
          /\ attempt' = "over" /\ job' = "failed" /\ class' = "request"
          /\ Emit(Event("failed", FALSE))
    /\ UNCHANGED <<asked, progress>> /\ QueueOnly

(* What the attempt does is written and sent, the stages with the state of   *)
(* their name.  An attempt whose write is refused or fails is told to stop.  *)
JobAdvances ==
    /\ Alive /\ attempt = "running" /\ progress < MaxProgress
    /\ progress' = progress + 1
    /\ \/ /\ job' \in {job} \union (Successors(job) \intersect ActiveStates)
          /\ Emit(Event(job', TRUE)) /\ UNCHANGED asked
       \/ asked' = TRUE /\ UNCHANGED <<job, eventVars>>
    /\ UNCHANGED <<class, attempt>> /\ QueueOnly

OtherAdvances ==
    /\ Alive /\ accepted /\ progress < MaxProgress
    /\ progress' = progress + 1
    /\ Emit(OtherEvent)
    /\ UNCHANGED <<job, class, attempt, asked>> /\ QueueOnly

(* An attempt that was told to cancel may still complete or fail.  Its end   *)
(* is not written if the write fails, or is refused because the row says     *)
(* something else by now.                                                    *)
Finish ==
    /\ Alive /\ attempt = "running"
    /\ \E state \in {"completed", "failed"} \union (IF asked THEN {"cancelled"} ELSE {}) :
          \/ /\ MayWrite(job, state)
             /\ attempt' = "written" /\ job' = state
             /\ class' \in IF state = "failed" THEN Classes ELSE {"none"}
          \/ attempt' = "unwritten" /\ UNCHANGED <<job, class>>
    /\ asked' = FALSE
    /\ UNCHANGED <<progress, eventVars>> /\ QueueOnly

(* It leaves the table of those a cancel can reach, and only an end that was *)
(* written is sent.                                                          *)
Retire ==
    /\ Alive /\ attempt \in {"written", "unwritten"}
    /\ attempt' = "over"
    /\ IF attempt = "written" THEN Emit(Event(job, FALSE)) ELSE UNCHANGED eventVars
    /\ UNCHANGED <<job, class, asked, progress>> /\ QueueOnly

-----------------------------------------------------------------------------
(* The loop that watches the job.                                            *)

(* A cancel begins with a read of the job, which may fail.                   *)
BeginCancel(step) == at' = step /\ found' \in {job, "unread"} /\ UNCHANGED exit

ReadLag ==
    /\ At("drive") /\ lagged
    /\ lagged' = FALSE
    /\ IF NewsArrives THEN UNCHANGED <<at, exit, found>> ELSE BeginCancel("abandon")
    /\ UNCHANGED <<userVars, forwarded, listening, stream, missed, jobVars>>

(* An event is printed if the attempt has just done something; where that    *)
(* fails the job is cancelled, whatever comes of it.                         *)
ReadEvent ==
    /\ At("drive") /\ ~lagged /\ stream # <<>>
    /\ stream' = Tail(stream)
    /\ IF Head(stream).activity /\ ~NewsArrives
       THEN BeginCancel("abandon")
       ELSE /\ at' = IF Head(stream).state \in StoppedStates THEN "render" ELSE at
            /\ UNCHANGED <<exit, found>>
    /\ UNCHANGED <<userVars, forwarded, listening, lagged, missed, jobVars>>

(* Ctrl-C is passed on once.                                                 *)
ForwardCancel ==
    /\ At("drive") /\ pressed /\ ~forwarded
    /\ forwarded' = TRUE
    /\ BeginCancel("cancel")
    /\ UNCHANGED <<userVars, listening, eventVars, jobVars>>

Cancelling == At("cancel") \/ At("abandon")
EndCancel(code) == Exit(IF At("cancel") THEN code ELSE "InternalFailure")
Reachable == attempt \in {"running", "written", "unwritten"}
Cancellable == {"queued"} \union RestingStates

(* Mutant of CancelRunning: the attempt is told to stop and not waited for.  *)
CancelRunningAndLeave ==
    /\ Cancelling /\ found \in ActiveStates /\ Reachable
    /\ asked' = TRUE
    /\ EndCancel("Cancelled")
    /\ UNCHANGED <<userVars, forwarded, found, listening, eventVars,
                   job, class, attempt, progress, accepted>>

(* A job read as running is told to stop and waited for.                     *)
CancelRunning ==
    /\ Cancelling /\ found \in ActiveStates /\ Reachable
    /\ asked' = TRUE
    /\ at' = IF At("cancel") THEN "cancelling" ELSE "abandoning"
    /\ UNCHANGED <<userVars, exit, forwarded, found, listening, eventVars,
                   job, class, attempt, progress, accepted>>

(* A job read as one that does not run is cancelled in its row, whether or   *)
(* not it runs by now; its files may not be removed, or the row not written. *)
CancelWaiting ==
    /\ Cancelling /\ found \in Cancellable
    /\ \/ /\ MayWrite(job, "cancelled")
          /\ job' = "cancelled"
          /\ Emit(Event("cancelled", FALSE))
          /\ IF At("cancel") THEN at' = "render" /\ UNCHANGED exit ELSE EndCancel("Cancelled")
       \/ /\ \E code \in {"OutputFailure", "PersistenceFailure"} : EndCancel(code)
          /\ UNCHANGED <<job, eventVars>>
    /\ UNCHANGED <<userVars, forwarded, found, listening,
                   class, attempt, asked, progress, accepted>>

(* Any other is not cancelled, which ends the command as a failure of the    *)
(* queue: one that has stopped, or one that nobody can reach.                *)
CancelRefused ==
    /\ Cancelling
    /\ found \notin Cancellable /\ ~(found \in ActiveStates /\ Reachable)
    /\ EndCancel("PersistenceFailure")
    /\ UNCHANGED <<userVars, forwarded, found, listening, eventVars, jobVars>>

(* The wait of a cancel returns with the state the job stopped in, or fails  *)
(* because the job cannot be read.                                           *)
CancelReturns ==
    /\ At("cancelling") \/ At("abandoning")
    /\ job \in StoppedStates
    /\ IF At("abandoning") THEN Exit("InternalFailure")
       ELSE at' = (IF job \in TerminalStates THEN "render" ELSE "drive") /\ UNCHANGED exit
    /\ UNCHANGED <<userVars, forwarded, found, listening, eventVars, jobVars>>
WaitFails ==
    /\ At("cancelling") \/ At("abandoning")
    /\ found' = "unread"
    /\ Exit(IF At("abandoning") THEN "InternalFailure" ELSE "PersistenceFailure")
    /\ UNCHANGED <<userVars, forwarded, listening, eventVars, jobVars>>

FailureCode ==
    CASE class = "request" -> "InvalidInput"
      [] class \in {"destination", "filesystem"} -> "OutputFailure"
      [] class = "internal" -> "PersistenceFailure"
      [] OTHER -> "DownloadFailure"

CompletionCode ==
    CASE job = "completed"      -> "Success"
      [] job = "cancelled"      -> "Cancelled"
      [] job \in RestingStates  -> "Paused"
      [] OTHER                  -> FailureCode

(* The path, or as JSON any result, is printed last.                         *)
RenderCompletion ==
    /\ At("render")
    /\ Exit(IF (json \/ job = "completed") /\ ~AnswerArrives
            THEN "InternalFailure" ELSE CompletionCode)
    /\ UNCHANGED <<userVars, forwarded, found, listening, eventVars, jobVars>>

PressCtrlC ==
    /\ Alive /\ ~pressed
    /\ pressed' = TRUE
    /\ UNCHANGED <<verb, json, address, broken, stepVars, listening, eventVars, jobVars>>

BreakOutput ==
    /\ Alive
    /\ \E output \in {"stdout", "stderr"} \ broken : broken' = broken \union {output}
    /\ UNCHANGED <<verb, json, address, pressed, stepVars, listening, eventVars, jobVars>>

CliSteps ==
    \/ ParseArguments \/ ResolveToolsFirst \/ RunAnalysis \/ OpenQueue \/ Subscribe \/ Submit \/ Ask
    \/ ReadLag \/ ReadEvent \/ ForwardCancel
    \/ CancelRunning \/ CancelWaiting \/ CancelRefused \/ CancelReturns \/ RenderCompletion
JobSteps == Claim \/ Overlook \/ Register \/ JobAdvances \/ Finish \/ Retire
CliNext ==
    \/ CliSteps \/ JobSteps
    \/ OtherAdvances \/ WaitFails \/ PressCtrlC \/ BreakOutput

(* The process takes its steps; the scheduler claims a queued job unless it  *)
(* overlooks it; a tool ends, if only by its timeout.                        *)
CliFairness ==
    /\ WF_cliVars(CliSteps)
    /\ WF_cliVars(Claim \/ Overlook \/ Register) /\ WF_cliVars(Finish \/ Retire)

-----------------------------------------------------------------------------

(* The exit code tells what became of the job that was submitted: success is *)
(* only a completed download, 6 a cancelled one, 9 a resting one, and a      *)
(* failure code the class of its failure; a completed download ends in a     *)
(* failure only if the user stopped it or its result could not be printed.   *)
(* No attempt runs when the process ends (lib.rs:962), with two exceptions:  *)
(* a cancel had read the job as queued (queue.rs:338) and it was claimed     *)
(* before the row was cancelled or left (:382), so that the command may even *)
(* end with 6 while the download goes on; or the cancel could not read it.   *)
ExitCodeTellsTheJob ==
    /\ at = "done" /\ accepted =>
          /\ exit = "Success" => job = "completed"
          /\ exit = "Paused" => job \in RestingStates
          /\ exit = "Cancelled" => job = "cancelled"
          /\ exit = "DownloadFailure" => job = "failed" /\ class = "process"
          /\ job = "completed" /\ exit # "Success" => pressed \/ broken # {}
          /\ exit = "PersistenceFailure" => pressed \/ (job = "failed" /\ class = "internal")
          /\ attempt = "running" => found \in {"queued", "unread"}
    /\ exit = "UnsupportedContent" => verb \in {"analyze", "download"}

(* A command ends, unless it waits for an event that never comes: the one    *)
(* that said its job had stopped gave way to events of other jobs before it  *)
(* was read (lib.rs:938); the scheduler never takes the job (queue.rs:656);  *)
(* or the end of the attempt was not written, which sends nothing (:768).    *)
MissedTheEnd == At("drive") /\ stream = <<>> /\ missed /\ job \in StoppedStates
NeverClaimed == job = "queued" /\ attempt = "overlooked"
NeverWritten == job \in ActiveStates /\ attempt = "over"
CommandEnds == <>(at = "done") \/ <>[](MissedTheEnd \/ NeverClaimed \/ NeverWritten)
=============================================================================
