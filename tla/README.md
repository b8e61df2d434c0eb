# A verification development for yt-media

This directory specifies the part of yt-media that decides what happens to a
user's downloads: the durable job store and the queue over it, the files and
processes of each attempt, the updates of the external tools, what the command
line and the desktop window are told, and the decisions the engine takes from
data (formats, names, progress, tool sets, signed updates). The modules are
TLA+; small instances are model-checked with TLC and the main results are proved
for all parameter values with TLAPS. Paths are relative to the repository;
`queue.rs`, `storage.rs`, `model.rs` are in `crates/engine/src/jobs/`,
`service.rs` without more is `crates/engine/src/download/service.rs`.

## 1. The system

| Component | State it keeps | Operations | Talks to |
|---|---|---|---|
| Job lifecycle (`jobs/model.rs`) | none: the state machine of one job | `can_transition_to`, `validate_transition` | used by the store |
| Job store (`jobs/storage.rs`) | SQLite tables `jobs`, `owned_paths`, `queue_meta`, `settings`; an exclusive process lock | insert, claim, save progress, finish, stop, requeue, recover, record partials, delete, settings | called by the queue; one transaction at a time |
| Job queue (`jobs/queue.rs`) | the `active` map of controls, `closing`, `shutdown_interruption`, `scheduler_generation`, `scheduler_running`, event numbers | enqueue, pause, resume, cancel, retry, remove, settings, snapshot, wait, shutdown, open | store, download service; broadcasts events to CLI and desktop |
| Download attempt (`download/service.rs`, `download/model.rs`) | the stage, the controls (pause or cancel), the workspace on disk | analyse, download one or two sources, merge or convert, verify, publish | process runner, resolver, file system; reports events to its driver |
| Names and reservations (`download/name.rs`) | lock files beside the outputs | reserve, publish without overwriting | download attempt |
| Progress (`download/progress.rs`) | the lines and the last progress of the sources | cut lines, parse, merge, estimate | download attempt |
| Process runner (`process/`) | child process group, two pipe readers, a stdin writer, a bounded channel | run with cancellation, deadline, abandonment | analysis, download, tool probes |
| Managed tools (`update.rs`) | `active`, `last-good`, `staging` directories, activation journal, failure counter, time of the last check | check, install, activate, roll back, reset, recover | resolver; desktop |
| Tool resolution (`resolver.rs`, `manifest.rs`, `tool.rs`, ...) | none that persists | find, verify, probe versions | managed tools, download service |
| Media analysis (`analysis/`) | none | parse a URL, run yt-dlp, choose formats | download attempt, desktop |
| Command line (`apps/cli`) | none | one queue call per invocation | queue |
| Desktop service (`apps/desktop/src-tauri`) | the open queue, the active analysis, the event forwarder | IPC commands, bootstrap, close | queue, analysis, managed tools |
| Workspace controller (`apps/desktop/src/lib`) | the jobs shown, the last event number, per-job numbers, the analysis shown | connect, apply snapshot, apply event, run an action, analyse | desktop service |
| Release tooling (`tools/xtask`) | none | sidecar and release archives | build time only |

What is hard about it:

* **Interleavings.** Clients, the scheduler loop, one driver per attempt and
  shutdown are concurrent tasks of a multi-threaded runtime. Every command
  reads a job, awaits, and acts on what it read. The store makes single
  transactions atomic, nothing makes two of them so. Update checks, resets and
  the start of the application share directories in the same way.
* **Two copies of the truth.** The state column of a job and the `active` map
  are changed by different steps; slots, pause, cancel, resume and shutdown
  trust the map, readers and recovery trust the column. The window holds a
  third copy, fed by four streams nothing orders against each other.
* **Notifications without memory.** `Notify::notify_waiters` wakes only futures
  that exist.
* **Crashes.** The process may die between any two transactions, renames or
  file creations, while recovering too. Nothing may restart by itself.
* **Lost and reordered events.** A slow reader loses the oldest events; event
  numbers are taken before the events are sent.
* **Files.** Reservations, owner manifests and tool activation change the disk
  in several steps, and other jobs use the same directories.
* **Processes that do not go.** A killed tool may leave a helper that holds its
  pipes; two readers and a writer must end with it.

What makes each component correct: the lifecycle is followed by every write; the
queue order is total and a requeue goes to its tail; a row never shows the
failure or the output of an earlier attempt; never more downloads than slots and
none out of reach of its controls; work shown as running has someone who runs
it, and the store never shows a stage the download has not reached; shutdown
leaves nothing running and recovery starts nothing; calls return. A reservation
has one owner, every temporary file can be found by its owner, nobody's file is
overwritten, a paused job keeps its partial files and a cancelled one leaves
none. Section 3 says where the code keeps these promises only with exceptions. A
stopped run of a tool leaves no process and loses no output. An installation
replaces one whole tool set by a newer one or changes nothing. The window ends
up with the state of the store. An exit code tells what became of the job. What
is offered can be produced, names are portable, progress does not mislead, an
accepted update verifies.

## 2. Modules

| Module | Models |
|---|---|
| `JobLifecycle` | the states, the transition table and the write check; the stages of an attempt |
| `JobHistory` | abstract specification: what a reader of a job's state may rely on |
| `JobStore` | the store, one action per transaction (`StoreSpec`); refines `JobHistory` |
| `JobQueue` | the queue over the store (`Spec`, `FairSpec`), built from the store's actions |
| `OutputDirectory` | abstract specification: what whoever looks into the destination directory may rely on |
| `DownloadWorkspace` | the files of all attempts in one destination directory, with crashes, recovery and strangers; refines `OutputDirectory` |
| `ProcessRunner` | one run of a tool: group, pipes, readers, writer, owner, reasons to stop |
| `ManagedSet` | abstract specification: what an update promises about the tool sets |
| `ToolUpdate` | the start of the application, update checks, activation, rollback, reset; refines `ManagedSet` |
| `EventStream` | from a commit in the queue to what the window shows |
| `AnalysisSession` | the analysis of a link: window, calls in any order, service |
| `CommandLine` | one run of the command line program beside its job |
| `Checks` | validation as a list of checks made in order |
| `MediaAddress`, `MediaFormats` | which links are accepted; from yt-dlp's answer to the offers |
| `OutputProduction` | which sources, stages and tool arguments an offer needs, and the verification of the result |
| `OutputNames` | names of outputs, locks and temporary files |
| `DownloadProgress` | lines, records and the progress that is shown |
| `ToolSets`, `UpdateManifest` | verified sets of tools and the choice among them; a signed update from its manifest to a verified set |
| `MCDecisions` | the inputs given to the sequential modules and the properties of their results |
| `MCPrograms` | composes `CommandLine`, `AnalysisSession` and `MCDecisions` in one run |
| `JobStoreProofs`, `JobQueueProofs`, `DownloadWorkspaceProofs`, `ProcessRunnerProofs`, `ToolUpdateProofs`, `EventStreamProofs` | the theorems about the module each is named after |
| `FrontEndProofs` | the theorems about `AnalysisSession` and `CommandLine` |
| `DecisionProofs` | the theorems about the decisions, for inputs of any length |
| `MCJobStore`, `MCJobQueue`, `MCDownloadWorkspace`, `MCProcessRunner`, `MCToolUpdate`, `MCEventStream` | the constants of the other runs |

`JobQueue EXTENDS JobStore`: a queue action that runs a transaction has the
store's action as a conjunct, so a definition of the store has one place. That
the queue implements `StoreSpec` follows from this shape and is no result of
its own; it serves to carry the theorems about the store over to the queue.
`CommandLine`, `OutputProduction` and `JobQueue` share `JobLifecycle`;
`OutputProduction` extends `MediaFormats` and `UpdateManifest` extends
`ToolSets`, as the code behind them calls each other. `DownloadWorkspace`,
`EventStream` and `CommandLine` have their own small view of a job's state,
reduced to what their component reads of it.

Definitions whose comment begins with "Mutant of" are plausible faults. They
are used by no specification; substituting one for the definition it mutates
must make the property named for it in `PROJECT.json` fail.

### How the model corresponds to the code

A step is what one task does between two awaits, or one effect on the disk
where a crash between two effects matters.

**Queue (`JobQueue`).**

* `jobs[j]` is the row of a job. Its columns are reduced to what the properties
  need: state, attempt, queue sequence, whether a failure, an output, a progress
  and recorded partial files are present. `Requeue` clears the failure and the
  output and keeps the progress, as the code does. A refused transaction changes
  nothing; the caller's error path is the second disjunct of the calling action.
* `client[c]` is the call a client has in progress. `CallEnqueue` and
  `CallOnJob` are the part up to the first read (`get`); what was read is kept
  in `seen`, because `pause` and `cancel` branch on it later. A call that
  returns `InvalidState` or `JobNotFound` at once changes nothing and is left
  out. A changed row that was read as something else is refused by the
  transaction itself.
* `sched` is the position in `scheduler_loop`: the generation and `closing`
  (`SchedTop`), the limit (`SchedSettings`), the count (`SchedCount`), the
  claim (`SchedClaim`, `SchedIdle`), the start (`SchedStart`). `"registering"`
  is the gap between the decision to wait and the creation of the `Notified`
  future; a notification that falls in it is lost. `kicked` says that
  `scheduler_generation` moved since it was loaded.
* `run[j][a]` is the driver and the task of attempt `a`. `pending` holds the
  stage and progress events sent and not yet persisted, `result` how the task
  ended, `stop` what its controls ask for. `active[j]` is the attempt whose
  controls the map holds: `Retire` clears it without asking whose they are, as
  `active.remove(&id)` does.
* `shutdown` follows `JobQueue::shutdown`. Its check is two steps, the read of
  the active map (`ShutdownCount`) and that of `scheduler_running`
  (`ShutdownCheck`); "overtaken" and "missed" remember that an attempt was
  registered between the two. `Crash` ends the process anywhere
  and keeps only the store; `OpenQueue`, `RecoverJob`, `OpenReturns` and
  `OpenFails` are the next `open` with `recover_startup`.
* `requested` and `crashes` are history: they occur in no guard of the code.
* Each in one step: `closing` and `shutdown_interruption` (no await between the
  two stores); `start_with_id` and the insertion into `active` (the events of
  the task wait for its driver, which is spawned afterwards);
  `release_scheduler` (one loop continues in either case). Any number of
  progress events of a stage is one event that repeats the stage.
* `FaultyOps` names the operations that may fail for outside reasons (I/O, a
  request that no longer parses, an unreadable owner manifest). Without a fault
  an operation fails only for the reason the code gives.

**Attempt and files (`DownloadWorkspace`).** `lock`, `final`, `owner`, `part`,
`whole` and `work` are the files; `attempt[j].pc` is the position in `run_job`
(look for an earlier manifest, claim a name, write the manifest, transfer each
source, produce, verify, publish, clean up). Several jobs ask for the same name
and try the same suffixes. `Crash` keeps the files, a restart marks the jobs
interrupted and removes reservations that the manifests name. `stolen`,
`leaked`, `early`, `saved`, `litter` and `standing` are history.

A removal whose result the code ignores (`let _ignored`) may fail: that of the
reservation (`GiveUpReservation`), of the published file when the temporary one
could not be removed (`Unlink`), of any of the files and of the manifest when
the workspace is dropped (`DropFiles`, `DropOwner`), and the listing of the
directory in that drop (`DropUnlisted`). Each is a mishap of the bound, like a
crash. Removals that report their failure to the caller (`RemoveStale`, `Sweep`,
`Cancel`, `Reopen`) are modelled as succeeding.

Abstractions: a job has one attempt at a time; cancelling a resting job is one
step; a destination that is not available ends the attempt before it has files
and is left out; what the controls say is chosen where the code looks at them,
so a request that comes between two such places is one that comes at the next. A
manifest that was created and not filled (`Torn`) makes every later open fail,
which is why that run may stop.

**Processes (`ProcessRunner`).** The group is the spawned process (`leader`) and
one it may start (`helper`), which may let go of the pipes or not. Readers and
writer are the spawned tasks, `channel` the bounded `mpsc` channel, `owner`
`run_owned` with its drain and join. Output is counted in chunks; only the Unix
process group is modelled. A failed write to standard input wins over every
other answer.

**Updates (`ToolUpdate`).** The steps are the single effects on the data
directory: `launch` walks through `verify_optional_managed`, `task[t]` through
`check_and_install` for the check of the start and the ones the user asks for,
`reset` through `reset_managed`; `lock` is `.update.lock`, which recovery does
not take. A set has a version and what is in it. What a crash leaves in the
staging and download directories is not told apart, since both are cleared
before use; sets are damaged only while the application is down; the check
time is "less than a day ago" or not; `recover_interrupted_activation`'s test
and rename are one step; the last verification of an installation changes
nothing but its answer. The public `rollback()` is called by no program and is
left out. `disturbed`, `strikes` and `misses` are history.

**Events (`EventStream`).** A commit, the number it takes and its sending are
three steps of up to three tasks for one job. The channel drops its oldest
event for a late forwarder. A version has the revision of the row and, apart
from it, the revision its attempt began with (`since`), which stands for what an
event does not carry (`attempt_count`, `completed_at_ms`,
`destination_available`): `Merged` takes the one from the event and leaves the
other as it is shown. `Bootstrap` is the last round of the loop in `snapshot()`
(two equal reads of the number around the rows); that there is a last round is
not modelled. `conn[c]` is one connection of the controller:
snapshot asked, boundary read, rows read, answered; `call` and `lookups` are
the commands and the `getJob` requests under way. The user's action is offered
only when the window would offer it (`Ready`). `missed` is history.

**Programs.** `CommandLine` has one step per fallible part of a command in the
order of the code (`Steps`) and reads the same broadcast events, those of other
jobs included; an event is printed only if it has an activity, to the standard
output as JSON and to the standard error for people, and either may break. A
cancel, from Ctrl-C or because an output broke, is a read of the job
(`BeginCancel`) and a later commit (`CancelRunning`, `CancelWaiting`,
`CancelRefused`) with a wait in some cases; the job may be claimed in between.
The queue side is reduced to one job: it may be overlooked by the scheduler
(`Overlook`: the scheduler ended on a failed read, or lost the wake-up), its
stage writes may be refused, its final write may fail or be refused and is then
not sent (`Finish`, `Retire`). That listening for Ctrl-C itself fails
(`apps/cli/src/lib.rs:415`) is left out. In
`AnalysisSession` a call is named by the generation it was made in; calls and
stops are separate IPC requests and arrive in any order.

**Decisions.** `MediaFormats`, `OutputProduction`, `OutputNames`,
`DownloadProgress`, `ToolSets`, `UpdateManifest` and `MediaAddress` are
operators. A text is a member of a small set of the ways it can be unusable, or
a name; a path has its text, the text compared without case, the file it leads
to and whether it stays inside; a size counts units. Bounds of the code are
constants, given small values that the inputs reach on both sides. A transfer
is the sequence of the reads of both pipes: yt-dlp's feed one line buffer
(`ApplyYtdlpEvent`), FFmpeg's only its standard output. `told` keeps the reports
taken, for the properties. What FFmpeg,
ffprobe and the tools do is external and modelled from how the code uses them.

## 3. What the runs check

All passing runs are exhaustive.

| Run | Configuration | Checks |
|---|---|---|
| `store` | 3 jobs, 3 queue places, symmetric | the records stay well formed (`StoreTypeOK`), the queue order is total (`QueueOrder`), a row shows no failure and no output of an earlier attempt (`RowConsistent`), only an enqueue, resume or retry moves a job, to the tail (`QueuePlacesAreStable`), readers see only validated transitions (`ImplementsHistory`) |
| `slots` | 2 jobs, 1 slot, enqueue and pause, shutdown, 1 crash | `WithinLimit`, `ActiveHasRun`, `ShutdownQuiescent`, `SchedulerOnlyOnRequest` |
| `lifecycle` | 1 job of up to 2 attempts, every command, every stage, every fault, lost events, with and without a service, 1 crash | `TypeOK`, `DriversAreRegistered`, `StoreTrailsDownload` |
| `liveness` | 1 job, 1 client: enqueue, pause, cancel, resume; `FairSpec` | `ActiveEventuallyStops`, `CallsReturn` |
| `workspace` | 2 jobs that want one name, 2 names, formats with 1 and 2 sources, 3 attempts, 1 crash, failed removal or stranger, symmetric | `OnlySoundOutputs`, `EveryFileIsOwned`, `ReservationIsExclusive`, `NoBlockedNames`, `PausedKeepsPartials`, `CancelledIsClean`, `NoClobber`, and the attempts together refine `OutputDirectory` (`ImplementsDirectory`) |
| `runner` | pipes of 1 chunk, channel of 1 message, 2 chunks, 1 read error, 2 reasons to stop | `RunnerTypeOK`, `NoProcessLeft`, `OutputIsComplete`, `StopsWhenAsked` |
| `updates` | 2 releases, the check of the start and a manual one, reset, damage, any number of crashes | `OnlyWholeSets`, `TwoStrikes`, `NoHastyRollback`, `AtomicUnlessDisturbed` |
| `events` | 2 jobs, 2 connections, a channel of 1 event, up to 3 versions of a job | `SnapshotCovers`, `ViewIsCurrent` |
| `programs` | one of: any command with Ctrl-C, outputs that break, up to 2 events of this and other jobs beside those of its states, and a channel of 2; 5 questions or stops in the window; one decision over its inputs | `ExitCodeTellsTheJob`, `EveryCommandEnds`, `ShownAnalysisIsLatest`, `OffersAreProducible`, `ProgressIsHonest`, `NamesArePortable`, `AcceptedUpdateVerifies`, `OneTierUnlessOverridden` |

The bounds.

* Queue: `SequenceLimit` bounds enqueues plus requeues, so two attempts of a
  job or one each of two jobs meet; it is also the code's own overflow check,
  reached in every run that requeues. One slot and two jobs make the scheduler
  wait. One crash is enough: a second starts from a store the first could have
  left too. The run `lifecycle` takes an attempt through merging and converting
  as well; the others use the shortest path to an output, since the driver
  treats all stages alike. The limit is fixed in the passing runs: no
  transaction on a job reads it, and a smaller limit does not stop what runs.
* Workspace: two jobs and two names make a collision, a suffix and the end of
  the names; three attempts let one job come back while the other runs; one
  mishap is a crash, a removal that fails unnoticed, or a stranger's file, at
  any step.
* Runner: capacities of one block at once, a second chunk makes a reader wait
  with a message in hand, two reasons to stop race each other.
* Updates: the second release makes a check with something newer, one with an
  older offer, and two checks of different versions; crashes have no bound.
* Events: two versions pass each other in every stream, a channel of one loses
  the first, two connections leave events of the first behind.
* Command line: the channel holds two events, and two more than those of the
  job's own states are sent, so that a lag, the loss of the terminal event and
  every exception of `EveryCommandEnds` are reached.
* Decisions: good answers with one deviation at a time and, for formats, every
  pair with and without a third that brings sound; up to four reads of two
  pipes, some longer than the buffer, some cut in a line.

Deadlock is not checked: a user who calls nothing more, a shutdown that is
over, a run that has returned and attempts that are used up are legitimate ends.

### Exceptions that are part of the properties

Each is what the code does; the property says precisely when it may happen.

* `RowConsistent` says nothing of the progress but that a job that never ran has
  none: a requeue keeps the last attempt's (`storage.rs:604-608`), which a
  snapshot shows beside the raised `attempt_count` (`docs/jobs-json-v1.md:29`).
* `ShutdownQuiescent` but for "missed": between the read of the map and that of
  `scheduler_running` (`queue.rs:537-538`) the scheduler may register a job it
  had claimed, come round, see `closing` and stop. Shutdown then returns `Ok`
  with one driver running. The property says that there is no other such case,
  at most one such attempt, and that no more can start. The comment of
  `shutdown` (`queue.rs:512`) knows of none.
* `ReservationIsExclusive` unless `stolen`: `remove_manifest_paths` deletes the
  reservation named by an old manifest even if another attempt holds that name
  by now (`service.rs:1043-1053`). `NoClobber` holds even then, since the
  publication is a hard link that does not replace.
* `NoBlockedNames` but for `leaked`: a crash between the creation of the
  reservation and that of the manifest blocks the name (`name.rs:131`), and so
  does a removal of the reservation that fails (`name.rs:115`).
* `EveryFileIsOwned` and `CancelledIsClean` but for `litter`: the drop of a
  workspace ignores every removal that fails and removes the manifest all the
  same (`service.rs:1222-1251`); exactly the files it could not remove are left
  without an owner.
* `CancelledIsClean` but for `early`: a cancel that arrives while the link is
  analysed leaves the files of an earlier attempt. `PausedKeepsPartials` begins
  with a pause during a transfer: one between two sources or before the first
  transfer drops the partial files (`service.rs:338`).
* `OnlySoundOutputs`: a crash between publication and commit leaves a sound
  file of a job that is not completed; its next attempt makes a second copy.
  When neither the temporary nor the published file can be removed
  (`name.rs:99-100`, `standing`) a failed job keeps an output without a crash.
* `ImplementsDirectory`: users and other programs may add files to the
  directory, but do not remove or change what is there. That a completed job's
  output stays is a promise about what yt-media does.
* `StopsWhenAsked` but for a helper that holds the pipes of a tool that exited
  by itself (`process/runner.rs:126`: cancellation and deadline are no longer
  looked at), and for a reader that waits on the full channel after the other
  one failed (`runner.rs:165`).
* `AtomicUnlessDisturbed`, `OnlyWholeSets`: overlapping installations, a reset
  during one, or a crash inside a rollback or a reset.
* `ViewIsCurrent` but for versions the controller was denied: dropped by the
  full channel, filtered for its number or by the guard of terminal states, or
  replaced by an older answer of a command. Nothing repairs that until the next
  connection. The first of these contradicts `docs/desktop-ipc-v1.md:46`, which
  says that a listener that lags repeats the connection and never reconstructs
  from an incomplete stream: on a lag the forwarder does nothing
  (`src-tauri/src/service.rs:283`). `SnapshotCovers` is what `snapshot()`
  promises.
* `ExitCodeTellsTheJob`: with Ctrl-C or a broken output a completed job may end
  in a failure code. No attempt runs when the process ends, but for a cancel
  that had read the job as queued (`queue.rs:338`) and commits after its claim
  (`queue.rs:379-383`), the fault of the run `pause_race`: the command may even
  end with 6 while the download goes on; and for a cancel or a wait that could
  not read the job.
* `EveryCommandEnds` but for three waits for an event that never comes: the
  last one was among those lost (`MissedTheEnd`, `apps/cli/src/lib.rs:938`), the
  scheduler never takes the job (`NeverClaimed`, see the run `lost_wakeup`), or
  the end of the attempt was not written, which sends nothing (`NeverWritten`,
  `queue.rs:768-773`).
* `ShownAnalysisIsLatest`: a call that starts late stops a newer one
  (`src-tauri/src/service.rs:702`), whose answer is then "cancelled".
* `OffersAreProducible`: a linked source outside the MP4 family and a linked or
  copied one whose pictures are not yuv420p fail the verification. So does an
  output that is a fraction of a second longer than a video of seven days,
  within the tolerance or not: the same seven days bound what may be announced
  (`MAX_DURATION_SECONDS`, `analysis/ytdlp.rs:42`) and what may come out
  (`service.rs:1688`).
* `ProgressIsHonest`: one read (8192 bytes) may be longer than the line buffer
  (4096), and a burst of sound records then fails the attempt. That all records
  are taken is promised when no read is longer than one line may be, every line
  is readable, the unfinished ones included, there are no more than
  `MAX_PROTOCOL_LINES`, and no read of yt-dlp's other pipe comes while a line is
  open: both pipes feed one buffer (`service.rs:1406-1413`), so such a line is
  torn, and its record is lost or makes the line too long. The percentage is
  rounded, so "complete" may be shown when less than one part in `MaxUnit` of
  the whole is still to come.

### Runs that expect a violation

They show where the code does something else than a document or comment of the
repository says. In each, the trace is a schedule the multi-threaded runtime
allows:

| Run | Property | What happens |
|---|---|---|
| `retry_limit` | `WithinLimit` | a retry before the old driver has left loses the new attempt's entry |
| `pause_race` | `StoppedMeansQuiet` | a pause commits after the claim: paused in the store, downloading in fact |
| `lost_wakeup` | `QueuedEventuallyLeaves` | the scheduler misses a driver's end and sleeps with a free slot |

`retry_limit` needs two slots. That is why `slots` says one: with one, the
entry of the old attempt holds the slot until its driver has left, and the same
commands break neither `WithinLimit` nor `DriversAreRegistered`. With two slots
both fail, by a retry as in that run, or by a resume of a job that was paused
between its claim and its registration.

With faults, lost events or no download service `ActiveHasRun` does not hold
and `lifecycle` does not claim it: a final write that fails, a completion
written from a state two stages old, or a job claimed by a queue without a
service leaves the job shown as running until the next open interrupts it.

More schedules of the same kind are in the model and in no run: shutdown
decides to wait before it registers (`ShutdownCount`, `ShutdownCheck`,
`ShutdownRegister`) and
can miss the last notification; a limit lowered after `SchedSettings` has read
it does not apply to the claim under way; a settings change starts the
scheduler over work queued before the restart, which no request of this process
asked for (`queue.rs:464`, see `docs/decisions/0004`); and with two clients a
pause that waits while another call resumes the job may never return, by the
lost wake-up again, which is why `liveness` has one client.

### Fairness

`JobQueue`: the runtime polls every task that is ready, and store transactions
return, hence weak fairness of the scheduler loop, of each call once begun, of
each driver, of shutdown's own steps. Every subprocess of an attempt has a
deadline (`ANALYZE_TIMEOUT`, `DOWNLOAD_TIMEOUT`, `FFMPEG_TIMEOUT`,
`FFPROBE_TIMEOUT`), hence weak fairness of `EndTask`. That rests on the process
runner keeping its deadlines, which `StopsWhenAsked` of the run `runner` shows
but for its two exceptions; a tool that leaves a helper holding its pipes is
outside what `liveness` says.

`ProcessRunner`: weak fairness of the owner, the writer and each reader, which
are tasks of the runtime; nothing is assumed of the tools, the helper or the
caller. `CommandLine`: weak fairness of the command's own steps, of the
scheduler taking the job or overlooking it for good (that it always takes it
would contradict `lost_wakeup`), and of the end of an attempt, written or not
(as above). Nothing obliges a
user to call, the application to shut down, or a crashed process to be started
again.

## 4. What is proved

Assumptions: `StoreAssumption` (a positive sequence limit, a non-empty set of
limits within 1..4), `QueueAssumption` (finitely many jobs, commands and faults
from the given sets), `WorkspaceAssumption` (formats have one or two sources;
the markers for an absent and a torn file and the stranger are no job, name or
manifest), `RunnerAssumption` and `StreamAssumption` (positive capacities and a
positive retention limit, natural bounds), `CapacityAssumption` (a positive
channel), `SessionAssumption` (a natural bound) and `UpdateAssumption` (releases
are positive numbers; the names of tasks, the absent value and tool sets are
different things). For the decisions: `ToolsAssumption` (the tools are different
names), the `UpdateAssumption` of `UpdateManifest` (the application has a
version), `NamesAssumption` (natural limits; the substitute and the mark are
plain texts, not empty, the substitute within the limits, and no device name
begins with the mark), `FormatsAssumption` (the known identities are a list;
natural limits), `ProductionAssumption` (natural tolerances, the shortest at
least a second) and `ProgressAssumption` (natural limits, a unit above one).
Clients, jobs, names, formats, crashes, connections, checks at once, capacities
and the sequence limit are otherwise arbitrary.

Every invariant, every action property and every refinement of a passing run is
proved, where noted under a condition. The proofs about the components that
change state have the same shape: an inductive invariant that holds initially
and is kept by every action (one lemma per action or group of actions), and the
property as a consequence of it. Those about the decisions are different and
come last.

**Store (`JobStoreProofs`).**

* `StoreTypeCorrect`, `QueueOrderHolds`, `RowsStayConsistent`: the store's
  invariants, each from one induction over the transactions. `RowConsistent`
  is inductive only together with the type.
* `PlacesAreStable`: the action property, from the queue order and
  `UnusedIsBlank` (an identity no insert used has attempt 0, so an insert
  counts an attempt as well).
* `StoreImplementsHistory`: the refinement. A checked write is a `Move` or a
  stutter by the shared table; a claim and a requeue select rows from which
  their target is allowed; recovery is `Interrupt`.

**Queue (`JobQueueProofs`).**

* `QueueTypeCorrect`: from the inductive invariant `IInv`. It needs more than
  types: a claim creates `run[j][attempt]`, so attempts must be bounded, which
  follows from `AttemptsFit` (attempt <= sequence) and `QueueOrder`; a call past
  its first read must know its job (`CallsHaveJobs`), and a start its claim
  (`StartHasJob`). Step simulation (`StoreStep`) is proved first, so that the
  store's invariants carry over to the queue's steps unchanged.
* `QueueKeepsStorePromises`: by composing `StoreStep` with the theorems about
  the store, the queue order, consistent rows, stable places and the
  lifecycle hold of the whole queue with crashes.
* `OnlyRequestsStartScheduler`: if no client changes settings,
  `SchedulerOnlyOnRequest` holds for any number of crashes.
* `ActiveMapIsExact` (`DriversAreRegistered`) under `RunsOnce`: one slot, or
  neither resume nor retry. The hypothesis is what the code needs: with two
  slots a requeued job may start before its old driver has left, as the run
  `retry_limit` shows. The invariant `RunsInv` says that a claimed run is the
  one the scheduler is about to start (`ClaimIsStarted`), that a job has one
  run (`OneRunEach`), which follows from there being room for one when there is
  one slot, and from no job being claimed twice when none is put back.
* `LimitIsRespected` (`WithinLimit`) under `RunsOnce` and `FixedLimit` (one
  slot, or nobody changes the setting: `update_settings` may lower the limit
  below what runs, and a limit read before does not apply any more). It follows
  from `Room`: between the count and the start the map has a free place.
* `EntriesAreReal`, `FirstAttemptsAreReachable`, `AttemptsRunOnce` and
  `SlotsAreNotOverdrawn` are what remains for any number of slots and every
  command (the last one with `FixedLimit`): an entry always belongs to a driver
  that runs; a driver can be without one only if its job was resumed or
  retried; a claim never meets a run of the same attempt; and the map itself
  is never fuller than the limit, so that `retry_limit`'s violation is due to
  lost entries alone. The invariant is `MapInv`; `RunsAreCounted` in it relates
  the attempts that run to the attempt the row has come to, using what was
  proved of the store (`PlacesStep`, `HistoryStep`).
* `RunningJobsHaveRuns` (`ActiveHasRun`) and `ShutdownLeavesNothing`
  (`ShutdownQuiescent`) under `RunsOnce` and `NothingLost`: a service, no
  dropped events, no final or progress write that fails (section 3 says what
  happens otherwise). The first needs to know why a driver's final write is
  allowed: the events a run has pending and its result fit its stage
  (`RunsFit`), and a row still at "analyzing" has the event that moves it on
  pending (`DownloadingIsComing`), so that a completion is written from a state
  that leads to it. The second adds `ShutdownInv` and `ClosedIsIdle`: once
  `closing` is set and the scheduler has left, no step starts a run; where an
  attempt was registered between the two reads of the check, it is the only one
  in the map (`OneRegistered`).
* `TheStoreTrails` (`StoreTrailsDownload`) under `RunsOnce` alone: lost events,
  refused and failing writes are allowed. What a driver has not persisted
  are stages its run has come to, and a run that is only claimed has come to
  none (`EventsTrail`); one run of a job at a time (`OneRunEach`) means that no
  earlier attempt can still write.

**Files (`DownloadWorkspaceProofs`).** `OutputsAreSound`, `FilesAreOwned`,
`NamesAreExclusive`, `NamesAreGivenBack`, `PartialsSurvive`, `CancelCleans` and
the action property `NothingIsOverwritten`, for any number of jobs, names,
formats, attempts, crashes and strangers' files. One invariant carries all of
them. `Local(j)` speaks of one job: what its attempt knows at each position,
that the manifest it works under is its own and of its format, that what is on
disk is within the manifest, what a clean-up has removed already, and that a
cancelled attempt leaves a manifest only if it never wrote one. `Shared` speaks
of the names: a reservation is locked by its holder as long as none was stolen,
a lock that has not leaked has a holder or, while the process is down, a
manifest by which recovery finds it, and an output that is about to be taken
back is the attempt's own. A step of one job leaves `Local` of all others alone
(`Frame`), which is why the proof does not depend on their number.

`OutputsAppearAtOnce` (`ImplementsDirectory`) is the refinement of
`OutputDirectory`: reservations, manifests, partial and work files, crashes and
recovery are invisible, the hard link is `Appear`, its undoing `Retract` and the
commit of the result `Complete`. Failed removals are what `litter` and
`standing` remember; `Unaccounted` are the files that are left to be owned. A
commit maps to `Complete` only if the job has
a file, which needs `CompletedHaveFiles` (theorem `CompletedJobsHaveOutputs`):
the outcome "completed" is set by nothing but the removal of the published work
file (`CompletesLater`), with the link in place, and a file that goes is one
whose own attempt fails in the same step (`FileStays`).

**Processes (`ProcessRunnerProofs`).** `RunnerTypeCorrect`, `NoProcessIsLeft`,
`OutputComesBack`, for any capacities, limits and amounts of output. The
invariant is a balance: what was written is what was observed plus what the
channel, the readers' hands and the pipes hold (`NothingLost`); the owner's
count of open streams is that of the ends it has not heard of (`OpenCounts`);
the end of a stream comes after its data (`EndIsLast`) and, without a failed
read, is the end of the processes that write to it (`EndIsReal`).

**Updates (`ToolUpdateProofs`).**

* `UpdateTypeCorrect`, `TwoStrikesAlways`, `NeverAHastyRollback`: for any
  releases, any number of checks at once and any failures. The two about the
  failed starts follow from one numeric invariant, `CountsOK`: strikes of the
  active set <= count in the file <= starts that missed a set. The middle term
  is the only one the code has.
* `SetsStayWhole`, `ActivationIsAtomic`: the refinement of `ManagedSet` without
  disturbance. The inductive part is `Undisturbed`: one check installs and no
  reset runs with it; what that check relies on at each position (`Relies`: the
  staged set is whole, the active or kept one is older, the journal is there
  before the first rename); and `GapIsJournaled`: a kept set without an active
  one is between the two renames with the journal to tell, or in a rollback or
  reset. The second rename is `Install`, the removal of the old kept set
  `MakeRoom`, and the first rename, its undoing and the recovery after a crash
  are not seen, because the journal makes the kept set the current one.

**Events (`EventStreamProofs`).** `StreamTypeCorrect`,
`SnapshotsCoverTheirBoundary`, `TheViewCatchesUp`, for any jobs, connections,
channel and number of versions. The store has the newest version of whatever is
on its way or shown (`QueueVersions`, `WindowVersions`), and numbers are taken
after the commit (`Numbered`), hence `SnapshotCovers`. `ViewIsCurrent` speaks of
a quiet system only; its inductive form is `Accounted`: at any moment the newest
version of a job is shown, was counted as denied, or is in an event, a look-up,
an answer or a snapshot, or there is no connection. `AttemptsAccounted` says the
same of the newest attempt, for which no event counts: a row's attempt begins
with a command, so its answer or a snapshot brings it.

**Programs (`FrontEndProofs`).** `ShowsTheLatest`, for any number of questions
and stops: every call is of a generation that was reached, the service's active
call is the only one that runs, and what is shown or awaited belongs to the
present generation. `ExitCodesAreTrue`, for any addresses, events and length of
the channel: a job that has stopped stays stopped, so the event that says so is
still true when the command reads it (`StreamIsTrue`); a failed job has a class;
the command cancels only on Ctrl-C or a broken output (`CancelsForAReason`); and
a job whose attempt is under way is shown as running unless a cancel that had
read it as queued has written its row (`JobFits`, `FoundFits`).

**Decisions (`DecisionProofs`).** A decision is a function of its input, so
what is proved is about inputs: formats, lines, reads, characters, entries and
tools in any number. Most of it needs an induction over data. The induction
theorems of the library take an operator, which the provers cannot instantiate.
Here they are stated for sets instead: a set of numbers has a least element
(`Least`), because strict inclusion is well founded on finite sets, which the
library gives. From that follow induction over the numbers in a set
(`NatInductionOn`), the existence of functions defined by recursion
(`RecursionExists`, `RecursionIs`) and the induction over the steps of one
(`KeptAlong`).

* `ToolsComeFromOneTier` (`OneTierUnlessOverridden`), for any number of tools,
  any disks, overrides and search path. A verified set has an entry for every
  tool and each entry has passed its checks (`VerifiedEntries`), so a tier
  answers for all tools or for none. Assumed of the sets in the question
  (`ManagedFrom`, `BundledFrom`): each is absent, refused, or what the code
  verified from a list, an inventory or a manifest, whose digests are those of
  the programs it stands for. The property compares digests, so without that it
  would say nothing.
* `AcceptedUpdateIsTheSignedOne` (`AcceptedUpdateVerifies`), for any manifest
  and archive. By induction over the entries: what is on the disk is what was
  taken, no place twice, none a directory of another; with as many taken as
  there are tools, all were. Assumed (`Genuine`): the text of a path names one
  path and a digest one content, as the hash promises.
* `NamesArePortableAlways`, `NamesStayPortable` (`NamesArePortable`), for texts
  of any length. By induction over the characters the kept text is within both
  limits, begins with no gap and has none in a row, and a text that is already
  so is taken over as it is, which makes the name its own name. `Numbered`
  (different numbers are written differently) says of the built-in conversion
  what the provers do not know.
* `OffersAreAlwaysProducible`, `OffersStayProducible` (`OffersAreProducible`),
  for any list of formats. The score orders the formats totally, because their
  identities differ (`KnownAnswer`: they are among those the order is defined
  on), so there is a best one, and the answer given again resolves to the same
  sources. That the result passes follows from comparing what each kind of
  offer is told to make with what the verification asks, and from the length as
  ffprobe prints it being read back as the same number of milliseconds.
* `ProgressIsAlwaysHonest`, `ProgressStaysHonest` (`ProgressIsHonest`), for any
  number of sources and of reads on both pipes of any size, cut anywhere. The
  lines taken, the unfinished one and what has been sent are in balance
  (`Tracks`, `Rest`); what is displayed does not go back, is complete only with
  all sources and shows the median of three estimates in a row (`HonestSoFar`,
  `TimeOfThree`, kept by every read); and as long as the lines are readable and
  untorn there is one progress per record of either pipe: an open line is that
  of one pipe and the other has none (`Holds`, `BothAre`, `Follows`). A
  conversion keeps `SteadySoFar`. `WholeIsAll` and `PercentMonotone` are the
  arithmetic: what is scaled below `MaxUnit` shows the whole only if it is the
  whole up to the rounding.

The theorems `...Stay...` say it of every state of `ProbeSpec`, the questions
the run `programs` asks. For the tools and the updates there is no such theorem:
the digests and paths of those questions are made by joining strings, which the
provers know nothing about. TLC finds that all of the updates asked about are
`Genuine`; the tool sets are as `ManagedFrom` and `BundledFrom` say because
`ManagedSets`, `ExternalSets`, `StagedSets` and `PinnedSets` make them so.

Only model-checked:

* `ActiveEventuallyStops`, `CallsReturn`, `StopsWhenAsked` and
  `EveryCommandEnds`: liveness under fairness is out of the prover's reach.
* The active map with several slots and requeues, the active jobs with faults
  or lost events: there the properties do not hold (section 3).
* What a run reaches of its exceptions: the theorems say that nothing else
  happens, the traces of TLC that these cases do.

## 5. Not modelled

* Text: decoding of JSON, URLs, percent-encoding and rows of the database, the
  syntax of arguments, the wording of output, localisation.
* Store: migrations, pragmas and the process lock file. Two processes on one
  data directory are kept apart by that lock and by the single instance of the
  desktop; the models have one process.
* Hashes, signatures and the macOS code signature: a digest is right or not.
* Desktop: the interface contract (data types generated from Rust), rendering
  in the components, drafts, busy flags, dialogs, revealing a file, the window
  set-up and the order of the application's shutdown.
* The clock: the rate limit of the background check with a clock that went
  backwards is a hazard without a property.
* Release tooling (`tools/xtask`): sequential, at build time, outside the
  running program. What it produces is checked by the code that `ToolSets` and
  `UpdateManifest` model.

Hazards without a property are listed in `PROJECT.json` with the reason; most
are limits of a single line that a property could only repeat, or a behaviour
already shown by a neighbouring run.

## 6. Plan

Done: the modules above, their runs, and the theorems of section 4.

Left:

* `JobQueue`: `RunningJobsHaveRuns` with a weaker hypothesis than
  `NothingLost`, separating lost events from failing writes.
