----------------------------- MODULE ToolUpdate -----------------------------
(* Signed updates of the managed tools: UpdateManager of the engine, as the *)
(* desktop service drives it.  One process (the application is a single     *)
(* instance) starts, loads the managed set, and then runs update checks and *)
(* resets as concurrent tasks.  The steps are the single effects on the     *)
(* application's data directory; a crash may fall between any two of them.  *)
EXTENDS Naturals, FiniteSets

CONSTANTS
    Versions,      \* the release versions the channel may publish
    Absent,        \* no directory, no file
    Background,    \* the check every launch starts by itself
    Manual         \* the checks the user asks for (each at a time of its own)

Tasks == {Background} \cup Manual

(* A directory of tools: its version and what is in it.  "whole" has every  *)
(* tool and the signed manifest, "bare" every tool and no manifest, "part"  *)
(* what an extraction left, "damaged" what the world did to an active set.  *)
ToolSets == [version: Versions, state: {"whole", "bare", "part", "damaged"}]
Slots    == ToolSets \cup {Absent}

ASSUME UpdateAssumption ==
    /\ Versions \subseteq Nat \ {0} /\ Absent \notin Versions \cup ToolSets
    /\ Background \notin Manual
    /\ Absent \notin Tasks /\ {"launch", "reset"} \cap Tasks = {}

(* The failed starts in a row that bring a rollback.                        *)
STARTUP_FAILURE_ROLLBACK_THRESHOLD == 2

VARIABLES
    channel,       \* the version the channel offers now
    active,        \* active/<target>
    lastGood,      \* last-good/<target>
    staging,       \* staging/<target>-<version>, by version
    archive,       \* downloads/<target>/<archive>, by version
    journal,       \* the activation journal exists
    failures,      \* the count in the failure file, 0 without the file
    checked,       \* the check state file records a check less than a day ago
    lock,          \* who holds .update.lock
    launch,        \* where the process is: down, starting or up
    task,          \* the check tasks
    reset,         \* the "Use bundled tools" task
    disturbed,     \* an installation overlapped another one or a reset, or
                   \* a crash cut a rollback or a reset short
    strikes,       \* starts in a row that found this very set unusable
    misses         \* starts in a row that found a managed set unusable

onDisk  == <<active, lastGood, staging, archive, journal, failures, checked>>
history == <<disturbed, strikes, misses>>
vars    == <<channel, onDisk, lock, launch, task, reset, history>>

(* A download: whose file it is, and what is in it.                         *)
Archives == [by: Tasks \cup {Absent}, state: {"part", "whole", "wrong"}] \cup {Absent}

Idle == [pc |-> "idle", version |-> Absent]

Init ==
    /\ channel \in Versions
    /\ active = Absent /\ lastGood = Absent
    /\ staging = [v \in Versions |-> Absent]
    /\ archive = [v \in Versions |-> Absent]
    /\ journal = FALSE /\ failures = 0 /\ checked = FALSE
    /\ lock = Absent
    /\ launch = "down"
    /\ task = [t \in Tasks |-> Idle]
    /\ reset = "idle"
    /\ disturbed = FALSE /\ strikes = 0 /\ misses = 0

-----------------------------------------------------------------------------
(* The start of the process: verify_optional_managed and what it calls.     *)

Starting(pc) == launch = pc

(* A launch begins with load_active.                                        *)
Launch ==
    /\ launch = "down" /\ launch' = "recover"
    /\ UNCHANGED <<channel, onDisk, lock, task, reset, history>>

(* recover_interrupted_activation, without the lock: with a journal, an     *)
(* active set that is gone is put back from the last good one.              *)
CanRestore == journal /\ active = Absent /\ lastGood # Absent

(* Mutant of PutBack: the journal is not looked at when the active set is   *)
(* gone.                                                                    *)
PutBackNothing == UNCHANGED <<active, lastGood, strikes>>

PutBack ==
    IF CanRestore
    THEN active' = lastGood /\ lastGood' = Absent /\ strikes' = 0
    ELSE UNCHANGED <<active, lastGood, strikes>>

LaunchRecover ==
    /\ Starting("recover") /\ PutBack
    /\ launch' = IF journal THEN "unjournal" ELSE "load"
    /\ UNCHANGED <<channel, staging, archive, journal, failures, checked, lock,
                   task, reset, disturbed, misses>>

LaunchUnjournal ==
    /\ Starting("unjournal")
    /\ journal' = FALSE /\ launch' = "load"
    /\ UNCHANGED <<channel, active, lastGood, staging, archive, failures, checked,
                   lock, task, reset, history>>

(* verify_entries and probe_capabilities: every file has its digest and the *)
(* health probes pass, which may also fail on a sound set.  They look at    *)
(* the tools, not at the manifest beside them; load_active reads that too.  *)
ProbesPass(set, healthy) ==
    set # Absent /\ set.state \in {"whole", "bare"} /\ healthy

Loads(healthy) == ProbesPass(active, healthy) /\ active.state = "whole"

(* Only a set that exists counts as a failed start.                         *)
LaunchLoad(healthy) ==
    /\ Starting("load")
    /\ launch' = IF Loads(healthy) THEN "clear"
                 ELSE IF active # Absent THEN "count" ELSE "up"
    /\ UNCHANGED <<channel, onDisk, lock, task, reset, history>>

(* Mutant of LaunchSucceeds: the failure file stays.                        *)
LaunchSucceedsKeepsCount ==
    /\ Starting("clear") /\ launch' = "up"
    /\ strikes' = 0 /\ misses' = 0
    /\ UNCHANGED <<channel, onDisk, lock, task, reset, disturbed>>

(* record_startup_success removes the failure file.                         *)
LaunchSucceeds ==
    /\ Starting("clear")
    /\ failures' = 0 /\ strikes' = 0 /\ misses' = 0
    /\ launch' = "up"
    /\ UNCHANGED <<channel, active, lastGood, staging, archive, journal, checked,
                   lock, task, reset, disturbed>>

(* Mutant of LaunchCount: one failure more than the threshold is needed.    *)
LaunchCountOneMore ==
    /\ Starting("count")
    /\ IF failures + 1 > STARTUP_FAILURE_ROLLBACK_THRESHOLD
       THEN launch' = "rollback" /\ UNCHANGED <<failures, strikes, misses>>
       ELSE /\ failures' = failures + 1 /\ launch' = "up"
            /\ strikes' = strikes + 1 /\ misses' = misses + 1
    /\ UNCHANGED <<channel, active, lastGood, staging, archive, journal, checked,
                   lock, task, reset, disturbed>>

(* record_failure_and_maybe_rollback.                                       *)
LaunchCount ==
    /\ Starting("count")
    /\ IF failures + 1 >= STARTUP_FAILURE_ROLLBACK_THRESHOLD
       THEN launch' = "rollback" /\ UNCHANGED <<failures, strikes, misses>>
       ELSE /\ failures' = failures + 1 /\ launch' = "up"
            /\ strikes' = strikes + 1 /\ misses' = misses + 1
    /\ UNCHANGED <<channel, active, lastGood, staging, archive, journal, checked,
                   lock, task, reset, disturbed>>

(* rollback_managed takes the lock, removes the active set (file by file),  *)
(* then renames the last good one.                                          *)
RollbackRemove ==
    /\ Starting("rollback") /\ lock = Absent
    /\ lock' = "launch" /\ active' = Absent /\ launch' = "restore"
    /\ strikes' = 0
    /\ UNCHANGED <<channel, lastGood, staging, archive, journal, failures, checked,
                   task, reset, disturbed, misses>>

RollbackRestore ==
    /\ Starting("restore")
    /\ active' = lastGood /\ lastGood' = Absent
    /\ lock' = Absent /\ launch' = "forget"
    /\ UNCHANGED <<channel, staging, archive, journal, failures, checked, task,
                   reset, history>>

RollbackForget ==
    /\ Starting("forget")
    /\ failures' = 0 /\ misses' = 0 /\ launch' = "up"
    /\ UNCHANGED <<channel, active, lastGood, staging, archive, journal, checked,
                   lock, task, reset, disturbed, strikes>>

Start ==
    \/ Launch \/ LaunchRecover \/ LaunchUnjournal
    \/ \E healthy \in BOOLEAN : LaunchLoad(healthy)
    \/ LaunchSucceeds \/ LaunchCount
    \/ RollbackRemove \/ RollbackRestore \/ RollbackForget

-----------------------------------------------------------------------------
(* A check: check_and_install, one task per caller, no two steps atomic.    *)

At(t, pc)   == launch = "up" /\ task[t].pc = pc
Goto(t, pc) == task' = [task EXCEPT ![t].pc = pc]
Finished(t) == [Idle EXCEPT !.pc = IF t = Background THEN "done" ELSE "idle"]

(* Between its comparison with the active version and its last look at the  *)
(* active set, a check relies on nobody else changing the managed sets.     *)
Installing(t) ==
    task[t].pc \notin {"idle", "done", "claim", "fetch", "cleanup"}

(* claim_update_check, under the lock: a background check is skipped when   *)
(* one was recorded less than a day ago; write_replace removes the old file *)
(* before it renames the new one.                                           *)
ClaimCheck(t) ==
    /\ At(t, "idle") /\ lock = Absent
    /\ IF t = Background /\ checked
       THEN task' = [task EXCEPT ![t] = Finished(t)] /\ UNCHANGED <<checked, lock>>
       ELSE Goto(t, "claim") /\ checked' = FALSE /\ lock' = t
    /\ UNCHANGED <<channel, active, lastGood, staging, archive, journal, failures,
                   launch, reset, history>>

RecordClaim(t) ==
    /\ At(t, "claim") /\ Goto(t, "fetch")
    /\ checked' = TRUE /\ lock' = Absent
    /\ UNCHANGED <<channel, active, lastGood, staging, archive, journal, failures,
                   launch, reset, history>>

(* The signed manifest offers the version the channel has at that moment.   *)
(* active_release_version, without the lock: no manifest means no version,  *)
(* a damaged one is an error.  Only a newer offer is installed, and only by *)
(* a check that may install.                                                *)
ActiveVersion ==
    IF active = Absent \/ active.state = "bare" THEN 0 ELSE active.version

TakeOffer(t) ==
    /\ At(t, "fetch") /\ ActiveVersion < channel
    /\ task' = [task EXCEPT ![t] = [pc |-> "clearDownload", version |-> channel]]
    /\ disturbed' = (disturbed \/ reset # "idle" \/ \E u \in Tasks : Installing(u))
    /\ UNCHANGED <<channel, onDisk, lock, launch, reset, strikes, misses>>

(* No document, an unverified one, an unreadable active set, nothing newer, *)
(* or the preference only to be told.                                       *)
DeclineOffer(t) ==
    /\ At(t, "fetch") /\ task' = [task EXCEPT ![t] = Finished(t)]
    /\ UNCHANGED <<channel, onDisk, lock, launch, reset, history>>

(* The archive's file is removed and created anew; the download goes to the *)
(* file this check opened, which another check may have unlinked since.     *)
ClearDownload(t) ==
    /\ At(t, "clearDownload") /\ Goto(t, "openDownload")
    /\ archive' = [archive EXCEPT ![task[t].version] = Absent]
    /\ UNCHANGED <<channel, active, lastGood, staging, journal, failures, checked,
                   lock, launch, reset, history>>

OpenDownload(t) ==
    /\ At(t, "openDownload")
    /\ IF archive[task[t].version] = Absent
       THEN /\ archive' = [archive EXCEPT ![task[t].version] =
                              [by |-> t, state |-> "part"]]
            /\ Goto(t, "download")
       ELSE Goto(t, "cleanup") /\ UNCHANGED archive
    /\ UNCHANGED <<channel, active, lastGood, staging, journal, failures, checked,
                   lock, launch, reset, history>>

(* The bytes end early, or are all there and are the signed ones or not.    *)
EndDownload(t, got) ==
    /\ At(t, "download")
    /\ Goto(t, IF got = "part" THEN "cleanup" ELSE "stage")
    /\ LET v == task[t].version
       IN  archive' = [archive EXCEPT ![v] =
                          IF @ # Absent /\ @.by = t THEN [@ EXCEPT !.state = got] ELSE @]
    /\ UNCHANGED <<channel, active, lastGood, staging, journal, failures, checked,
                   lock, launch, reset, history>>

(* stage_verified_archive, under the lock: only the signed archive is       *)
(* extracted, into a staging directory cleared first.                       *)
ArchiveVerified(a) == a # Absent /\ a.state = "whole"

StageBegin(t) ==
    /\ At(t, "stage") /\ lock = Absent
    /\ LET v == task[t].version
       IN  IF ArchiveVerified(archive[v])
           THEN /\ staging' = [staging EXCEPT ![v] = [version |-> v, state |-> "part"]]
                /\ lock' = t /\ Goto(t, "extract")
           ELSE Goto(t, "cleanup") /\ UNCHANGED <<staging, lock>>
    /\ UNCHANGED <<channel, active, lastGood, archive, journal, failures, checked,
                   launch, reset, history>>

(* Mutant of StageEnd: a failed extraction goes on to the verification.     *)
StageEndAnyway(t, content) ==
    /\ At(t, "extract")
    /\ staging' = [staging EXCEPT ![task[t].version] =
                      IF content = "none" THEN Absent
                      ELSE [version |-> task[t].version, state |-> content]]
    /\ Goto(t, "verify") /\ lock' = Absent
    /\ UNCHANGED <<channel, active, lastGood, archive, journal, failures, checked,
                   launch, reset, history>>

(* A failed extraction removes the directory; a manifest that cannot be     *)
(* written leaves the tools without it.                                     *)
StageEnd(t, content) ==
    /\ At(t, "extract")
    /\ LET v == task[t].version
       IN  staging' = [staging EXCEPT ![v] =
                          IF content = "none" THEN Absent
                          ELSE [version |-> v, state |-> content]]
    /\ Goto(t, IF content = "whole" THEN "verify" ELSE "cleanup")
    /\ lock' = Absent
    /\ UNCHANGED <<channel, active, lastGood, archive, journal, failures, checked,
                   launch, reset, history>>

(* The staged tools are verified without the lock.                          *)
VerifyStaged(t, healthy) ==
    /\ At(t, "verify")
    /\ Goto(t, IF ProbesPass(staging[task[t].version], healthy) THEN "activate" ELSE "cleanup")
    /\ UNCHANGED <<channel, onDisk, lock, launch, reset, history>>

-----------------------------------------------------------------------------
(* activate_staged, under the lock; any step may fail and leave the rest    *)
(* undone.                                                                  *)

GiveUp(t) == Goto(t, "cleanup") /\ lock' = Absent

WriteJournal(t, ok) ==
    /\ At(t, "activate") /\ lock = Absent
    /\ IF ok THEN journal' = TRUE /\ lock' = t /\ Goto(t, "clearLastGood")
             ELSE GiveUp(t) /\ UNCHANGED journal
    /\ UNCHANGED <<channel, active, lastGood, staging, archive, failures, checked,
                   launch, reset, history>>

ClearLastGood(t, ok) ==
    /\ At(t, "clearLastGood")
    /\ IF ok THEN lastGood' = Absent /\ Goto(t, "preserve") /\ UNCHANGED lock
             ELSE GiveUp(t) /\ UNCHANGED lastGood
    /\ UNCHANGED <<channel, active, staging, archive, journal, failures, checked,
                   launch, reset, history>>

PreserveActive(t, ok) ==
    /\ At(t, "preserve")
    /\ IF ok /\ active # Absent THEN lastGood' = active /\ active' = Absent
                                ELSE UNCHANGED <<lastGood, active>>
    /\ IF ok \/ active = Absent THEN Goto(t, "place") /\ UNCHANGED lock ELSE GiveUp(t)
    /\ UNCHANGED <<channel, staging, archive, journal, failures, checked, launch,
                   reset, history>>

(* The staged directory is renamed; when that fails the preserved set goes  *)
(* back to its place.                                                       *)
PlaceStaged(t, ok) ==
    /\ At(t, "place")
    /\ LET v == task[t].version
       IN  IF ok /\ staging[v] # Absent /\ active = Absent
           THEN /\ active' = staging[v]
                /\ staging' = [staging EXCEPT ![v] = Absent]
                /\ strikes' = 0 /\ Goto(t, "unjournal")
                /\ UNCHANGED <<lastGood, lock>>
           ELSE /\ GiveUp(t) /\ UNCHANGED <<staging, strikes>>
                /\ IF lastGood # Absent /\ active = Absent
                   THEN active' = lastGood /\ lastGood' = Absent
                   ELSE UNCHANGED <<active, lastGood>>
    /\ UNCHANGED <<channel, archive, journal, failures, checked, launch, reset,
                   disturbed, misses>>

RemoveJournal(t, ok) ==
    /\ At(t, "unjournal")
    /\ journal' = (journal /\ ~ok)
    /\ lock' = Absent
    /\ Goto(t, IF journal /\ ok THEN "recover" ELSE "cleanup")
    /\ UNCHANGED <<channel, active, lastGood, staging, archive, failures, checked,
                   launch, reset, history>>

(* install ends with load_active: the recovery again, then a verification   *)
(* that decides the answer of the check and changes nothing.                *)
Recover(t) ==
    /\ At(t, "recover") /\ PutBack
    /\ Goto(t, IF journal THEN "unrecover" ELSE "cleanup")
    /\ UNCHANGED <<channel, staging, archive, journal, failures, checked, lock,
                   launch, reset, disturbed, misses>>

Unrecover(t) ==
    /\ At(t, "unrecover")
    /\ journal' = FALSE /\ Goto(t, "cleanup")
    /\ UNCHANGED <<channel, active, lastGood, staging, archive, failures, checked,
                   lock, launch, reset, history>>

(* The download is removed by its path, whoever wrote it.                   *)
Cleanup(t) ==
    /\ At(t, "cleanup")
    /\ archive' = [archive EXCEPT ![task[t].version] = Absent]
    /\ task' = [task EXCEPT ![t] = Finished(t)]
    /\ UNCHANGED <<channel, active, lastGood, staging, journal, failures, checked,
                   lock, launch, reset, history>>

Check(t) ==
    \/ ClaimCheck(t) \/ RecordClaim(t) \/ TakeOffer(t) \/ DeclineOffer(t)
    \/ ClearDownload(t) \/ OpenDownload(t)
    \/ \E got \in {"part", "whole", "wrong"} : EndDownload(t, got)
    \/ StageBegin(t)
    \/ \E content \in {"none", "bare", "whole"} : StageEnd(t, content)
    \/ \E healthy \in BOOLEAN : VerifyStaged(t, healthy)
    \/ \E ok \in BOOLEAN :
          WriteJournal(t, ok) \/ ClearLastGood(t, ok) \/ PreserveActive(t, ok)
            \/ PlaceStaged(t, ok) \/ RemoveJournal(t, ok)
    \/ Recover(t) \/ Unrecover(t) \/ Cleanup(t)

-----------------------------------------------------------------------------
(* reset_managed, under the lock.  The staging directories of an            *)
(* installation are named <target>-<version> and stay.                      *)
ResetLock ==
    /\ launch = "up" /\ reset = "idle" /\ lock = Absent
    /\ reset' = "active" /\ lock' = "reset"
    /\ disturbed' = (disturbed \/ \E t \in Tasks : Installing(t))
    /\ UNCHANGED <<channel, onDisk, launch, task, strikes, misses>>

ResetActive ==
    /\ launch = "up" /\ reset = "active"
    /\ active' = Absent /\ strikes' = 0 /\ reset' = "lastGood"
    /\ UNCHANGED <<channel, lastGood, staging, archive, journal, failures, checked,
                   lock, launch, task, disturbed, misses>>

ResetLastGood ==
    /\ launch = "up" /\ reset = "lastGood"
    /\ lastGood' = Absent /\ reset' = "files"
    /\ UNCHANGED <<channel, active, staging, archive, journal, failures, checked,
                   lock, launch, task, history>>

ResetFiles ==
    /\ launch = "up" /\ reset = "files"
    /\ archive' = [v \in Versions |-> Absent]
    /\ failures' = 0 /\ journal' = FALSE /\ misses' = 0
    /\ reset' = "idle" /\ lock' = Absent
    /\ UNCHANGED <<channel, active, lastGood, staging, checked, launch, task,
                   disturbed, strikes>>

Reset == ResetLock \/ ResetActive \/ ResetLastGood \/ ResetFiles

-----------------------------------------------------------------------------
(* The world: a newer release, another day, files that break, the end of    *)
(* the process at any point.                                                *)
Publish ==
    /\ channel + 1 \in Versions /\ channel' = channel + 1
    /\ UNCHANGED <<onDisk, lock, launch, task, reset, history>>

DayPasses ==
    /\ checked /\ checked' = FALSE
    /\ UNCHANGED <<channel, active, lastGood, staging, archive, journal, failures,
                   lock, launch, task, reset, history>>

Damage ==
    /\ launch = "down" /\ active # Absent
    /\ active' = [active EXCEPT !.state = "damaged"]
    /\ UNCHANGED <<channel, lastGood, staging, archive, journal, failures, checked,
                   lock, launch, task, reset, history>>

(* What a crash leaves in the download and staging directories is cleared   *)
(* before it is used again: its content is not told apart.                  *)
Crash ==
    /\ launch # "down" /\ launch' = "down"
    /\ lock' = Absent
    /\ task' = [t \in Tasks |-> Idle] /\ reset' = "idle"
    /\ staging' = [v \in Versions |->
                      IF staging[v] = Absent THEN Absent ELSE [version |-> v, state |-> "part"]]
    /\ archive' = [v \in Versions |->
                      IF archive[v] = Absent THEN Absent ELSE [by |-> Absent, state |-> "part"]]
    /\ disturbed' = (disturbed \/ launch = "restore" \/ reset = "lastGood")
    /\ UNCHANGED <<channel, active, lastGood, journal, failures, checked, strikes,
                   misses>>

Next ==
    \/ Start
    \/ \E t \in Tasks : Check(t)
    \/ Reset
    \/ Publish \/ DayPasses \/ Damage \/ Crash

Spec == Init /\ [][Next]_vars

-----------------------------------------------------------------------------
(* Types of all variables; the lock names its holder.                       *)
TypeOK ==
    /\ channel \in Versions
    /\ active \in Slots /\ lastGood \in Slots
    /\ staging \in [Versions -> Slots]
    /\ archive \in [Versions -> Archives]
    /\ journal \in BOOLEAN /\ failures \in 0..(STARTUP_FAILURE_ROLLBACK_THRESHOLD - 1)
    /\ checked \in BOOLEAN
    /\ lock \in Tasks \cup {"launch", "reset", Absent}
    /\ launch \in {"down", "recover", "unjournal", "load", "clear", "count",
                   "rollback", "restore", "forget", "up"}
    /\ reset \in {"idle", "active", "lastGood", "files"}
    /\ disturbed \in BOOLEAN /\ strikes \in Nat /\ misses \in Nat

(* The managed sets as a reader sees them: while an activation is under     *)
(* way the journal makes the last good set the current one.                 *)
Current == IF active # Absent THEN active.version
           ELSE IF CanRestore THEN lastGood.version ELSE Absent
Kept    == IF lastGood = Absent \/ CanRestore THEN Absent ELSE lastGood.version
Discarding == reset # "idle" \/ launch \in {"rollback", "restore"}

Managed == INSTANCE ManagedSet WITH
    None <- Absent, current <- Current, kept <- Kept, discarding <- Discarding

(* Decision record 0006 promises an atomic activation: as long as no        *)
(* installation overlaps another one or a reset, a crash or a failure at    *)
(* any step leaves the old set or the new one, never neither, an older one  *)
(* never replaces a newer one, and the replaced set is kept.                *)
AtomicUnlessDisturbed ==
    /\ Managed!Init
    /\ [][~disturbed' => Managed!Next]_<<Current, Kept, Discarding>>

(* A set without its signed manifest, or a partly extracted one, never      *)
(* becomes the active or the last good set unless installations overlap     *)
(* (activate_staged renames what is in the staging directory by then).      *)
OnlyWholeSets ==
    ~disturbed => \A s \in {active, lastGood} \ {Absent} :
                      s.state \in {"whole", "damaged"}

(* Two failed starts in a row are enough: a managed set that two starts     *)
(* found unusable is not the active one any more.                           *)
TwoStrikes == strikes < STARTUP_FAILURE_ROLLBACK_THRESHOLD

(* A rollback by itself happens only after two starts in a row, without a   *)
(* good one or a reset between them, found the managed set unusable.        *)
NoHastyRollback ==
    launch = "rollback" => misses + 1 >= STARTUP_FAILURE_ROLLBACK_THRESHOLD
=============================================================================
