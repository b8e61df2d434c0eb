--------------------------- MODULE DownloadWorkspace ---------------------------
(* The files of the download attempts: run_job's reservation of an output    *)
(* name, its workspace of temporary files, the owner manifest that lets a    *)
(* later process find them, and the publication of the result.  Several jobs *)
(* share one destination directory and ask for the same name.  A step is one *)
(* effect on that directory; a crash may fall between any two of them, a     *)
(* removal whose result the code ignores may fail, and a stranger may create *)
(* a file under a name a job would like.                                     *)
EXTENDS Naturals, FiniteSets

CONSTANTS
    Jobs,          \* the jobs that write to the directory
    MaxCollisions, \* the names tried are 0 .. MaxCollisions - 1, the " (n)" suffixes
    Sources,       \* the number of source files of each format choice
    MaxAttempts,   \* bound: attempts of all the jobs together
    MaxMishaps,    \* bound: crashes, faults, and files somebody else creates
    Absent, Torn   \* no file; a manifest that was created and not filled

Formats == DOMAIN Sources
Names   == 0 .. MaxCollisions - 1
Stranger == "stranger"

SourceIds == UNION {{f} \X (1 .. Sources[f]) : f \in Formats}
Work      == <<"work", 0>>    \* the work file and the owner manifest, as paths
OwnerFile == <<"owner", 0>>
Manifests == [name: Names, format: Formats]
Published == [by: Jobs \cup {Stranger}, sound: BOOLEAN]
JobStates == {"queued", "running", "paused", "interrupted", "failed", "cancelled",
              "completed"}

ASSUME WorkspaceAssumption ==
    /\ MaxCollisions \in Nat \ {0} /\ MaxAttempts \in Nat /\ MaxMishaps \in Nat
    /\ Sources \in [Formats -> {1, 2}]
    /\ Stranger \notin Jobs
    /\ Absent # Torn /\ Absent \notin Manifests /\ Torn \notin Manifests
    /\ Absent \notin Jobs /\ Absent \notin Names /\ Absent \notin Formats
    /\ Absent \notin Published /\ Absent \notin {"sound", "unsound"}

VARIABLES
    state,     \* the state of each job in the queue
    attempt,   \* the attempt that runs for it
    attempts,  \* how many attempts there have been
    lock,      \* the reservation file of each name: the job that created it
    final,     \* the published file of each name: who wrote it, and whether it is sound
    owner,     \* the owner manifest of each job
    part,      \* its resumable .part and .ytdl files, by source
    whole,     \* its complete source files
    work,      \* its work file
    up,        \* the process runs
    crashes,
    stolen,    \* a clean-up removed the reservation of an attempt that runs
    leaked,    \* names whose reservation a crash or a failed removal left
    early,     \* jobs cancelled before the attempt had claimed its workspace
    saved,     \* the partial files each job had when it was paused in a transfer
    faults,    \* steps with a failed removal whose result the code ignores
    litter,    \* the files of each job that a drop of its workspace left so
    standing   \* names whose published file could not be taken back

files   == <<lock, final, owner, part, whole, work>>
remains == <<faults, litter, standing>>
history == <<stolen, leaked, early, saved, remains>>
vars    == <<state, attempt, attempts, files, up, crashes, history>>

Idle == [pc |-> "idle", name |-> Absent, format |-> Absent, source |-> 1,
         preserve |-> FALSE, outcome |-> "none"]

Init ==
    /\ state = [j \in Jobs |-> "queued"]
    /\ attempt = [j \in Jobs |-> Idle]
    /\ attempts = 0
    /\ lock = [n \in Names |-> Absent]
    /\ final = [n \in Names |-> Absent]
    /\ owner = [j \in Jobs |-> Absent]
    /\ part = [j \in Jobs |-> {}]
    /\ whole = [j \in Jobs |-> {}]
    /\ work = [j \in Jobs |-> Absent]
    /\ up = TRUE /\ crashes = 0
    /\ stolen = FALSE /\ leaked = {} /\ early = {}
    /\ saved = [j \in Jobs |-> {}]
    /\ faults = 0 /\ litter = [j \in Jobs |-> {}] /\ standing = {}

-----------------------------------------------------------------------------
(* State formulae and helpers.                                              *)

At(j, pc) == up /\ attempt[j].pc = pc
Live(j)   == attempt[j].pc # "idle"

(* The reservation a running attempt of the job has created and not given up. *)
Holds(j, n) == Live(j) /\ attempt[j].pc # "reserve" /\ attempt[j].name = n

(* What has gone wrong so far, for the bound.                               *)
Mishaps == crashes + faults
           + Cardinality({n \in Names : final[n] # Absent /\ final[n].by = Stranger})

(* A removal fails and the code goes on as if it had not (`let _ignored`).   *)
Fault == Mishaps < MaxMishaps /\ faults' = faults + 1

SourcesOf(format) == {format} \X (1 .. Sources[format])

Goto(j, pc) == attempt' = [attempt EXCEPT ![j].pc = pc]

(* JobControls::pause and cancel, as ensure_running, map_analysis_error and   *)
(* map_process_error find them.  What the controls say is chosen where the   *)
(* attempt looks: a request that comes between two of these places is one    *)
(* that comes at the next.                                                   *)
Told == {"paused", "cancelled"}

(* A tool may fail on its own at any time, and is stopped when asked.        *)
WaysToStop == {"failed"} \cup Told

(* The file at the path of a reservation is removed whoever created it: by   *)
(* the drop of an attempt's own reservation, ...                             *)
RemoveReservation(n, theirs) ==
    /\ lock' = [lock EXCEPT ![n] = Absent]
    /\ stolen' = (stolen \/ \E k \in theirs : lock[n] = k /\ Holds(k, n))
    /\ leaked' = leaked \ {n}

GiveUpReservation(j) ==
    \/ RemoveReservation(attempt[j].name, Jobs \ {j}) /\ UNCHANGED faults
    \/ /\ lock[attempt[j].name] # Absent /\ Fault
       /\ leaked' = leaked \cup {attempt[j].name}
       /\ UNCHANGED <<lock, stolen>>

(* ... and with the other paths a manifest names, where it may by now be the *)
(* file of an attempt that runs, of another job or of this very one.         *)
RemoveNamedReservation(j) == RemoveReservation(owner[j].name, Jobs)

-----------------------------------------------------------------------------
(* What the queue and the user do.                                          *)

(* The scheduler claims the job and starts an attempt.                      *)
Start(j) ==
    /\ up /\ state[j] = "queued" /\ ~Live(j) /\ attempts < MaxAttempts
    /\ state' = [state EXCEPT ![j] = "running"]
    /\ attempt' = [attempt EXCEPT ![j] = [Idle EXCEPT !.pc = "analyze"]]
    /\ attempts' = attempts + 1
    /\ early' = early \ {j}
    /\ UNCHANGED <<files, up, crashes, stolen, leaked, saved, remains>>

(* resume and retry.                                                        *)
Requeue(j) ==
    /\ up /\ state[j] \in {"paused", "interrupted", "failed", "cancelled"}
    /\ ~Live(j) /\ attempts < MaxAttempts
    /\ state' = [state EXCEPT ![j] = "queued"]
    /\ UNCHANGED <<attempt, attempts, files, up, crashes, history>>

(* A file somebody else puts where a job's output would go.                 *)
StrangerCreates(n) ==
    /\ final[n] = Absent
    /\ Mishaps < MaxMishaps
    /\ final' = [final EXCEPT ![n] = [by |-> Stranger, sound |-> TRUE]]
    /\ UNCHANGED <<state, attempt, attempts, lock, owner, part, whole, work, up,
                   crashes, history>>

-----------------------------------------------------------------------------
(* run_job up to the claim of the workspace.                                *)

(* The attempt is over: the workspace and the reservation it has are dropped. *)
Ends(j, outcome, pc) ==
    attempt' = [attempt EXCEPT ![j].outcome = outcome, ![j].pc = pc]

(* The destination is validated, the link analysed and the format resolved;  *)
(* nothing is on disk for this attempt yet.                                  *)
Analyze(j) ==
    /\ At(j, "analyze")
    /\ \/ /\ \E f \in Formats :
                attempt' = [attempt EXCEPT ![j].pc = "reserve", ![j].name = 0,
                                           ![j].format = f]
          /\ UNCHANGED early
       \/ \E outcome \in WaysToStop :
            /\ Ends(j, outcome, "finish")
            /\ early' = IF outcome = "cancelled" THEN early \cup {j} ELSE early
    /\ UNCHANGED <<state, attempts, files, up, crashes, stolen, leaked, saved,
                   remains>>

(* Mutant of TryNext: one name more than the limit is tried.                 *)
TryNextPastLimit(j) ==
    attempt' = [attempt EXCEPT
        ![j] = IF @.name < MaxCollisions
               THEN [@ EXCEPT !.pc = "reserve", !.name = attempt[j].name + 1]
               ELSE [@ EXCEPT !.pc = "finish", !.name = Absent, !.outcome = "failed"]]

(* The name is given up, by going on to the next one or at the limit.        *)
TryNext(j) ==
    attempt' = [attempt EXCEPT
        ![j] = IF @.name + 1 < MaxCollisions
               THEN [@ EXCEPT !.pc = "reserve", !.name = attempt[j].name + 1]
               ELSE [@ EXCEPT !.pc = "finish", !.name = Absent, !.outcome = "failed"]]

(* Mutant of Reserve: the lock file is opened whether or not it exists.      *)
ReserveAnyway(j) ==
    /\ At(j, "reserve")
    /\ lock' = [lock EXCEPT ![attempt[j].name] = j]
    /\ Goto(j, "look")
    /\ UNCHANGED <<state, attempts, final, owner, part, whole, work, up, crashes,
                   history>>

(* reserve_output: the lock file is created exclusively, ...                 *)
Reserve(j) ==
    /\ At(j, "reserve")
    /\ IF lock[attempt[j].name] = Absent
       THEN lock' = [lock EXCEPT ![attempt[j].name] = j] /\ Goto(j, "look")
       ELSE TryNext(j) /\ UNCHANGED lock
    /\ UNCHANGED <<state, attempts, final, owner, part, whole, work, up, crashes,
                   history>>

(* ... and given back when the name is taken.                                *)
Look(j) ==
    /\ At(j, "look")
    /\ IF final[attempt[j].name] = Absent
       THEN Goto(j, "claim") /\ UNCHANGED <<lock, stolen, leaked, faults>>
       ELSE TryNext(j) /\ GiveUpReservation(j)
    /\ UNCHANGED <<state, attempts, final, owner, part, whole, work, up, crashes,
                   early, saved, litter, standing>>

(* workspace_paths_exist.                                                    *)
PathsExist(j, format) ==
    work[j] # Absent \/ (part[j] \cup whole[j]) \cap SourcesOf(format) # {}

(* What is still there of a clean-up that failed is owned again when it is   *)
(* found with a manifest that names it.                                      *)
Reclaimed(j) ==
    IF owner[j] \in Manifests
    THEN [litter EXCEPT ![j] = @ \ (SourcesOf(owner[j].format) \cup {Work, OwnerFile})]
    ELSE litter

(* claim_workspace: a manifest that says the same stands, another one goes   *)
(* with everything it names, and files nobody owns are a conflict.           *)
Claim(j) ==
    /\ At(j, "claim")
    /\ LET format == attempt[j].format IN
       CASE owner[j] = [name |-> attempt[j].name, format |-> format] -> Goto(j, "sweep")
         [] owner[j] \in Manifests /\ owner[j] # [name |-> attempt[j].name, format |-> format]
              -> Goto(j, "stale")
         [] owner[j] = Absent /\ ~PathsExist(j, format) -> Goto(j, "create")
         [] OTHER -> Ends(j, "failed", "droplock")
    /\ saved' = [saved EXCEPT ![j] = {}] /\ litter' = Reclaimed(j)
    /\ UNCHANGED <<state, attempts, files, up, crashes, stolen, leaked, early, faults,
                   standing>>

(* remove_manifest_paths: all the old manifest names, its reservation too,   *)
(* and the manifest itself last.                                             *)
RemoveStale(j) ==
    /\ At(j, "stale")
    /\ RemoveNamedReservation(j)
    /\ part' = [part EXCEPT ![j] = @ \ SourcesOf(owner[j].format)]
    /\ whole' = [whole EXCEPT ![j] = @ \ SourcesOf(owner[j].format)]
    /\ work' = [work EXCEPT ![j] = Absent]
    /\ owner' = [owner EXCEPT ![j] = Absent]
    /\ Goto(j, "create")
    /\ UNCHANGED <<state, attempts, final, up, crashes, early, saved, remains>>

(* write_owner_manifest: an exclusive creation, then the content.            *)
CreateOwner(j) ==
    /\ At(j, "create")
    /\ owner' = [owner EXCEPT ![j] = Torn] /\ Goto(j, "fill")
    /\ UNCHANGED <<state, attempts, lock, final, part, whole, work, up, crashes,
                   history>>

FillOwner(j) ==
    /\ At(j, "fill")
    /\ owner' = [owner EXCEPT
                    ![j] = [name |-> attempt[j].name, format |-> attempt[j].format]]
    /\ Goto(j, "sweep")
    /\ UNCHANGED <<state, attempts, lock, final, part, whole, work, up, crashes,
                   history>>

(* The end of Workspace::new: what an earlier attempt completed is removed,  *)
(* its partial files stay for the tool to continue.                          *)
Sweep(j) ==
    /\ At(j, "sweep")
    /\ work' = [work EXCEPT ![j] = Absent]
    /\ whole' = [whole EXCEPT ![j] = @ \ SourcesOf(attempt[j].format)]
    /\ Goto(j, "fetch")
    /\ UNCHANGED <<state, attempts, lock, final, owner, part, up, crashes, history>>

-----------------------------------------------------------------------------
(* download_sources, produce_work_output and verify_output.                  *)

SourceId(j) == <<attempt[j].format, attempt[j].source>>

(* The top of the loop over the sources, and its end, where the partial      *)
(* files are no longer worth keeping; both look at the controls.             *)
Fetch(j) ==
    LET done == attempt[j].source > Sources[attempt[j].format]
        keep == attempt[j].preserve /\ ~done IN
    /\ At(j, "fetch")
    /\ \/ attempt' = [attempt EXCEPT ![j].pc = IF done THEN "produce" ELSE "transfer",
                                     ![j].preserve = keep]
       \/ \E outcome \in Told :
             attempt' = [attempt EXCEPT ![j].pc = "dropfiles", ![j].preserve = keep,
                                        ![j].outcome = outcome]
    /\ UNCHANGED <<state, attempts, files, up, crashes, history>>

(* The tool writes its partial file, and renames it at the end.              *)
Transfer(j) ==
    /\ At(j, "transfer") /\ SourceId(j) \notin part[j]
    /\ part' = [part EXCEPT ![j] = @ \cup {SourceId(j)}]
    /\ UNCHANGED <<state, attempt, attempts, lock, final, owner, whole, work, up,
                   crashes, history>>

TransferEnds(j) ==
    /\ At(j, "transfer") /\ SourceId(j) \in part[j]
    /\ part' = [part EXCEPT ![j] = @ \ {SourceId(j)}]
    /\ whole' = [whole EXCEPT ![j] = @ \cup {SourceId(j)}]
    /\ attempt' = [attempt EXCEPT ![j].pc = "fetch", ![j].source = @ + 1]
    /\ UNCHANGED <<state, attempts, lock, final, owner, work, up, crashes, history>>

(* Mutant of TransferStops: the partial files are kept only after a failure. *)
TransferStopsKeepsFailed(j) ==
    /\ At(j, "transfer")
    /\ \E outcome \in WaysToStop :
         /\ attempt' = [attempt EXCEPT ![j].pc = "dropfiles", ![j].outcome = outcome,
                                       ![j].preserve = (outcome = "failed")]
         /\ saved' = IF outcome = "paused" THEN [saved EXCEPT ![j] = part[j]] ELSE saved
    /\ UNCHANGED <<state, attempts, files, up, crashes, stolen, leaked, early,
                   remains>>

(* Mutant of TransferStops: the partial files are kept after a cancel too.   *)
TransferStopsKeepsAll(j) ==
    /\ At(j, "transfer")
    /\ \E outcome \in WaysToStop :
         /\ attempt' = [attempt EXCEPT ![j].pc = "dropfiles", ![j].outcome = outcome,
                                       ![j].preserve = TRUE]
         /\ saved' = IF outcome = "paused" THEN [saved EXCEPT ![j] = part[j]] ELSE saved
    /\ UNCHANGED <<state, attempts, files, up, crashes, stolen, leaked, early,
                   remains>>

(* Any end but a cancellation keeps the partial files.                       *)
TransferStops(j) ==
    /\ At(j, "transfer")
    /\ \E outcome \in WaysToStop :
         /\ attempt' = [attempt EXCEPT ![j].pc = "dropfiles", ![j].outcome = outcome,
                                       ![j].preserve = (outcome # "cancelled")]
         /\ saved' = IF outcome = "paused" THEN [saved EXCEPT ![j] = part[j]] ELSE saved
    /\ UNCHANGED <<state, attempts, files, up, crashes, stolen, leaked, early,
                   remains>>

(* FFmpeg or a plain link makes the work file, which may be unsound.         *)
Produce(j) ==
    /\ At(j, "produce")
    /\ \E made \in {"sound", "unsound"} : work' = [work EXCEPT ![j] = made]
    /\ Goto(j, "verify")
    /\ UNCHANGED <<state, attempts, lock, final, owner, part, whole, up, crashes,
                   history>>

ProduceStops(j) ==
    /\ At(j, "produce")
    /\ \E left \in {Absent, "unsound"} : work' = [work EXCEPT ![j] = left]
    /\ \E outcome \in WaysToStop : Ends(j, outcome, "dropfiles")
    /\ UNCHANGED <<state, attempts, lock, final, owner, part, whole, up, crashes,
                   history>>

(* ensure_running, and FFprobe with validate_probe and the size.            *)
Verify(j) ==
    /\ At(j, "verify")
    /\ \/ work[j] = "sound" /\ Goto(j, "publish")
       \/ \E outcome \in WaysToStop : Ends(j, outcome, "dropfiles")
    /\ UNCHANGED <<state, attempts, files, up, crashes, history>>

-----------------------------------------------------------------------------
(* OutputReservation::publish and the drops.                                 *)

(* Mutant of Publish: a rename, which replaces what is there.                *)
PublishByRename(j) ==
    /\ At(j, "publish")
    /\ final' = [final EXCEPT ![attempt[j].name] =
                    [by |-> j, sound |-> work[j] = "sound"]]
    /\ Goto(j, "unlink")
    /\ UNCHANGED <<state, attempts, lock, owner, part, whole, work, up, crashes,
                   history>>

(* Mutant of Publish: a link that fails is taken for a publication.          *)
PublishAnyway(j) ==
    /\ At(j, "publish")
    /\ IF final[attempt[j].name] = Absent
       THEN final' = [final EXCEPT ![attempt[j].name] =
                         [by |-> j, sound |-> work[j] = "sound"]]
       ELSE UNCHANGED final
    /\ Goto(j, "unlink")
    /\ UNCHANGED <<state, attempts, lock, owner, part, whole, work, up, crashes,
                   history>>

(* The link fails when the name has been taken.                              *)
Publish(j) ==
    /\ At(j, "publish")
    /\ IF final[attempt[j].name] = Absent
       THEN /\ final' = [final EXCEPT ![attempt[j].name] =
                            [by |-> j, sound |-> work[j] = "sound"]]
            /\ Goto(j, "unlink")
       ELSE Ends(j, "failed", "release") /\ UNCHANGED final
    /\ UNCHANGED <<state, attempts, lock, owner, part, whole, work, up, crashes,
                   history>>

(* Mutant of Unlink: the published file stays although the attempt failed.   *)
UnlinkWithoutUndo(j) ==
    /\ At(j, "unlink")
    /\ \/ work' = [work EXCEPT ![j] = Absent] /\ Ends(j, "completed", "release")
       \/ UNCHANGED work /\ Ends(j, "failed", "release")
    /\ UNCHANGED <<state, attempts, lock, final, owner, part, whole, up, crashes,
                   history>>

(* The temporary file goes; when it cannot be removed the published one is,  *)
(* and nobody learns that this has failed too.                               *)
Unlink(j) ==
    /\ At(j, "unlink")
    /\ \/ /\ work' = [work EXCEPT ![j] = Absent]
          /\ Ends(j, "completed", "release")
          /\ UNCHANGED <<final, faults, standing>>
       \/ /\ final' = [final EXCEPT ![attempt[j].name] = Absent]
          /\ Ends(j, "failed", "release")
          /\ UNCHANGED <<work, faults, standing>>
       \/ /\ Fault /\ standing' = standing \cup {attempt[j].name}
          /\ Ends(j, "failed", "release")
          /\ UNCHANGED <<final, work>>
    /\ UNCHANGED <<state, attempts, lock, owner, part, whole, up, crashes, stolen,
                   leaked, early, saved, litter>>

(* publish consumes the reservation: it is dropped before the workspace.     *)
Release(j) ==
    /\ At(j, "release")
    /\ GiveUpReservation(j)
    /\ attempt' = [attempt EXCEPT ![j].pc = "dropfiles", ![j].name = Absent]
    /\ UNCHANGED <<state, attempts, final, owner, part, whole, work, up, crashes,
                   early, saved, litter, standing>>

(* The files Workspace::drop removes: the partial ones unless they are kept. *)
Dropped(j) ==
    (IF work[j] = Absent THEN {} ELSE {Work})
    \cup (SourcesOf(attempt[j].format)
           \cap (whole[j] \cup IF attempt[j].preserve THEN {} ELSE part[j]))

(* Workspace::drop: the files of the attempt.  Those whose removal fails     *)
(* stay, and the drop goes on to the manifest all the same.                  *)
DropFiles(j) ==
    /\ At(j, "dropfiles")
    /\ \E stay \in SUBSET Dropped(j) :
         LET gone == SourcesOf(attempt[j].format) \ stay IN
         /\ IF stay = {} THEN UNCHANGED faults ELSE Fault
         /\ work' = IF Work \in stay THEN work ELSE [work EXCEPT ![j] = Absent]
         /\ whole' = [whole EXCEPT ![j] = @ \ gone]
         /\ part' = IF attempt[j].preserve THEN part ELSE [part EXCEPT ![j] = @ \ gone]
         /\ litter' = IF attempt[j].preserve THEN litter
                      ELSE [litter EXCEPT ![j] = @ \cup stay]
    /\ Goto(j, "disown")
    /\ UNCHANGED <<state, attempts, lock, final, owner, up, crashes, stolen, leaked, early,
                   saved, standing>>

(* The directory cannot be listed: the drop ends there, and the partial      *)
(* files stay with their manifest although they were to go.                  *)
DropUnlisted(j) ==
    /\ At(j, "dropfiles") /\ ~attempt[j].preserve
    /\ Fault
    /\ work' = [work EXCEPT ![j] = Absent]
    /\ whole' = [whole EXCEPT ![j] = @ \ SourcesOf(attempt[j].format)]
    /\ litter' = [litter EXCEPT ![j] = @ \cup part[j] \cup {OwnerFile}]
    /\ Goto(j, "droplock")
    /\ UNCHANGED <<state, attempts, lock, final, owner, part, up, crashes, stolen, leaked,
                   early, saved, standing>>

(* Mutant of DropOwner: the manifest goes although partial files stay.       *)
DropOwnerAlways(j) ==
    /\ At(j, "disown")
    /\ owner' = [owner EXCEPT ![j] = Absent]
    /\ Goto(j, "droplock")
    /\ UNCHANGED <<state, attempts, lock, final, part, whole, work, up, crashes,
                   history>>

(* ... and the manifest when nothing is to be kept.                          *)
DropOwner(j) ==
    /\ At(j, "disown")
    /\ \/ /\ owner' = IF attempt[j].preserve THEN owner ELSE [owner EXCEPT ![j] = Absent]
          /\ UNCHANGED <<faults, litter>>
       \/ /\ ~attempt[j].preserve /\ Fault
          /\ litter' = [litter EXCEPT ![j] = @ \cup {OwnerFile}]
          /\ UNCHANGED owner
    /\ Goto(j, "droplock")
    /\ UNCHANGED <<state, attempts, lock, final, part, whole, work, up, crashes,
                   stolen, leaked, early, saved, standing>>

(* The reservation that was not published is dropped last.                   *)
DropLock(j) ==
    /\ At(j, "droplock")
    /\ IF attempt[j].name = Absent
       THEN UNCHANGED <<lock, stolen, leaked, faults>>
       ELSE GiveUpReservation(j)
    /\ attempt' = [attempt EXCEPT
                      ![j] = [Idle EXCEPT !.pc = "finish", !.outcome = attempt[j].outcome]]
    /\ UNCHANGED <<state, attempts, final, owner, part, whole, work, up, crashes,
                   early, saved, litter, standing>>

(* finish_runtime commits how the attempt ended.                             *)
Finish(j) ==
    /\ At(j, "finish")
    /\ state' = [state EXCEPT ![j] = attempt[j].outcome]
    /\ attempt' = [attempt EXCEPT ![j] = Idle]
    /\ UNCHANGED <<attempts, files, up, crashes, history>>

-----------------------------------------------------------------------------
(* Cancelling a job without an attempt: reconcile_owned_paths lists what its *)
(* manifest owns and remove_recorded_owned_paths removes it.                 *)

RemoveOwned(j) ==
    IF owner[j] = Absent
    THEN UNCHANGED <<lock, owner, part, whole, work, stolen, leaked>>
    ELSE /\ RemoveNamedReservation(j)
         /\ part' = [part EXCEPT ![j] = @ \ SourcesOf(owner[j].format)]
         /\ whole' = [whole EXCEPT ![j] = @ \ SourcesOf(owner[j].format)]
         /\ work' = [work EXCEPT ![j] = Absent]
         /\ owner' = [owner EXCEPT ![j] = Absent]

Cancel(j) ==
    /\ up /\ ~Live(j) /\ state[j] \in {"queued", "paused", "interrupted"}
    /\ state' = [state EXCEPT ![j] = "cancelled"]
    /\ RemoveOwned(j)
    /\ saved' = [saved EXCEPT ![j] = {}] /\ litter' = Reclaimed(j)
    /\ early' = early \ {j}
    /\ UNCHANGED <<attempt, attempts, final, up, crashes, faults, standing>>

(* A crash ends every attempt where it is.  A reservation no manifest names  *)
(* has nobody left to remove it.                                             *)
Crash ==
    /\ up /\ Mishaps < MaxMishaps
    /\ up' = FALSE /\ crashes' = crashes + 1
    /\ attempt' = [j \in Jobs |-> Idle]
    /\ leaked' = leaked \cup
          {n \in Names : \E j \in Jobs : lock[n] = j /\ Holds(j, n)
                            /\ (owner[j] \in Manifests => owner[j].name # n)}
    /\ UNCHANGED <<state, attempts, files, stolen, early, saved, remains>>

(* The next start: what was running is interrupted, and of each job at rest  *)
(* only the resumable files and the manifest are kept.  One manifest that    *)
(* cannot be read fails the whole start, this time and every time after.     *)
Resting == {j \in Jobs : state[j] \in {"running", "paused", "interrupted"}}

Reconciled == {j \in Resting : owner[j] # Absent}

(* Mutant of Reopen: the exact paths stay where they are.                    *)
ReopenKeepsAll ==
    /\ ~up /\ \A j \in Resting : owner[j] # Torn
    /\ up' = TRUE
    /\ state' = [j \in Jobs |-> IF state[j] = "running" THEN "interrupted" ELSE state[j]]
    /\ UNCHANGED <<attempt, attempts, files, crashes, history>>

Reopen ==
    /\ ~up /\ \A j \in Resting : owner[j] # Torn
    /\ up' = TRUE
    /\ state' = [j \in Jobs |-> IF state[j] = "running" THEN "interrupted" ELSE state[j]]
    /\ lock' = [n \in Names |->
                  IF \E j \in Reconciled : owner[j].name = n THEN Absent ELSE lock[n]]
    /\ leaked' = leaked \ {owner[j].name : j \in Reconciled}
    /\ whole' = [j \in Jobs |->
                  IF j \in Reconciled THEN whole[j] \ SourcesOf(owner[j].format)
                  ELSE whole[j]]
    /\ work' = [j \in Jobs |-> IF j \in Reconciled THEN Absent ELSE work[j]]
    /\ UNCHANGED <<attempt, attempts, final, owner, part, crashes, stolen, early,
                   saved, remains>>

Next ==
    \/ \E j \in Jobs :
         \/ Start(j) \/ Requeue(j) \/ Cancel(j)
         \/ Analyze(j) \/ Reserve(j) \/ Look(j)
         \/ Claim(j) \/ RemoveStale(j)
         \/ CreateOwner(j) \/ FillOwner(j) \/ Sweep(j)
         \/ Fetch(j) \/ Transfer(j) \/ TransferEnds(j) \/ TransferStops(j)
         \/ Produce(j) \/ ProduceStops(j) \/ Verify(j)
         \/ Publish(j) \/ Unlink(j) \/ Release(j)
         \/ DropFiles(j) \/ DropUnlisted(j) \/ DropOwner(j) \/ DropLock(j) \/ Finish(j)
    \/ \E n \in Names : StrangerCreates(n)
    \/ Crash \/ Reopen

Spec == Init /\ [][Next]_vars

-----------------------------------------------------------------------------
(* Every file and every counter is one the code can leave.                   *)
WorkspaceTypeOK ==
    /\ state \in [Jobs -> JobStates]
    /\ attempts \in 0 .. MaxAttempts /\ crashes \in 0 .. MaxMishaps
    /\ lock \in [Names -> Jobs \cup {Absent}]
    /\ final \in [Names -> Published \cup {Absent}]
    /\ owner \in [Jobs -> Manifests \cup {Absent, Torn}]
    /\ part \in [Jobs -> SUBSET SourceIds] /\ whole \in [Jobs -> SUBSET SourceIds]
    /\ work \in [Jobs -> {"sound", "unsound", Absent}]
    /\ up \in BOOLEAN /\ stolen \in BOOLEAN
    /\ leaked \subseteq Names /\ early \subseteq Jobs
    /\ saved \in [Jobs -> SUBSET SourceIds]
    /\ faults \in 0 .. MaxMishaps /\ standing \subseteq Names
    /\ litter \in [Jobs -> SUBSET (SourceIds \cup {Work, OwnerFile})]
    /\ \A j \in Jobs :
         /\ attempt[j].name \in Names \cup {Absent}
         /\ attempt[j].format \in Formats \cup {Absent}
         /\ attempt[j].source \in 1 .. 3

(* A file under a user's name is never replaced, whoever put it there; it is *)
(* removed only by the attempt that published it a step before and could not *)
(* finish the publication (a no-clobber hard link, and its undo).            *)
NoClobber ==
    [][\A n \in Names :
          final[n] # Absent /\ final'[n] # final[n] =>
              /\ final'[n] = Absent
              /\ \E j \in Jobs : final[n].by = j /\ At(j, "unlink") /\ attempt[j].name = n
      ]_vars

(* Whatever a job has written under a user's name is sound, and once a job   *)
(* is at rest as anything but completed none of it is there, unless a crash  *)
(* fell between the publication and its commit, or neither the temporary     *)
(* file nor the published one could be removed (name.rs:99, name.rs:100).    *)
OnlySoundOutputs ==
    \A n \in Names : final[n] # Absent =>
        /\ final[n].sound
        /\ \A j \in Jobs :
              final[n].by = j /\ ~Live(j) /\ state[j] # "completed" =>
                  crashes > 0 \/ n \in standing

(* Every temporary file of a job is named by a manifest on disk, so that a   *)
(* later process can find and remove it, whatever was cut short where; all   *)
(* but the very files a drop failed to remove, whose manifest it removed all *)
(* the same (service.rs:1222-1251).                                          *)
EveryFileIsOwned ==
    \A j \in Jobs :
        LET sources == (part[j] \cup whole[j]) \ litter[j] IN
        sources # {} \/ (work[j] # Absent /\ Work \notin litter[j]) =>
            /\ owner[j] \in Manifests
            /\ sources \subseteq SourcesOf(owner[j].format)

(* Two attempts never work towards the same name, and the name an attempt    *)
(* has reserved is not published by another job before it, unless a clean-up *)
(* removed the reservation in between.                                       *)
ReservationIsExclusive ==
    \A j \in Jobs, n \in Names :
        Holds(j, n) /\ attempt[j].pc # "look" /\ ~stolen =>
            /\ \A k \in Jobs \ {j} : ~Holds(k, n)
            /\ final[n] # Absent => final[n].by \in {j, Stranger}

(* While the process runs, a reservation file belongs to an attempt that     *)
(* runs, or a crash left it before the manifest could name it, or its own    *)
(* removal failed (name.rs:116): no name stays blocked for another reason.   *)
NoBlockedNames ==
    up => \A n \in Names \ leaked :
              lock[n] # Absent => \E j \in Jobs : Holds(j, n)

(* A job paused in a transfer keeps every partial file it had until its next *)
(* attempt claims the workspace, across crashes and restarts.                *)
PausedKeepsPartials ==
    \A j \in Jobs : saved[j] \subseteq part[j]

(* A cancelled job has left nothing behind but what could not be removed,    *)
(* unless it was cancelled before its attempt had a workspace.               *)
CancelledIsClean ==
    \A j \in Jobs \ early :
        state[j] = "cancelled" =>
            /\ part[j] \cup whole[j] \subseteq litter[j]
            /\ work[j] # Absent => Work \in litter[j]
            /\ owner[j] # Absent => OwnerFile \in litter[j]

(* The directory as its user sees it: outputs appear at once and sound, are  *)
(* never replaced, and a job is completed only with one of its own, which    *)
(* stays (service.rs:223, name.rs:74).                                       *)
Completed == {j \in Jobs : state[j] = "completed"}
Directory == INSTANCE OutputDirectory WITH output <- final, done <- Completed
ImplementsDirectory == Directory!Spec
=============================================================================
