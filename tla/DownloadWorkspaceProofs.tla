---------------------- MODULE DownloadWorkspaceProofs ----------------------
(* What holds of the files of the download attempts for any jobs, names,     *)
(* format choices, attempts, crashes, faults and strangers.                  *)
EXTENDS DownloadWorkspace, FiniteSetTheorems, TLAPS

-----------------------------------------------------------------------------
(* The inductive invariant.  The first part says of each job, from its own   *)
(* variables, what its attempt may rely on at each position.                 *)

Naming   == {"reserve", "look"}
Claiming == {"claim", "stale", "create", "fill"}
Fetching == {"sweep", "fetch", "transfer", "produce", "verify", "publish", "unlink", "release"}
Dropping == {"dropfiles", "disown"}
Positions == {"idle", "analyze", "droplock", "finish"}
                 \cup Naming \cup Claiming \cup Fetching \cup Dropping
Outcomes == {"none", "failed", "paused", "cancelled", "completed"}

Attempts == [pc : Positions, name : Names \cup {Absent}, format : Formats \cup {Absent},
             source : 1 .. 3, preserve : BOOLEAN, outcome : Outcomes]

(* The values of the variables.                                              *)
Shape ==
    /\ state \in [Jobs -> JobStates]
    /\ attempt \in [Jobs -> Attempts]
    /\ attempts \in 0 .. MaxAttempts /\ crashes \in 0 .. MaxMishaps
    /\ lock \in [Names -> Jobs \cup {Absent}]
    /\ final \in [Names -> Published \cup {Absent}]
    /\ owner \in [Jobs -> Manifests \cup {Absent, Torn}]
    /\ part \in [Jobs -> SUBSET SourceIds] /\ whole \in [Jobs -> SUBSET SourceIds]
    /\ work \in [Jobs -> {"sound", "unsound", Absent}]
    /\ up \in BOOLEAN /\ stolen \in BOOLEAN
    /\ leaked \subseteq Names /\ early \subseteq Jobs
    /\ saved \in [Jobs -> SUBSET SourceIds]
    /\ faults \in 0 .. MaxMishaps /\ standing \subseteq Names
    /\ litter \in [Jobs -> SUBSET (SourceIds \cup {Work, OwnerFile})]

(* How far the attempt has come.                                             *)
AttemptKnows(j) ==
    LET a == attempt[j] IN
    /\ a.pc \in {"idle", "analyze", "finish"} => a.name = Absent
    /\ a.pc \in Naming \cup Claiming \cup Fetching => a.name \in Names
    /\ a.pc \in Naming \cup Claiming \cup Fetching \cup Dropping => a.format \in Formats
    /\ a.pc \in {"idle", "analyze", "sweep"} \cup Naming \cup Claiming => a.source = 1
    /\ a.pc = "fetch" => a.source <= Sources[a.format] + 1
    /\ a.pc = "transfer" => a.source <= Sources[a.format]
    /\ a.preserve => a.pc \in Dropping \cup {"droplock"} /\ a.outcome # "cancelled"
    /\ a.pc \in Dropping \cup {"release", "droplock", "finish"} => a.outcome # "none"
    /\ a.pc \in {"idle", "analyze"} => a.outcome = "none"

(* The process knows which jobs run.                                         *)
QueueKnows(j) ==
    /\ up => (state[j] = "running" <=> Live(j))
    /\ ~up => ~Live(j)

(* What the manifest says while the attempt works under it.                  *)
OwnerKnows(j) ==
    LET a == attempt[j] IN
    /\ a.pc = "stale" => owner[j] \in Manifests
    /\ a.pc = "create" => owner[j] = Absent
    /\ a.pc = "fill" => owner[j] = Torn
    /\ a.pc \in Fetching \cup Dropping =>
          /\ owner[j] \in Manifests /\ owner[j].format = a.format
          /\ a.name # Absent => owner[j].name = a.name

(* What is on disk, and what has been removed already.  The files of a job   *)
(* that no failed removal accounts for:                                      *)
Unaccounted(j) == (part[j] \cup whole[j]) \ litter[j]
WorkGone(j) == work[j] # Absent => Work \in litter[j]

FilesOwned(j) ==
    Unaccounted(j) # {} \/ ~WorkGone(j) =>
        owner[j] \in Manifests /\ Unaccounted(j) \subseteq SourcesOf(owner[j].format)

FilesKnown(j) ==
    /\ attempt[j].pc = "publish" => work[j] = "sound"
    /\ attempt[j].pc = "disown" /\ ~attempt[j].preserve => Unaccounted(j) = {} /\ WorkGone(j)

(* A cancelled attempt leaves files only if it had no workspace itself.      *)
Clean(j) ==
    Unaccounted(j) = {} /\ WorkGone(j) /\ (owner[j] # Absent => OwnerFile \in litter[j])

CancelKnows(j) ==
    LET a == attempt[j] IN
    /\ a.pc = "droplock" /\ a.outcome = "cancelled" => Clean(j)
    /\ a.pc = "finish" /\ a.outcome = "cancelled" /\ j \notin early => Clean(j)
    /\ state[j] = "cancelled" /\ j \notin early => Clean(j)

(* Partial files of a paused transfer are not touched before the next claim. *)
SavedKept(j) ==
    /\ saved[j] \subseteq part[j]
    /\ attempt[j].pc \in (Claiming \cup Fetching) \ {"claim"} => saved[j] = {}
    /\ attempt[j].pc = "dropfiles" /\ ~attempt[j].preserve => saved[j] = {}

Local(j) ==
    /\ AttemptKnows(j) /\ QueueKnows(j) /\ OwnerKnows(j) /\ FilesOwned(j) /\ FilesKnown(j)
    /\ CancelKnows(j) /\ SavedKept(j)

-----------------------------------------------------------------------------
(* The second part is about what the jobs share, the names.                  *)

(* As long as no clean-up took one, the reservation of an attempt is there,  *)
(* and what is published under its name while it holds it is its own.        *)
HoldersLocked ==
    ~stolen => \A j \in Jobs, n \in Names : Holds(j, n) => lock[n] = j

HeldIsFree ==
    ~stolen => \A j \in Jobs, n \in Names :
        Holds(j, n) /\ attempt[j].pc # "look" /\ final[n] # Absent => final[n].by \in {j, Stranger}

(* Whoever created a reservation that has not leaked still holds it, or has  *)
(* left a manifest by which the next start finds it.                         *)
LocksHaveHolders ==
    \A n \in Names \ leaked : lock[n] # Absent =>
        LET k == lock[n] IN
        IF up THEN Holds(k, n)
        ELSE state[k] = "running" /\ owner[k] \in Manifests /\ owner[k].name = n

(* What a job has published is on its way to "completed", or to be undone.   *)
PublishedByKnows ==
    \A n \in Names : final[n] # Absent =>
        /\ final[n].sound
        /\ \A j \in Jobs : final[n].by = j /\ crashes = 0 /\ n \notin standing =>
              \/ state[j] = "completed"
              \/ attempt[j].pc = "unlink" /\ attempt[j].name = n
              \/ /\ attempt[j].pc \in Dropping \cup {"release", "droplock", "finish"}
                 /\ attempt[j].outcome = "completed"

UndoIsOwn ==
    \A j \in Jobs : attempt[j].pc = "unlink" =>
        final[attempt[j].name] # Absent /\ final[attempt[j].name].by = j

Shared == HoldersLocked /\ HeldIsFree /\ LocksHaveHolders /\ PublishedByKnows /\ UndoIsOwn

IInv == Shape /\ (\A j \in Jobs : Local(j)) /\ Shared

-----------------------------------------------------------------------------
(* The steps of one job.                                                     *)
JobStep(j) ==
    \/ Start(j) \/ Requeue(j) \/ Cancel(j)
    \/ Analyze(j) \/ Reserve(j) \/ Look(j) \/ Claim(j) \/ RemoveStale(j)
    \/ CreateOwner(j) \/ FillOwner(j) \/ Sweep(j)
    \/ Fetch(j) \/ Transfer(j) \/ TransferEnds(j) \/ TransferStops(j)
    \/ Produce(j) \/ ProduceStops(j) \/ Verify(j)
    \/ Publish(j) \/ Unlink(j) \/ Release(j)
    \/ DropFiles(j) \/ DropUnlisted(j) \/ DropOwner(j) \/ DropLock(j) \/ Finish(j)

LEMMA NextCases ==
    ASSUME [Next]_vars
    PROVE  \/ \E j \in Jobs : JobStep(j)
           \/ \E n \in Names : StrangerCreates(n)
           \/ Crash \/ Reopen \/ UNCHANGED vars
  BY DEF Next, JobStep

(* Which steps of a job move which variables.                                *)
LEMMA Frame ==
    ASSUME NEW j \in Jobs, JobStep(j)
    PROVE  /\ UNCHANGED <<up, crashes>>
           /\ Start(j) \/ Requeue(j) \/ Cancel(j) \/ Finish(j)
              \/ UNCHANGED state
           /\ Start(j)
              \/ UNCHANGED attempts
           /\ Look(j) \/ RemoveStale(j) \/ Release(j) \/ DropLock(j) \/ Cancel(j)
              \/ UNCHANGED <<stolen, leaked>>
           /\ Reserve(j) \/ Look(j) \/ RemoveStale(j) \/ Release(j) \/ DropLock(j) \/
              Cancel(j)
              \/ UNCHANGED lock
           /\ Publish(j) \/ Unlink(j)
              \/ UNCHANGED final
           /\ RemoveStale(j) \/ CreateOwner(j) \/ FillOwner(j) \/ DropOwner(j) \/ Cancel(j)
              \/ UNCHANGED owner
           /\ RemoveStale(j) \/ Transfer(j) \/ TransferEnds(j) \/ DropFiles(j) \/ Cancel(j)
              \/ UNCHANGED part
           /\ RemoveStale(j) \/ Sweep(j) \/ TransferEnds(j) \/ DropFiles(j) \/
              DropUnlisted(j) \/ Cancel(j)
              \/ UNCHANGED whole
           /\ RemoveStale(j) \/ Sweep(j) \/ Produce(j) \/ ProduceStops(j) \/ Unlink(j) \/
              DropFiles(j) \/ DropUnlisted(j) \/ Cancel(j)
              \/ UNCHANGED work
           /\ Start(j) \/ Analyze(j) \/ Cancel(j)
              \/ UNCHANGED early
           /\ Claim(j) \/ TransferStops(j) \/ Cancel(j)
              \/ UNCHANGED saved
           /\ Look(j) \/ Unlink(j) \/ Release(j) \/ DropFiles(j) \/ DropUnlisted(j) \/
              DropOwner(j) \/ DropLock(j)
              \/ UNCHANGED faults
           /\ Claim(j) \/ DropFiles(j) \/ DropUnlisted(j) \/ DropOwner(j) \/ Cancel(j)
              \/ UNCHANGED litter
           /\ Unlink(j)
              \/ UNCHANGED standing
<1> USE DEF files, history, remains
<1>1. CASE Start(j) \/ Requeue(j)
  BY <1>1 DEF Start, Requeue
<1>2. CASE Cancel(j)
  BY <1>2 DEF Cancel
<1>3. CASE Analyze(j)
  BY <1>3 DEF Analyze
<1>4. CASE Reserve(j) \/ Look(j)
  BY <1>4 DEF Reserve, Look
<1>5. CASE Claim(j) \/ RemoveStale(j) \/ CreateOwner(j) \/ FillOwner(j) \/ Sweep(j)
  BY <1>5 DEF Claim, RemoveStale, CreateOwner, FillOwner, Sweep
<1>6. CASE Fetch(j) \/ Transfer(j) \/ TransferEnds(j) \/ TransferStops(j)
  BY <1>6 DEF Fetch, Transfer, TransferEnds, TransferStops
<1>7. CASE Produce(j) \/ ProduceStops(j) \/ Verify(j)
  BY <1>7 DEF Produce, ProduceStops, Verify
<1>8. CASE Publish(j) \/ Unlink(j) \/ Release(j)
  BY <1>8 DEF Publish, Unlink, Release
<1>9. CASE DropFiles(j) \/ DropUnlisted(j) \/ DropOwner(j) \/ DropLock(j) \/ Finish(j)
  BY <1>9 DEF DropFiles, DropUnlisted, DropOwner, DropLock, Finish
<1> QED
  BY <1>1, <1>2, <1>3, <1>4, <1>5, <1>6, <1>7, <1>8, <1>9 DEF JobStep

(* A step of one job leaves the attempts and files of the others alone.      *)
LEMMA OthersKept ==
    ASSUME Shape, NEW j \in Jobs, JobStep(j), NEW k \in Jobs, k # j
    PROVE  /\ attempt'[k] = attempt[k] /\ state'[k] = state[k] /\ litter'[k] = litter[k]
           /\ owner'[k] = owner[k] /\ part'[k] = part[k] /\ whole'[k] = whole[k]
           /\ work'[k] = work[k] /\ saved'[k] = saved[k] /\ (k \in early' <=> k \in early)
<1> USE DEF Shape
<1>1. attempt'[k] = attempt[k]
  <2>1. CASE Start(j) \/ Analyze(j)
    BY <2>1 DEF Start, Analyze, Live, Idle, At, Ends, WaysToStop, Told
  <2>2. CASE Reserve(j) \/ Look(j)
    BY <2>2 DEF Reserve, Look, At, Goto, TryNext
  <2>3. CASE Claim(j) \/ RemoveStale(j) \/ CreateOwner(j) \/ FillOwner(j) \/ Sweep(j)
    BY <2>3 DEF Claim, RemoveStale, CreateOwner, FillOwner, Sweep, At, Goto, Ends,
       PathsExist
  <2>4. CASE Fetch(j) \/ TransferEnds(j) \/ TransferStops(j)
    BY <2>4 DEF Fetch, TransferEnds, TransferStops, At, Told, SourceId, WaysToStop
  <2>5. CASE Produce(j) \/ ProduceStops(j) \/ Verify(j)
    BY <2>5 DEF Produce, ProduceStops, Verify, At, Goto, Ends, WaysToStop, Told
  <2>6. CASE Publish(j) \/ Unlink(j) \/ Release(j)
    BY <2>6 DEF Publish, Unlink, Release, At, Goto, Ends
  <2>7. CASE DropFiles(j) \/ DropUnlisted(j) \/ DropOwner(j) \/ DropLock(j) \/ Finish(j)
    BY <2>7 DEF DropFiles, DropUnlisted, DropOwner, DropLock, Finish, At, Goto, Idle
  <2>8. CASE Requeue(j) \/ Cancel(j) \/ Transfer(j)
    BY <2>8 DEF Requeue, Cancel, Transfer, Live, RemoveOwned, At, SourceId
  <2> QED
    BY <2>1, <2>2, <2>3, <2>4, <2>5, <2>6, <2>7, <2>8 DEF JobStep
<1>2. state'[k] = state[k]
  BY Frame DEF Start, Requeue, Cancel, RemoveOwned, Finish
<1>3. owner'[k] = owner[k]
  BY Frame DEF RemoveStale, CreateOwner, FillOwner, DropOwner, Cancel, RemoveOwned
<1>4. part'[k] = part[k]
  <2>1. CASE RemoveStale(j)
    BY <2>1 DEF RemoveStale, At, Goto
  <2>2. CASE Transfer(j) \/ TransferEnds(j)
    BY <2>2 DEF Transfer, TransferEnds, At, SourceId
  <2>3. CASE DropFiles(j)
    BY <2>3 DEF DropFiles, At, Goto
  <2>4. CASE Cancel(j)
    BY <2>4 DEF Cancel, Live, RemoveOwned
  <2> QED
    BY <2>1, <2>2, <2>3, <2>4, Frame
<1>5. whole'[k] = whole[k]
  <2>1. CASE RemoveStale(j) \/ Sweep(j) \/ TransferEnds(j)
    BY <2>1 DEF RemoveStale, Sweep, TransferEnds
  <2>2. CASE DropFiles(j) \/ Cancel(j)
    BY <2>2 DEF DropFiles, Cancel, RemoveOwned
  <2>3. CASE DropUnlisted(j)
    BY <2>3 DEF DropUnlisted
  <2> QED
    BY <2>1, <2>2, <2>3, Frame
<1>6. work'[k] = work[k]
  BY Frame DEF RemoveStale, Sweep, Produce, ProduceStops, Unlink, DropFiles,
     DropUnlisted, Cancel, RemoveOwned
<1>7. saved'[k] = saved[k]
  <2>1. CASE Claim(j)
    BY <2>1 DEF Claim, At, Goto, Ends, PathsExist
  <2>2. CASE TransferStops(j)
    BY <2>2 DEF TransferStops, At, WaysToStop, Told
  <2>3. CASE Cancel(j)
    BY <2>3 DEF Cancel, Live, RemoveOwned
  <2> QED
    BY <2>1, <2>2, <2>3, Frame
<1>8. k \in early' <=> k \in early
  <2>1. CASE Start(j)
    BY <2>1 DEF Start, Live, Idle
  <2>2. CASE Analyze(j)
    BY <2>2 DEF Analyze, At, Ends, WaysToStop, Told
  <2>3. CASE Cancel(j)
    BY <2>3 DEF Cancel, Live, RemoveOwned
  <2> QED
    BY <2>1, <2>2, <2>3, Frame
<1>9. litter'[k] = litter[k]
  BY Frame DEF Claim, Cancel, Reclaimed, DropFiles, DropUnlisted, DropOwner
<1> QED
  BY <1>1, <1>2, <1>3, <1>4, <1>5, <1>6, <1>7, <1>8, <1>9

-----------------------------------------------------------------------------
(* Types.                                                                    *)

LEMMA IdleIsAttempt ==
    /\ Idle \in Attempts
    /\ \A pc \in Positions : [Idle EXCEPT !.pc = pc] \in Attempts
<1>1. Idle.pc \in Positions /\ Idle.outcome \in Outcomes
  BY DEF Idle, Positions, Outcomes
<1>2. Idle \in Attempts
  BY <1>1 DEF Idle, Attempts
<1> QED
  BY <1>2 DEF Attempts

LEMMA NextName ==
    ASSUME Shape, NEW j \in Jobs, attempt[j].name \in Names, TryNext(j)
    PROVE  /\ attempt' \in [Jobs -> Attempts]
           /\ \/ /\ attempt[j].name + 1 \in Names
                 /\ attempt'[j] = [attempt[j] EXCEPT !.pc = "reserve", !.name = attempt[j].name + 1]
              \/ attempt'[j] = [attempt[j] EXCEPT !.pc = "finish", !.name = Absent,
                                                 !.outcome = "failed"]
<1>1. attempt \in [Jobs -> Attempts] /\ attempt[j] \in Attempts
  BY DEF Shape
<1>2. CASE attempt[j].name + 1 < MaxCollisions
  <2>1. attempt' = [attempt EXCEPT ![j] = [attempt[j] EXCEPT !.pc = "reserve",
                                                           !.name = attempt[j].name + 1]]
    BY <1>1, <1>2 DEF TryNext
  <2>2. attempt[j].name + 1 \in Names
    BY <1>2, WorkspaceAssumption DEF Names
  <2>3. [attempt[j] EXCEPT !.pc = "reserve", !.name = attempt[j].name + 1] \in Attempts
    BY <1>1, <2>2 DEF Attempts, Positions, Naming
  <2> QED
    BY <1>1, <2>1, <2>2, <2>3
<1>3. CASE ~(attempt[j].name + 1 < MaxCollisions)
  <2>1. attempt' = [attempt EXCEPT ![j] = [attempt[j] EXCEPT !.pc = "finish", !.name = Absent,
                                                           !.outcome = "failed"]]
    BY <1>3 DEF TryNext
  <2>2. [attempt[j] EXCEPT !.pc = "finish", !.name = Absent, !.outcome = "failed"] \in Attempts
    BY <1>1 DEF Attempts, Positions, Outcomes
  <2> QED
    BY <1>1, <2>1, <2>2
<1> QED
  BY <1>2, <1>3

LEMMA AttemptTyped ==
    ASSUME Shape, NEW j \in Jobs, AttemptKnows(j), JobStep(j)
    PROVE  attempt' \in [Jobs -> Attempts]
<1>1. attempt \in [Jobs -> Attempts] /\ attempt[j] \in Attempts
  BY DEF Shape
<1> USE <1>1 DEF Positions, Naming, Claiming, Fetching, Dropping
<1>2. CASE Start(j)
  BY <1>2, IdleIsAttempt DEF Start, Live, Idle
<1>3. CASE Analyze(j)
  BY <1>3, WorkspaceAssumption DEF Analyze, At, Ends, WaysToStop, Told, Attempts,
     Outcomes, AttemptKnows, Names
<1>4. CASE Reserve(j)
  <2>1. attempt[j].name \in Names
    BY <1>4 DEF Reserve, At, AttemptKnows
  <2>2. CASE TryNext(j)
    BY <2>1, <2>2, NextName
  <2>3. CASE ~TryNext(j)
    BY <1>4, <2>3 DEF Reserve, Goto, Attempts
  <2> QED
    BY <2>2, <2>3
<1>5. CASE Look(j)
  <2>1. attempt[j].name \in Names
    BY <1>5 DEF Look, At, AttemptKnows
  <2>2. CASE TryNext(j)
    BY <2>1, <2>2, NextName
  <2>3. CASE ~TryNext(j)
    BY <1>5, <2>3 DEF Look, Goto, Attempts
  <2> QED
    BY <2>2, <2>3
<1>6. CASE Claim(j)
  BY <1>6 DEF Claim, At, Goto, Ends, PathsExist, Attempts, Outcomes
<1>7. CASE RemoveStale(j) \/ CreateOwner(j) \/ FillOwner(j) \/ Sweep(j)
  BY <1>7 DEF RemoveStale, CreateOwner, FillOwner, Sweep, At, Goto, Attempts, Outcomes
<1>8. CASE Fetch(j)
  <2> DEFINE done == attempt[j].source > Sources[attempt[j].format]
             keep == attempt[j].preserve /\ ~done
  <2>1. keep \in BOOLEAN
    OBVIOUS
  <2>2. CASE attempt' = [attempt EXCEPT ![j].pc = IF done THEN "produce" ELSE "transfer",
                                        ![j].preserve = keep]
    <3> HIDE DEF done, keep
    <3> QED
      BY <2>1, <2>2 DEF Attempts
  <2>3. CASE \E outcome \in Told :
               attempt' = [attempt EXCEPT ![j].pc = "dropfiles", ![j].preserve = keep,
                                          ![j].outcome = outcome]
    <3>1. PICK outcome \in Told :
              attempt' = [attempt EXCEPT ![j].pc = "dropfiles", ![j].preserve = keep,
                                         ![j].outcome = outcome]
      BY <2>3
    <3>2. outcome \in Outcomes
      BY DEF Told, Outcomes
    <3> HIDE DEF done, keep
    <3> QED
      BY <2>1, <3>1, <3>2 DEF Attempts
  <2> QED
    BY <1>8, <2>2, <2>3 DEF Fetch
<1>9. CASE TransferEnds(j)
  BY <1>9, WorkspaceAssumption DEF TransferEnds, At, SourceId, Attempts, Outcomes,
     AttemptKnows
<1>10. CASE TransferStops(j)
  <2>1. PICK outcome \in WaysToStop :
            attempt' = [attempt EXCEPT ![j].pc = "dropfiles", ![j].outcome = outcome,
                                       ![j].preserve = (outcome # "cancelled")]
    BY <1>10 DEF TransferStops
  <2>2. outcome \in Outcomes /\ (outcome # "cancelled") \in BOOLEAN
    BY DEF WaysToStop, Told, Outcomes
  <2> QED
    BY <2>1, <2>2 DEF Attempts
<1>11. CASE Produce(j) \/ ProduceStops(j) \/ Verify(j)
  BY <1>11 DEF Produce, ProduceStops, Verify, At, Goto, Ends, WaysToStop, Told,
     Attempts, Outcomes
<1>12. CASE Publish(j) \/ Unlink(j) \/ Release(j)
  BY <1>12 DEF Publish, Unlink, Release, At, Goto, Ends, Attempts, Outcomes
<1>13. CASE DropFiles(j) \/ DropUnlisted(j) \/ DropOwner(j)
  BY <1>13 DEF DropFiles, DropUnlisted, DropOwner, At, Goto, Attempts, Outcomes
<1>14. CASE DropLock(j)
  <2>1. attempt' = [attempt EXCEPT
                       ![j] = [Idle EXCEPT !.pc = "finish", !.outcome = attempt[j].outcome]]
    BY <1>14 DEF DropLock
  <2>2. [Idle EXCEPT !.pc = "finish", !.outcome = attempt[j].outcome] \in Attempts
    BY IdleIsAttempt DEF Attempts
  <2> QED
    BY <2>1, <2>2
<1>15. CASE Finish(j)
  BY <1>15, IdleIsAttempt DEF Finish
<1>16. CASE Requeue(j) \/ Cancel(j) \/ Transfer(j)
  BY <1>16 DEF Requeue, Cancel, Transfer
<1> QED
  BY <1>2, <1>3, <1>4, <1>5, <1>6, <1>7, <1>8, <1>9, <1>10, <1>11, <1>12, <1>13, <1>14,
     <1>15, <1>16 DEF JobStep

(* A manifest of a file of the job's format.                                 *)
LEMMA ManifestMade ==
    ASSUME Shape, NEW j \in Jobs, AttemptKnows(j), At(j, "fill")
    PROVE  [name |-> attempt[j].name, format |-> attempt[j].format] \in Manifests
  BY DEF AttemptKnows, At, Claiming, Manifests

(* The source a transfer works on.                                           *)
LEMMA SourceIsOne ==
    ASSUME Shape, NEW j \in Jobs, AttemptKnows(j), At(j, "transfer")
    PROVE  SourceId(j) \in SourcesOf(attempt[j].format) /\ SourceId(j) \in SourceIds
<1>1. /\ attempt[j].format \in Formats /\ attempt[j].source \in 1 .. 3
      /\ attempt[j].source <= Sources[attempt[j].format]
  BY DEF AttemptKnows, At, Fetching, Shape, Attempts
<1>2. attempt[j].source \in 1 .. Sources[attempt[j].format]
  BY <1>1, WorkspaceAssumption
<1> QED
  BY <1>1, <1>2 DEF SourceId, SourcesOf, SourceIds

LEMMA FilesTyped ==
    ASSUME Shape, NEW j \in Jobs, AttemptKnows(j), JobStep(j)
    PROVE  /\ owner' \in [Jobs -> Manifests \cup {Absent, Torn}]
           /\ part' \in [Jobs -> SUBSET SourceIds] /\ whole' \in [Jobs -> SUBSET SourceIds]
           /\ work' \in [Jobs -> {"sound", "unsound", Absent}]
           /\ saved' \in [Jobs -> SUBSET SourceIds]
           /\ litter' \in [Jobs -> SUBSET (SourceIds \cup {Work, OwnerFile})]
<1> USE DEF Shape
<1>1. owner' \in [Jobs -> Manifests \cup {Absent, Torn}]
  <2>1. CASE RemoveStale(j)
    BY <2>1 DEF RemoveStale, At, Goto
  <2>2. CASE CreateOwner(j)
    BY <2>2 DEF CreateOwner, At, Goto
  <2>3. CASE FillOwner(j)
    BY <2>3, ManifestMade DEF FillOwner, At, Goto
  <2>4. CASE DropOwner(j)
    BY <2>4 DEF DropOwner, At, Goto
  <2>5. CASE Cancel(j)
    BY <2>5 DEF Cancel, Live, RemoveOwned
  <2> QED
    BY <2>1, <2>2, <2>3, <2>4, <2>5, Frame
<1>2. part' \in [Jobs -> SUBSET SourceIds]
  <2>1. CASE RemoveStale(j)
    BY <2>1 DEF RemoveStale, At, Goto
  <2>2. CASE Transfer(j)
    BY <2>2, SourceIsOne DEF Transfer, At, SourceId
  <2>3. CASE TransferEnds(j)
    BY <2>3 DEF TransferEnds, At, SourceId
  <2>4. CASE DropFiles(j)
    BY <2>4 DEF DropFiles, At, Goto
  <2>5. CASE Cancel(j)
    BY <2>5 DEF Cancel, Live, RemoveOwned
  <2> QED
    BY <2>1, <2>2, <2>3, <2>4, <2>5, Frame
<1>3. whole' \in [Jobs -> SUBSET SourceIds]
  <2>1. CASE RemoveStale(j)
    BY <2>1 DEF RemoveStale, At, Goto
  <2>2. CASE Sweep(j)
    BY <2>2 DEF Sweep, At, Goto
  <2>3. CASE TransferEnds(j)
    BY <2>3, SourceIsOne DEF TransferEnds, At, SourceId
  <2>4. CASE DropFiles(j) \/ DropUnlisted(j)
    BY <2>4 DEF DropFiles, DropUnlisted, At, Goto
  <2>5. CASE Cancel(j)
    BY <2>5 DEF Cancel, Live, RemoveOwned
  <2> QED
    BY <2>1, <2>2, <2>3, <2>4, <2>5, Frame
<1>4. work' \in [Jobs -> {"sound", "unsound", Absent}]
  <2>1. CASE RemoveStale(j)
    BY <2>1 DEF RemoveStale, At, Goto
  <2>2. CASE Sweep(j)
    BY <2>2 DEF Sweep, At, Goto
  <2>3. CASE Produce(j)
    BY <2>3 DEF Produce, At, Goto
  <2>4. CASE ProduceStops(j)
    BY <2>4 DEF ProduceStops, At, Ends, WaysToStop, Told
  <2>5. CASE Unlink(j)
    BY <2>5 DEF Unlink, At, Ends
  <2>6. CASE DropFiles(j) \/ DropUnlisted(j)
    BY <2>6 DEF DropFiles, DropUnlisted, At, Goto
  <2>7. CASE Cancel(j)
    BY <2>7 DEF Cancel, Live, RemoveOwned
  <2> QED
    BY <2>1, <2>2, <2>3, <2>4, <2>5, <2>6, <2>7, Frame
<1>5. saved' \in [Jobs -> SUBSET SourceIds]
  <2>1. CASE Claim(j)
    BY <2>1 DEF Claim, At, Goto, Ends, PathsExist
  <2>2. CASE TransferStops(j)
    BY <2>2 DEF TransferStops, At, WaysToStop, Told
  <2>3. CASE Cancel(j)
    BY <2>3 DEF Cancel, Live, RemoveOwned
  <2> QED
    BY <2>1, <2>2, <2>3, Frame
<1>6. litter' \in [Jobs -> SUBSET (SourceIds \cup {Work, OwnerFile})]
  <2>1. CASE Claim(j) \/ Cancel(j)
    BY <2>1 DEF Claim, Cancel, Reclaimed
  <2>2. CASE DropFiles(j)
    <3>1. Dropped(j) \subseteq SourceIds \cup {Work, OwnerFile}
      BY DEF Dropped
    <3> QED
      BY <2>2, <3>1 DEF DropFiles
  <2>3. CASE DropUnlisted(j) \/ DropOwner(j)
    BY <2>3 DEF DropUnlisted, DropOwner
  <2> QED
    BY <2>1, <2>2, <2>3, Frame
<1> QED
  BY <1>1, <1>2, <1>3, <1>4, <1>5, <1>6

LEMMA MishapsAreCounted ==
    ASSUME Shape
    PROVE  Mishaps < MaxMishaps => crashes + 1 <= MaxMishaps /\ faults + 1 <= MaxMishaps
<1> DEFINE theirs == {n \in Names : final[n] # Absent /\ final[n].by = Stranger}
<1>1. IsFiniteSet(Names)
  BY FS_Interval, WorkspaceAssumption DEF Names
<1>2. Cardinality(theirs) \in Nat
  BY <1>1, FS_Subset, FS_CardinalityType
<1> QED
  BY <1>2, WorkspaceAssumption DEF Mishaps, Shape

LEMMA SharedTyped ==
    ASSUME Shape, NEW j \in Jobs, AttemptKnows(j), OwnerKnows(j), JobStep(j)
    PROVE  /\ lock' \in [Names -> Jobs \cup {Absent}]
           /\ final' \in [Names -> Published \cup {Absent}]
           /\ stolen' \in BOOLEAN /\ leaked' \subseteq Names
           /\ early' \subseteq Jobs
           /\ faults' \in 0 .. MaxMishaps /\ standing' \subseteq Names
<1> USE DEF Shape
<1>1. lock' \in [Names -> Jobs \cup {Absent}]
  <2>1. CASE Reserve(j)
    BY <2>1 DEF Reserve, At, Goto, TryNext, GiveUpReservation, RemoveReservation,
       RemoveNamedReservation
  <2>2. CASE Look(j) \/ Release(j) \/ DropLock(j)
    BY <2>2 DEF Look, Release, DropLock, At, Goto, TryNext, Idle, GiveUpReservation,
       RemoveReservation, RemoveNamedReservation
  <2>3. CASE RemoveStale(j) \/ Cancel(j)
    BY <2>3 DEF RemoveStale, Cancel, At, Goto, Live, RemoveOwned, GiveUpReservation,
       RemoveReservation, RemoveNamedReservation
  <2> QED
    BY <2>1, <2>2, <2>3, Frame
<1>2. final' \in [Names -> Published \cup {Absent}]
  <2>1. CASE Publish(j)
    <3>1. [by |-> j, sound |-> work[j] = "sound"] \in Published
      <4>1. (work[j] = "sound") \in BOOLEAN
        OBVIOUS
      <4> QED
        BY <4>1 DEF Published
    <3>2. CASE final' = [final EXCEPT ![attempt[j].name] = [by |-> j, sound |-> work[j] = "sound"]]
      BY <3>1, <3>2
    <3> QED
      BY <2>1, <3>2 DEF Publish
  <2>2. CASE Unlink(j)
    BY <2>2 DEF Unlink
  <2> QED
    BY <2>1, <2>2, Frame
<1>3. stolen' \in BOOLEAN /\ leaked' \subseteq Names
  <2>1. CASE Look(j) \/ Release(j) \/ DropLock(j)
    <3>1. \/ UNCHANGED <<stolen, leaked>>
          \/ GiveUpReservation(j) /\ attempt[j].name \in Names
      <4>1. CASE Look(j) \/ Release(j)
        BY <4>1 DEF Look, Release, At, AttemptKnows, Naming, Fetching
      <4>2. CASE DropLock(j)
        BY <4>2 DEF DropLock, Attempts
      <4> QED
        BY <2>1, <4>1, <4>2
    <3> QED
      BY <3>1 DEF GiveUpReservation, RemoveReservation
  <2>2. CASE RemoveStale(j) \/ Cancel(j)
    BY <2>2 DEF RemoveStale, Cancel, At, Goto, Live, RemoveOwned, GiveUpReservation,
       RemoveReservation, RemoveNamedReservation
  <2> QED
    BY <2>1, <2>2, Frame
<1>4. early' \subseteq Jobs
  <2>1. CASE Start(j)
    BY <2>1 DEF Start, Live, Idle
  <2>2. CASE Analyze(j)
    BY <2>2 DEF Analyze, At, Ends, WaysToStop, Told
  <2>3. CASE Cancel(j)
    BY <2>3 DEF Cancel, Live, RemoveOwned
  <2> QED
    BY <2>1, <2>2, <2>3, Frame
<1>5. faults' \in 0 .. MaxMishaps
  <2>1. Fault => faults' \in 0 .. MaxMishaps
    BY MishapsAreCounted, WorkspaceAssumption DEF Fault
  <2>2. CASE Look(j) \/ Release(j) \/ DropLock(j)
    BY <2>1, <2>2 DEF Look, Release, DropLock, GiveUpReservation
  <2>3. CASE Unlink(j) \/ DropFiles(j) \/ DropUnlisted(j) \/ DropOwner(j)
    BY <2>1, <2>3 DEF Unlink, DropFiles, DropUnlisted, DropOwner
  <2> QED
    BY <2>2, <2>3, Frame
<1>6. standing' \subseteq Names
  <2>1. CASE Unlink(j)
    <3>1. attempt[j].name \in Names
      BY <2>1 DEF Unlink, At, AttemptKnows, Fetching
    <3> QED
      BY <2>1, <3>1 DEF Unlink
  <2> QED
    BY <2>1, Frame
<1> QED
  BY <1>1, <1>2, <1>3, <1>4, <1>5, <1>6

LEMMA QueueTyped ==
    ASSUME Shape, NEW j \in Jobs, AttemptKnows(j), JobStep(j)
    PROVE  /\ state' \in [Jobs -> JobStates]
           /\ attempts' \in 0 .. MaxAttempts
<1> USE DEF Shape
<1>1. state' \in [Jobs -> JobStates]
  <2>1. CASE Start(j) \/ Requeue(j) \/ Cancel(j)
    <3>1. \E how \in {"running", "queued", "cancelled"} : state' = [state EXCEPT ![j] = how]
      BY <2>1 DEF Start, Requeue, Cancel
    <3> QED
      BY <3>1 DEF JobStates
  <2>2. CASE Finish(j)
    BY <2>2 DEF Finish, At, Idle, JobStates, AttemptKnows, Attempts, Outcomes
  <2> QED
    BY <2>1, <2>2, Frame
<1>2. attempts' \in 0 .. MaxAttempts
  <2>1. CASE Start(j)
    BY <2>1, WorkspaceAssumption DEF Start, Live, Idle
  <2> QED
    BY <2>1, Frame
<1> QED
  BY <1>1, <1>2

LEMMA ShapeStep ==
    ASSUME Shape, \A j \in Jobs : Local(j), [Next]_vars
    PROVE  Shape'
<1>1. ASSUME NEW j \in Jobs, JobStep(j) PROVE Shape'
  <2>1. AttemptKnows(j) /\ OwnerKnows(j)
    BY DEF Local
  <2>2. UNCHANGED <<up, crashes>>
    BY <1>1, Frame
  <2> QED
    BY <1>1, <2>1, <2>2, AttemptTyped, FilesTyped, SharedTyped, QueueTyped DEF Shape
<1>2. ASSUME NEW n \in Names, StrangerCreates(n) PROVE Shape'
  <2>1. final' \in [Names -> Published \cup {Absent}]
    BY <1>2 DEF StrangerCreates, Shape, Published
  <2> QED
    BY <1>2, <2>1 DEF StrangerCreates, Shape, history, remains
<1>3. CASE Crash
  <2>1. crashes' \in 0 .. MaxMishaps
    BY <1>3, MishapsAreCounted, WorkspaceAssumption DEF Crash, Shape
  <2>2. attempt' \in [Jobs -> Attempts]
    BY <1>3, IdleIsAttempt DEF Crash
  <2>3. leaked' \subseteq Names /\ up' \in BOOLEAN
    BY <1>3 DEF Crash, Shape
  <2> QED
    BY <1>3, <2>1, <2>2, <2>3 DEF Crash, Shape, files, remains
<1>4. CASE Reopen
  <2>1. state' \in [Jobs -> JobStates]
    BY <1>4 DEF Reopen, Shape, JobStates
  <2>2. lock' \in [Names -> Jobs \cup {Absent}] /\ leaked' \subseteq Names
    BY <1>4 DEF Reopen, Shape
  <2>3. whole' \in [Jobs -> SUBSET SourceIds]
    BY <1>4 DEF Reopen, Shape
  <2>4. work' \in [Jobs -> {"sound", "unsound", Absent}] /\ up' \in BOOLEAN
    BY <1>4 DEF Reopen, Shape
  <2> QED
    BY <1>4, <2>1, <2>2, <2>3, <2>4 DEF Reopen, Shape, remains
<1>5. CASE UNCHANGED vars
  BY <1>5 DEF vars, files, history, remains, Shape
<1> QED
  BY <1>1, <1>2, <1>3, <1>4, <1>5, NextCases

-----------------------------------------------------------------------------
(* What a step of a job does to what its own attempt relies on.              *)

(* Where each step finds the attempt and where it leaves it.                 *)
LEMMA Moves ==
    ASSUME Shape, NEW j \in Jobs, AttemptKnows(j)
    PROVE  /\ attempt[j] \in Attempts
           /\ Start(j) => /\ attempt[j].pc = "idle"
                          /\ attempt'[j] = [Idle EXCEPT !.pc = "analyze"]
           /\ Requeue(j) \/ Cancel(j) => attempt[j].pc = "idle" /\ attempt' = attempt
           /\ Analyze(j) =>
                 /\ attempt[j].pc = "analyze"
                 /\ \/ /\ early' = early
                       /\ \E f \in Formats :
                            attempt'[j] = [attempt[j] EXCEPT !.pc = "reserve", !.name = 0,
                                                             !.format = f]
                    \/ \E o \in {"failed", "paused", "cancelled"} :
                         /\ attempt'[j] = [attempt[j] EXCEPT !.pc = "finish", !.outcome = o]
                         /\ o = "cancelled" => j \in early'
           /\ Reserve(j) => attempt[j].pc = "reserve" /\ attempt[j].name \in Names
           /\ Look(j) => attempt[j].pc = "look" /\ attempt[j].name \in Names
           /\ RemoveStale(j) => /\ attempt[j].pc = "stale"
                                /\ attempt'[j] = [attempt[j] EXCEPT !.pc = "create"]
           /\ CreateOwner(j) => /\ attempt[j].pc = "create"
                                /\ attempt'[j] = [attempt[j] EXCEPT !.pc = "fill"]
           /\ FillOwner(j) => /\ attempt[j].pc = "fill"
                              /\ attempt'[j] = [attempt[j] EXCEPT !.pc = "sweep"]
           /\ Sweep(j) => /\ attempt[j].pc = "sweep"
                          /\ attempt'[j] = [attempt[j] EXCEPT !.pc = "fetch"]
           /\ Transfer(j) => attempt[j].pc = "transfer" /\ attempt' = attempt
           /\ TransferEnds(j) =>
                 /\ attempt[j].pc = "transfer"
                 /\ attempt'[j] = [attempt[j] EXCEPT !.pc = "fetch",
                                                     !.source = attempt[j].source + 1]
           /\ TransferStops(j) =>
                 /\ attempt[j].pc = "transfer"
                 /\ \E o \in {"failed", "paused", "cancelled"} :
                      /\ attempt'[j] = [attempt[j] EXCEPT !.pc = "dropfiles", !.outcome = o,
                                                          !.preserve = (o # "cancelled")]
                      /\ saved'[j] = IF o = "paused" THEN part[j] ELSE saved[j]
           /\ Produce(j) => /\ attempt[j].pc = "produce"
                            /\ attempt'[j] = [attempt[j] EXCEPT !.pc = "verify"]
           /\ ProduceStops(j) =>
                 /\ attempt[j].pc = "produce"
                 /\ \E o \in {"failed", "paused", "cancelled"} :
                      attempt'[j] = [attempt[j] EXCEPT !.pc = "dropfiles", !.outcome = o]
           /\ Verify(j) =>
                 /\ attempt[j].pc = "verify"
                 /\ \/ /\ work[j] = "sound"
                       /\ attempt'[j] = [attempt[j] EXCEPT !.pc = "publish"]
                    \/ \E o \in {"failed", "paused", "cancelled"} :
                         attempt'[j] = [attempt[j] EXCEPT !.pc = "dropfiles", !.outcome = o]
           /\ Release(j) => /\ attempt[j].pc = "release"
                            /\ attempt'[j] = [attempt[j] EXCEPT !.pc = "dropfiles",
                                                                !.name = Absent]
           /\ DropFiles(j) => /\ attempt[j].pc = "dropfiles"
                              /\ attempt'[j] = [attempt[j] EXCEPT !.pc = "disown"]
           /\ DropUnlisted(j) =>
                 /\ attempt[j].pc = "dropfiles"
                 /\ attempt'[j] = [attempt[j] EXCEPT !.pc = "droplock"]
           /\ DropOwner(j) => /\ attempt[j].pc = "disown"
                              /\ attempt'[j] = [attempt[j] EXCEPT !.pc = "droplock"]
           /\ DropLock(j) => /\ attempt[j].pc = "droplock"
                             /\ attempt'[j] = [Idle EXCEPT !.pc = "finish",
                                                           !.outcome = attempt[j].outcome]
           /\ Finish(j) => attempt[j].pc = "finish" /\ attempt'[j] = Idle
<1>1. attempt \in [Jobs -> Attempts] /\ attempt[j] \in Attempts
  BY DEF Shape
<1>2. WaysToStop \subseteq {"failed", "paused", "cancelled"}
  BY DEF WaysToStop, Told
<1> USE <1>1
<1>3. Start(j) => attempt[j].pc = "idle" /\ attempt'[j] = [Idle EXCEPT !.pc = "analyze"]
  BY DEF Start, Live
<1>4. Requeue(j) \/ Cancel(j) => attempt[j].pc = "idle" /\ attempt' = attempt
  BY DEF Requeue, Cancel, Live
<1>6. Analyze(j) =>
         /\ attempt[j].pc = "analyze"
         /\ \/ /\ early' = early
               /\ \E f \in Formats :
                    attempt'[j] = [attempt[j] EXCEPT !.pc = "reserve", !.name = 0,
                                                     !.format = f]
            \/ \E o \in {"failed", "paused", "cancelled"} :
                 /\ attempt'[j] = [attempt[j] EXCEPT !.pc = "finish", !.outcome = o]
                 /\ o = "cancelled" => j \in early'
  <2> SUFFICES ASSUME Analyze(j), ~(\E f \in Formats :
                         /\ early' = early
                         /\ attempt' = [attempt EXCEPT ![j].pc = "reserve", ![j].name = 0,
                                                       ![j].format = f])
               PROVE  \E o \in {"failed", "paused", "cancelled"} :
                         /\ attempt'[j] = [attempt[j] EXCEPT !.pc = "finish", !.outcome = o]
                         /\ o = "cancelled" => j \in early'
    BY DEF Analyze, At
  <2>1. PICK o \in WaysToStop :
            /\ attempt' = [attempt EXCEPT ![j].outcome = o, ![j].pc = "finish"]
            /\ early' = IF o = "cancelled" THEN early \cup {j} ELSE early
    BY DEF Analyze, Ends
  <2>2. /\ o \in {"failed", "paused", "cancelled"}
        /\ attempt'[j] = [attempt[j] EXCEPT !.pc = "finish", !.outcome = o]
        /\ o = "cancelled" => j \in early'
    BY <1>2, <2>1
  <2> QED
    BY <2>2
<1>7. /\ Reserve(j) => attempt[j].pc = "reserve" /\ attempt[j].name \in Names
      /\ Look(j) => attempt[j].pc = "look" /\ attempt[j].name \in Names
  BY DEF Reserve, Look, At, AttemptKnows, Naming
<1>8. /\ RemoveStale(j) => /\ attempt[j].pc = "stale"
                           /\ attempt'[j] = [attempt[j] EXCEPT !.pc = "create"]
      /\ CreateOwner(j) => /\ attempt[j].pc = "create"
                           /\ attempt'[j] = [attempt[j] EXCEPT !.pc = "fill"]
      /\ FillOwner(j) => /\ attempt[j].pc = "fill"
                         /\ attempt'[j] = [attempt[j] EXCEPT !.pc = "sweep"]
      /\ Sweep(j) => /\ attempt[j].pc = "sweep"
                     /\ attempt'[j] = [attempt[j] EXCEPT !.pc = "fetch"]
  BY DEF RemoveStale, CreateOwner, FillOwner, Sweep, At, Goto
<1>9. /\ Transfer(j) => attempt[j].pc = "transfer" /\ attempt' = attempt
      /\ TransferEnds(j) =>
            /\ attempt[j].pc = "transfer"
            /\ attempt'[j] = [attempt[j] EXCEPT !.pc = "fetch",
                                                !.source = attempt[j].source + 1]
  BY DEF Transfer, TransferEnds, At
<1>10. TransferStops(j) =>
          /\ attempt[j].pc = "transfer"
          /\ \E o \in {"failed", "paused", "cancelled"} :
               /\ attempt'[j] = [attempt[j] EXCEPT !.pc = "dropfiles", !.outcome = o,
                                                   !.preserve = (o # "cancelled")]
               /\ saved'[j] = IF o = "paused" THEN part[j] ELSE saved[j]
  BY <1>2 DEF TransferStops, At, Shape
<1>11. /\ Produce(j) => /\ attempt[j].pc = "produce"
                        /\ attempt'[j] = [attempt[j] EXCEPT !.pc = "verify"]
       /\ ProduceStops(j) =>
             /\ attempt[j].pc = "produce"
             /\ \E o \in {"failed", "paused", "cancelled"} :
                  attempt'[j] = [attempt[j] EXCEPT !.pc = "dropfiles", !.outcome = o]
  <2>1. Produce(j) => /\ attempt[j].pc = "produce"
                      /\ attempt'[j] = [attempt[j] EXCEPT !.pc = "verify"]
    BY DEF Produce, At, Goto
  <2>2. ASSUME ProduceStops(j)
        PROVE  /\ attempt[j].pc = "produce"
               /\ \E o \in {"failed", "paused", "cancelled"} :
                    attempt'[j] = [attempt[j] EXCEPT !.pc = "dropfiles", !.outcome = o]
    <3>1. PICK o \in WaysToStop : Ends(j, o, "dropfiles")
      BY <2>2 DEF ProduceStops
    <3>2. /\ o \in {"failed", "paused", "cancelled"}
          /\ attempt'[j] = [attempt[j] EXCEPT !.pc = "dropfiles", !.outcome = o]
      BY <1>2, <3>1 DEF Ends
    <3> QED
      BY <2>2, <3>2 DEF ProduceStops, At
  <2> QED
    BY <2>1, <2>2
<1>12. Verify(j) =>
          /\ attempt[j].pc = "verify"
          /\ \/ /\ work[j] = "sound"
                /\ attempt'[j] = [attempt[j] EXCEPT !.pc = "publish"]
             \/ \E o \in {"failed", "paused", "cancelled"} :
                  attempt'[j] = [attempt[j] EXCEPT !.pc = "dropfiles", !.outcome = o]
  <2>1. CASE Verify(j) /\ work[j] = "sound" /\ Goto(j, "publish")
    BY <2>1 DEF Verify, At, Goto
  <2>2. ASSUME Verify(j), NEW o \in WaysToStop, Ends(j, o, "dropfiles")
        PROVE  \E p \in {"failed", "paused", "cancelled"} :
                  attempt'[j] = [attempt[j] EXCEPT !.pc = "dropfiles", !.outcome = p]
    <3>1. /\ o \in {"failed", "paused", "cancelled"}
          /\ attempt'[j] = [attempt[j] EXCEPT !.pc = "dropfiles", !.outcome = o]
      BY <1>2, <2>2 DEF Ends
    <3> QED
      BY <3>1
  <2> QED
    BY <2>1, <2>2 DEF Verify, At
<1>13. /\ Release(j) => /\ attempt[j].pc = "release"
                        /\ attempt'[j] = [attempt[j] EXCEPT !.pc = "dropfiles",
                                                            !.name = Absent]
       /\ DropFiles(j) => /\ attempt[j].pc = "dropfiles"
                          /\ attempt'[j] = [attempt[j] EXCEPT !.pc = "disown"]
       /\ DropOwner(j) => /\ attempt[j].pc = "disown"
                          /\ attempt'[j] = [attempt[j] EXCEPT !.pc = "droplock"]
       /\ DropUnlisted(j) => /\ attempt[j].pc = "dropfiles"
                             /\ attempt'[j] = [attempt[j] EXCEPT !.pc = "droplock"]
  BY DEF Release, DropFiles, DropUnlisted, DropOwner, At, Goto
<1>14. /\ DropLock(j) => /\ attempt[j].pc = "droplock"
                         /\ attempt'[j] = [Idle EXCEPT !.pc = "finish",
                                                       !.outcome = attempt[j].outcome]
       /\ Finish(j) => attempt[j].pc = "finish" /\ attempt'[j] = Idle
  BY DEF DropLock, Finish, At
<1> QED
  BY <1>3, <1>4, <1>6, <1>7, <1>8, <1>9, <1>10, <1>11, <1>12, <1>13, <1>14

(* The work file and the manifest are not sources.                           *)
LEMMA NotSources == Work \notin SourceIds /\ OwnerFile \notin SourceIds
  BY DEF Work, OwnerFile, SourceIds

LEMMA StartKeepsLocal ==
    ASSUME Shape, NEW j \in Jobs, Local(j), Start(j)
    PROVE  Local(j)'
<1> USE DEF Local
<1>1. /\ attempt[j].pc = "idle" /\ attempt'[j] = [Idle EXCEPT !.pc = "analyze"]
  BY Moves
<1>2. /\ state'[j] = "running"
      /\ ~(j \in early')
  BY <1>1 DEF Start, Shape
<1>3. /\ owner'[j] = owner[j] /\ part'[j] = part[j] /\ whole'[j] = whole[j]
      /\ work'[j] = work[j] /\ saved'[j] = saved[j]
      /\ up' = up /\ attempt[j] \in Attempts /\ litter'[j] = litter[j]
  BY Frame, Moves DEF Start, Shape, JobStep, history, remains, files
<1>4. AttemptKnows(j)'
    BY <1>1, <1>2, <1>3 DEF AttemptKnows, Naming, Claiming, Fetching, Dropping, Idle,
     Attempts
<1>5. QueueKnows(j)'
    BY <1>1, <1>2, <1>3 DEF QueueKnows, Start, Live, Idle, Attempts
<1>6. OwnerKnows(j)'
    BY <1>1, <1>2, <1>3 DEF OwnerKnows, Fetching, Dropping, Idle, Attempts
<1>7. FilesOwned(j)'
    BY <1>1, <1>2, <1>3 DEF FilesOwned, Idle, Attempts, Unaccounted, WorkGone
<1>8. FilesKnown(j)'
    BY <1>1, <1>2, <1>3 DEF FilesKnown, Idle, Attempts, Unaccounted, WorkGone
<1>9. CancelKnows(j)'
    BY <1>1, <1>2, <1>3 DEF CancelKnows, Idle, Attempts, Clean, Unaccounted, WorkGone
<1>10. SavedKept(j)'
    BY <1>1, <1>2, <1>3 DEF SavedKept, Claiming, Fetching, Idle, Attempts
<1> QED
  BY <1>4, <1>5, <1>6, <1>7, <1>8, <1>9, <1>10

LEMMA RequeueKeepsLocal ==
    ASSUME Shape, NEW j \in Jobs, Local(j), Requeue(j)
    PROVE  Local(j)'
<1> USE DEF Local
<1>1. /\ attempt[j].pc = "idle" /\ attempt'[j] = attempt[j]
  BY Moves
<1>2. /\ state'[j] = "queued"
  BY <1>1 DEF Requeue, Shape
<1>3. /\ owner'[j] = owner[j] /\ part'[j] = part[j] /\ whole'[j] = whole[j]
      /\ work'[j] = work[j] /\ saved'[j] = saved[j] /\ (j \in early' <=> j \in early)
      /\ up' = up /\ attempt[j] \in Attempts /\ litter'[j] = litter[j]
  BY Frame, Moves DEF Requeue, Shape, JobStep, history, remains, files
<1>4. AttemptKnows(j)'
    BY <1>1, <1>2, <1>3 DEF AttemptKnows, Naming, Claiming, Fetching, Dropping
<1>5. QueueKnows(j)'
    BY <1>1, <1>2, <1>3 DEF QueueKnows, Live
<1>6. OwnerKnows(j)'
    BY <1>1, <1>2, <1>3 DEF OwnerKnows, Fetching, Dropping
<1>7. FilesOwned(j)'
    BY <1>1, <1>2, <1>3 DEF FilesOwned, Unaccounted, WorkGone
<1>8. FilesKnown(j)'
    BY <1>1, <1>2, <1>3 DEF FilesKnown, Unaccounted, WorkGone
<1>9. CancelKnows(j)'
    BY <1>1, <1>2, <1>3 DEF CancelKnows, Clean, Unaccounted, WorkGone
<1>10. SavedKept(j)'
    BY <1>1, <1>2, <1>3 DEF SavedKept, Claiming, Fetching
<1> QED
  BY <1>4, <1>5, <1>6, <1>7, <1>8, <1>9, <1>10

LEMMA TransferKeepsLocal ==
    ASSUME Shape, NEW j \in Jobs, Local(j), Transfer(j)
    PROVE  Local(j)'
<1> USE DEF Local
<1>1. /\ attempt[j].pc = "transfer" /\ attempt'[j] = attempt[j]
  BY Moves
<1>2. /\ part'[j] = part[j] \cup {SourceId(j)}
  BY <1>1 DEF Transfer, Shape
<1>3. /\ state'[j] = state[j] /\ owner'[j] = owner[j] /\ whole'[j] = whole[j]
      /\ work'[j] = work[j] /\ saved'[j] = saved[j] /\ (j \in early' <=> j \in early)
      /\ up' = up /\ attempt[j] \in Attempts /\ litter'[j] = litter[j]
  BY Frame, Moves DEF Transfer, Shape, JobStep, history, remains, files
<1>4. AttemptKnows(j)'
    BY <1>1, <1>2, <1>3 DEF AttemptKnows, Naming, Claiming, Fetching, Dropping
<1>5. QueueKnows(j)'
    BY <1>1, <1>2, <1>3 DEF QueueKnows, Live
<1>6. OwnerKnows(j)'
    BY <1>1, <1>2, <1>3 DEF OwnerKnows, Fetching, Dropping
<1>7. FilesOwned(j)'
    BY <1>1, <1>2, <1>3, SourceIsOne DEF FilesOwned, OwnerKnows, Transfer, Fetching, Dropping,
       Unaccounted, WorkGone
<1>8. FilesKnown(j)'
    BY <1>1, <1>2, <1>3 DEF FilesKnown, Unaccounted, WorkGone
<1>9. CancelKnows(j)'
  <2>1. state[j] = "running"
    BY <1>1 DEF QueueKnows, Live, Transfer, At
  <2> QED
    BY <1>1, <1>2, <1>3, <2>1 DEF CancelKnows, Attempts
<1>10. SavedKept(j)'
    BY <1>1, <1>2, <1>3 DEF SavedKept, Claiming, Fetching
<1> QED
  BY <1>4, <1>5, <1>6, <1>7, <1>8, <1>9, <1>10

LEMMA CreateOwnerKeepsLocal ==
    ASSUME Shape, NEW j \in Jobs, Local(j), CreateOwner(j)
    PROVE  Local(j)'
<1> USE DEF Local
<1>1. /\ attempt[j].pc = "create" /\ attempt'[j] = [attempt[j] EXCEPT !.pc = "fill"]
  BY Moves
<1>2. /\ owner'[j] = Torn
  BY <1>1 DEF CreateOwner, Shape
<1>3. /\ state'[j] = state[j] /\ part'[j] = part[j] /\ whole'[j] = whole[j]
      /\ work'[j] = work[j] /\ saved'[j] = saved[j] /\ (j \in early' <=> j \in early)
      /\ up' = up /\ attempt[j] \in Attempts /\ litter'[j] = litter[j]
  BY Frame, Moves DEF CreateOwner, Shape, JobStep, history, remains, files
<1>4. AttemptKnows(j)'
    BY <1>1, <1>2, <1>3 DEF AttemptKnows, Naming, Claiming, Fetching, Dropping, Attempts
<1>5. QueueKnows(j)'
    BY <1>1, <1>2, <1>3 DEF QueueKnows, Live, Attempts
<1>6. OwnerKnows(j)'
    BY <1>1, <1>2, <1>3 DEF OwnerKnows, Fetching, Dropping, Attempts
<1>7. FilesOwned(j)'
    BY <1>1, <1>2, <1>3, WorkspaceAssumption DEF FilesOwned, OwnerKnows, Attempts, Fetching,
       Dropping, Unaccounted, WorkGone
<1>8. FilesKnown(j)'
    BY <1>1, <1>2, <1>3 DEF FilesKnown, Attempts, Unaccounted, WorkGone
<1>9. CancelKnows(j)'
    BY <1>1, <1>2, <1>3 DEF CancelKnows, QueueKnows, CreateOwner, At, Attempts, Live, Clean,
       Unaccounted, WorkGone
<1>10. SavedKept(j)'
    BY <1>1, <1>2, <1>3 DEF SavedKept, Claiming, Fetching, Attempts
<1> QED
  BY <1>4, <1>5, <1>6, <1>7, <1>8, <1>9, <1>10

LEMMA FillOwnerKeepsLocal ==
    ASSUME Shape, NEW j \in Jobs, Local(j), FillOwner(j)
    PROVE  Local(j)'
<1> USE DEF Local
<1>1. /\ attempt[j].pc = "fill" /\ attempt'[j] = [attempt[j] EXCEPT !.pc = "sweep"]
  BY Moves
<1>2. /\ owner'[j] = [name |-> attempt[j].name, format |-> attempt[j].format]
  BY <1>1 DEF FillOwner, Shape
<1>3. /\ state'[j] = state[j] /\ part'[j] = part[j] /\ whole'[j] = whole[j]
      /\ work'[j] = work[j] /\ saved'[j] = saved[j] /\ (j \in early' <=> j \in early)
      /\ up' = up /\ attempt[j] \in Attempts /\ litter'[j] = litter[j]
  BY Frame, Moves DEF FillOwner, Shape, JobStep, history, remains, files
<1>4. AttemptKnows(j)'
    BY <1>1, <1>2, <1>3 DEF AttemptKnows, Naming, Claiming, Fetching, Dropping, Attempts
<1>5. QueueKnows(j)'
    BY <1>1, <1>2, <1>3 DEF QueueKnows, Live, Attempts
<1>6. OwnerKnows(j)'
    BY <1>1, <1>2, <1>3, ManifestMade DEF OwnerKnows, FillOwner, Fetching, Dropping,
     Attempts
<1>7. FilesOwned(j)'
    BY <1>1, <1>2, <1>3, ManifestMade, WorkspaceAssumption DEF FilesOwned, OwnerKnows,
       FillOwner, At, Attempts, Fetching, Dropping, Unaccounted, WorkGone
<1>8. FilesKnown(j)'
    BY <1>1, <1>2, <1>3 DEF FilesKnown, Attempts, Unaccounted, WorkGone
<1>9. CancelKnows(j)'
    BY <1>1, <1>2, <1>3 DEF CancelKnows, QueueKnows, FillOwner, At, Attempts, Live, Clean,
       Unaccounted, WorkGone
<1>10. SavedKept(j)'
    BY <1>1, <1>2, <1>3 DEF SavedKept, Claiming, Fetching, Attempts
<1> QED
  BY <1>4, <1>5, <1>6, <1>7, <1>8, <1>9, <1>10

LEMMA SweepKeepsLocal ==
    ASSUME Shape, NEW j \in Jobs, Local(j), Sweep(j)
    PROVE  Local(j)'
<1> USE DEF Local
<1>1. /\ attempt[j].pc = "sweep" /\ attempt'[j] = [attempt[j] EXCEPT !.pc = "fetch"]
  BY Moves
<1>2. /\ work'[j] = Absent
      /\ whole'[j] = whole[j] \ SourcesOf(attempt[j].format)
  BY <1>1 DEF Sweep, Shape
<1>3. /\ state'[j] = state[j] /\ owner'[j] = owner[j] /\ part'[j] = part[j]
      /\ saved'[j] = saved[j] /\ (j \in early' <=> j \in early)
      /\ up' = up /\ attempt[j] \in Attempts /\ litter'[j] = litter[j]
  BY Frame, Moves DEF Sweep, Shape, JobStep, history, remains, files
<1>4. AttemptKnows(j)'
    BY <1>1, <1>2, <1>3, WorkspaceAssumption DEF AttemptKnows, Naming, Claiming,
     Fetching, Dropping, Attempts
<1>5. QueueKnows(j)'
    BY <1>1, <1>2, <1>3 DEF QueueKnows, Live, Attempts
<1>6. OwnerKnows(j)'
    BY <1>1, <1>2, <1>3 DEF OwnerKnows, Fetching, Dropping, Attempts
<1>7. FilesOwned(j)'
    BY <1>1, <1>2, <1>3 DEF FilesOwned, Attempts, Unaccounted, WorkGone
<1>8. FilesKnown(j)'
    BY <1>1, <1>2, <1>3 DEF FilesKnown, Attempts, Unaccounted, WorkGone
<1>9. CancelKnows(j)'
    BY <1>1, <1>2, <1>3 DEF CancelKnows, Attempts, Clean, Unaccounted, WorkGone
<1>10. SavedKept(j)'
    BY <1>1, <1>2, <1>3 DEF SavedKept, Claiming, Fetching, Attempts
<1> QED
  BY <1>4, <1>5, <1>6, <1>7, <1>8, <1>9, <1>10

LEMMA ProduceKeepsLocal ==
    ASSUME Shape, NEW j \in Jobs, Local(j), Produce(j)
    PROVE  Local(j)'
<1> USE DEF Local
<1>1. /\ attempt[j].pc = "produce" /\ attempt'[j] = [attempt[j] EXCEPT !.pc = "verify"]
  BY Moves
<1>2. /\ work'[j] \in {"sound", "unsound"}
  BY <1>1 DEF Produce, Shape
<1>3. /\ state'[j] = state[j] /\ owner'[j] = owner[j] /\ part'[j] = part[j]
      /\ whole'[j] = whole[j] /\ saved'[j] = saved[j] /\ (j \in early' <=> j \in early)
      /\ up' = up /\ attempt[j] \in Attempts /\ litter'[j] = litter[j]
  BY Frame, Moves DEF Produce, Shape, JobStep, history, remains, files
<1>4. AttemptKnows(j)'
    BY <1>1, <1>2, <1>3 DEF AttemptKnows, Naming, Claiming, Fetching, Dropping, Attempts
<1>5. QueueKnows(j)'
    BY <1>1, <1>2, <1>3 DEF QueueKnows, Live, Attempts
<1>6. OwnerKnows(j)'
    BY <1>1, <1>2, <1>3 DEF OwnerKnows, Fetching, Dropping, Attempts
<1>7. FilesOwned(j)'
    BY <1>1, <1>2, <1>3 DEF FilesOwned, OwnerKnows, Attempts, Fetching, Dropping, Unaccounted,
       WorkGone
<1>8. FilesKnown(j)'
    BY <1>1, <1>2, <1>3 DEF FilesKnown, Attempts, Unaccounted, WorkGone
<1>9. CancelKnows(j)'
  <2>1. state[j] = "running"
    BY <1>1 DEF QueueKnows, Live, Produce, At
  <2> QED
    BY <1>1, <1>2, <1>3, <2>1 DEF CancelKnows, Attempts
<1>10. SavedKept(j)'
    BY <1>1, <1>2, <1>3 DEF SavedKept, Claiming, Fetching, Attempts
<1> QED
  BY <1>4, <1>5, <1>6, <1>7, <1>8, <1>9, <1>10

LEMMA DropFilesKeepsLocal ==
    ASSUME Shape, NEW j \in Jobs, Local(j), DropFiles(j)
    PROVE  Local(j)'
<1> USE DEF Local
<1>1. /\ attempt[j].pc = "dropfiles" /\ attempt'[j] = [attempt[j] EXCEPT !.pc = "disown"]
  BY Moves
<1>2. PICK stay \in SUBSET Dropped(j) :
        /\ work'[j] = IF Work \in stay THEN work[j] ELSE Absent
        /\ whole'[j] = whole[j] \ (SourcesOf(attempt[j].format) \ stay)
        /\ part'[j] = IF attempt[j].preserve THEN part[j]
                      ELSE part[j] \ (SourcesOf(attempt[j].format) \ stay)
        /\ litter'[j] = IF attempt[j].preserve THEN litter[j] ELSE litter[j] \cup stay
  BY <1>1 DEF DropFiles, Shape
<1>3. /\ state'[j] = state[j] /\ owner'[j] = owner[j] /\ saved'[j] = saved[j]
      /\ (j \in early' <=> j \in early)
      /\ up' = up /\ attempt[j] \in Attempts
  BY Frame, Moves DEF DropFiles, Shape, JobStep, history, remains, files
<1>4. AttemptKnows(j)'
    BY <1>1, <1>2, <1>3 DEF AttemptKnows, Naming, Claiming, Fetching, Dropping,
     Attempts, Shape
<1>5. QueueKnows(j)'
    BY <1>1, <1>2, <1>3 DEF QueueKnows, Live, Attempts, Shape
<1>6. OwnerKnows(j)'
    BY <1>1, <1>2, <1>3 DEF OwnerKnows, Fetching, Dropping, Attempts, Shape
<1>7. FilesOwned(j)'
    BY <1>1, <1>2, <1>3 DEF FilesOwned, Attempts, Shape, Unaccounted, WorkGone
<1>8. FilesKnown(j)'
    BY <1>1, <1>2, <1>3 DEF FilesKnown, OwnerKnows, FilesOwned, DropFiles, Attempts, Fetching,
       Dropping, Shape, Unaccounted, WorkGone
<1>9. CancelKnows(j)'
    BY <1>1, <1>2, <1>3 DEF CancelKnows, Attempts, Shape, Clean, Unaccounted, WorkGone
<1>10. SavedKept(j)'
    BY <1>1, <1>2, <1>3 DEF SavedKept, Claiming, Fetching, Attempts, Shape
<1> QED
  BY <1>4, <1>5, <1>6, <1>7, <1>8, <1>9, <1>10

LEMMA DropUnlistedKeepsLocal ==
    ASSUME Shape, NEW j \in Jobs, Local(j), DropUnlisted(j)
    PROVE  Local(j)'
<1> USE DEF Local
<1>1. /\ attempt[j].pc = "dropfiles" /\ attempt'[j] = [attempt[j] EXCEPT !.pc = "droplock"]
      /\ ~attempt[j].preserve
  BY Moves DEF DropUnlisted
<1>2. /\ work'[j] = Absent
      /\ whole'[j] = whole[j] \ SourcesOf(attempt[j].format)
      /\ litter'[j] = litter[j] \cup part[j] \cup {OwnerFile}
  BY <1>1 DEF DropUnlisted, Shape
<1>3. /\ state'[j] = state[j] /\ owner'[j] = owner[j] /\ saved'[j] = saved[j]
      /\ part'[j] = part[j] /\ (j \in early' <=> j \in early)
      /\ up' = up /\ attempt[j] \in Attempts
  BY Frame, Moves DEF DropUnlisted, Shape, JobStep, history, remains, files
<1>4. AttemptKnows(j)'
  BY <1>1, <1>2, <1>3 DEF AttemptKnows, Naming, Claiming, Fetching, Dropping, Attempts
<1>5. QueueKnows(j)'
  BY <1>1, <1>2, <1>3 DEF QueueKnows, Live, Attempts
<1>6. OwnerKnows(j)'
  BY <1>1, <1>2, <1>3 DEF OwnerKnows, Fetching, Dropping, Attempts
<1>7. Unaccounted(j)' = {} /\ WorkGone(j)'
  <2>1. Unaccounted(j) \subseteq SourcesOf(attempt[j].format)
    BY <1>1 DEF FilesOwned, OwnerKnows, Dropping
  <2> QED
    BY <1>2, <1>3, <2>1 DEF Unaccounted, WorkGone
<1>8. FilesOwned(j)' /\ FilesKnown(j)'
  BY <1>1, <1>3, <1>7 DEF FilesOwned, FilesKnown, Attempts
<1>9. CancelKnows(j)'
  <2>1. Clean(j)'
    BY <1>2, <1>7 DEF Clean
  <2>2. attempt'[j].pc = "droplock" /\ state'[j] # "cancelled"
    BY <1>1, <1>3 DEF QueueKnows, Live, Attempts, DropUnlisted, At
  <2> QED
    BY <2>1, <2>2 DEF CancelKnows
<1>10. SavedKept(j)'
  BY <1>1, <1>2, <1>3 DEF SavedKept, Claiming, Fetching, Attempts
<1> QED
  BY <1>4, <1>5, <1>6, <1>8, <1>9, <1>10

LEMMA DropOwnerKeepsLocal ==
    ASSUME Shape, NEW j \in Jobs, Local(j), DropOwner(j)
    PROVE  Local(j)'
<1> USE DEF Local
<1>1. /\ attempt[j].pc = "disown" /\ attempt'[j] = [attempt[j] EXCEPT !.pc = "droplock"]
  BY Moves
<1>2. \/ /\ owner'[j] = IF attempt[j].preserve THEN owner[j] ELSE Absent
         /\ litter'[j] = litter[j]
      \/ /\ ~attempt[j].preserve
         /\ owner'[j] = owner[j] /\ litter'[j] = litter[j] \cup {OwnerFile}
  BY <1>1 DEF DropOwner, Shape
<1>3. /\ state'[j] = state[j] /\ part'[j] = part[j] /\ whole'[j] = whole[j]
      /\ work'[j] = work[j] /\ saved'[j] = saved[j] /\ (j \in early' <=> j \in early)
      /\ up' = up /\ attempt[j] \in Attempts
  BY Frame, Moves DEF DropOwner, Shape, JobStep, history, remains, files
<1>4. AttemptKnows(j)'
    BY <1>1, <1>2, <1>3 DEF AttemptKnows, Naming, Claiming, Fetching, Dropping, Attempts
<1>5. QueueKnows(j)'
    BY <1>1, <1>2, <1>3 DEF QueueKnows, Live, Attempts
<1>6. OwnerKnows(j)'
    BY <1>1, <1>2, <1>3 DEF OwnerKnows, Fetching, Dropping, Attempts
<1>7. FilesOwned(j)'
    BY <1>1, <1>2, <1>3 DEF FilesOwned, FilesKnown, Attempts, Fetching, Dropping, Unaccounted,
       WorkGone
<1>8. FilesKnown(j)'
    BY <1>1, <1>2, <1>3 DEF FilesKnown, Attempts, Unaccounted, WorkGone
<1>9. CancelKnows(j)'
  <2>1. state[j] = "running" /\ attempt'[j].pc = "droplock"
        /\ attempt'[j].outcome = attempt[j].outcome
    BY <1>1, <1>3 DEF QueueKnows, Live, DropOwner, At, Attempts
  <2>2. ASSUME attempt[j].outcome = "cancelled" PROVE Clean(j)'
    <3>1. ~attempt[j].preserve
      BY <2>2 DEF AttemptKnows
    <3>2. Unaccounted(j) = {} /\ WorkGone(j)
      BY <1>1, <3>1 DEF FilesKnown
    <3> QED
      BY <1>2, <1>3, <3>1, <3>2 DEF Clean, Unaccounted, WorkGone
  <2> QED
    BY <1>3, <2>1, <2>2 DEF CancelKnows
<1>10. SavedKept(j)'
    BY <1>1, <1>2, <1>3 DEF SavedKept, Claiming, Fetching, Attempts
<1> QED
  BY <1>4, <1>5, <1>6, <1>7, <1>8, <1>9, <1>10

LEMMA RemoveStaleKeepsLocal ==
    ASSUME Shape, NEW j \in Jobs, Local(j), RemoveStale(j)
    PROVE  Local(j)'
<1> USE DEF Local
<1>1. /\ attempt[j].pc = "stale" /\ attempt'[j] = [attempt[j] EXCEPT !.pc = "create"]
  BY Moves
<1>2. /\ owner'[j] = Absent
      /\ part'[j] = part[j] \ SourcesOf(owner[j].format)
      /\ whole'[j] = whole[j] \ SourcesOf(owner[j].format)
      /\ work'[j] = Absent
  BY <1>1 DEF RemoveStale, Shape
<1>3. /\ state'[j] = state[j] /\ saved'[j] = saved[j] /\ (j \in early' <=> j \in early)
      /\ up' = up /\ attempt[j] \in Attempts /\ litter'[j] = litter[j]
  BY Frame, Moves DEF RemoveStale, Shape, JobStep, history, remains, files
<1>4. AttemptKnows(j)'
    BY <1>1, <1>2, <1>3 DEF AttemptKnows, Naming, Claiming, Fetching, Dropping, Attempts
<1>5. QueueKnows(j)'
    BY <1>1, <1>2, <1>3 DEF QueueKnows, Live, Attempts
<1>6. OwnerKnows(j)'
    BY <1>1, <1>2, <1>3 DEF OwnerKnows, Fetching, Dropping, Attempts
<1>7. FilesOwned(j)'
    BY <1>1, <1>2, <1>3 DEF FilesOwned, Attempts, Unaccounted, WorkGone
<1>8. FilesKnown(j)'
    BY <1>1, <1>2, <1>3 DEF FilesKnown, Attempts, Unaccounted, WorkGone
<1>9. CancelKnows(j)'
    BY <1>1, <1>2, <1>3 DEF CancelKnows, Attempts, Clean, Unaccounted, WorkGone
<1>10. SavedKept(j)'
    BY <1>1, <1>2, <1>3 DEF SavedKept, Claiming, Fetching, Attempts
<1> QED
  BY <1>4, <1>5, <1>6, <1>7, <1>8, <1>9, <1>10

LEMMA TransferEndsKeepsLocal ==
    ASSUME Shape, NEW j \in Jobs, Local(j), TransferEnds(j)
    PROVE  Local(j)'
<1> USE DEF Local
<1>1. /\ attempt[j].pc = "transfer"
      /\ attempt'[j] = [attempt[j] EXCEPT !.pc = "fetch", !.source = attempt[j].source + 1]
  BY Moves
<1>2. /\ part'[j] = part[j] \ {SourceId(j)}
      /\ whole'[j] = whole[j] \cup {SourceId(j)}
  BY <1>1 DEF TransferEnds, Shape
<1>3. /\ state'[j] = state[j] /\ owner'[j] = owner[j] /\ work'[j] = work[j]
      /\ saved'[j] = saved[j] /\ (j \in early' <=> j \in early)
      /\ up' = up /\ attempt[j] \in Attempts /\ litter'[j] = litter[j]
  BY Frame, Moves DEF TransferEnds, Shape, JobStep, history, remains, files
<1>4. AttemptKnows(j)'
    BY <1>1, <1>2, <1>3, WorkspaceAssumption DEF AttemptKnows, Naming, Claiming,
     Fetching, Dropping, Attempts
<1>5. QueueKnows(j)'
    BY <1>1, <1>2, <1>3 DEF QueueKnows, Live, Attempts
<1>6. OwnerKnows(j)'
    BY <1>1, <1>2, <1>3 DEF OwnerKnows, Fetching, Dropping, Attempts
<1>7. FilesOwned(j)'
    BY <1>1, <1>2, <1>3, SourceIsOne DEF FilesOwned, OwnerKnows, TransferEnds, Attempts,
       Fetching, Dropping, Unaccounted, WorkGone
<1>8. FilesKnown(j)'
    BY <1>1, <1>2, <1>3 DEF FilesKnown, Attempts, Unaccounted, WorkGone
<1>9. CancelKnows(j)'
  <2>1. state[j] = "running"
    BY <1>1 DEF QueueKnows, Live, TransferEnds, At
  <2> QED
    BY <1>1, <1>2, <1>3, <2>1 DEF CancelKnows, Attempts
<1>10. SavedKept(j)'
    BY <1>1, <1>2, <1>3 DEF SavedKept, Claiming, Fetching, Attempts
<1> QED
  BY <1>4, <1>5, <1>6, <1>7, <1>8, <1>9, <1>10

LEMMA ReleaseKeepsLocal ==
    ASSUME Shape, NEW j \in Jobs, Local(j), Release(j)
    PROVE  Local(j)'
<1> USE DEF Local
<1>1. /\ attempt[j].pc = "release"
      /\ attempt'[j] = [attempt[j] EXCEPT !.pc = "dropfiles", !.name = Absent]
  BY Moves
<1>2. attempt[j] \in Attempts
  BY Moves
<1>3. /\ state'[j] = state[j] /\ owner'[j] = owner[j] /\ part'[j] = part[j]
      /\ whole'[j] = whole[j] /\ work'[j] = work[j] /\ saved'[j] = saved[j]
      /\ (j \in early' <=> j \in early)
      /\ up' = up /\ attempt[j] \in Attempts /\ litter'[j] = litter[j]
  BY Frame, Moves DEF Release, Shape, JobStep, history, remains, files
<1>4. AttemptKnows(j)'
    BY <1>1, <1>2, <1>3 DEF AttemptKnows, Naming, Claiming, Fetching, Dropping, Attempts
<1>5. QueueKnows(j)'
    BY <1>1, <1>2, <1>3 DEF QueueKnows, Live, Attempts
<1>6. OwnerKnows(j)'
    BY <1>1, <1>2, <1>3 DEF OwnerKnows, Fetching, Dropping, Attempts
<1>7. FilesOwned(j)'
    BY <1>1, <1>2, <1>3 DEF FilesOwned, Attempts, Unaccounted, WorkGone
<1>8. FilesKnown(j)'
    BY <1>1, <1>2, <1>3 DEF FilesKnown, Attempts, Unaccounted, WorkGone
<1>9. CancelKnows(j)'
    BY <1>1, <1>2, <1>3 DEF CancelKnows, Attempts, Clean, Unaccounted, WorkGone
<1>10. SavedKept(j)'
    BY <1>1, <1>2, <1>3 DEF SavedKept, Claiming, Fetching, Attempts
<1> QED
  BY <1>4, <1>5, <1>6, <1>7, <1>8, <1>9, <1>10

LEMMA DropLockKeepsLocal ==
    ASSUME Shape, NEW j \in Jobs, Local(j), DropLock(j)
    PROVE  Local(j)'
<1> USE DEF Local
<1>1. /\ attempt[j].pc = "droplock"
      /\ attempt'[j] = [Idle EXCEPT !.pc = "finish", !.outcome = attempt[j].outcome]
  BY Moves
<1>2. attempt[j] \in Attempts
  BY Moves
<1>3. /\ state'[j] = state[j] /\ owner'[j] = owner[j] /\ part'[j] = part[j]
      /\ whole'[j] = whole[j] /\ work'[j] = work[j] /\ saved'[j] = saved[j]
      /\ (j \in early' <=> j \in early)
      /\ up' = up /\ attempt[j] \in Attempts /\ litter'[j] = litter[j]
  BY Frame, Moves DEF DropLock, Shape, JobStep, history, remains, files
<1>4. AttemptKnows(j)'
    BY <1>1, <1>2, <1>3 DEF AttemptKnows, Naming, Claiming, Fetching, Dropping, Idle,
     Attempts
<1>5. QueueKnows(j)'
    BY <1>1, <1>2, <1>3 DEF QueueKnows, Live, Idle, Attempts
<1>6. OwnerKnows(j)'
    BY <1>1, <1>2, <1>3 DEF OwnerKnows, Fetching, Dropping, Idle, Attempts
<1>7. FilesOwned(j)'
    BY <1>1, <1>2, <1>3 DEF FilesOwned, Idle, Attempts, Unaccounted, WorkGone
<1>8. FilesKnown(j)'
    BY <1>1, <1>2, <1>3 DEF FilesKnown, Idle, Attempts, Unaccounted, WorkGone
<1>9. CancelKnows(j)'
    BY <1>1, <1>2, <1>3 DEF CancelKnows, Idle, Attempts, Clean, Unaccounted, WorkGone
<1>10. SavedKept(j)'
    BY <1>1, <1>2, <1>3 DEF SavedKept, Claiming, Fetching, Idle, Attempts
<1> QED
  BY <1>4, <1>5, <1>6, <1>7, <1>8, <1>9, <1>10

LEMMA FinishKeepsLocal ==
    ASSUME Shape, NEW j \in Jobs, Local(j), Finish(j)
    PROVE  Local(j)'
<1> USE DEF Local
<1>1. /\ attempt[j].pc = "finish" /\ attempt'[j] = Idle
  BY Moves
<1>2. /\ state'[j] = attempt[j].outcome
  BY <1>1 DEF Finish, Shape
<1>3. /\ owner'[j] = owner[j] /\ part'[j] = part[j] /\ whole'[j] = whole[j]
      /\ work'[j] = work[j] /\ saved'[j] = saved[j] /\ (j \in early' <=> j \in early)
      /\ up' = up /\ attempt[j] \in Attempts /\ litter'[j] = litter[j]
  BY Frame, Moves DEF Finish, Shape, JobStep, history, remains, files
<1>4. AttemptKnows(j)'
    BY <1>1, <1>2, <1>3 DEF AttemptKnows, Naming, Claiming, Fetching, Dropping, Idle,
     Attempts
<1>5. QueueKnows(j)'
    BY <1>1, <1>2, <1>3 DEF QueueKnows, AttemptKnows, Outcomes, Live, Idle, Attempts,
     Naming, Claiming, Fetching, Dropping
<1>6. OwnerKnows(j)'
    BY <1>1, <1>2, <1>3 DEF OwnerKnows, Fetching, Dropping, Idle, Attempts
<1>7. FilesOwned(j)'
    BY <1>1, <1>2, <1>3 DEF FilesOwned, Idle, Attempts, Unaccounted, WorkGone
<1>8. FilesKnown(j)'
    BY <1>1, <1>2, <1>3 DEF FilesKnown, Idle, Attempts, Unaccounted, WorkGone
<1>9. CancelKnows(j)'
    BY <1>1, <1>2, <1>3 DEF CancelKnows, Idle, Attempts, Clean, Unaccounted, WorkGone
<1>10. SavedKept(j)'
    BY <1>1, <1>2, <1>3 DEF SavedKept, Claiming, Fetching, Idle, Attempts
<1> QED
  BY <1>4, <1>5, <1>6, <1>7, <1>8, <1>9, <1>10

LEMMA CancelKeepsLocal ==
    ASSUME Shape, NEW j \in Jobs, Local(j), Cancel(j)
    PROVE  Local(j)'
<1> USE DEF Local
<1>1. /\ attempt[j].pc = "idle" /\ attempt'[j] = attempt[j]
  BY Moves
<1>2. /\ state'[j] = "cancelled"
      /\ owner'[j] = Absent
      /\ part'[j] = IF owner[j] = Absent THEN part[j] ELSE part[j] \ SourcesOf(owner[j].format)
      /\ whole'[j] = IF owner[j] = Absent THEN whole[j] ELSE whole[j] \ SourcesOf(owner[j].format)
      /\ work'[j] = IF owner[j] = Absent THEN work[j] ELSE Absent
      /\ saved'[j] = {}
      /\ ~(j \in early')
      /\ litter'[j] = IF owner[j] \in Manifests
                      THEN litter[j] \ (SourcesOf(owner[j].format) \cup {Work, OwnerFile})
                      ELSE litter[j]
  BY <1>1 DEF Cancel, RemoveOwned, Reclaimed, Shape
<1>3. /\ up' = up /\ attempt[j] \in Attempts
  BY Frame, Moves DEF Cancel, Shape, JobStep, history, remains, files
<1>4. AttemptKnows(j)'
    BY <1>1, <1>2, <1>3 DEF AttemptKnows, Naming, Claiming, Fetching, Dropping
<1>5. QueueKnows(j)'
    BY <1>1, <1>2, <1>3 DEF QueueKnows, Live
<1>6. OwnerKnows(j)'
    BY <1>1, <1>2, <1>3 DEF OwnerKnows, Fetching, Dropping
<1>7. Unaccounted(j)' = {} /\ WorkGone(j)'
  <2>1. CASE owner[j] \in Manifests
    <3>1. Unaccounted(j) \subseteq SourcesOf(owner[j].format)
      BY <2>1 DEF FilesOwned
    <3>2. owner[j] # Absent
      BY <2>1, WorkspaceAssumption
    <3> QED
      BY <1>2, <2>1, <3>1, <3>2, NotSources DEF Unaccounted, WorkGone, Shape
  <2>2. CASE owner[j] \notin Manifests
    <3>1. Unaccounted(j) = {} /\ WorkGone(j)
      BY <2>2 DEF FilesOwned
    <3> QED
      BY <1>2, <2>2, <3>1 DEF Unaccounted, WorkGone
  <2> QED
    BY <2>1, <2>2
<1>8. FilesOwned(j)' /\ FilesKnown(j)'
  BY <1>1, <1>7 DEF FilesOwned, FilesKnown
<1>9. CancelKnows(j)'
  BY <1>1, <1>2, <1>7 DEF CancelKnows, Clean
<1>10. SavedKept(j)'
    BY <1>1, <1>2, <1>3 DEF SavedKept, Claiming, Fetching
<1> QED
  BY <1>4, <1>5, <1>6, <1>8, <1>9, <1>10

LEMMA TransferStopsKeepsLocal ==
    ASSUME Shape, NEW j \in Jobs, Local(j), TransferStops(j)
    PROVE  Local(j)'
<1> USE DEF Local
<1>1. PICK o \in {"failed", "paused", "cancelled"} :
        /\ attempt[j].pc = "transfer"
        /\ attempt'[j] = [attempt[j] EXCEPT !.pc = "dropfiles", !.outcome = o,
                                !.preserve = (o # "cancelled")]
        /\ saved'[j] = IF o = "paused" THEN part[j] ELSE saved[j]
  BY Moves
<1>2. attempt[j] \in Attempts
  BY Moves
<1>3. /\ state'[j] = state[j] /\ owner'[j] = owner[j] /\ part'[j] = part[j]
      /\ whole'[j] = whole[j] /\ work'[j] = work[j] /\ (j \in early' <=> j \in early)
      /\ up' = up /\ attempt[j] \in Attempts /\ litter'[j] = litter[j]
  BY Frame, Moves DEF TransferStops, Shape, JobStep, history, remains, files
<1>4. AttemptKnows(j)'
    BY <1>1, <1>2, <1>3 DEF AttemptKnows, Naming, Claiming, Fetching, Dropping, Attempts
<1>5. QueueKnows(j)'
    BY <1>1, <1>2, <1>3 DEF QueueKnows, Live, Attempts
<1>6. OwnerKnows(j)'
    BY <1>1, <1>2, <1>3 DEF OwnerKnows, Fetching, Dropping, Attempts
<1>7. FilesOwned(j)'
    BY <1>1, <1>2, <1>3 DEF FilesOwned, Attempts, Unaccounted, WorkGone
<1>8. FilesKnown(j)'
    BY <1>1, <1>2, <1>3 DEF FilesKnown, Attempts, Unaccounted, WorkGone
<1>9. CancelKnows(j)'
    BY <1>1, <1>2, <1>3 DEF CancelKnows, Attempts, Clean, Unaccounted, WorkGone
<1>10. SavedKept(j)'
    BY <1>1, <1>2, <1>3 DEF SavedKept, Claiming, Fetching, Attempts
<1> QED
  BY <1>4, <1>5, <1>6, <1>7, <1>8, <1>9, <1>10

LEMMA ProduceStopsKeepsLocal ==
    ASSUME Shape, NEW j \in Jobs, Local(j), ProduceStops(j)
    PROVE  Local(j)'
<1> USE DEF Local
<1>1. PICK o \in {"failed", "paused", "cancelled"} :
        /\ attempt[j].pc = "produce"
        /\ attempt'[j] = [attempt[j] EXCEPT !.pc = "dropfiles", !.outcome = o]
  BY Moves
<1>2. work'[j] \in {Absent, "unsound"}
  BY DEF ProduceStops, Shape
<1>3. /\ state'[j] = state[j] /\ owner'[j] = owner[j] /\ part'[j] = part[j]
      /\ whole'[j] = whole[j] /\ saved'[j] = saved[j] /\ (j \in early' <=> j \in early)
      /\ up' = up /\ attempt[j] \in Attempts /\ litter'[j] = litter[j]
  BY Frame, Moves DEF ProduceStops, Shape, JobStep, history, remains, files
<1>4. AttemptKnows(j)'
    BY <1>1, <1>2, <1>3 DEF AttemptKnows, Naming, Claiming, Fetching, Dropping, Attempts
<1>5. QueueKnows(j)'
    BY <1>1, <1>2, <1>3 DEF QueueKnows, Live, Attempts
<1>6. OwnerKnows(j)'
    BY <1>1, <1>2, <1>3 DEF OwnerKnows, Fetching, Dropping, Attempts
<1>7. FilesOwned(j)'
    BY <1>1, <1>2, <1>3 DEF FilesOwned, OwnerKnows, Attempts, Fetching, Dropping, Unaccounted,
       WorkGone
<1>8. FilesKnown(j)'
    BY <1>1, <1>2, <1>3 DEF FilesKnown, Attempts, Unaccounted, WorkGone
<1>9. CancelKnows(j)'
  <2>1. state[j] = "running"
    BY <1>1 DEF QueueKnows, Live, ProduceStops, At
  <2> QED
    BY <1>1, <1>2, <1>3, <2>1 DEF CancelKnows, Attempts
<1>10. SavedKept(j)'
    BY <1>1, <1>2, <1>3 DEF SavedKept, Claiming, Fetching, Attempts
<1> QED
  BY <1>4, <1>5, <1>6, <1>7, <1>8, <1>9, <1>10

LEMMA AnalyzeKeepsLocal ==
    ASSUME Shape, NEW j \in Jobs, Local(j), Analyze(j)
    PROVE  Local(j)'
<1> USE DEF Local
<1>1. /\ owner'[j] = owner[j] /\ part'[j] = part[j] /\ whole'[j] = whole[j]
      /\ work'[j] = work[j] /\ saved'[j] = saved[j] /\ state'[j] = state[j]
      /\ up' = up /\ attempt[j] \in Attempts /\ litter'[j] = litter[j]
      /\ attempt[j].pc = "analyze" /\ up
      /\ j \in early => j \in early'
  BY Moves DEF Analyze, At, Shape, JobStep, files, history, remains
<1>2. /\ OwnerKnows(j) /\ FilesOwned(j) /\ FilesKnown(j) /\ SavedKept(j)
      /\ AttemptKnows(j) /\ QueueKnows(j) /\ CancelKnows(j)
  OBVIOUS
<1>3. ASSUME early' = early, NEW f \in Formats,
             attempt'[j] = [attempt[j] EXCEPT !.pc = "reserve", !.name = 0, !.format = f]
      PROVE  Local(j)'
  <2>1. AttemptKnows(j)'
    BY <1>1, <1>3, WorkspaceAssumption DEF AttemptKnows, Names, Naming, Claiming, Fetching,
       Dropping, Attempts
  <2>2. QueueKnows(j)' /\ CancelKnows(j)'
    BY <1>1, <1>3 DEF QueueKnows, CancelKnows, Live, Attempts, Clean, Unaccounted, WorkGone
  <2>3. OwnerKnows(j)' /\ FilesOwned(j)' /\ FilesKnown(j)' /\ SavedKept(j)'
    BY <1>1, <1>3 DEF OwnerKnows, FilesOwned, FilesKnown, SavedKept, Claiming, Fetching,
       Dropping, Attempts, Unaccounted, WorkGone
  <2> QED
    BY <2>1, <2>2, <2>3
<1>4. ASSUME NEW o \in {"failed", "paused", "cancelled"},
             attempt'[j] = [attempt[j] EXCEPT !.pc = "finish", !.outcome = o],
             o = "cancelled" => j \in early'
      PROVE  Local(j)'
  <2>1. AttemptKnows(j)'
    BY <1>1, <1>4 DEF AttemptKnows, Naming, Claiming, Fetching, Dropping, Attempts
  <2>2. QueueKnows(j)' /\ CancelKnows(j)'
    BY <1>1, <1>4 DEF QueueKnows, CancelKnows, Live, Attempts, Clean, Unaccounted, WorkGone
  <2>3. OwnerKnows(j)' /\ FilesOwned(j)' /\ FilesKnown(j)' /\ SavedKept(j)'
    BY <1>1, <1>4 DEF OwnerKnows, FilesOwned, FilesKnown, SavedKept, Claiming, Fetching,
       Dropping, Attempts, Unaccounted, WorkGone
  <2> QED
    BY <2>1, <2>2, <2>3
<1> QED
  BY <1>2, <1>3, <1>4, Moves

(* A step that only looks, or goes on to the next name.                      *)
LEMMA NamingKeepsLocal ==
    ASSUME Shape, NEW j \in Jobs, Local(j), Reserve(j) \/ Look(j)
    PROVE  Local(j)'
<1> USE DEF Local
<1>1. /\ owner'[j] = owner[j] /\ part'[j] = part[j] /\ whole'[j] = whole[j]
      /\ work'[j] = work[j] /\ saved'[j] = saved[j] /\ state'[j] = state[j]
      /\ up' = up /\ attempt[j] \in Attempts /\ litter'[j] = litter[j]
      /\ attempt[j].pc \in Naming /\ up
      /\ early' = early /\ attempt[j].name \in Names
  BY Moves DEF Reserve, Look, At, Shape, Naming, history, remains
<1>2. \/ attempt'[j] = [attempt[j] EXCEPT !.pc = "look"]
      \/ attempt'[j] = [attempt[j] EXCEPT !.pc = "claim"]
      \/ /\ attempt[j].name + 1 \in Names
         /\ attempt'[j] = [attempt[j] EXCEPT !.pc = "reserve", !.name = attempt[j].name + 1]
      \/ attempt'[j] = [attempt[j] EXCEPT !.pc = "finish", !.name = Absent,
                                          !.outcome = "failed"]
  <2>1. CASE TryNext(j)
    BY <1>1, <2>1, NextName
  <2>2. CASE ~TryNext(j)
    BY <2>2 DEF Reserve, Look, Goto, Shape
  <2> QED
    BY <2>1, <2>2
<1>3. /\ attempt'[j].format = attempt[j].format /\ attempt'[j].source = attempt[j].source
      /\ attempt'[j].preserve = attempt[j].preserve
      /\ \/ /\ attempt'[j].pc \in {"look", "claim"} /\ attempt'[j].name = attempt[j].name
            /\ attempt'[j].outcome = attempt[j].outcome
         \/ /\ attempt'[j].pc = "reserve" /\ attempt'[j].name \in Names
            /\ attempt'[j].outcome = attempt[j].outcome
         \/ /\ attempt'[j].pc = "finish" /\ attempt'[j].name = Absent
            /\ attempt'[j].outcome = "failed"
  BY <1>1, <1>2 DEF Attempts
<1>4. AttemptKnows(j)'
  BY <1>1, <1>3 DEF AttemptKnows, Naming, Claiming, Fetching, Dropping
<1>5. QueueKnows(j)' /\ CancelKnows(j)'
  BY <1>1, <1>3 DEF QueueKnows, CancelKnows, Live, Naming, Clean, Unaccounted, WorkGone
<1>6. FilesOwned(j)'
  BY <1>1 DEF FilesOwned, Unaccounted, WorkGone
<1>7. OwnerKnows(j)' /\ FilesKnown(j)'
  BY <1>1, <1>3 DEF OwnerKnows, FilesKnown, Naming, Fetching, Dropping, Unaccounted, WorkGone
<1>8. SavedKept(j)'
  BY <1>1, <1>3 DEF SavedKept, Naming, Claiming, Fetching
<1> QED
  BY <1>4, <1>5, <1>6, <1>7, <1>8

LEMMA ClaimKeepsLocal ==
    ASSUME Shape, NEW j \in Jobs, Local(j), Claim(j)
    PROVE  Local(j)'
<1> USE DEF Local
<1> DEFINE mine == [name |-> attempt[j].name, format |-> attempt[j].format]
<1>1. /\ owner'[j] = owner[j] /\ part'[j] = part[j] /\ whole'[j] = whole[j]
      /\ work'[j] = work[j] /\ saved'[j] = {} /\ state'[j] = state[j]
      /\ up' = up /\ attempt[j] \in Attempts /\ attempt[j].pc = "claim" /\ up
      /\ early' = early
      /\ litter'[j] = IF owner[j] \in Manifests
                      THEN litter[j] \ (SourcesOf(owner[j].format) \cup {Work, OwnerFile})
                      ELSE litter[j]
  BY DEF Claim, Reclaimed, At, Shape, files
<1>2. mine \in Manifests
  BY <1>1 DEF AttemptKnows, Claiming, Manifests
<1>3. \/ owner[j] = mine /\ attempt'[j] = [attempt[j] EXCEPT !.pc = "sweep"]
      \/ owner[j] \in Manifests /\ attempt'[j] = [attempt[j] EXCEPT !.pc = "stale"]
      \/ owner[j] = Absent /\ attempt'[j] = [attempt[j] EXCEPT !.pc = "create"]
      \/ attempt'[j] = [attempt[j] EXCEPT !.pc = "droplock", !.outcome = "failed"]
  <2>1. CASE owner[j] = mine
    BY <1>2, <2>1, WorkspaceAssumption DEF Claim, Goto, Shape
  <2>2. CASE owner[j] \in Manifests /\ owner[j] # mine
    BY <2>2, WorkspaceAssumption DEF Claim, Goto, Shape
  <2>3. CASE owner[j] = Absent /\ ~PathsExist(j, attempt[j].format)
    BY <1>2, <2>3, WorkspaceAssumption DEF Claim, Goto, Shape
  <2>4. CASE ~(owner[j] \in Manifests) /\ ~(owner[j] = Absent /\ ~PathsExist(j, attempt[j].format))
    <3>1. Ends(j, "failed", "droplock")
      BY <1>2, <2>4 DEF Claim
    <3> QED
      BY <1>1, <3>1 DEF Ends, Shape
  <2> QED
    BY <2>1, <2>2, <2>3, <2>4
<1>4. AttemptKnows(j)'
  <2>1. /\ attempt'[j].name = attempt[j].name /\ attempt'[j].format = attempt[j].format
        /\ attempt'[j].source = attempt[j].source
        /\ attempt'[j].preserve = attempt[j].preserve
        /\ \/ /\ attempt'[j].pc \in {"sweep", "stale", "create"}
              /\ attempt'[j].outcome = attempt[j].outcome
           \/ attempt'[j].pc = "droplock" /\ attempt'[j].outcome = "failed"
    BY <1>1, <1>3 DEF Attempts
  <2> QED
    BY <1>1, <2>1 DEF AttemptKnows, Naming, Claiming, Fetching, Dropping
<1>5. QueueKnows(j)' /\ CancelKnows(j)'
  BY <1>1, <1>3 DEF QueueKnows, CancelKnows, Live, Attempts, Clean, Unaccounted, WorkGone
<1>6. OwnerKnows(j)'
  <2>1. CASE owner[j] = mine /\ attempt'[j] = [attempt[j] EXCEPT !.pc = "sweep"]
    BY <1>1, <1>2, <2>1 DEF OwnerKnows, Attempts
  <2>2. CASE ~(owner[j] = mine /\ attempt'[j] = [attempt[j] EXCEPT !.pc = "sweep"])
    BY <1>1, <1>3, <2>2 DEF OwnerKnows, Fetching, Dropping, Attempts
  <2> QED
    BY <2>1, <2>2
<1>7. FilesOwned(j)'
  <2>1. CASE owner[j] \in Manifests
    <3>1. Unaccounted(j) \subseteq SourcesOf(owner[j].format)
      BY <2>1 DEF FilesOwned
    <3> QED
      BY <1>1, <2>1, <3>1, NotSources DEF FilesOwned, Unaccounted, Shape
  <2>2. CASE owner[j] \notin Manifests
    BY <1>1, <2>2 DEF FilesOwned, Unaccounted, WorkGone
  <2> QED
    BY <2>1, <2>2
<1>8. FilesKnown(j)' /\ SavedKept(j)'
  BY <1>1, <1>3 DEF FilesKnown, SavedKept, Attempts
<1> QED
  BY <1>4, <1>5, <1>6, <1>7, <1>8

LEMMA FetchKeepsLocal ==
    ASSUME Shape, NEW j \in Jobs, Local(j), Fetch(j)
    PROVE  Local(j)'
<1> USE DEF Local
<1> DEFINE done == attempt[j].source > Sources[attempt[j].format]
<1>1. /\ owner'[j] = owner[j] /\ part'[j] = part[j] /\ whole'[j] = whole[j]
      /\ work'[j] = work[j] /\ saved'[j] = saved[j] /\ state'[j] = state[j]
      /\ up' = up /\ attempt[j] \in Attempts /\ litter'[j] = litter[j]
      /\ attempt[j].pc = "fetch" /\ up
      /\ early' = early
  BY DEF Fetch, At, Shape, files, history, remains
<1>2. attempt[j].preserve = FALSE
  BY <1>1 DEF AttemptKnows, Dropping, Attempts
<1>3. \/ attempt'[j] = [attempt[j] EXCEPT !.pc = "produce", !.preserve = FALSE]
      \/ ~done /\ attempt'[j] = [attempt[j] EXCEPT !.pc = "transfer", !.preserve = FALSE]
      \/ \E o \in {"failed", "paused", "cancelled"} :
           attempt'[j] = [attempt[j] EXCEPT !.pc = "dropfiles", !.preserve = FALSE,
                                            !.outcome = o]
  <2>1. CASE \E o \in Told :
               attempt' = [attempt EXCEPT ![j].pc = "dropfiles",
                                          ![j].preserve = attempt[j].preserve /\ ~done,
                                          ![j].outcome = o]
    <3>1. PICK o \in Told :
            attempt' = [attempt EXCEPT ![j].pc = "dropfiles",
                                       ![j].preserve = attempt[j].preserve /\ ~done,
                                       ![j].outcome = o]
      BY <2>1
    <3>2. /\ o \in {"failed", "paused", "cancelled"}
          /\ attempt'[j] = [attempt[j] EXCEPT !.pc = "dropfiles", !.preserve = FALSE,
                                              !.outcome = o]
      BY <1>2, <3>1 DEF Shape, Told
    <3> QED
      BY <3>2
  <2>2. CASE attempt' = [attempt EXCEPT ![j].pc = IF done THEN "produce" ELSE "transfer",
                                        ![j].preserve = attempt[j].preserve /\ ~done]
    BY <1>2, <2>2 DEF Shape
  <2> QED
    BY <2>1, <2>2 DEF Fetch
<1>4. AttemptKnows(j)'
  <2>1. attempt[j].format \in Formats /\ Sources[attempt[j].format] \in Nat
    BY <1>1, WorkspaceAssumption DEF AttemptKnows, Fetching
  <2>2. attempt[j].source \in Nat
    BY <1>1 DEF Attempts
  <2>3. CASE attempt'[j] = [attempt[j] EXCEPT !.pc = "produce", !.preserve = FALSE]
    BY <1>1, <2>1, <2>3 DEF AttemptKnows, Naming, Claiming, Fetching, Dropping, Attempts
  <2>4. CASE ~done /\ attempt'[j] = [attempt[j] EXCEPT !.pc = "transfer", !.preserve = FALSE]
    BY <1>1, <2>1, <2>2, <2>4 DEF AttemptKnows, Naming, Claiming, Fetching, Dropping, Attempts
  <2>5. CASE \E o \in {"failed", "paused", "cancelled"} :
               attempt'[j] = [attempt[j] EXCEPT !.pc = "dropfiles", !.preserve = FALSE,
                                                !.outcome = o]
    BY <1>1, <2>1, <2>5 DEF AttemptKnows, Naming, Claiming, Fetching, Dropping, Attempts
  <2> QED
    BY <1>3, <2>3, <2>4, <2>5
<1>5. QueueKnows(j)' /\ CancelKnows(j)'
  BY <1>1, <1>3 DEF QueueKnows, CancelKnows, Live, Attempts, Clean, Unaccounted, WorkGone
<1>6. OwnerKnows(j)'
  BY <1>1, <1>3 DEF OwnerKnows, Fetching, Dropping, Attempts
<1>7. FilesOwned(j)' /\ FilesKnown(j)' /\ SavedKept(j)'
  BY <1>1, <1>3 DEF FilesOwned, FilesKnown, SavedKept, Claiming, Fetching, Attempts,
     Unaccounted, WorkGone
<1> QED
  BY <1>4, <1>5, <1>6, <1>7

LEMMA VerifyKeepsLocal ==
    ASSUME Shape, NEW j \in Jobs, Local(j), Verify(j)
    PROVE  Local(j)'
<1> USE DEF Local
<1>1. /\ owner'[j] = owner[j] /\ part'[j] = part[j] /\ whole'[j] = whole[j]
      /\ work'[j] = work[j] /\ saved'[j] = saved[j] /\ state'[j] = state[j]
      /\ up' = up /\ attempt[j] \in Attempts /\ litter'[j] = litter[j]
      /\ attempt[j].pc = "verify" /\ up
      /\ early' = early
  BY DEF Verify, At, Shape, files, history, remains
<1>2. \/ work[j] = "sound" /\ attempt'[j] = [attempt[j] EXCEPT !.pc = "publish"]
      \/ \E o \in {"failed", "paused", "cancelled"} :
           attempt'[j] = [attempt[j] EXCEPT !.pc = "dropfiles", !.outcome = o]
  BY Moves
<1>3. AttemptKnows(j)'
  <2>1. /\ attempt'[j].name = attempt[j].name /\ attempt'[j].format = attempt[j].format
        /\ attempt'[j].source = attempt[j].source
        /\ attempt'[j].preserve = attempt[j].preserve
        /\ \/ attempt'[j].pc = "publish" /\ attempt'[j].outcome = attempt[j].outcome
           \/ attempt'[j].pc = "dropfiles" /\ attempt'[j].outcome # "none"
    BY <1>1, <1>2 DEF Attempts
  <2> QED
    BY <1>1, <2>1 DEF AttemptKnows, Naming, Claiming, Fetching, Dropping
<1>4. QueueKnows(j)' /\ CancelKnows(j)'
  BY <1>1, <1>2 DEF QueueKnows, CancelKnows, Live, Attempts, Clean, Unaccounted, WorkGone
<1>5. OwnerKnows(j)'
  BY <1>1, <1>2 DEF OwnerKnows, Fetching, Dropping, Attempts
<1>6. FilesOwned(j)' /\ FilesKnown(j)' /\ SavedKept(j)'
  BY <1>1, <1>2 DEF FilesOwned, FilesKnown, SavedKept, Claiming, Fetching, Attempts,
     Unaccounted, WorkGone
<1> QED
  BY <1>3, <1>4, <1>5, <1>6

LEMMA PublishKeepsLocal ==
    ASSUME Shape, NEW j \in Jobs, Local(j), Publish(j) \/ Unlink(j)
    PROVE  Local(j)'
<1> USE DEF Local
<1>1. /\ owner'[j] = owner[j] /\ part'[j] = part[j] /\ whole'[j] = whole[j]
      /\ saved'[j] = saved[j] /\ state'[j] = state[j] /\ work'[j] \in {work[j], Absent}
      /\ up' = up /\ up /\ attempt[j] \in Attempts /\ attempt[j].pc \in {"publish", "unlink"}
      /\ litter'[j] = litter[j] /\ early' = early
  BY DEF Publish, Unlink, At, Shape, history, remains
<1>2. \/ attempt'[j] = [attempt[j] EXCEPT !.pc = "unlink"]
      \/ attempt'[j] = [attempt[j] EXCEPT !.outcome = "failed", !.pc = "release"]
      \/ attempt'[j] = [attempt[j] EXCEPT !.outcome = "completed", !.pc = "release"]
  <2>1. CASE Publish(j)
    BY <1>1, <2>1 DEF Publish, Goto, Ends, Shape
  <2>2. CASE Unlink(j)
    <3>1. Ends(j, "completed", "release") \/ Ends(j, "failed", "release")
      BY <2>2 DEF Unlink
    <3> QED
      BY <1>1, <3>1 DEF Ends, Shape
  <2> QED
    BY <2>1, <2>2
<1>3. AttemptKnows(j)'
  <2>1. /\ attempt'[j].name = attempt[j].name /\ attempt'[j].format = attempt[j].format
        /\ attempt'[j].source = attempt[j].source
        /\ attempt'[j].preserve = attempt[j].preserve
        /\ \/ attempt'[j].pc = "unlink" /\ attempt'[j].outcome = attempt[j].outcome
           \/ attempt'[j].pc = "release" /\ attempt'[j].outcome # "none"
    BY <1>1, <1>2 DEF Attempts
  <2> QED
    BY <1>1, <2>1 DEF AttemptKnows, Naming, Claiming, Fetching, Dropping
<1>4. QueueKnows(j)' /\ CancelKnows(j)'
  BY <1>1, <1>2 DEF QueueKnows, CancelKnows, Live, Attempts, Clean, Unaccounted, WorkGone
<1>5. OwnerKnows(j)'
  BY <1>1, <1>2 DEF OwnerKnows, Fetching, Dropping, Attempts
<1>6. FilesOwned(j)' /\ FilesKnown(j)' /\ SavedKept(j)'
  BY <1>1, <1>2 DEF FilesOwned, FilesKnown, SavedKept, Claiming, Fetching, Attempts,
     Unaccounted, WorkGone
<1> QED
  BY <1>3, <1>4, <1>5, <1>6

(* A step of a job keeps what it relies on itself, ...                       *)
LEMMA OwnLocal ==
    ASSUME Shape, NEW j \in Jobs, Local(j), JobStep(j)
    PROVE  Local(j)'
<1>1. CASE Start(j) \/ Requeue(j) \/ Cancel(j) \/ Finish(j) \/ Analyze(j)
  BY <1>1, StartKeepsLocal, RequeueKeepsLocal, CancelKeepsLocal, FinishKeepsLocal,
     AnalyzeKeepsLocal
<1>3. CASE Reserve(j) \/ Look(j) \/ Claim(j) \/ RemoveStale(j) \/ CreateOwner(j)
  BY <1>3, NamingKeepsLocal, ClaimKeepsLocal, RemoveStaleKeepsLocal, CreateOwnerKeepsLocal
<1>4. CASE FillOwner(j) \/ Sweep(j) \/ Fetch(j) \/ Transfer(j) \/ TransferEnds(j)
  BY <1>4, FillOwnerKeepsLocal, SweepKeepsLocal, FetchKeepsLocal, TransferKeepsLocal,
     TransferEndsKeepsLocal
<1>5. CASE TransferStops(j) \/ Produce(j) \/ ProduceStops(j) \/ Verify(j)
  BY <1>5, TransferStopsKeepsLocal, ProduceKeepsLocal, ProduceStopsKeepsLocal,
     VerifyKeepsLocal
<1>6. CASE Publish(j) \/ Unlink(j) \/ Release(j)
  BY <1>6, PublishKeepsLocal, ReleaseKeepsLocal
<1>7. CASE DropFiles(j) \/ DropUnlisted(j) \/ DropOwner(j) \/ DropLock(j)
  BY <1>7, DropFilesKeepsLocal, DropUnlistedKeepsLocal, DropOwnerKeepsLocal,
     DropLockKeepsLocal
<1> QED
  BY <1>1, <1>3, <1>4, <1>5, <1>6, <1>7 DEF JobStep

(* ... and what another one relies on.                                       *)
LEMMA OtherLocal ==
    ASSUME Shape, NEW j \in Jobs, JobStep(j), NEW k \in Jobs, k # j, Local(k)
    PROVE  Local(k)'
<1>1. /\ attempt'[k] = attempt[k] /\ state'[k] = state[k]
      /\ owner'[k] = owner[k] /\ part'[k] = part[k] /\ whole'[k] = whole[k]
      /\ work'[k] = work[k] /\ saved'[k] = saved[k] /\ (k \in early' <=> k \in early)
      /\ up' = up /\ litter'[k] = litter[k]
  BY OthersKept, Frame
<1>2. AttemptKnows(k)' /\ QueueKnows(k)' /\ OwnerKnows(k)' /\ CancelKnows(k)'
  BY <1>1 DEF Local, AttemptKnows, QueueKnows, Live, OwnerKnows, CancelKnows, Clean,
     Unaccounted, WorkGone
<1>3. FilesOwned(k)' /\ FilesKnown(k)' /\ SavedKept(k)'
  BY <1>1 DEF Local, FilesOwned, FilesKnown, SavedKept, Unaccounted, WorkGone
<1> QED
  BY <1>2, <1>3 DEF Local

(* A crash leaves the files where they are and no attempt that relies on     *)
(* more than that they are owned.                                            *)
LEMMA CrashLocal ==
    ASSUME Shape, NEW k \in Jobs, Local(k), Crash
    PROVE  Local(k)'
<1>1. /\ attempt'[k] = Idle /\ up' = FALSE
      /\ state'[k] = state[k] /\ early' = early
      /\ owner'[k] = owner[k] /\ part'[k] = part[k] /\ whole'[k] = whole[k]
      /\ work'[k] = work[k] /\ saved'[k] = saved[k] /\ litter'[k] = litter[k]
  BY DEF Crash, files, remains, Shape
<1>2. /\ Idle.pc = "idle" /\ Idle.name = Absent /\ Idle.source = 1
      /\ Idle.preserve = FALSE /\ Idle.outcome = "none"
  BY DEF Idle
<1>3. AttemptKnows(k)' /\ QueueKnows(k)' /\ OwnerKnows(k)'
  BY <1>1, <1>2 DEF AttemptKnows, QueueKnows, OwnerKnows, Live, Naming, Claiming,
     Fetching, Dropping
<1>4. FilesOwned(k)' /\ FilesKnown(k)' /\ CancelKnows(k)' /\ SavedKept(k)'
  BY <1>1, <1>2 DEF Local, FilesOwned, FilesKnown, CancelKnows, SavedKept, Claiming, Fetching,
     Unaccounted, WorkGone, Clean
<1> QED
  BY <1>3, <1>4 DEF Local

(* The next start only removes files, and what it keeps is still owned.      *)
LEMMA ReopenLocal ==
    ASSUME Shape, NEW k \in Jobs, Local(k), Reopen
    PROVE  Local(k)'
<1>1. /\ attempt'[k] = attempt[k] /\ ~up /\ up' = TRUE
      /\ state'[k] = IF state[k] = "running" THEN "interrupted" ELSE state[k]
      /\ owner'[k] = owner[k] /\ part'[k] = part[k] /\ saved'[k] = saved[k]
      /\ early' = early /\ litter'[k] = litter[k]
      /\ whole'[k] \subseteq whole[k] /\ work'[k] \in {work[k], Absent}
  BY DEF Reopen, Shape, remains
<1>2. ~Live(k) /\ attempt[k].pc = "idle"
  BY <1>1 DEF Local, QueueKnows, Live
<1>3. AttemptKnows(k)' /\ QueueKnows(k)' /\ OwnerKnows(k)'
  BY <1>1, <1>2 DEF Local, AttemptKnows, QueueKnows, OwnerKnows, Live, Naming, Claiming,
     Fetching, Dropping
<1>4. FilesOwned(k)'
  BY <1>1 DEF Local, FilesOwned, Unaccounted, WorkGone
<1>5. FilesKnown(k)' /\ CancelKnows(k)' /\ SavedKept(k)'
  BY <1>1, <1>2 DEF Local, FilesKnown, CancelKnows, SavedKept, Claiming, Fetching, Unaccounted,
     WorkGone, Clean
<1> QED
  BY <1>3, <1>4, <1>5 DEF Local

LEMMA LocalStep ==
    ASSUME Shape, \A j \in Jobs : Local(j), [Next]_vars
    PROVE  \A j \in Jobs : Local(j)'
<1>1. ASSUME NEW j \in Jobs, JobStep(j), NEW k \in Jobs PROVE Local(k)'
  BY <1>1, OwnLocal, OtherLocal
<1>2. ASSUME NEW n \in Names, StrangerCreates(n) \/ UNCHANGED vars, NEW k \in Jobs
      PROVE  Local(k)'
  <2>1. UNCHANGED <<state, attempt, owner, part, whole, work, up, early, saved, litter>>
    BY <1>2 DEF StrangerCreates, vars, files, history, remains
  <2> QED
    BY <2>1 DEF Local, AttemptKnows, QueueKnows, OwnerKnows, FilesOwned, FilesKnown,
       CancelKnows, SavedKept, Live, Unaccounted, WorkGone, Clean
<1>3. CASE Crash
  BY <1>3, CrashLocal
<1>4. CASE Reopen
  BY <1>4, ReopenLocal
<1>5. \E n \in Names : TRUE
  BY WorkspaceAssumption DEF Names
<1> QED
  BY <1>1, <1>2, <1>3, <1>4, <1>5, NextCases

-----------------------------------------------------------------------------
(* What the steps of a job do to the names.                                  *)

(* A reservation that is given up is gone, or a leak.                        *)
LEMMA GivesUp ==
    ASSUME Shape, NEW j \in Jobs, attempt[j].name \in Names, GiveUpReservation(j)
    PROVE  /\ stolen => stolen'
           /\ \A n \in Names \ {attempt[j].name} :
                 lock'[n] = lock[n] /\ (n \in leaked' <=> n \in leaked)
           /\ LET n == attempt[j].name IN
              \/ /\ lock'[n] = Absent /\ n \notin leaked'
                 /\ \A k \in Jobs \ {j} : lock[n] = k /\ Holds(k, n) => stolen'
              \/ lock'[n] = lock[n] /\ n \in leaked'
<1>1. lock \in [Names -> Jobs \cup {Absent}]
  BY DEF Shape
<1>2. CASE RemoveReservation(attempt[j].name, Jobs \ {j})
  BY <1>1, <1>2 DEF RemoveReservation
<1>3. CASE leaked' = leaked \cup {attempt[j].name} /\ UNCHANGED <<lock, stolen>>
  BY <1>1, <1>3
<1> QED
  BY <1>2, <1>3 DEF GiveUpReservation

(* Only Reserve gains a name, and one that is free; a name is given up        *)
(* together with the file of its reservation, or the file is a leak.         *)
LEMMA HoldsStep ==
    ASSUME Shape, NEW j \in Jobs, Local(j), JobStep(j), NEW n \in Names
    PROVE  /\ Holds(j, n)' => \/ Holds(j, n)
                              \/ /\ Reserve(j) /\ attempt[j].pc = "reserve"
                                 /\ lock[n] = Absent /\ lock' = [lock EXCEPT ![n] = j]
                                 /\ attempt'[j].pc = "look"
           /\ Holds(j, n) /\ ~Holds(j, n)' =>
                 /\ Look(j) \/ Release(j) \/ DropLock(j)
                 /\ lock'[n] = Absent \/ n \in leaked'
<1>1. attempt[j] \in Attempts /\ AttemptKnows(j) /\ Absent \notin Names
  BY WorkspaceAssumption DEF Shape, Local
<1> USE <1>1 DEF Holds, Live
<1>2. CASE Start(j) \/ Analyze(j) \/ Requeue(j) \/ Cancel(j) \/ Finish(j)
  <2>1. CASE Start(j)
    BY <2>1, Moves DEF Idle
  <2>2. CASE Analyze(j)
    <3>1. attempt[j].pc = "analyze"
      BY <2>2, Moves
    <3>2. attempt[j].name = Absent
      BY <3>1 DEF AttemptKnows
    <3>3. attempt'[j].pc = "reserve" \/ attempt'[j].name = Absent
      <4>1. ASSUME NEW f \in Formats,
                   attempt'[j] = [attempt[j] EXCEPT !.pc = "reserve", !.name = 0, !.format = f]
            PROVE  attempt'[j].pc = "reserve"
        BY <1>1, <4>1 DEF Attempts
      <4>2. ASSUME NEW o \in {"failed", "paused", "cancelled"},
                   attempt'[j] = [attempt[j] EXCEPT !.pc = "finish", !.outcome = o]
            PROVE  attempt'[j].name = Absent
        BY <1>1, <3>2, <4>2 DEF Attempts
      <4> QED
        BY <2>2, <4>1, <4>2, Moves
    <3> QED
      BY <3>2, <3>3
  <2>3. CASE Requeue(j) \/ Cancel(j)
    BY <2>3, Moves
  <2>4. CASE Finish(j)
    <3>1. attempt[j].pc = "finish" /\ attempt'[j] = Idle
      BY <2>4, Moves
    <3>2. attempt[j].name = Absent
      BY <3>1 DEF AttemptKnows
    <3> QED
      BY <3>1, <3>2 DEF Idle
  <2> QED
    BY <1>2, <2>1, <2>2, <2>3, <2>4
<1>3. CASE Reserve(j)
  <2>1. attempt[j].pc = "reserve" /\ attempt[j].name \in Names
    BY <1>3, Moves
  <2>2. CASE lock[attempt[j].name] = Absent
    <3>1. /\ attempt'[j] = [attempt[j] EXCEPT !.pc = "look"]
          /\ lock' = [lock EXCEPT ![attempt[j].name] = j]
      BY <1>3, <2>2 DEF Reserve, Goto, Shape
    <3> QED
      BY <1>3, <2>1, <2>2, <3>1 DEF Attempts
  <2>3. CASE lock[attempt[j].name] # Absent
    BY <1>3, <2>1, <2>3, NextName DEF Reserve, Attempts
  <2> QED
    BY <2>2, <2>3
<1>4. CASE Look(j)
  <2>1. attempt[j].pc = "look" /\ attempt[j].name \in Names
    BY <1>4, Moves
  <2>2. CASE final[attempt[j].name] = Absent
    <3>1. attempt'[j] = [attempt[j] EXCEPT !.pc = "claim"]
      BY <1>4, <2>2 DEF Look, Goto, Shape
    <3> QED
      BY <2>1, <3>1 DEF Attempts
  <2>3. CASE final[attempt[j].name] # Absent
    <3>1. TryNext(j) /\ GiveUpReservation(j)
      BY <1>4, <2>3 DEF Look
    <3>2. ~Holds(j, n)'
      BY <2>1, <3>1, NextName DEF Attempts
    <3> QED
      BY <1>4, <2>1, <3>1, <3>2, GivesUp
  <2> QED
    BY <2>2, <2>3
<1>5. CASE Release(j)
  <2>1. GiveUpReservation(j)
    BY <1>5 DEF Release
  <2>2. attempt'[j].name = Absent /\ attempt'[j].pc = "dropfiles"
    <3>1. attempt'[j] = [attempt[j] EXCEPT !.pc = "dropfiles", !.name = Absent]
      BY <1>5, Moves
    <3> QED
      BY <3>1 DEF Attempts
  <2>3. Holds(j, n) => n = attempt[j].name
    OBVIOUS
  <2>4. Holds(j, n) => lock'[n] = Absent \/ n \in leaked'
    BY <2>1, <2>3, GivesUp
  <2> QED
    BY <1>5, <2>2, <2>4
<1>6. CASE DropLock(j)
  <2>1. attempt[j].name # Absent => GiveUpReservation(j)
    BY <1>6 DEF DropLock
  <2>2. attempt'[j] = [Idle EXCEPT !.pc = "finish", !.outcome = attempt[j].outcome]
    BY <1>6, Moves
  <2>3. ~Holds(j, n)'
    BY <2>2 DEF Idle
  <2>4. Holds(j, n) => lock'[n] = Absent \/ n \in leaked'
    BY <2>1, GivesUp
  <2> QED
    BY <1>6, <2>3, <2>4
<1>7. CASE Transfer(j)
  BY <1>7, Moves
<1>8. CASE RemoveStale(j) \/ CreateOwner(j) \/ FillOwner(j) \/ Sweep(j) \/ TransferEnds(j)
  <2>1. /\ attempt[j].pc \notin {"idle", "reserve"}
        /\ attempt'[j].pc \notin {"idle", "reserve"} /\ attempt'[j].name = attempt[j].name
    <3>1. CASE RemoveStale(j) \/ CreateOwner(j) \/ FillOwner(j)
      BY <3>1, Moves DEF Attempts
    <3>2. CASE Sweep(j) \/ TransferEnds(j)
      BY <3>2, Moves DEF Attempts
    <3> QED
      BY <1>8, <3>1, <3>2
  <2> QED
    BY <2>1
<1>9. CASE TransferStops(j) \/ Produce(j) \/ ProduceStops(j) \/ Verify(j)
  <2>1. /\ attempt[j].pc \notin {"idle", "reserve"}
        /\ attempt'[j].pc \notin {"idle", "reserve"} /\ attempt'[j].name = attempt[j].name
    <3>1. CASE TransferStops(j)
      <4>1. attempt[j].pc = "transfer"
        BY <3>1, Moves
      <4>2. PICK o \in {"failed", "paused", "cancelled"} :
              attempt'[j] = [attempt[j] EXCEPT !.pc = "dropfiles", !.outcome = o,
                                               !.preserve = (o # "cancelled")]
        BY <3>1, Moves
      <4> QED
        BY <4>1, <4>2 DEF Attempts
    <3>2. CASE Produce(j)
      BY <3>2, Moves DEF Attempts
    <3>3. CASE ProduceStops(j)
      BY <3>3, Moves DEF Attempts
    <3>4. CASE Verify(j)
      BY <3>4, Moves DEF Attempts
    <3> QED
      BY <1>9, <3>1, <3>2, <3>3, <3>4
  <2> QED
    BY <2>1
<1>10. CASE DropFiles(j) \/ DropUnlisted(j) \/ DropOwner(j)
  BY <1>10, Moves DEF Attempts
<1>11. CASE Claim(j) \/ Fetch(j) \/ Publish(j) \/ Unlink(j)
  <2>1. /\ attempt[j].pc \in {"claim", "fetch", "publish", "unlink"}
        /\ attempt'[j].pc \notin {"idle", "reserve"} /\ attempt'[j].name = attempt[j].name
    <3>1. CASE Claim(j)
      BY <3>1 DEF Claim, At, Goto, Ends, PathsExist, Shape, Attempts
    <3>2. CASE Fetch(j)
      BY <3>2 DEF Fetch, At, Told, Shape, Attempts
    <3>3. CASE Publish(j)
      BY <3>3 DEF Publish, At, Goto, Ends, Shape, Attempts
    <3>4. CASE Unlink(j)
      BY <3>4 DEF Unlink, At, Ends, Shape, Attempts
    <3> QED
      BY <1>11, <3>1, <3>2, <3>3, <3>4
  <2> QED
    BY <2>1
<1> QED
  BY <1>2, <1>3, <1>4, <1>5, <1>6, <1>7, <1>8, <1>9, <1>10, <1>11 DEF JobStep

(* The file of a reservation changes in one of two ways, and one that stays   *)
(* against the code's intent is a leak; a clean-up that takes the reservation *)
(* of an attempt that runs is recorded.                                      *)
LEMMA LockStep ==
    ASSUME Shape, NEW j \in Jobs, Local(j), JobStep(j), NEW n \in Names
    PROVE  /\ stolen => stolen'
           /\ \/ lock'[n] = lock[n] /\ (n \in leaked => n \in leaked')
              \/ Reserve(j) /\ lock[n] = Absent /\ lock'[n] = j /\ Holds(j, n)'
              \/ /\ lock'[n] = Absent
                 /\ \A k \in Jobs : lock[n] = k /\ Holds(k, n) /\ Holds(k, n)' => stolen'
<1>1. lock \in [Names -> Jobs \cup {Absent}] /\ attempt[j] \in Attempts /\ Absent \notin Names
  BY WorkspaceAssumption DEF Shape
<1>2. CASE Reserve(j)
  <2>1. stolen' = stolen /\ leaked' = leaked
    BY <1>2 DEF Reserve, history, remains
  <2>2. attempt[j].name \in Names
    BY <1>2, Moves DEF Local
  <2>3. CASE lock[attempt[j].name] = Absent
    <3>1. /\ attempt'[j] = [attempt[j] EXCEPT !.pc = "look"]
          /\ lock' = [lock EXCEPT ![attempt[j].name] = j]
      BY <1>2, <2>3 DEF Reserve, Goto, Shape
    <3> QED
      BY <1>1, <1>2, <2>1, <2>2, <2>3, <3>1 DEF Holds, Live, Attempts
  <2>4. CASE lock[attempt[j].name] # Absent
    BY <1>2, <2>1, <2>4 DEF Reserve
  <2> QED
    BY <2>3, <2>4
<1>3. CASE RemoveStale(j)
  BY <1>1, <1>3 DEF RemoveStale, RemoveNamedReservation, RemoveReservation
<1>4. CASE Cancel(j)
  <2>1. CASE owner[j] = Absent
    BY <1>4, <2>1 DEF Cancel, RemoveOwned
  <2>2. CASE owner[j] # Absent
    <3>1. RemoveReservation(owner[j].name, Jobs)
      BY <1>4, <2>2 DEF Cancel, RemoveOwned, RemoveNamedReservation
    <3> QED
      BY <1>1, <3>1 DEF RemoveReservation
  <2> QED
    BY <2>1, <2>2
<1>5. CASE /\ Look(j) \/ Release(j) \/ DropLock(j)
           /\ ~(UNCHANGED <<lock, stolen, leaked>>)
  <2>1. GiveUpReservation(j) /\ attempt[j].name \in Names
    <3>1. CASE Look(j) \/ Release(j)
      BY <1>5, <3>1 DEF Local, Look, Release, At, AttemptKnows, Naming, Fetching
    <3>2. CASE DropLock(j)
      BY <1>1, <1>5, <3>2 DEF DropLock, Attempts
    <3> QED
      BY <1>5, <3>1, <3>2
  <2>2. CASE n # attempt[j].name
    BY <2>1, <2>2, GivesUp
  <2>3. CASE n = attempt[j].name
    <3>1. ~Holds(j, n)'
      <4>1. CASE Look(j)
        <5>1. TryNext(j)
          BY <1>5, <4>1 DEF Look
        <5> QED
          BY <1>1, <2>1, <2>3, <5>1, NextName DEF Holds, Live, Attempts
      <4>2. CASE Release(j)
        BY <1>1, <4>2, Moves DEF Local, Holds, Attempts
      <4>3. CASE DropLock(j)
        BY <1>1, <4>3, Moves DEF Local, Holds, Idle
      <4> QED
        BY <1>5, <4>1, <4>2, <4>3
    <3> QED
      BY <2>1, <2>3, <3>1, GivesUp
  <2> QED
    BY <2>2, <2>3
<1>6. CASE UNCHANGED <<lock, stolen, leaked>>
  BY <1>6
<1> QED
  BY <1>2, <1>3, <1>4, <1>5, <1>6, Frame

(* The attempt that goes on from "look" has seen that its name is free.      *)
LEMMA LookSees ==
    ASSUME Shape, NEW j \in Jobs, Local(j), JobStep(j), NEW n \in Names, Holds(j, n)',
           attempt'[j].pc # "look"
    PROVE  Holds(j, n) /\ (attempt[j].pc = "look" => final[n] = Absent)
<1>1. Holds(j, n)
  BY HoldsStep
<1>2. ASSUME attempt[j].pc = "look" PROVE final[n] = Absent
  <2>1. attempt[j].name = n /\ attempt[j] \in Attempts
    BY <1>1 DEF Holds, Shape
  <2>2. Look(j)
    <3>1. attempt'[j] # attempt[j]
      BY <1>2
    <3> QED
      BY <1>2, <3>1, Moves DEF Local, JobStep, Claim, Fetch, Publish, Unlink, At
  <2>3. ~TryNext(j)
    <3>1. CASE TryNext(j)
      <4>1. attempt'[j].pc = "reserve" \/ attempt'[j].name = Absent
        BY <2>1, <3>1, NextName DEF Attempts
      <4> QED
        BY <4>1, WorkspaceAssumption DEF Holds
    <3> QED
      BY <3>1
  <2> QED
    BY <2>1, <2>2, <2>3 DEF Look
<1> QED
  BY <1>1, <1>2

-----------------------------------------------------------------------------
(* What the steps do to the second part of the invariant.                    *)

(* Whoever holds a name keeps its reservation, unless the theft is recorded. *)
LEMMA HoldersLockedStep ==
    ASSUME Shape, \A j \in Jobs : Local(j), HoldersLocked, [Next]_vars
    PROVE  HoldersLocked'
<1>1. ASSUME NEW j \in Jobs, JobStep(j), ~stolen', NEW k \in Jobs, NEW n \in Names,
             Holds(k, n)'
      PROVE  lock'[n] = k
  <2>1. ~stolen
    BY <1>1, LockStep
  <2>2. CASE ~Holds(k, n)
    <3>1. k = j
      BY <1>1, <2>2, OthersKept DEF Holds, Live
    <3> QED
      BY <1>1, <2>2, <3>1, HoldsStep DEF Shape
  <2>3. CASE Holds(k, n)
    <3>1. lock[n] = k
      BY <2>1, <2>3 DEF HoldersLocked
    <3> QED
      BY <1>1, <2>3, <3>1, LockStep, WorkspaceAssumption
  <2> QED
    BY <2>2, <2>3
<1>2. ASSUME NEW n \in Names, StrangerCreates(n) PROVE HoldersLocked'
  BY <1>2 DEF StrangerCreates, HoldersLocked, Holds, Live, history, remains
<1>3. CASE Crash
  BY <1>3 DEF Crash, HoldersLocked, Holds, Live, Idle
<1>4. CASE Reopen
  BY <1>4 DEF Reopen, HoldersLocked, Holds, Live, Local, QueueKnows
<1>5. CASE UNCHANGED vars
  BY <1>5 DEF vars, files, history, remains, HoldersLocked, Holds, Live
<1> QED
  BY <1>1, <1>2, <1>3, <1>4, <1>5, NextCases DEF HoldersLocked

(* Two attempts do not hold one name.                                        *)
LEMMA OneHolder ==
    ASSUME HoldersLocked, ~stolen, NEW j \in Jobs, NEW k \in Jobs, NEW n \in Names,
           Holds(j, n), Holds(k, n)
    PROVE  j = k
  BY DEF HoldersLocked

(* What a step of a job does to the published files.                         *)
LEMMA FinalStep ==
    ASSUME Shape, NEW j \in Jobs, Local(j), JobStep(j), NEW n \in Names, final'[n] # final[n]
    PROVE  /\ attempt[j].name = n
           /\ \/ /\ Publish(j) /\ attempt[j].pc = "publish" /\ final[n] = Absent
                 /\ final'[n] = [by |-> j, sound |-> TRUE]
                 /\ attempt'[j] = [attempt[j] EXCEPT !.pc = "unlink"]
              \/ Unlink(j) /\ attempt[j].pc = "unlink" /\ final'[n] = Absent
<1>1. final \in [Names -> Published \cup {Absent}]
  BY DEF Shape
<1>2. CASE Publish(j)
  <2>1. final' = [final EXCEPT ![attempt[j].name] = [by |-> j, sound |-> work[j] = "sound"]]
        /\ Goto(j, "unlink") /\ final[attempt[j].name] = Absent /\ attempt[j].pc = "publish"
    BY <1>2 DEF Publish, At
  <2>2. work[j] = "sound"
    BY <2>1 DEF Local, FilesKnown, Unaccounted, WorkGone
  <2> QED
    BY <1>1, <1>2, <2>1, <2>2 DEF Goto, Shape
<1>3. CASE Unlink(j)
  BY <1>1, <1>3 DEF Unlink, At
<1> QED
  BY <1>2, <1>3, Frame

LEMMA HeldIsFreeStep ==
    ASSUME Shape, \A j \in Jobs : Local(j), HoldersLocked, HeldIsFree, [Next]_vars
    PROVE  HeldIsFree'
<1>1. ASSUME NEW j \in Jobs, JobStep(j), ~stolen', NEW k \in Jobs, NEW n \in Names,
             Holds(k, n)', attempt'[k].pc # "look", final'[n] # Absent
      PROVE  final'[n].by \in {k, Stranger}
  <2>1. ~stolen
    BY <1>1, LockStep
  <2>2. Holds(k, n) /\ (attempt[k].pc = "look" => final[n] = Absent)
    <3>1. CASE k = j
      BY <1>1, <3>1, LookSees
    <3>2. CASE k # j
      BY <1>1, <3>2, OthersKept DEF Holds, Live
    <3> QED
      BY <3>1, <3>2
  <2>3. CASE final'[n] = final[n]
    BY <1>1, <2>1, <2>2, <2>3 DEF HeldIsFree
  <2>4. CASE final'[n] # final[n]
    <3>1. /\ attempt[j].name = n /\ attempt[j].pc = "publish"
          /\ final'[n] = [by |-> j, sound |-> TRUE]
      BY <1>1, <2>4, FinalStep
    <3>2. Holds(j, n)
      BY <3>1 DEF Holds, Live
    <3> QED
      BY <2>1, <2>2, <3>1, <3>2, OneHolder
  <2> QED
    BY <2>3, <2>4
<1>2. ASSUME NEW m \in Names, StrangerCreates(m) PROVE HeldIsFree'
  <2>1. /\ attempt' = attempt /\ stolen' = stolen
        /\ final' = [final EXCEPT ![m] = [by |-> Stranger, sound |-> TRUE]]
    BY <1>2 DEF StrangerCreates, history, remains
  <2> QED
    BY <2>1 DEF HeldIsFree, Holds, Live, Shape
<1>3. CASE Crash
  BY <1>3 DEF Crash, HeldIsFree, Holds, Live, Idle
<1>4. CASE Reopen
  BY <1>4 DEF Reopen, HeldIsFree, Holds, Live
<1>5. CASE UNCHANGED vars
  BY <1>5 DEF vars, files, history, remains, HeldIsFree, Holds, Live
<1> QED
  BY <1>1, <1>2, <1>3, <1>4, <1>5, NextCases DEF HeldIsFree

LEMMA JobsRunUp ==
    ASSUME NEW j \in Jobs, JobStep(j)
    PROVE  up
<1>1. CASE Start(j) \/ Requeue(j) \/ Cancel(j)
  BY <1>1 DEF Start, Requeue, Cancel
<1>2. CASE Analyze(j) \/ Reserve(j) \/ Look(j) \/ Claim(j) \/ RemoveStale(j) \/ CreateOwner(j)
  BY <1>2 DEF Analyze, Reserve, Look, Claim, RemoveStale, CreateOwner, At
<1>3. CASE FillOwner(j) \/ Sweep(j) \/ Fetch(j) \/ Transfer(j) \/ TransferEnds(j)
  BY <1>3 DEF FillOwner, Sweep, Fetch, Transfer, TransferEnds, At
<1>4. CASE TransferStops(j) \/ Produce(j) \/ ProduceStops(j) \/ Verify(j)
  BY <1>4 DEF TransferStops, Produce, ProduceStops, Verify, At
<1>5. CASE Publish(j) \/ Unlink(j) \/ Release(j)
  BY <1>5 DEF Publish, Unlink, Release, At
<1>6. CASE DropFiles(j) \/ DropUnlisted(j) \/ DropOwner(j) \/ DropLock(j) \/ Finish(j)
  BY <1>6 DEF DropFiles, DropUnlisted, DropOwner, DropLock, Finish, At
<1> QED
  BY <1>1, <1>2, <1>3, <1>4, <1>5, <1>6 DEF JobStep

(* A reservation has its holder, a manifest after a crash, or has leaked.    *)
LEMMA LocksHaveHoldersStep ==
    ASSUME Shape, \A j \in Jobs : Local(j), LocksHaveHolders, [Next]_vars
    PROVE  LocksHaveHolders'
<1>1. ASSUME NEW j \in Jobs, JobStep(j), NEW n \in Names, n \notin leaked',
             NEW k \in Jobs, lock'[n] = k
      PROVE  Holds(k, n)' /\ up'
  <2>1. up /\ up'
    BY <1>1, JobsRunUp, Frame
  <2>2. CASE Reserve(j) /\ lock[n] = Absent /\ lock'[n] = j /\ Holds(j, n)'
    BY <1>1, <2>1, <2>2
  <2>3. CASE lock'[n] = lock[n] /\ n \notin leaked
    <3>1. Holds(k, n)
      BY <1>1, <2>1, <2>3, WorkspaceAssumption DEF LocksHaveHolders
    <3>2. CASE k = j
      BY <1>1, <2>1, <2>3, <3>1, <3>2, HoldsStep, WorkspaceAssumption
    <3>3. CASE k # j
      BY <1>1, <2>1, <2>3, <3>1, <3>3, OthersKept DEF Holds, Live
    <3> QED
      BY <3>2, <3>3
  <2> QED
    BY <1>1, <2>1, <2>2, <2>3, LockStep, WorkspaceAssumption
<1>2. ASSUME NEW m \in Names, StrangerCreates(m) PROVE LocksHaveHolders'
  BY <1>2 DEF StrangerCreates, LocksHaveHolders, Holds, Live, history, remains
<1>3. CASE Crash
  <2>1. /\ up /\ ~up' /\ state' = state /\ owner' = owner /\ lock' = lock
        /\ leaked' = leaked \cup
             {n \in Names : \E j \in Jobs : lock[n] = j /\ Holds(j, n)
                               /\ (owner[j] \in Manifests => owner[j].name # n)}
    BY <1>3 DEF Crash, files
  <2>2. ASSUME NEW n \in Names, n \notin leaked', lock[n] # Absent
        PROVE  /\ state[lock[n]] = "running" /\ owner[lock[n]] \in Manifests
               /\ owner[lock[n]].name = n
    <3>1. lock[n] \in Jobs /\ Holds(lock[n], n)
      BY <2>1, <2>2 DEF LocksHaveHolders, Shape
    <3>2. state[lock[n]] = "running"
      BY <2>1, <3>1 DEF Local, QueueKnows, Holds
    <3> QED
      BY <2>1, <2>2, <3>1, <3>2
  <2> QED
    BY <2>1, <2>2 DEF LocksHaveHolders
<1>4. CASE Reopen
  <2>1. ASSUME NEW n \in Names, n \notin leaked', lock'[n] # Absent PROVE FALSE
    <3>1. /\ lock'[n] = lock[n] /\ ~up
          /\ ~(\E j \in Reconciled : owner[j].name = n)
      BY <1>4, <2>1 DEF Reopen
    <3>2. n \notin leaked
      BY <1>4, <2>1, <3>1 DEF Reopen
    <3>3. /\ lock[n] \in Jobs /\ state[lock[n]] = "running" /\ owner[lock[n]] \in Manifests
          /\ owner[lock[n]].name = n
      BY <2>1, <3>1, <3>2 DEF LocksHaveHolders, Shape
    <3>4. lock[n] \in Reconciled
      BY <3>3, WorkspaceAssumption DEF Reconciled, Resting
    <3> QED
      BY <3>1, <3>3, <3>4
  <2> QED
    BY <2>1 DEF LocksHaveHolders
<1>5. CASE UNCHANGED vars
  BY <1>5 DEF vars, files, history, remains, LocksHaveHolders, Holds, Live
<1>6. ASSUME NEW j \in Jobs, JobStep(j) PROVE LocksHaveHolders'
  <2>1. lock' \in [Names -> Jobs \cup {Absent}]
    BY <1>6, SharedTyped DEF Local
  <2> QED
    BY <1>1, <1>6, <2>1 DEF LocksHaveHolders, Holds, Live
<1> QED
  BY <1>2, <1>3, <1>4, <1>5, <1>6, NextCases

(* The remaining steps of an attempt, by the position they leave and the one *)
(* they go to.                                                               *)
LEMMA LiveSteps ==
    ASSUME Shape, NEW j \in Jobs
    PROVE  /\ Claim(j) => attempt[j].pc = "claim" /\ attempt'[j].pc # "unlink"
           /\ Fetch(j) => attempt[j].pc = "fetch" /\ attempt'[j].pc # "unlink"
           /\ Publish(j) => attempt[j].pc = "publish"
           /\ Unlink(j) => attempt[j].pc = "unlink" /\ attempt'[j].pc = "release"
<1>1. attempt \in [Jobs -> Attempts] /\ attempt[j] \in Attempts
  BY DEF Shape
<1>2. Claim(j) => attempt[j].pc = "claim" /\ attempt'[j].pc # "unlink"
  BY <1>1 DEF Claim, At, Goto, Ends, PathsExist, Attempts
<1>3. Fetch(j) => attempt[j].pc = "fetch" /\ attempt'[j].pc # "unlink"
  BY <1>1 DEF Fetch, At, Told, Attempts
<1>4. Publish(j) => attempt[j].pc = "publish"
  BY DEF Publish, At
<1>5. Unlink(j) => attempt[j].pc = "unlink" /\ attempt'[j].pc = "release"
  <2>1. Unlink(j) => Ends(j, "completed", "release") \/ Ends(j, "failed", "release")
    BY DEF Unlink
  <2>2. Ends(j, "completed", "release") \/ Ends(j, "failed", "release")
           => attempt'[j].pc = "release"
    BY <1>1 DEF Ends, Attempts
  <2> QED
    BY <2>1, <2>2 DEF Unlink, At
<1> QED
  BY <1>2, <1>3, <1>4, <1>5

LEMMA UnlinkIsAhead ==
    ASSUME Shape, NEW j \in Jobs, Local(j), JobStep(j), attempt'[j].pc = "unlink",
           attempt'[j] # attempt[j]
    PROVE  Publish(j)
<1>1. attempt[j] \in Attempts
  BY DEF Shape
<1>2. ~(Start(j) \/ Requeue(j) \/ Cancel(j) \/ Finish(j) \/ DropLock(j))
  <2>1. ~Start(j) /\ ~Finish(j) /\ ~DropLock(j)
    <3>1. attempt'[j] # Idle /\ attempt'[j] # [Idle EXCEPT !.pc = "analyze"]
      BY DEF Idle
    <3>2. \A o : attempt'[j] # [Idle EXCEPT !.pc = "finish", !.outcome = o]
      BY DEF Idle
    <3> QED
      BY <3>1, <3>2, Moves DEF Local
  <2>2. ~Requeue(j) /\ ~Cancel(j)
    BY Moves DEF Local
  <2> QED
    BY <2>1, <2>2
<1>3. ~Transfer(j)
  BY Moves DEF Local
<1>4. ~Analyze(j)
  BY <1>1, Moves DEF Local, Attempts
<1>5. ~(Reserve(j) \/ Look(j))
  <2>1. TryNext(j) /\ attempt[j].name \in Names =>
           attempt'[j].pc \in {"reserve", "finish"}
    BY <1>1, NextName DEF Attempts
  <2>2. ~Goto(j, "look") /\ ~Goto(j, "claim")
    BY <1>1 DEF Goto, Shape, Attempts
  <2>3. Reserve(j) \/ Look(j) => attempt[j].name \in Names
    BY Moves DEF Local
  <2> QED
    BY <2>1, <2>2, <2>3 DEF Reserve, Look
<1>6. ~(RemoveStale(j) \/ CreateOwner(j) \/ FillOwner(j) \/ Sweep(j) \/ TransferEnds(j))
  BY <1>1, Moves DEF Local, Attempts
<1>7. ~(TransferStops(j) \/ Produce(j) \/ ProduceStops(j) \/ Verify(j))
  BY <1>1, Moves DEF Local, Attempts
<1>8. ~(Release(j) \/ DropFiles(j) \/ DropUnlisted(j) \/ DropOwner(j))
  BY <1>1, Moves DEF Local, Attempts
<1>9. ~(Claim(j) \/ Fetch(j) \/ Unlink(j))
  BY LiveSteps
<1> QED
  BY <1>2, <1>3, <1>4, <1>5, <1>6, <1>7, <1>8, <1>9 DEF JobStep

(* A job that has published is on its way to "completed", or undoes it.      *)
LEMMA PublishedByKnowsStep ==
    ASSUME Shape, \A j \in Jobs : Local(j), PublishedByKnows, [Next]_vars
    PROVE  PublishedByKnows'
<1>1. ASSUME NEW j \in Jobs, JobStep(j), NEW n \in Names, final'[n] # Absent
      PROVE  /\ final'[n].sound
             /\ \A k \in Jobs : final'[n].by = k /\ crashes' = 0 /\ n \notin standing' =>
                   \/ state'[k] = "completed"
                   \/ attempt'[k].pc = "unlink" /\ attempt'[k].name = n
                   \/ /\ attempt'[k].pc \in Dropping \cup {"release", "droplock", "finish"}
                      /\ attempt'[k].outcome = "completed"
  <2>1. CASE final'[n] # final[n]
    <3>1. /\ attempt[j].name = n /\ final'[n] = [by |-> j, sound |-> TRUE]
          /\ attempt'[j] = [attempt[j] EXCEPT !.pc = "unlink"] /\ attempt[j] \in Attempts
      BY <1>1, <2>1, FinalStep DEF Shape
    <3> QED
      BY <3>1 DEF Attempts
  <2>2. CASE final'[n] = final[n]
    <3>1. final'[n].sound
      BY <1>1, <2>2 DEF PublishedByKnows
    <3>0. standing \subseteq standing'
      BY <1>1, Frame DEF Unlink
    <3>2. ASSUME NEW k \in Jobs, final[n].by = k, crashes = 0, n \notin standing, k # j
          PROVE  \/ state'[k] = "completed"
                 \/ attempt'[k].pc = "unlink" /\ attempt'[k].name = n
                 \/ /\ attempt'[k].pc \in Dropping \cup {"release", "droplock", "finish"}
                    /\ attempt'[k].outcome = "completed"
      BY <1>1, <2>2, <3>2, OthersKept DEF PublishedByKnows
    <3>3. ASSUME final[n].by = j, crashes = 0, n \notin standing'
          PROVE  \/ state'[j] = "completed"
                 \/ attempt'[j].pc = "unlink" /\ attempt'[j].name = n
                 \/ /\ attempt'[j].pc \in Dropping \cup {"release", "droplock", "finish"}
                    /\ attempt'[j].outcome = "completed"
      <4>1. up /\ attempt[j] \in Attempts /\ state[j] \in JobStates /\ Local(j)
            /\ (state[j] = "running" <=> Live(j))
        BY <1>1, JobsRunUp DEF Shape, Local, QueueKnows
      <4>2. CASE state[j] = "completed"
        <5>1. ~Live(j) /\ attempt[j].pc = "idle"
          BY <4>1, <4>2 DEF Live
        <5> QED
          BY <1>1, <4>1, <4>2, <5>1, Frame, Moves, LiveSteps
             DEF JobStep, Start, Requeue, Cancel, Finish, Local
      <4>3. CASE attempt[j].pc = "unlink" /\ attempt[j].name = n
        <5>1. Unlink(j)
          BY <1>1, <4>1, <4>3, Moves, LiveSteps DEF Local, JobStep
        <5>2. Ends(j, "completed", "release")
          BY <1>1, <2>2, <3>3, <4>3, <5>1 DEF Unlink, Shape
        <5> QED
          BY <4>1, <5>2 DEF Ends, Attempts, Shape
      <4>4. CASE /\ attempt[j].pc \in Dropping \cup {"release", "droplock", "finish"}
                 /\ attempt[j].outcome = "completed"
        <5>1. CASE Release(j) \/ DropFiles(j) \/ DropUnlisted(j) \/ DropOwner(j)
          BY <4>1, <4>4, <5>1, Moves DEF Local, Dropping, Attempts
        <5>2. CASE DropLock(j)
          BY <4>1, <4>4, <5>2, Moves DEF Local, Idle
        <5>3. CASE Finish(j)
          BY <4>1, <4>4, <5>3 DEF Finish, Shape
        <5> QED
          BY <1>1, <4>1, <4>4, <5>1, <5>2, <5>3, Moves, LiveSteps
             DEF Local, JobStep, Dropping
      <4> QED
        BY <1>1, <2>2, <3>0, <3>3, <4>2, <4>3, <4>4 DEF PublishedByKnows
    <3> QED
      BY <1>1, <2>2, <3>0, <3>1, <3>2, <3>3, Frame
  <2> QED
    BY <2>1, <2>2
<1>2. ASSUME NEW m \in Names, StrangerCreates(m) PROVE PublishedByKnows'
  <2>1. /\ UNCHANGED <<attempt, state, crashes, standing>>
        /\ final' = [final EXCEPT ![m] = [by |-> Stranger, sound |-> TRUE]]
    BY <1>2 DEF StrangerCreates, history, remains
  <2>2. \A n \in Names : n # m => final'[n] = final[n]
    BY <2>1 DEF Shape
  <2>3. final'[m] = [by |-> Stranger, sound |-> TRUE]
    BY <2>1 DEF Shape
  <2> QED
    BY <2>1, <2>2, <2>3, WorkspaceAssumption DEF PublishedByKnows
<1>3. CASE Crash
  <2>1. final' = final /\ crashes' # 0
    BY <1>3 DEF Crash, files, Shape
  <2> QED
    BY <2>1 DEF PublishedByKnows
<1>4. CASE Reopen
  <2>1. UNCHANGED <<final, attempt, crashes, standing>>
        /\ \A j \in Jobs : state[j] = "completed" => state'[j] = "completed"
    BY <1>4 DEF Reopen, remains
  <2> QED
    BY <2>1 DEF PublishedByKnows
<1>5. CASE UNCHANGED vars
  BY <1>5 DEF vars, files, history, remains, PublishedByKnows
<1>6. ASSUME NEW j \in Jobs, JobStep(j) PROVE PublishedByKnows'
  BY <1>1, <1>6 DEF PublishedByKnows
<1> QED
  BY <1>2, <1>3, <1>4, <1>5, <1>6, NextCases

(* What an attempt may have to undo is its own.                              *)
LEMMA UndoIsOwnStep ==
    ASSUME Shape, \A j \in Jobs : Local(j), UndoIsOwn, [Next]_vars
    PROVE  UndoIsOwn'
<1>1. ASSUME NEW j \in Jobs, JobStep(j), NEW k \in Jobs, attempt'[k].pc = "unlink"
      PROVE  final'[attempt'[k].name] # Absent /\ final'[attempt'[k].name].by = k
  <2>1. attempt[j] \in Attempts /\ attempt[k] \in Attempts
    BY DEF Shape
  <2>2. CASE attempt[k].pc = "unlink" /\ attempt'[k] = attempt[k]
    <3> DEFINE n == attempt[k].name
    <3>1. n \in Names /\ final[n] # Absent /\ final[n].by = k
      BY <2>2 DEF UndoIsOwn, Local, AttemptKnows, Fetching
    <3>2. CASE final'[n] = final[n]
      BY <2>2, <3>1, <3>2
    <3>3. CASE final'[n] # final[n]
      <4>1. Unlink(j) /\ attempt[j].pc = "unlink" /\ attempt[j].name = n
        BY <1>1, <3>1, <3>3, FinalStep
      <4>2. j = k
        BY <3>1, <4>1 DEF UndoIsOwn
      <4>3. attempt'[j].pc = "release"
        BY <2>1, <4>1 DEF Unlink, Ends, Shape, Attempts
      <4> QED
        BY <1>1, <4>2, <4>3
    <3> QED
      BY <3>2, <3>3
  <2>3. CASE k # j
    BY <1>1, <2>2, <2>3, OthersKept
  <2>4. CASE k = j /\ ~(attempt[k].pc = "unlink" /\ attempt'[k] = attempt[k])
    <3>1. Publish(j)
      <4>1. attempt'[j] # attempt[j]
        BY <1>1, <2>4
      <4> QED
        BY <1>1, <2>1, <2>4, <4>1, UnlinkIsAhead DEF Local
    <3>2. /\ attempt[j].name \in Names
          /\ Goto(j, "unlink")
          /\ final' = [final EXCEPT ![attempt[j].name] =
                          [by |-> j, sound |-> work[j] = "sound"]]
      BY <1>1, <2>1, <2>4, <3>1 DEF Publish, Ends, At, Shape, Attempts, Local, AttemptKnows,
         Fetching
    <3>3. attempt'[j].name = attempt[j].name
      BY <2>1, <3>2 DEF Goto, Shape, Attempts
    <3>4. final'[attempt[j].name] = [by |-> j, sound |-> work[j] = "sound"]
      BY <3>2 DEF Shape
    <3>5. (work[j] = "sound") \in BOOLEAN
      OBVIOUS
    <3>6. final'[attempt[j].name] \in Published
      BY <3>4, <3>5 DEF Published
    <3> QED
      BY <2>4, <3>3, <3>4, <3>6, WorkspaceAssumption
  <2> QED
    BY <2>2, <2>3, <2>4
<1>2. ASSUME NEW m \in Names, StrangerCreates(m) PROVE UndoIsOwn'
  <2>1. /\ attempt' = attempt /\ final[m] = Absent
        /\ final' = [final EXCEPT ![m] = [by |-> Stranger, sound |-> TRUE]]
    BY <1>2 DEF StrangerCreates
  <2>2. \A n \in Names : n # m => final'[n] = final[n]
    BY <2>1 DEF Shape
  <2>3. \A j \in Jobs : attempt[j].pc = "unlink" => attempt[j].name \in Names
    BY DEF Local, AttemptKnows, Fetching
  <2> QED
    BY <2>1, <2>2, <2>3 DEF UndoIsOwn
<1>3. CASE Crash
  BY <1>3 DEF Crash, UndoIsOwn, Idle
<1>4. CASE Reopen
  BY <1>4 DEF Reopen, UndoIsOwn
<1>5. CASE UNCHANGED vars
  BY <1>5 DEF vars, files, UndoIsOwn
<1>6. ASSUME NEW j \in Jobs, JobStep(j) PROVE UndoIsOwn'
  BY <1>1, <1>6 DEF UndoIsOwn
<1> QED
  BY <1>2, <1>3, <1>4, <1>5, <1>6, NextCases

-----------------------------------------------------------------------------
(* The theorems.                                                             *)

LEMMA InitHolds == Init => IInv
<1> SUFFICES ASSUME Init PROVE IInv
  OBVIOUS
<1>1. Shape
  <2>1. attempt \in [Jobs -> Attempts]
    BY IdleIsAttempt DEF Init
  <2>2. /\ state \in [Jobs -> JobStates] 
        /\ attempts \in 0 .. MaxAttempts /\ crashes \in 0 .. MaxMishaps
        /\ faults \in 0 .. MaxMishaps /\ standing \subseteq Names
    BY WorkspaceAssumption DEF Init, JobStates
  <2>3. /\ lock \in [Names -> Jobs \cup {Absent}] /\ final \in [Names -> Published \cup {Absent}]
        /\ owner \in [Jobs -> Manifests \cup {Absent, Torn}]
        /\ work \in [Jobs -> {"sound", "unsound", Absent}]
    BY DEF Init
  <2>4. /\ part \in [Jobs -> SUBSET SourceIds] /\ whole \in [Jobs -> SUBSET SourceIds]
        /\ saved \in [Jobs -> SUBSET SourceIds]
        /\ litter \in [Jobs -> SUBSET (SourceIds \cup {Work, OwnerFile})]
    BY DEF Init
  <2> QED
    BY <2>1, <2>2, <2>3, <2>4 DEF Init, Shape
<1>2. ASSUME NEW j \in Jobs PROVE Local(j)
  <2>1. /\ Idle.pc = "idle" /\ Idle.name = Absent /\ Idle.source = 1
        /\ Idle.preserve = FALSE /\ Idle.outcome = "none"
    BY DEF Idle
  <2> QED
    BY <2>1 DEF Init, Local, AttemptKnows, QueueKnows, OwnerKnows, FilesOwned, FilesKnown,
       CancelKnows, SavedKept, Live, Naming, Claiming, Fetching, Dropping, Unaccounted,
       WorkGone, Clean
<1>3. Shared
  BY DEF Init, Shared, HoldersLocked, HeldIsFree, LocksHaveHolders, PublishedByKnows,
     UndoIsOwn, Holds, Live, Idle
<1> QED
  BY <1>1, <1>2, <1>3 DEF IInv

LEMMA NextHolds == IInv /\ [Next]_vars => IInv'
<1> SUFFICES ASSUME IInv, [Next]_vars PROVE IInv'
  OBVIOUS
<1>1. Shape /\ (\A j \in Jobs : Local(j))
  BY DEF IInv
<1>2. Shape' /\ (\A j \in Jobs : Local(j)')
  BY <1>1, ShapeStep, LocalStep
<1>3. Shared'
  BY <1>1, HoldersLockedStep, HeldIsFreeStep, LocksHaveHoldersStep, PublishedByKnowsStep,
     UndoIsOwnStep DEF IInv, Shared
<1> QED
  BY <1>2, <1>3 DEF IInv

LEMMA IInvHolds == Spec => []IInv
  BY InitHolds, NextHolds, PTL DEF Spec

(* Every file and every counter is one the code can leave.                   *)
THEOREM WorkspaceTypeCorrect == Spec => []WorkspaceTypeOK
<1>1. IInv => WorkspaceTypeOK
  BY DEF IInv, Shape, WorkspaceTypeOK, Attempts
<1> QED
  BY <1>1, IInvHolds, PTL

(* Whatever is under a user's name from a job is sound, and of a job at rest  *)
(* that did not complete there is nothing: publish comes after verify_output, *)
(* and a publication that cannot be finished is undone.  Two things are       *)
(* excepted, a crash in between, and a name whose undoing failed in its turn  *)
(* (name.rs:100 looks at no result).                                         *)
THEOREM OutputsAreSound == Spec => []OnlySoundOutputs
<1>1. IInv => OnlySoundOutputs
  <2> SUFFICES ASSUME IInv, NEW n \in Names, final[n] # Absent
               PROVE  /\ final[n].sound
                      /\ \A j \in Jobs : final[n].by = j /\ ~Live(j) /\ state[j] # "completed"
                                            => crashes > 0 \/ n \in standing
    BY DEF OnlySoundOutputs
  <2>1. crashes \in Nat
    BY DEF IInv, Shape
  <2> QED
    BY <2>1 DEF IInv, Shared, PublishedByKnows, Live, Dropping
<1> QED
  BY <1>1, IInvHolds, PTL

(* Every temporary file of a job is named by a manifest on disk: the claim    *)
(* of the workspace writes it before the first file, and every removal of it *)
(* comes after the last.  The files a drop fails to remove are excepted, one  *)
(* by one: it removes the manifest all the same (service.rs:1222-1251).      *)
THEOREM FilesAreOwned == Spec => []EveryFileIsOwned
<1>1. IInv => EveryFileIsOwned
  BY DEF IInv, Local, FilesOwned, EveryFileIsOwned, Unaccounted, WorkGone
<1> QED
  BY <1>1, IInvHolds, PTL

(* Two attempts never work towards one name, and nobody else's job publishes  *)
(* under a name an attempt holds, as long as no clean-up of a manifest has    *)
(* removed the reservation of an attempt that runs.                          *)
THEOREM NamesAreExclusive == Spec => []ReservationIsExclusive
<1>1. IInv => ReservationIsExclusive
  <2> SUFFICES ASSUME IInv, NEW j \in Jobs, NEW n \in Names,
                      Holds(j, n), attempt[j].pc # "look", ~stolen
               PROVE  /\ \A k \in Jobs \ {j} : ~Holds(k, n)
                      /\ final[n] # Absent => final[n].by \in {j, Stranger}
    BY DEF ReservationIsExclusive
  <2>1. \A k \in Jobs \ {j} : ~Holds(k, n)
    BY OneHolder DEF IInv, Shared
  <2> QED
    BY <2>1 DEF IInv, Shared, HeldIsFree
<1> QED
  BY <1>1, IInvHolds, PTL

(* A reservation file belongs to an attempt that runs, or a crash left it     *)
(* before the manifest could name it, or its removal failed (name.rs:116):    *)
(* every way out of an attempt gives the name up, and the next start removes  *)
(* what the manifests of a crash name.                                       *)
THEOREM NamesAreGivenBack == Spec => []NoBlockedNames
<1>1. IInv => NoBlockedNames
  BY DEF IInv, Shared, Shape, LocksHaveHolders, NoBlockedNames
<1> QED
  BY <1>1, IInvHolds, PTL

(* What a pause in a transfer kept stays until the next claim.               *)
THEOREM PartialsSurvive == Spec => []PausedKeepsPartials
<1>1. IInv => PausedKeepsPartials
  BY DEF IInv, Local, SavedKept, PausedKeepsPartials
<1> QED
  BY <1>1, IInvHolds, PTL

(* A cancelled job has left nothing behind, whether its attempt was told to   *)
(* stop or it was cancelled at rest, unless the attempt had not come to its   *)
(* workspace; the files whose removal failed are excepted one by one.        *)
THEOREM CancelCleans == Spec => []CancelledIsClean
<1>1. IInv => CancelledIsClean
  BY WorkspaceAssumption DEF IInv, Local, CancelKnows, FilesOwned, CancelledIsClean,
     Unaccounted, WorkGone, Clean
<1> QED
  BY <1>1, IInvHolds, PTL

(* A file under a user's name is never replaced, and is removed only by the  *)
(* attempt that has just published it.                                       *)
THEOREM NothingIsOverwritten == Spec => NoClobber
<1>1. IInv /\ [Next]_vars
         => [\A n \in Names :
                final[n] # Absent /\ final'[n] # final[n] =>
                    /\ final'[n] = Absent
                    /\ \E j \in Jobs :
                          final[n].by = j /\ At(j, "unlink") /\ attempt[j].name = n]_vars
  <2> SUFFICES ASSUME IInv, [Next]_vars, NEW n \in Names,
                      final[n] # Absent, final'[n] # final[n]
               PROVE  /\ final'[n] = Absent
                      /\ \E j \in Jobs :
                            final[n].by = j /\ At(j, "unlink") /\ attempt[j].name = n
    OBVIOUS
  <2>1. ASSUME NEW j \in Jobs, JobStep(j)
        PROVE  final'[n] = Absent /\ final[n].by = j /\ At(j, "unlink") /\ attempt[j].name = n
    <3>1. /\ attempt[j].name = n /\ final'[n] = Absent /\ attempt[j].pc = "unlink"
      BY <2>1, FinalStep DEF IInv
    <3> QED
      BY <2>1, <3>1, JobsRunUp DEF IInv, Shared, UndoIsOwn, At
  <2>2. ~(\E m \in Names : StrangerCreates(m))
    BY DEF StrangerCreates, IInv, Shape
  <2>3. ~Crash /\ ~Reopen /\ ~UNCHANGED vars
    BY DEF Crash, Reopen, vars, files
  <2> QED
    BY <2>1, <2>2, <2>3, NextCases
<1> QED
  BY <1>1, IInvHolds, PTL DEF Spec, NoClobber

-----------------------------------------------------------------------------
(* What the user of the directory sees.                                      *)

HasFile(j) == \E n \in Names : final[n] = [by |-> j, sound |-> TRUE]

(* A job is completed, or about to be, only with a file of its own.          *)
Completes(j) == state[j] = "completed" \/ attempt[j].outcome = "completed"
CompletedHaveFiles == \A j \in Jobs : Completes(j) => HasFile(j)

LEMMA SoundFile ==
    ASSUME Shape, PublishedByKnows, NEW n \in Names, final[n] # Absent
    PROVE  final[n] = [by |-> final[n].by, sound |-> TRUE]
<1>1. final[n] \in Published
  BY DEF Shape
<1>2. final[n].sound
  BY DEF PublishedByKnows
<1> QED
  BY <1>1, <1>2 DEF Published

(* Only the end of a publication makes a job complete.                       *)
LEMMA CompletesLater ==
    ASSUME Shape, NEW j \in Jobs, Local(j), JobStep(j), Completes(j)', ~Completes(j)
    PROVE  Unlink(j) /\ final' = final
<1>1. attempt[j] \in Attempts /\ AttemptKnows(j) /\ state \in [Jobs -> JobStates]
  BY DEF Shape, Local
<1>2. ~(Start(j) \/ Requeue(j) \/ Cancel(j))
  BY <1>1, Moves DEF Completes, Start, Requeue, Cancel, Idle
<1>3. ~Transfer(j)
  BY <1>1, Moves, Frame DEF Completes, Transfer
<1>4. ~Finish(j)
  <2>1. Finish(j) => attempt'[j] = Idle
    BY <1>1 DEF Finish, Shape
  <2>2. Finish(j) => state'[j] = attempt[j].outcome
    BY <1>1 DEF Finish
  <2>3. Idle.outcome = "none"
    BY DEF Idle
  <2> QED
    BY <2>1, <2>2, <2>3 DEF Completes
<1>5. UNCHANGED state
  BY <1>2, <1>4, Frame
<1>6. ~Analyze(j)
  BY <1>1, <1>5, Moves DEF Completes, Attempts
<1>7. ~(Reserve(j) \/ Look(j))
  <2>1. TryNext(j) /\ attempt[j].name \in Names =>
           attempt'[j].outcome \in {attempt[j].outcome, "failed"}
    BY <1>1, NextName DEF Attempts
  <2>2. ~Goto(j, "look") /\ ~Goto(j, "claim")
    BY <1>1, <1>5 DEF Goto, Shape, Attempts, Completes
  <2>3. Reserve(j) \/ Look(j) => attempt[j].name \in Names
    BY <1>1, Moves
  <2> QED
    BY <1>5, <2>1, <2>2, <2>3 DEF Reserve, Look, Completes
<1>8. ~(RemoveStale(j) \/ CreateOwner(j) \/ FillOwner(j) \/ Sweep(j) \/ TransferEnds(j))
  BY <1>1, <1>5, Moves DEF Completes, Attempts
<1>9. ~(TransferStops(j) \/ Produce(j) \/ ProduceStops(j) \/ Verify(j))
  BY <1>1, <1>5, Moves DEF Completes, Attempts
<1>10. ~(Release(j) \/ DropFiles(j) \/ DropUnlisted(j) \/ DropOwner(j))
  BY <1>1, <1>5, Moves DEF Completes, Attempts
<1>11. ~DropLock(j)
  BY <1>1, <1>5, Moves DEF Completes, Attempts, Idle
<1>12. ~Claim(j)
  <2>1. Claim(j) => attempt'[j].outcome \in {attempt[j].outcome, "failed"}
    BY <1>1 DEF Claim, At, Goto, Ends, PathsExist, Attempts, Shape
  <2> QED
    BY <1>5, <2>1 DEF Completes
<1>13. ~Fetch(j)
  <2>1. Fetch(j) => attempt'[j].outcome \in {attempt[j].outcome, "failed", "paused", "cancelled"}
    BY <1>1 DEF Fetch, At, Attempts, Shape, Told
  <2> QED
    BY <1>5, <2>1 DEF Completes
<1>14. ~Publish(j)
  <2>1. Publish(j) => attempt'[j].outcome \in {attempt[j].outcome, "failed"}
    BY <1>1 DEF Publish, At, Goto, Ends, Attempts, Shape
  <2> QED
    BY <1>5, <2>1 DEF Completes
<1>15. Unlink(j)
  BY <1>2, <1>3, <1>4, <1>6, <1>7, <1>8, <1>9, <1>10, <1>11, <1>12, <1>13, <1>14 DEF JobStep
<1>16. ~Ends(j, "failed", "release")
  BY <1>1, <1>5 DEF Ends, Completes, Shape, Attempts
<1> QED
  BY <1>15, <1>16 DEF Unlink

(* A file goes only as the undoing of its own job, which then has failed.    *)
LEMMA FileStays ==
    ASSUME Shape, \A j \in Jobs : Local(j), UndoIsOwn, NEW j \in Jobs, JobStep(j),
           NEW n \in Names, final[n] # Absent, final'[n] # final[n]
    PROVE  /\ final[n].by = j /\ final'[n] = Absent /\ attempt[j].name = n
           /\ final' = [final EXCEPT ![n] = Absent]
           /\ state' = state /\ state[j] = "running" /\ attempt'[j].outcome = "failed"
<1>1. /\ attempt[j].name = n /\ Unlink(j) /\ attempt[j].pc = "unlink" /\ final'[n] = Absent
  BY FinalStep
<1>2. final[n].by = j
  BY <1>1 DEF UndoIsOwn
<1>3. Ends(j, "failed", "release") /\ final' = [final EXCEPT ![n] = Absent]
  BY <1>1 DEF Unlink
<1>4. attempt'[j].outcome = "failed"
  BY <1>3 DEF Ends, Shape, Attempts
<1>5. state' = state /\ up
  BY <1>1, JobsRunUp DEF Unlink
<1>6. state[j] = "running"
  BY <1>1, <1>5 DEF Local, QueueKnows, Live
<1> QED
  BY <1>1, <1>2, <1>3, <1>4, <1>5, <1>6

(* A publication adds one file; the other steps keep all of them.            *)
LEMMA PublishedHow ==
    ASSUME Shape, NEW j \in Jobs, Local(j), JobStep(j), NEW n \in Names,
           final[n] = Absent, final'[n] # final[n]
    PROVE  Publish(j) /\ final' = [final EXCEPT ![n] = [by |-> j, sound |-> TRUE]]
<1>1. /\ attempt[j].name = n /\ Publish(j) /\ final'[n] = [by |-> j, sound |-> TRUE]
  BY FinalStep
<1>2. final' = [final EXCEPT ![n] = [by |-> j, sound |-> work[j] = "sound"]]
  BY <1>1 DEF Publish
<1>3. final'[n] = [by |-> j, sound |-> work[j] = "sound"]
  BY <1>2 DEF Shape
<1>4. [by |-> j, sound |-> work[j] = "sound"] = [by |-> j, sound |-> TRUE]
  BY <1>1, <1>3
<1> QED
  BY <1>1, <1>2, <1>4

LEMMA FinalFrame ==
    ASSUME Shape, NEW j \in Jobs, Local(j), JobStep(j), \A n \in Names : final'[n] = final[n]
    PROVE  final' = final
<1>1. final \in [Names -> Published \cup {Absent}]
  BY DEF Shape
<1>2. final' = final \/ \E n, v : final' = [final EXCEPT ![n] = v]
  BY Frame DEF Publish, Unlink
<1>3. DOMAIN final' = Names
  BY <1>1, <1>2
<1>4. final' = [n \in Names |-> final'[n]]
  BY <1>1, <1>2
<1> QED
  BY <1>1, <1>4

(* Only the commit of its outcome completes a job, and nothing follows.      *)
LEMMA CompletedByFinish ==
    ASSUME Shape, NEW j \in Jobs, Local(j), JobStep(j), state[j] # "completed",
           state'[j] = "completed"
    PROVE  attempt[j].outcome = "completed"
<1>1. ~(Start(j) \/ Requeue(j) \/ Cancel(j))
  BY DEF Shape, Start, Requeue, Cancel
<1>2. Finish(j)
  BY <1>1, Frame
<1> QED
  BY <1>2 DEF Finish, Shape

LEMMA CompletedStays ==
    ASSUME Shape, NEW j \in Jobs, Local(j), JobStep(j), state[j] = "completed"
    PROVE  state'[j] = "completed"
<1>1. ~Live(j) /\ attempt[j].pc = "idle"
  BY JobsRunUp DEF Local, QueueKnows, Live
<1>2. ~Finish(j)
  BY <1>1 DEF Finish, At
<1>3. ~(Start(j) \/ Requeue(j) \/ Cancel(j))
  BY DEF Start, Requeue, Cancel
<1> QED
  BY <1>2, <1>3, Frame

LEMMA CompletedHaveFilesStep ==
    ASSUME Shape, \A j \in Jobs : Local(j), PublishedByKnows, UndoIsOwn, CompletedHaveFiles,
           [Next]_vars
    PROVE  CompletedHaveFiles'
<1>1. ASSUME NEW j \in Jobs, JobStep(j), NEW k \in Jobs, Completes(k)' PROVE HasFile(k)'
  <2>1. CASE Completes(k)
    <3>1. PICK n \in Names : final[n] = [by |-> k, sound |-> TRUE]
      BY <2>1 DEF CompletedHaveFiles, HasFile
    <3>2. final[n] # Absent
      <4>1. final[n] \in Published
        BY <3>1 DEF Published
      <4> QED
        BY <4>1, WorkspaceAssumption
    <3>3. CASE final'[n] = final[n]
      BY <3>1, <3>3 DEF HasFile
    <3>4. CASE final'[n] # final[n]
      <4>1. /\ final[n].by = j /\ state' = state /\ state[j] = "running"
            /\ attempt'[j].outcome = "failed"
        BY <1>1, <3>2, <3>4, FileStays
      <4> QED
        BY <1>1, <3>1, <4>1 DEF Completes
    <3> QED
      BY <3>3, <3>4
  <2>2. CASE ~Completes(k)
    <3>1. k = j
      BY <1>1, <2>2, OthersKept DEF Completes
    <3>2. Unlink(j) /\ final' = final
      BY <1>1, <2>2, <3>1, CompletesLater
    <3>3. attempt[j].pc = "unlink" /\ attempt[j].name \in Names
      BY <3>2 DEF Unlink, At, Local, AttemptKnows, Fetching
    <3>4. final[attempt[j].name] # Absent /\ final[attempt[j].name].by = j
      BY <3>3 DEF UndoIsOwn
    <3> QED
      BY <3>1, <3>2, <3>3, <3>4, SoundFile DEF HasFile
  <2> QED
    BY <2>1, <2>2
<1>2. ASSUME NEW m \in Names, StrangerCreates(m) PROVE CompletedHaveFiles'
  <2>1. /\ UNCHANGED <<attempt, state>> /\ final[m] = Absent
        /\ final' = [final EXCEPT ![m] = [by |-> Stranger, sound |-> TRUE]]
    BY <1>2 DEF StrangerCreates
  <2>2. \A n \in Names : n # m => final'[n] = final[n]
    BY <2>1 DEF Shape
  <2>3. \A k \in Jobs : [by |-> k, sound |-> TRUE] # Absent
    <3> TAKE k \in Jobs
    <3>1. [by |-> k, sound |-> TRUE] \in Published
      BY DEF Published
    <3> QED
      BY <3>1, WorkspaceAssumption
  <2> QED
    BY <2>1, <2>2, <2>3 DEF CompletedHaveFiles, Completes, HasFile
<1>3. CASE Crash
  BY <1>3 DEF Crash, files, Idle, CompletedHaveFiles, Completes, HasFile
<1>4. CASE Reopen
  BY <1>4 DEF Reopen, Shape, CompletedHaveFiles, Completes, HasFile
<1>5. CASE UNCHANGED vars
  BY <1>5 DEF vars, files, CompletedHaveFiles, Completes, HasFile
<1>6. ASSUME NEW j \in Jobs, JobStep(j) PROVE CompletedHaveFiles'
  BY <1>1, <1>6 DEF CompletedHaveFiles
<1> QED
  BY <1>2, <1>3, <1>4, <1>5, <1>6, NextCases

DirectoryView == <<final, Completed>>

(* Every step is seen as nothing or as one step of the abstract directory.   *)
LEMMA DirectoryStep ==
    ASSUME IInv, CompletedHaveFiles, [Next]_vars
    PROVE  [Directory!Next]_DirectoryView
<1>0. /\ Shape /\ (\A j \in Jobs : Local(j)) /\ PublishedByKnows /\ UndoIsOwn
  BY DEF IInv, Shared
<1>1. ASSUME NEW j \in Jobs, JobStep(j), NEW n \in Names, final'[n] # final[n]
      PROVE  Directory!Next
  <2>1. /\ attempt[j].name = n /\ state[j] = "running" /\ state' = state
        /\ j \notin Completed /\ Completed' = Completed
    <3>1. attempt[j].name = n /\ attempt[j].pc \in {"publish", "unlink"}
          /\ (Publish(j) \/ Unlink(j))
      BY <1>0, <1>1, FinalStep
    <3>2. up /\ Live(j)
      BY <1>1, <3>1, JobsRunUp DEF Live
    <3> QED
      BY <1>0, <3>1, <3>2 DEF Local, QueueKnows, Publish, Unlink, Completed
  <2>2. CASE final[n] = Absent
    <3>1. Publish(j) /\ final' = [final EXCEPT ![n] = [by |-> j, sound |-> TRUE]]
      BY <1>0, <1>1, <2>1, <2>2, PublishedHow
    <3>2. Directory!Appear(j, n)
      BY <2>1, <2>2, <3>1 DEF Directory!Appear, Directory!Sound
    <3> QED
      BY <3>2 DEF Directory!Next
  <2>3. CASE final[n] # Absent
    <3>1. final[n].by = j /\ final' = [final EXCEPT ![n] = Absent]
      BY <1>0, <1>1, <2>3, FileStays
    <3>2. final[n] = [by |-> j, sound |-> TRUE]
      BY <1>0, <2>3, <3>1, SoundFile
    <3>3. Directory!Retract(j, n)
      BY <2>1, <3>1, <3>2 DEF Directory!Retract, Directory!Sound
    <3> QED
      BY <3>3 DEF Directory!Next
  <2> QED
    BY <2>2, <2>3
<1>2. ASSUME NEW j \in Jobs, JobStep(j), final' = final
      PROVE  [Directory!Next]_DirectoryView
  <2>1. \A k \in Jobs \ {j} : k \in Completed' <=> k \in Completed
    BY <1>0, <1>2, OthersKept DEF Completed
  <2>2. CASE j \in Completed <=> j \in Completed'
    <3>1. Completed' = Completed
      BY <2>1, <2>2 DEF Completed
    <3> QED
      BY <1>2, <3>1 DEF DirectoryView
  <2>3. CASE j \in Completed /\ j \notin Completed'
    BY <1>0, <1>2, <2>3, CompletedStays DEF Completed
  <2>4. CASE j \notin Completed /\ j \in Completed'
    <3>1. attempt[j].outcome = "completed"
      BY <1>0, <1>2, <2>4, CompletedByFinish DEF Completed
    <3>2. Directory!HasOutput(j)
      BY <3>1 DEF CompletedHaveFiles, Completes, HasFile, Directory!HasOutput, Directory!Sound
    <3>3. Completed' = Completed \cup {j}
      BY <2>1, <2>4 DEF Completed
    <3>4. Directory!Complete(j)
      BY <1>2, <2>4, <3>2, <3>3 DEF Directory!Complete
    <3> QED
      BY <3>4 DEF Directory!Next
  <2> QED
    BY <2>2, <2>3, <2>4
<1>3. ASSUME NEW j \in Jobs, JobStep(j) PROVE [Directory!Next]_DirectoryView
  <2>1. CASE \E n \in Names : final'[n] # final[n]
    BY <1>1, <1>3, <2>1
  <2>2. CASE \A n \in Names : final'[n] = final[n]
    BY <1>0, <1>2, <1>3, <2>2, FinalFrame
  <2> QED
    BY <2>1, <2>2
<1>4. ASSUME NEW n \in Names, StrangerCreates(n) PROVE Directory!Next
  <2>1. /\ Completed' = Completed /\ Stranger \notin Completed /\ final[n] = Absent
        /\ final' = [final EXCEPT ![n] = [by |-> Stranger, sound |-> TRUE]]
    BY <1>4, WorkspaceAssumption DEF StrangerCreates, Completed
  <2>2. Directory!Appear(Stranger, n)
    BY <2>1 DEF Directory!Appear, Directory!Sound
  <2> QED
    BY <2>2 DEF Directory!Next
<1>5. CASE Crash
  BY <1>5 DEF Crash, files, DirectoryView, Completed
<1>6. CASE Reopen
  BY <1>6 DEF Reopen, DirectoryView, Completed
<1>7. CASE UNCHANGED vars
  BY <1>7 DEF vars, files, DirectoryView, Completed
<1> QED
  BY <1>3, <1>4, <1>5, <1>6, <1>7, NextCases

(* Whatever happens to the attempts, the user of the directory sees outputs  *)
(* appear at once and sound, sees none replaced, and finds one for every job *)
(* that is completed, from then on (service.rs:307, name.rs:87).             *)
THEOREM OutputsAppearAtOnce == Spec => ImplementsDirectory
<1>1. Init => Directory!Init /\ CompletedHaveFiles
  <2>1. Init => Completed = {} /\ final = [n \in Names |-> Absent]
    BY DEF Init, Completed
  <2>2. Init => CompletedHaveFiles
    BY DEF Init, CompletedHaveFiles, Completes, Idle
  <2> QED
    BY <2>1, <2>2 DEF Directory!Init
<1>2. IInv /\ CompletedHaveFiles /\ [Next]_vars => CompletedHaveFiles'
  BY CompletedHaveFilesStep DEF IInv, Shared
<1>3. IInv /\ CompletedHaveFiles /\ [Next]_vars => [Directory!Next]_DirectoryView
  BY DirectoryStep
<1> QED
  BY <1>1, <1>2, <1>3, IInvHolds, PTL DEF Spec, ImplementsDirectory, Directory!Spec,
     DirectoryView

(* A job that is completed has a sound file of its own in the directory, for *)
(* as long as nobody else removes it (service.rs:307).                       *)
THEOREM CompletedJobsHaveOutputs == Spec => []CompletedHaveFiles
<1>1. Init => CompletedHaveFiles
  BY DEF Init, CompletedHaveFiles, Completes, Idle
<1>2. IInv /\ CompletedHaveFiles /\ [Next]_vars => CompletedHaveFiles'
  BY CompletedHaveFilesStep DEF IInv, Shared
<1> QED
  BY <1>1, <1>2, IInvHolds, PTL DEF Spec

=============================================================================
