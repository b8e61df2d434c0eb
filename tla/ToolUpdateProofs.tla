-------------------------- MODULE ToolUpdateProofs --------------------------
(* For any releases, tasks, failing steps, damage and crashes: the types of  *)
(* ToolUpdate, when a rollback comes, that sets stay whole, and that an      *)
(* undisturbed update is one of ManagedSet.                                  *)
EXTENDS ToolUpdate, TLAPS

-----------------------------------------------------------------------------
(* The failed starts.  The failure file counts at least the strikes of the   *)
(* active set, because whatever replaces that set ends its strikes and       *)
(* whatever removes the file has replaced it; and it counts at most the      *)
(* misses, because both begin anew in the same steps.                        *)

OnlyWhenUp == launch # "up" => reset = "idle"

CountsOK ==
    /\ failures \in 0..(STARTUP_FAILURE_ROLLBACK_THRESHOLD - 1)
    /\ strikes \in Nat /\ misses \in Nat
    /\ strikes <= failures /\ failures <= misses
    /\ launch \in {"restore", "forget"} => strikes = 0
    /\ reset \in {"lastGood", "files"} => strikes = 0
    /\ launch = "rollback" => misses > 0

CountInv == OnlyWhenUp /\ CountsOK

LEMMA CountInit == Init => CountInv
BY DEF Init, CountInv, OnlyWhenUp, CountsOK, STARTUP_FAILURE_ROLLBACK_THRESHOLD

LEMMA CountStep == CountInv /\ [Next]_vars => CountInv'
<1> SUFFICES ASSUME CountInv, [Next]_vars PROVE CountInv'
  OBVIOUS
<1> USE DEF onDisk, history, CountInv, OnlyWhenUp, CountsOK, STARTUP_FAILURE_ROLLBACK_THRESHOLD
<1>1. CASE Launch
  BY <1>1 DEF Launch
<1>2. CASE LaunchRecover
  BY <1>2 DEF LaunchRecover, Starting, PutBack, CanRestore
<1>3. CASE LaunchUnjournal
  BY <1>3 DEF LaunchUnjournal, Starting
<1>4. ASSUME NEW healthy \in BOOLEAN, LaunchLoad(healthy) PROVE CountInv'
  BY <1>4 DEF LaunchLoad, Starting
<1>5. CASE LaunchSucceeds
  BY <1>5 DEF LaunchSucceeds, Starting
<1>6. CASE LaunchCount
  BY <1>6 DEF LaunchCount, Starting
<1>7. CASE RollbackRemove
  BY <1>7 DEF RollbackRemove, Starting
<1>8. CASE RollbackRestore
  BY <1>8 DEF RollbackRestore, Starting
<1>9. CASE RollbackForget
  BY <1>9 DEF RollbackForget, Starting
<1>10. ASSUME NEW t \in Tasks, ClaimCheck(t) PROVE CountInv'
  BY <1>10 DEF ClaimCheck, At
<1>11. ASSUME NEW t \in Tasks, RecordClaim(t) PROVE CountInv'
  BY <1>11 DEF RecordClaim, At
<1>12. ASSUME NEW t \in Tasks, TakeOffer(t) PROVE CountInv'
  BY <1>12 DEF TakeOffer, At
<1>13. ASSUME NEW t \in Tasks, DeclineOffer(t) PROVE CountInv'
  BY <1>13 DEF DeclineOffer, At
<1>14. ASSUME NEW t \in Tasks, ClearDownload(t) PROVE CountInv'
  BY <1>14 DEF ClearDownload, At
<1>15. ASSUME NEW t \in Tasks, OpenDownload(t) PROVE CountInv'
  BY <1>15 DEF OpenDownload, At
<1>16. ASSUME NEW t \in Tasks, NEW got \in {"part", "whole", "wrong"}, EndDownload(t, got)
       PROVE CountInv'
  BY <1>16 DEF EndDownload, At
<1>17. ASSUME NEW t \in Tasks, StageBegin(t) PROVE CountInv'
  BY <1>17 DEF StageBegin, At
<1>18. ASSUME NEW t \in Tasks, NEW content \in {"none", "bare", "whole"}, StageEnd(t, content)
       PROVE CountInv'
  BY <1>18 DEF StageEnd, At
<1>19. ASSUME NEW t \in Tasks, NEW healthy \in BOOLEAN, VerifyStaged(t, healthy)
       PROVE CountInv'
  BY <1>19 DEF VerifyStaged, At
<1>20. ASSUME NEW t \in Tasks, NEW ok \in BOOLEAN, WriteJournal(t, ok) PROVE CountInv'
  BY <1>20 DEF WriteJournal, At
<1>21. ASSUME NEW t \in Tasks, NEW ok \in BOOLEAN, ClearLastGood(t, ok) PROVE CountInv'
  BY <1>21 DEF ClearLastGood, At
<1>22. ASSUME NEW t \in Tasks, NEW ok \in BOOLEAN, PreserveActive(t, ok) PROVE CountInv'
  BY <1>22 DEF PreserveActive, At
<1>23. ASSUME NEW t \in Tasks, NEW ok \in BOOLEAN, PlaceStaged(t, ok) PROVE CountInv'
  BY <1>23 DEF PlaceStaged, At
<1>24. ASSUME NEW t \in Tasks, NEW ok \in BOOLEAN, RemoveJournal(t, ok) PROVE CountInv'
  BY <1>24 DEF RemoveJournal, At
<1>25. ASSUME NEW t \in Tasks, Recover(t) PROVE CountInv'
  BY <1>25 DEF Recover, At, PutBack, CanRestore
<1>26. ASSUME NEW t \in Tasks, Unrecover(t) PROVE CountInv'
  BY <1>26 DEF Unrecover, At
<1>27. ASSUME NEW t \in Tasks, Cleanup(t) PROVE CountInv'
  BY <1>27 DEF Cleanup, At
<1>28. CASE ResetLock
  BY <1>28 DEF ResetLock
<1>29. CASE ResetActive
  BY <1>29 DEF ResetActive
<1>30. CASE ResetLastGood
  BY <1>30 DEF ResetLastGood
<1>31. CASE ResetFiles
  BY <1>31 DEF ResetFiles
<1>32. CASE Publish
  BY <1>32 DEF Publish
<1>33. CASE DayPasses
  BY <1>33 DEF DayPasses
<1>34. CASE Damage
  BY <1>34 DEF Damage
<1>35. CASE Crash
  BY <1>35 DEF Crash
<1>36. CASE UNCHANGED vars
  BY <1>36 DEF vars
<1> QED
  BY <1>1, <1>2, <1>3, <1>4, <1>5, <1>6, <1>7, <1>8, <1>9, <1>10, <1>11, <1>12, <1>13,
     <1>14, <1>15, <1>16, <1>17, <1>18, <1>19, <1>20, <1>21, <1>22, <1>23, <1>24,
     <1>25, <1>26, <1>27, <1>28, <1>29, <1>30, <1>31, <1>32, <1>33, <1>34, <1>35,
     <1>36
     DEF Next, Start, Check, Reset

LEMMA CountAlways == Spec => []CountInv
BY CountInit, CountStep, PTL DEF Spec

(* Whatever the releases, failures and crashes, a set that two starts in a   *)
(* row found unusable is not the active one any more                         *)
(* (record_failure_and_maybe_rollback, update.rs).                           *)
THEOREM TwoStrikesAlways == Spec => []TwoStrikes
<1>1. CountInv => TwoStrikes
  BY DEF CountInv, CountsOK, TwoStrikes, STARTUP_FAILURE_ROLLBACK_THRESHOLD
<1> QED
  BY CountAlways, <1>1, PTL

(* And a rollback by itself comes only after two such starts                 *)
(* (record_failure_and_maybe_rollback).                                      *)
THEOREM NeverAHastyRollback == Spec => []NoHastyRollback
<1>1. CountInv => NoHastyRollback
  BY DEF CountInv, CountsOK, NoHastyRollback, STARTUP_FAILURE_ROLLBACK_THRESHOLD
<1> QED
  BY CountAlways, <1>1, PTL

-----------------------------------------------------------------------------
(* The tasks.                                                                *)

TaskSteps ==
    {"idle", "done", "claim", "fetch", "clearDownload", "openDownload", "download", "stage",
     "extract", "verify", "activate", "clearLastGood", "preserve", "place", "unjournal",
     "recover", "unrecover", "cleanup"}

(* A check that has taken an offer knows its version.                        *)
BeforeOffer(t)  == task[t].pc \in {"idle", "done", "claim", "fetch"}
TaskTypes   == task \in [Tasks -> [pc : TaskSteps, version : Versions \cup {Absent}]]
TasksKnow   == \A t \in Tasks : BeforeOffer(t) \/ task[t].version \in Versions
TasksOK     == TaskTypes /\ TasksKnow /\ channel \in Versions

(* A task that moves on keeps its version, one that ends needs none.         *)
LEMMA GotoKeeps ==
  ASSUME TaskTypes, TasksKnow, NEW t \in Tasks, NEW pc \in TaskSteps, Goto(t, pc),
         pc \in {"idle", "done", "claim", "fetch"} \/ task[t].version \in Versions
  PROVE  TaskTypes' /\ TasksKnow'
<1>1. TaskTypes' /\ task'[t].pc = pc /\ task'[t].version = task[t].version
      /\ \A u \in Tasks \ {t} : task'[u] = task[u]
  BY DEF TaskTypes, Goto
<1> QED
  BY <1>1 DEF TasksKnow, BeforeOffer

LEMMA FinishKeeps ==
  ASSUME TaskTypes, TasksKnow, NEW t \in Tasks, task' = [task EXCEPT ![t] = Finished(t)]
  PROVE  TaskTypes' /\ TasksKnow'
<1>1. /\ Finished(t) \in [pc : TaskSteps, version : Versions \cup {Absent}]
      /\ Finished(t).pc \in {"idle", "done"}
  BY DEF Finished, Idle, TaskSteps
<1>2. TaskTypes' /\ task'[t].pc \in {"idle", "done"}
      /\ \A u \in Tasks \ {t} : task'[u] = task[u]
  BY <1>1 DEF TaskTypes
<1> QED
  BY <1>2 DEF TasksKnow, BeforeOffer

LEMMA TasksInit == Init => TasksOK
BY DEF Init, TasksOK, TaskTypes, TasksKnow, BeforeOffer, TaskSteps, Idle

LEMMA TasksStep == TasksOK /\ [Next]_vars => TasksOK'
<1> SUFFICES ASSUME TasksOK, [Next]_vars PROVE TasksOK'
  OBVIOUS
<1> USE DEF TasksOK
<1>0. TaskTypes /\ TasksKnow
  OBVIOUS
<1>1. CASE Launch
  BY <1>1 DEF Launch, TaskTypes, TasksKnow, BeforeOffer
<1>2. CASE LaunchRecover
  BY <1>2 DEF LaunchRecover, TaskTypes, TasksKnow, BeforeOffer
<1>3. CASE LaunchUnjournal
  BY <1>3 DEF LaunchUnjournal, TaskTypes, TasksKnow, BeforeOffer
<1>4. ASSUME NEW healthy \in BOOLEAN, LaunchLoad(healthy) PROVE TasksOK'
  BY <1>4 DEF LaunchLoad, TaskTypes, TasksKnow, BeforeOffer
<1>5. CASE LaunchSucceeds
  BY <1>5 DEF LaunchSucceeds, TaskTypes, TasksKnow, BeforeOffer
<1>6. CASE LaunchCount
  BY <1>6 DEF LaunchCount, TaskTypes, TasksKnow, BeforeOffer
<1>7. CASE RollbackRemove
  BY <1>7 DEF RollbackRemove, TaskTypes, TasksKnow, BeforeOffer
<1>8. CASE RollbackRestore
  BY <1>8 DEF RollbackRestore, TaskTypes, TasksKnow, BeforeOffer
<1>9. CASE RollbackForget
  BY <1>9 DEF RollbackForget, TaskTypes, TasksKnow, BeforeOffer
<1>10. ASSUME NEW t \in Tasks, ClaimCheck(t) PROVE TasksOK'
  BY <1>10, <1>0, FinishKeeps, GotoKeeps DEF ClaimCheck, At, TaskSteps
<1>11. ASSUME NEW t \in Tasks, RecordClaim(t) PROVE TasksOK'
  BY <1>11, <1>0, GotoKeeps DEF RecordClaim, At, TaskSteps
<1>12. ASSUME NEW t \in Tasks, TakeOffer(t) PROVE TasksOK'
  <2>1. task' = [task EXCEPT ![t] = [pc |-> "clearDownload", version |-> channel]] /\ channel' = channel
    BY <1>12 DEF TakeOffer
  <2>2. [pc |-> "clearDownload", version |-> channel] \in [pc : TaskSteps, version : Versions \cup {Absent}]
    BY DEF TaskSteps
  <2> QED
    BY <2>1, <2>2 DEF TaskTypes, TasksKnow, BeforeOffer
<1>13. ASSUME NEW t \in Tasks, DeclineOffer(t) PROVE TasksOK'
  BY <1>13, <1>0, FinishKeeps DEF DeclineOffer
<1>14. ASSUME NEW t \in Tasks, ClearDownload(t) PROVE TasksOK'
  <2>1. \E pc \in TaskSteps : Goto(t, pc)
    BY <1>14 DEF ClearDownload, At, TaskSteps
  <2>2. task[t].version \in Versions
    BY <1>14 DEF ClearDownload, At, TasksKnow, BeforeOffer
  <2>3. channel' = channel
    BY <1>14 DEF ClearDownload
  <2> QED
    BY <1>0, <2>1, <2>2, <2>3, GotoKeeps
<1>15. ASSUME NEW t \in Tasks, OpenDownload(t) PROVE TasksOK'
  <2>1. \E pc \in TaskSteps : Goto(t, pc)
    BY <1>15 DEF OpenDownload, At, TaskSteps
  <2>2. task[t].version \in Versions
    BY <1>15 DEF OpenDownload, At, TasksKnow, BeforeOffer
  <2>3. channel' = channel
    BY <1>15 DEF OpenDownload
  <2> QED
    BY <1>0, <2>1, <2>2, <2>3, GotoKeeps
<1>16. ASSUME NEW t \in Tasks, NEW got \in {"part", "whole", "wrong"}, EndDownload(t, got)
       PROVE TasksOK'
  <2>1. \E pc \in TaskSteps : Goto(t, pc)
    BY <1>16 DEF EndDownload, At, TaskSteps
  <2>2. task[t].version \in Versions
    BY <1>16 DEF EndDownload, At, TasksKnow, BeforeOffer
  <2>3. channel' = channel
    BY <1>16 DEF EndDownload
  <2> QED
    BY <1>0, <2>1, <2>2, <2>3, GotoKeeps
<1>17. ASSUME NEW t \in Tasks, StageBegin(t) PROVE TasksOK'
  <2>1. \E pc \in TaskSteps : Goto(t, pc)
    BY <1>17 DEF StageBegin, At, TaskSteps
  <2>2. task[t].version \in Versions
    BY <1>17 DEF StageBegin, At, TasksKnow, BeforeOffer
  <2>3. channel' = channel
    BY <1>17 DEF StageBegin
  <2> QED
    BY <1>0, <2>1, <2>2, <2>3, GotoKeeps
<1>18. ASSUME NEW t \in Tasks, NEW content \in {"none", "bare", "whole"}, StageEnd(t, content)
       PROVE TasksOK'
  <2>1. \E pc \in TaskSteps : Goto(t, pc)
    BY <1>18 DEF StageEnd, At, TaskSteps
  <2>2. task[t].version \in Versions
    BY <1>18 DEF StageEnd, At, TasksKnow, BeforeOffer
  <2>3. channel' = channel
    BY <1>18 DEF StageEnd
  <2> QED
    BY <1>0, <2>1, <2>2, <2>3, GotoKeeps
<1>19. ASSUME NEW t \in Tasks, NEW healthy \in BOOLEAN, VerifyStaged(t, healthy)
       PROVE TasksOK'
  <2>1. \E pc \in TaskSteps : Goto(t, pc)
    BY <1>19 DEF VerifyStaged, At, TaskSteps
  <2>2. task[t].version \in Versions
    BY <1>19 DEF VerifyStaged, At, TasksKnow, BeforeOffer
  <2>3. channel' = channel
    BY <1>19 DEF VerifyStaged
  <2> QED
    BY <1>0, <2>1, <2>2, <2>3, GotoKeeps
<1>20. ASSUME NEW t \in Tasks, NEW ok \in BOOLEAN, WriteJournal(t, ok) PROVE TasksOK'
  <2>1. \E pc \in TaskSteps : Goto(t, pc)
    BY <1>20 DEF WriteJournal, At, GiveUp, TaskSteps
  <2>2. task[t].version \in Versions
    BY <1>20 DEF WriteJournal, At, TasksKnow, BeforeOffer
  <2>3. channel' = channel
    BY <1>20 DEF WriteJournal
  <2> QED
    BY <1>0, <2>1, <2>2, <2>3, GotoKeeps
<1>21. ASSUME NEW t \in Tasks, NEW ok \in BOOLEAN, ClearLastGood(t, ok) PROVE TasksOK'
  <2>1. \E pc \in TaskSteps : Goto(t, pc)
    BY <1>21 DEF ClearLastGood, At, GiveUp, TaskSteps
  <2>2. task[t].version \in Versions
    BY <1>21 DEF ClearLastGood, At, TasksKnow, BeforeOffer
  <2>3. channel' = channel
    BY <1>21 DEF ClearLastGood
  <2> QED
    BY <1>0, <2>1, <2>2, <2>3, GotoKeeps
<1>22. ASSUME NEW t \in Tasks, NEW ok \in BOOLEAN, PreserveActive(t, ok) PROVE TasksOK'
  <2>1. \E pc \in TaskSteps : Goto(t, pc)
    BY <1>22 DEF PreserveActive, At, GiveUp, TaskSteps
  <2>2. task[t].version \in Versions
    BY <1>22 DEF PreserveActive, At, TasksKnow, BeforeOffer
  <2>3. channel' = channel
    BY <1>22 DEF PreserveActive
  <2> QED
    BY <1>0, <2>1, <2>2, <2>3, GotoKeeps
<1>23. ASSUME NEW t \in Tasks, NEW ok \in BOOLEAN, PlaceStaged(t, ok) PROVE TasksOK'
  <2>1. \E pc \in TaskSteps : Goto(t, pc)
    BY <1>23 DEF PlaceStaged, At, GiveUp, TaskSteps
  <2>2. task[t].version \in Versions
    BY <1>23 DEF PlaceStaged, At, TasksKnow, BeforeOffer
  <2>3. channel' = channel
    BY <1>23 DEF PlaceStaged
  <2> QED
    BY <1>0, <2>1, <2>2, <2>3, GotoKeeps
<1>24. ASSUME NEW t \in Tasks, NEW ok \in BOOLEAN, RemoveJournal(t, ok) PROVE TasksOK'
  <2>1. \E pc \in TaskSteps : Goto(t, pc)
    BY <1>24 DEF RemoveJournal, At, TaskSteps
  <2>2. task[t].version \in Versions
    BY <1>24 DEF RemoveJournal, At, TasksKnow, BeforeOffer
  <2>3. channel' = channel
    BY <1>24 DEF RemoveJournal
  <2> QED
    BY <1>0, <2>1, <2>2, <2>3, GotoKeeps
<1>25. ASSUME NEW t \in Tasks, Recover(t) PROVE TasksOK'
  <2>1. \E pc \in TaskSteps : Goto(t, pc)
    BY <1>25 DEF Recover, At, TaskSteps
  <2>2. task[t].version \in Versions
    BY <1>25 DEF Recover, At, TasksKnow, BeforeOffer
  <2>3. channel' = channel
    BY <1>25 DEF Recover
  <2> QED
    BY <1>0, <2>1, <2>2, <2>3, GotoKeeps
<1>26. ASSUME NEW t \in Tasks, Unrecover(t) PROVE TasksOK'
  <2>1. \E pc \in TaskSteps : Goto(t, pc)
    BY <1>26 DEF Unrecover, At, TaskSteps
  <2>2. task[t].version \in Versions
    BY <1>26 DEF Unrecover, At, TasksKnow, BeforeOffer
  <2>3. channel' = channel
    BY <1>26 DEF Unrecover
  <2> QED
    BY <1>0, <2>1, <2>2, <2>3, GotoKeeps
<1>27. ASSUME NEW t \in Tasks, Cleanup(t) PROVE TasksOK'
  BY <1>27, <1>0, FinishKeeps DEF Cleanup
<1>28. CASE ResetLock
  BY <1>28 DEF ResetLock, TaskTypes, TasksKnow, BeforeOffer
<1>29. CASE ResetActive
  BY <1>29 DEF ResetActive, TaskTypes, TasksKnow, BeforeOffer
<1>30. CASE ResetLastGood
  BY <1>30 DEF ResetLastGood, TaskTypes, TasksKnow, BeforeOffer
<1>31. CASE ResetFiles
  BY <1>31 DEF ResetFiles, TaskTypes, TasksKnow, BeforeOffer
<1>32. CASE Publish
  BY <1>32 DEF Publish, TaskTypes, TasksKnow, BeforeOffer
<1>33. CASE DayPasses
  BY <1>33 DEF DayPasses, TaskTypes, TasksKnow, BeforeOffer
<1>34. CASE Damage
  BY <1>34 DEF Damage, TaskTypes, TasksKnow, BeforeOffer
<1>35. CASE Crash
  BY <1>35 DEF Crash, TaskTypes, TasksKnow, BeforeOffer, TaskSteps, Idle
<1>36. CASE UNCHANGED vars
  BY <1>36 DEF vars, TaskTypes, TasksKnow, BeforeOffer
<1> QED
  BY <1>1, <1>2, <1>3, <1>4, <1>5, <1>6, <1>7, <1>8, <1>9, <1>10, <1>11, <1>12, <1>13,
     <1>14, <1>15, <1>16, <1>17, <1>18, <1>19, <1>20, <1>21, <1>22, <1>23, <1>24,
     <1>25, <1>26, <1>27, <1>28, <1>29, <1>30, <1>31, <1>32, <1>33, <1>34, <1>35,
     <1>36
     DEF Next, Start, Check, Reset

-----------------------------------------------------------------------------
(* The tool sets.                                                            *)

(* A staging directory bears the version of what is in it.                   *)
SetsOK ==
    /\ active \in Slots /\ lastGood \in Slots /\ journal \in BOOLEAN
    /\ staging \in [Versions -> Slots]
    /\ \A v \in Versions : staging[v] # Absent => staging[v].version = v

LEMMA NoSet == Absent \in Slots
BY DEF Slots

(* What an extraction makes, and what damage makes of a set, are sets.       *)
LEMMA NewSet ==
  ASSUME NEW v \in Versions, NEW content \in {"whole", "bare", "part", "damaged"}
  PROVE  /\ [version |-> v, state |-> content] \in Slots
         /\ [version |-> v, state |-> content] # Absent
         /\ [version |-> v, state |-> content].version = v
         /\ [version |-> v, state |-> content].state = content
<1>1. [version |-> v, state |-> content] \in ToolSets
  BY DEF ToolSets
<1> QED
  BY <1>1, UpdateAssumption DEF Slots

LEMMA DamagedSet ==
  ASSUME NEW set \in Slots, set # Absent
  PROVE  /\ set.version \in Versions
         /\ [set EXCEPT !.state = "damaged"] \in Slots
         /\ [set EXCEPT !.state = "damaged"] # Absent
         /\ [set EXCEPT !.state = "damaged"].version = set.version
         /\ [set EXCEPT !.state = "damaged"].state = "damaged"
<1>1. set \in ToolSets
  BY DEF Slots
<1>2. /\ set.version \in Versions
      /\ [set EXCEPT !.state = "damaged"] \in ToolSets
      /\ [set EXCEPT !.state = "damaged"].version = set.version
      /\ [set EXCEPT !.state = "damaged"].state = "damaged"
  BY <1>1 DEF ToolSets
<1> QED
  BY <1>2, UpdateAssumption DEF Slots

LEMMA SetsInit == Init => SetsOK
BY NoSet DEF Init, SetsOK

LEMMA SetsStep == TasksOK /\ SetsOK /\ [Next]_vars => SetsOK'
<1> SUFFICES ASSUME TasksOK, SetsOK, [Next]_vars PROVE SetsOK'
  OBVIOUS
<1> USE DEF SetsOK
<1> USE NoSet DEF onDisk
<1>1. CASE Launch
  BY <1>1 DEF Launch
<1>2. CASE LaunchRecover
  BY <1>2 DEF LaunchRecover, PutBack
<1>3. CASE LaunchUnjournal
  BY <1>3 DEF LaunchUnjournal
<1>4. ASSUME NEW healthy \in BOOLEAN, LaunchLoad(healthy) PROVE SetsOK'
  BY <1>4 DEF LaunchLoad
<1>5. CASE LaunchSucceeds
  BY <1>5 DEF LaunchSucceeds
<1>6. CASE LaunchCount
  BY <1>6 DEF LaunchCount
<1>7. CASE RollbackRemove
  BY <1>7 DEF RollbackRemove
<1>8. CASE RollbackRestore
  BY <1>8 DEF RollbackRestore
<1>9. CASE RollbackForget
  BY <1>9 DEF RollbackForget
<1>10. ASSUME NEW t \in Tasks, ClaimCheck(t) PROVE SetsOK'
  BY <1>10 DEF ClaimCheck
<1>11. ASSUME NEW t \in Tasks, RecordClaim(t) PROVE SetsOK'
  BY <1>11 DEF RecordClaim
<1>12. ASSUME NEW t \in Tasks, TakeOffer(t) PROVE SetsOK'
  BY <1>12 DEF TakeOffer
<1>13. ASSUME NEW t \in Tasks, DeclineOffer(t) PROVE SetsOK'
  BY <1>13 DEF DeclineOffer
<1>14. ASSUME NEW t \in Tasks, ClearDownload(t) PROVE SetsOK'
  BY <1>14 DEF ClearDownload
<1>15. ASSUME NEW t \in Tasks, OpenDownload(t) PROVE SetsOK'
  BY <1>15 DEF OpenDownload
<1>16. ASSUME NEW t \in Tasks, NEW got \in {"part", "whole", "wrong"}, EndDownload(t, got)
       PROVE SetsOK'
  BY <1>16 DEF EndDownload
<1>17. ASSUME NEW t \in Tasks, StageBegin(t) PROVE SetsOK'
  <2>1. task[t].version \in Versions
    BY <1>17 DEF StageBegin, At, TasksOK, TasksKnow, BeforeOffer
  <2>2. \/ staging' = staging
        \/ \E set \in Slots : (set = Absent \/ set.version = task[t].version)
                             /\ staging' = [staging EXCEPT ![task[t].version] = set]
    <3>1. [version |-> task[t].version, state |-> "part"] \in Slots
      BY <2>1, NewSet
    <3>2. [version |-> task[t].version, state |-> "part"].version = task[t].version
      OBVIOUS
    <3>3. \/ staging' = staging
          \/ staging' = [staging EXCEPT ![task[t].version] =
                                 [version |-> task[t].version, state |-> "part"]]
      BY <1>17 DEF StageBegin
    <3> QED
      BY <3>1, <3>2, <3>3
  <2>3. active' = active /\ lastGood' = lastGood /\ journal' = journal
    BY <1>17 DEF StageBegin
  <2> QED
    BY <2>1, <2>2, <2>3
<1>18. ASSUME NEW t \in Tasks, NEW content \in {"none", "bare", "whole"}, StageEnd(t, content)
       PROVE SetsOK'
  <2>1. task[t].version \in Versions
    BY <1>18 DEF StageEnd, At, TasksOK, TasksKnow, BeforeOffer
  <2>2. \/ staging' = staging
        \/ \E set \in Slots : (set = Absent \/ set.version = task[t].version)
                             /\ staging' = [staging EXCEPT ![task[t].version] = set]
    BY <1>18, <2>1, NewSet DEF StageEnd
  <2>3. active' = active /\ lastGood' = lastGood /\ journal' = journal
    BY <1>18 DEF StageEnd
  <2> QED
    BY <2>1, <2>2, <2>3
<1>19. ASSUME NEW t \in Tasks, NEW healthy \in BOOLEAN, VerifyStaged(t, healthy)
       PROVE SetsOK'
  BY <1>19 DEF VerifyStaged
<1>20. ASSUME NEW t \in Tasks, NEW ok \in BOOLEAN, WriteJournal(t, ok) PROVE SetsOK'
  BY <1>20 DEF WriteJournal
<1>21. ASSUME NEW t \in Tasks, NEW ok \in BOOLEAN, ClearLastGood(t, ok) PROVE SetsOK'
  BY <1>21 DEF ClearLastGood
<1>22. ASSUME NEW t \in Tasks, NEW ok \in BOOLEAN, PreserveActive(t, ok) PROVE SetsOK'
  BY <1>22 DEF PreserveActive
<1>23. ASSUME NEW t \in Tasks, NEW ok \in BOOLEAN, PlaceStaged(t, ok) PROVE SetsOK'
  <2>1. task[t].version \in Versions
    BY <1>23 DEF PlaceStaged, At, TasksOK, TasksKnow, BeforeOffer
  <2> QED
    BY <1>23, <2>1 DEF PlaceStaged
<1>24. ASSUME NEW t \in Tasks, NEW ok \in BOOLEAN, RemoveJournal(t, ok) PROVE SetsOK'
  BY <1>24 DEF RemoveJournal
<1>25. ASSUME NEW t \in Tasks, Recover(t) PROVE SetsOK'
  BY <1>25 DEF Recover, PutBack
<1>26. ASSUME NEW t \in Tasks, Unrecover(t) PROVE SetsOK'
  BY <1>26 DEF Unrecover
<1>27. ASSUME NEW t \in Tasks, Cleanup(t) PROVE SetsOK'
  BY <1>27 DEF Cleanup
<1>28. CASE ResetLock
  BY <1>28 DEF ResetLock
<1>29. CASE ResetActive
  BY <1>29 DEF ResetActive
<1>30. CASE ResetLastGood
  BY <1>30 DEF ResetLastGood
<1>31. CASE ResetFiles
  BY <1>31 DEF ResetFiles
<1>32. CASE Publish
  BY <1>32 DEF Publish
<1>33. CASE DayPasses
  BY <1>33 DEF DayPasses
<1>34. CASE Damage
  BY <1>34, DamagedSet DEF Damage
<1>35. CASE Crash
  <2>1. staging' = [v \in Versions |-> IF staging[v] = Absent THEN Absent
                                       ELSE [version |-> v, state |-> "part"]]
    BY <1>35 DEF Crash
  <2>2. \A v \in Versions : /\ [version |-> v, state |-> "part"] \in Slots
                           /\ [version |-> v, state |-> "part"].version = v
    BY NewSet
  <2>3. active' = active /\ lastGood' = lastGood /\ journal' = journal
    BY <1>35 DEF Crash
  <2> QED
    BY <2>1, <2>2, <2>3
<1>36. CASE UNCHANGED vars
  BY <1>36 DEF vars
<1> QED
  BY <1>1, <1>2, <1>3, <1>4, <1>5, <1>6, <1>7, <1>8, <1>9, <1>10, <1>11, <1>12, <1>13,
     <1>14, <1>15, <1>16, <1>17, <1>18, <1>19, <1>20, <1>21, <1>22, <1>23, <1>24,
     <1>25, <1>26, <1>27, <1>28, <1>29, <1>30, <1>31, <1>32, <1>33, <1>34, <1>35,
     <1>36
     DEF Next, Start, Check, Reset

-----------------------------------------------------------------------------
(* The process, the lock and the downloads.                                  *)

(* Nothing runs before the start is over.                                    *)
ProcessOK == launch # "up" => reset = "idle" /\ \A t \in Tasks : task[t].pc = "idle"

LEMMA ProcessInit == Init => ProcessOK
BY DEF Init, ProcessOK, Idle

LEMMA ProcessStep == ProcessOK /\ [Next]_vars => ProcessOK'
<1> SUFFICES ASSUME ProcessOK, [Next]_vars PROVE ProcessOK'
  OBVIOUS
<1> USE DEF ProcessOK, onDisk
<1>1. CASE Launch
  BY <1>1 DEF Launch
<1>2. CASE LaunchRecover
  BY <1>2 DEF LaunchRecover, Starting
<1>3. CASE LaunchUnjournal
  BY <1>3 DEF LaunchUnjournal, Starting
<1>4. ASSUME NEW healthy \in BOOLEAN, LaunchLoad(healthy) PROVE ProcessOK'
  BY <1>4 DEF LaunchLoad, Starting
<1>5. CASE LaunchSucceeds
  BY <1>5 DEF LaunchSucceeds, Starting
<1>6. CASE LaunchCount
  BY <1>6 DEF LaunchCount, Starting
<1>7. CASE RollbackRemove
  BY <1>7 DEF RollbackRemove, Starting
<1>8. CASE RollbackRestore
  BY <1>8 DEF RollbackRestore, Starting
<1>9. CASE RollbackForget
  BY <1>9 DEF RollbackForget, Starting
<1>10. ASSUME NEW t \in Tasks, ClaimCheck(t) PROVE ProcessOK'
  BY <1>10 DEF ClaimCheck, At
<1>11. ASSUME NEW t \in Tasks, RecordClaim(t) PROVE ProcessOK'
  BY <1>11 DEF RecordClaim, At
<1>12. ASSUME NEW t \in Tasks, TakeOffer(t) PROVE ProcessOK'
  BY <1>12 DEF TakeOffer, At
<1>13. ASSUME NEW t \in Tasks, DeclineOffer(t) PROVE ProcessOK'
  BY <1>13 DEF DeclineOffer, At
<1>14. ASSUME NEW t \in Tasks, ClearDownload(t) PROVE ProcessOK'
  BY <1>14 DEF ClearDownload, At
<1>15. ASSUME NEW t \in Tasks, OpenDownload(t) PROVE ProcessOK'
  BY <1>15 DEF OpenDownload, At
<1>16. ASSUME NEW t \in Tasks, NEW got \in {"part", "whole", "wrong"}, EndDownload(t, got)
       PROVE ProcessOK'
  BY <1>16 DEF EndDownload, At
<1>17. ASSUME NEW t \in Tasks, StageBegin(t) PROVE ProcessOK'
  BY <1>17 DEF StageBegin, At
<1>18. ASSUME NEW t \in Tasks, NEW content \in {"none", "bare", "whole"}, StageEnd(t, content)
       PROVE ProcessOK'
  BY <1>18 DEF StageEnd, At
<1>19. ASSUME NEW t \in Tasks, NEW healthy \in BOOLEAN, VerifyStaged(t, healthy)
       PROVE ProcessOK'
  BY <1>19 DEF VerifyStaged, At
<1>20. ASSUME NEW t \in Tasks, NEW ok \in BOOLEAN, WriteJournal(t, ok) PROVE ProcessOK'
  BY <1>20 DEF WriteJournal, At
<1>21. ASSUME NEW t \in Tasks, NEW ok \in BOOLEAN, ClearLastGood(t, ok) PROVE ProcessOK'
  BY <1>21 DEF ClearLastGood, At
<1>22. ASSUME NEW t \in Tasks, NEW ok \in BOOLEAN, PreserveActive(t, ok)
       PROVE ProcessOK'
  BY <1>22 DEF PreserveActive, At
<1>23. ASSUME NEW t \in Tasks, NEW ok \in BOOLEAN, PlaceStaged(t, ok) PROVE ProcessOK'
  BY <1>23 DEF PlaceStaged, At
<1>24. ASSUME NEW t \in Tasks, NEW ok \in BOOLEAN, RemoveJournal(t, ok) PROVE ProcessOK'
  BY <1>24 DEF RemoveJournal, At
<1>25. ASSUME NEW t \in Tasks, Recover(t) PROVE ProcessOK'
  BY <1>25 DEF Recover, At
<1>26. ASSUME NEW t \in Tasks, Unrecover(t) PROVE ProcessOK'
  BY <1>26 DEF Unrecover, At
<1>27. ASSUME NEW t \in Tasks, Cleanup(t) PROVE ProcessOK'
  BY <1>27 DEF Cleanup, At
<1>28. CASE ResetLock
  BY <1>28 DEF ResetLock
<1>29. CASE ResetActive
  BY <1>29 DEF ResetActive
<1>30. CASE ResetLastGood
  BY <1>30 DEF ResetLastGood
<1>31. CASE ResetFiles
  BY <1>31 DEF ResetFiles
<1>32. CASE Publish
  BY <1>32 DEF Publish
<1>33. CASE DayPasses
  BY <1>33 DEF DayPasses
<1>34. CASE Damage
  BY <1>34 DEF Damage
<1>35. CASE Crash
  BY <1>35 DEF Crash, Idle
<1>36. CASE UNCHANGED vars
  BY <1>36 DEF vars
<1> QED
  BY <1>1, <1>2, <1>3, <1>4, <1>5, <1>6, <1>7, <1>8, <1>9, <1>10, <1>11, <1>12, <1>13,
     <1>14, <1>15, <1>16, <1>17, <1>18, <1>19, <1>20, <1>21, <1>22, <1>23, <1>24,
     <1>25, <1>26, <1>27, <1>28, <1>29, <1>30, <1>31, <1>32, <1>33, <1>34, <1>35,
     <1>36
     DEF Next, Start, Check, Reset

RestOK ==
    /\ archive \in [Versions -> Archives] /\ checked \in BOOLEAN /\ disturbed \in BOOLEAN
    /\ lock \in Tasks \cup {"launch", "reset", Absent}
    /\ launch \in {"down", "recover", "unjournal", "load", "clear", "count",
                   "rollback", "restore", "forget", "up"}
    /\ reset \in {"idle", "active", "lastGood", "files"}

LEMMA NewArchive ==
  /\ Absent \in Archives
  /\ [by |-> Absent, state |-> "part"] \in Archives
  /\ \A t \in Tasks : [by |-> t, state |-> "part"] \in Archives
BY DEF Archives

LEMMA EndedArchive ==
  ASSUME NEW file \in Archives, file # Absent, NEW got \in {"part", "whole", "wrong"}
  PROVE  [file EXCEPT !.state = got] \in Archives
BY DEF Archives

LEMMA RestInit == Init => RestOK
BY NewArchive DEF Init, RestOK

LEMMA RestStep == TasksOK /\ RestOK /\ [Next]_vars => RestOK'
<1> SUFFICES ASSUME TasksOK, RestOK, [Next]_vars PROVE RestOK'
  OBVIOUS
<1> USE DEF RestOK, onDisk, history
<1>1. CASE Launch
  BY <1>1 DEF Launch
<1>2. CASE LaunchRecover
  BY <1>2 DEF LaunchRecover
<1>3. CASE LaunchUnjournal
  BY <1>3 DEF LaunchUnjournal
<1>4. ASSUME NEW healthy \in BOOLEAN, LaunchLoad(healthy) PROVE RestOK'
  BY <1>4 DEF LaunchLoad
<1>5. CASE LaunchSucceeds
  BY <1>5 DEF LaunchSucceeds
<1>6. CASE LaunchCount
  BY <1>6 DEF LaunchCount
<1>7. CASE RollbackRemove
  BY <1>7 DEF RollbackRemove
<1>8. CASE RollbackRestore
  BY <1>8 DEF RollbackRestore
<1>9. CASE RollbackForget
  BY <1>9 DEF RollbackForget
<1>10. ASSUME NEW t \in Tasks, ClaimCheck(t) PROVE RestOK'
  BY <1>10 DEF ClaimCheck
<1>11. ASSUME NEW t \in Tasks, RecordClaim(t) PROVE RestOK'
  BY <1>11 DEF RecordClaim
<1>12. ASSUME NEW t \in Tasks, TakeOffer(t) PROVE RestOK'
  BY <1>12 DEF TakeOffer
<1>13. ASSUME NEW t \in Tasks, DeclineOffer(t) PROVE RestOK'
  BY <1>13 DEF DeclineOffer
<1>14. ASSUME NEW t \in Tasks, ClearDownload(t) PROVE RestOK'
  BY <1>14, NewArchive DEF ClearDownload
<1>15. ASSUME NEW t \in Tasks, OpenDownload(t) PROVE RestOK'
  BY <1>15, NewArchive DEF OpenDownload
<1>16. ASSUME NEW t \in Tasks, NEW got \in {"part", "whole", "wrong"}, EndDownload(t, got)
       PROVE RestOK'
  <2>1. archive' = [archive EXCEPT ![task[t].version] =
                        IF @ # Absent /\ @.by = t THEN [@ EXCEPT !.state = got] ELSE @]
    BY <1>16 DEF EndDownload
  <2>2. archive' \in [Versions -> Archives]
    <3>1. ASSUME task[t].version \notin Versions PROVE archive' = archive
      BY <2>1, <3>1
    <3>2. ASSUME task[t].version \in Versions PROVE archive' \in [Versions -> Archives]
      BY <2>1, <3>2, EndedArchive
    <3> QED
      BY <3>1, <3>2
  <2> QED
    BY <1>16, <2>2 DEF EndDownload
<1>17. ASSUME NEW t \in Tasks, StageBegin(t) PROVE RestOK'
  BY <1>17 DEF StageBegin
<1>18. ASSUME NEW t \in Tasks, NEW content \in {"none", "bare", "whole"}, StageEnd(t, content)
       PROVE RestOK'
  BY <1>18 DEF StageEnd
<1>19. ASSUME NEW t \in Tasks, NEW healthy \in BOOLEAN, VerifyStaged(t, healthy)
       PROVE RestOK'
  BY <1>19 DEF VerifyStaged
<1>20. ASSUME NEW t \in Tasks, NEW ok \in BOOLEAN, WriteJournal(t, ok) PROVE RestOK'
  BY <1>20 DEF WriteJournal, GiveUp
<1>21. ASSUME NEW t \in Tasks, NEW ok \in BOOLEAN, ClearLastGood(t, ok) PROVE RestOK'
  BY <1>21 DEF ClearLastGood, GiveUp
<1>22. ASSUME NEW t \in Tasks, NEW ok \in BOOLEAN, PreserveActive(t, ok) PROVE RestOK'
  BY <1>22 DEF PreserveActive, GiveUp
<1>23. ASSUME NEW t \in Tasks, NEW ok \in BOOLEAN, PlaceStaged(t, ok) PROVE RestOK'
  BY <1>23 DEF PlaceStaged, GiveUp
<1>24. ASSUME NEW t \in Tasks, NEW ok \in BOOLEAN, RemoveJournal(t, ok) PROVE RestOK'
  BY <1>24 DEF RemoveJournal
<1>25. ASSUME NEW t \in Tasks, Recover(t) PROVE RestOK'
  BY <1>25 DEF Recover
<1>26. ASSUME NEW t \in Tasks, Unrecover(t) PROVE RestOK'
  BY <1>26 DEF Unrecover
<1>27. ASSUME NEW t \in Tasks, Cleanup(t) PROVE RestOK'
  BY <1>27, NewArchive DEF Cleanup
<1>28. CASE ResetLock
  BY <1>28 DEF ResetLock
<1>29. CASE ResetActive
  BY <1>29 DEF ResetActive
<1>30. CASE ResetLastGood
  BY <1>30 DEF ResetLastGood
<1>31. CASE ResetFiles
  BY <1>31, NewArchive DEF ResetFiles
<1>32. CASE Publish
  BY <1>32 DEF Publish
<1>33. CASE DayPasses
  BY <1>33 DEF DayPasses
<1>34. CASE Damage
  BY <1>34 DEF Damage
<1>35. CASE Crash
  BY <1>35, NewArchive DEF Crash
<1>36. CASE UNCHANGED vars
  BY <1>36 DEF vars
<1> QED
  BY <1>1, <1>2, <1>3, <1>4, <1>5, <1>6, <1>7, <1>8, <1>9, <1>10, <1>11, <1>12, <1>13,
     <1>14, <1>15, <1>16, <1>17, <1>18, <1>19, <1>20, <1>21, <1>22, <1>23, <1>24,
     <1>25, <1>26, <1>27, <1>28, <1>29, <1>30, <1>31, <1>32, <1>33, <1>34, <1>35,
     <1>36
     DEF Next, Start, Check, Reset

(* The files and tasks of UpdateManager keep their types, whatever the       *)
(* releases, tasks and failures.                                             *)
THEOREM UpdateTypeCorrect == Spec => []TypeOK
<1>1. Init => CountInv /\ TasksOK /\ SetsOK /\ RestOK
  BY CountInit, TasksInit, SetsInit, RestInit
<1>2. CountInv /\ TasksOK /\ SetsOK /\ RestOK /\ [Next]_vars
        => (CountInv /\ TasksOK /\ SetsOK /\ RestOK)'
  BY CountStep, TasksStep, SetsStep, RestStep
<1>3. CountInv /\ TasksOK /\ SetsOK /\ RestOK => TypeOK
  BY DEF CountInv, CountsOK, TasksOK, SetsOK, RestOK, TypeOK
<1> QED
  BY <1>1, <1>2, <1>3, PTL DEF Spec

-----------------------------------------------------------------------------
(* Installations that nobody disturbs.                                       *)

BeforeExchange == {"clearDownload", "openDownload", "download", "stage", "extract", "verify",
                   "activate", "clearLastGood", "preserve"}
WithStagedSet  == {"verify", "activate", "clearLastGood", "preserve", "place"}

(* What a check under way relies on.                                         *)
Relies(t) ==
    /\ reset = "idle"
    /\ task[t].pc \in BeforeExchange => active = Absent \/ active.version < task[t].version
    /\ task[t].pc \in WithStagedSet => staging[task[t].version] # Absent
                                       /\ staging[task[t].version].state = "whole"
    /\ task[t].pc \in {"clearLastGood", "preserve", "place"} => journal
    /\ task[t].pc = "preserve" => lastGood = Absent
    /\ task[t].pc = "place" => /\ active = Absent
                               /\ lastGood = Absent \/ lastGood.version < task[t].version
    /\ task[t].pc \in {"unjournal", "recover", "unrecover"} => active # Absent

InstallsAlone ==
    \A t \in Tasks : Installing(t) => Relies(t) /\ \A u \in Tasks : Installing(u) => u = t

(* A kept set without an active one is between the two renames of an         *)
(* activation, with the journal to tell, or in a rollback or a reset.        *)
GapIsJournaled ==
    active = Absent /\ lastGood # Absent =>
        \/ journal /\ (launch \in {"down", "recover"} \/ \E t \in Tasks : task[t].pc = "place")
        \/ launch = "restore" \/ reset = "lastGood"

DropsInOrder ==
    /\ launch = "restore" => active = Absent
    /\ reset = "lastGood" => active = Absent
    /\ reset = "files" => active = Absent /\ lastGood = Absent

SoundSets ==
    /\ active # Absent => active.state \in {"whole", "damaged"}
    /\ lastGood # Absent => lastGood.state \in {"whole", "damaged"}

Undisturbed == InstallsAlone /\ GapIsJournaled /\ DropsInOrder /\ SoundSets
Alone       == disturbed \/ Undisturbed

TypesOK == TasksOK /\ ProcessOK /\ SetsOK /\ RestOK

LEMMA Moved ==
  ASSUME TaskTypes, NEW t \in Tasks, NEW pc, Goto(t, pc)
  PROVE  /\ task'[t].pc = pc /\ task'[t].version = task[t].version
         /\ \A u \in Tasks \ {t} : task'[u] = task[u]
BY DEF TaskTypes, Goto

LEMMA Ended ==
  ASSUME TaskTypes, NEW t \in Tasks, task' = [task EXCEPT ![t] = Finished(t)]
  PROVE  /\ task'[t].pc \in {"idle", "done"}
         /\ \A u \in Tasks \ {t} : task'[u] = task[u]
<1>1. Finished(t).pc \in {"idle", "done"}
  BY DEF Finished, Idle
<1> QED
  BY <1>1 DEF TaskTypes

LEMMA AloneInit == Init => Alone
BY DEF Init, Alone, Undisturbed, InstallsAlone, GapIsJournaled, DropsInOrder, SoundSets,
       Installing, Idle

(* A check that is not installing touches no tool set.                       *)
LEMMA StandsAside ==
  ASSUME Undisturbed, NEW t \in Tasks, ~Installing(t), ~Installing(t)',
         \A u \in Tasks \ {t} : task'[u] = task[u],
         UNCHANGED <<active, lastGood, journal, staging, reset, launch>>
  PROVE  Undisturbed'
<1>1. InstallsAlone'
  BY DEF Undisturbed, InstallsAlone, Relies, Installing
<1>2. \A u \in Tasks : task'[u].pc = "place" <=> task[u].pc = "place"
  BY DEF Installing
<1> QED
  BY <1>1, <1>2 DEF Undisturbed, GapIsJournaled, DropsInOrder, SoundSets

(* The check that installs is the only one.                                  *)
LEMMA Advances ==
  ASSUME Undisturbed, NEW t \in Tasks, Installing(t),
         \A u \in Tasks \ {t} : task'[u] = task[u],
         Installing(t)' => Relies(t)'
  PROVE  InstallsAlone' /\ \A u \in Tasks \ {t} : task'[u].pc # "place"
<1>1. \A u \in Tasks \ {t} : ~Installing(u)
  BY DEF Undisturbed, InstallsAlone
<1>2. \A u \in Tasks \ {t} : ~Installing(u)'
  BY <1>1 DEF Installing
<1> QED
  BY <1>2 DEF InstallsAlone, Installing

(* Before the exchange of the sets there is no gap.                          *)
LEMMA NoGap ==
  ASSUME Undisturbed, TypesOK, NEW t \in Tasks, Installing(t), launch = "up",
         task[t].pc # "place"
  PROVE  /\ reset = "idle" /\ (active # Absent \/ lastGood = Absent)
         /\ Relies(t) /\ task[t].version \in Versions
<1>1. Relies(t) /\ \A u \in Tasks : task[u].pc # "place"
  BY DEF Undisturbed, InstallsAlone, Installing
<1>2. task[t].version \in Versions
  BY DEF TypesOK, TasksOK, TasksKnow, BeforeOffer, Installing
<1> QED
  BY <1>1, <1>2 DEF Undisturbed, GapIsJournaled, Relies

(* One case per action: nobody but the check that installs, a rollback or a  *)
(* reset changes a managed set, and each leaves what the next one relies on. *)
LEMMA AloneStep == TypesOK /\ Alone /\ [Next]_vars => Alone'
<1> SUFFICES ASSUME TypesOK, Alone, [Next]_vars, ~disturbed' PROVE Undisturbed'
  BY DEF Alone
<1>0. TaskTypes
  BY DEF TypesOK, TasksOK
<1>1. CASE Launch
  <2>1. Undisturbed /\ launch # "up" /\ UNCHANGED <<task, reset>>
    BY <1>1 DEF Launch, Alone, history
  <2>2. InstallsAlone' /\ reset = "idle" /\ \A t \in Tasks : task[t].pc # "place"
    BY <2>1 DEF InstallsAlone, Installing, TypesOK, ProcessOK
  <2> QED
    BY <1>1, <2>1, <2>2
       DEF Launch, onDisk, Undisturbed, GapIsJournaled, DropsInOrder, SoundSets
<1>2. CASE LaunchRecover
  <2>1. Undisturbed /\ launch # "up" /\ UNCHANGED <<task, reset>>
    BY <1>2 DEF LaunchRecover, Starting, Alone, history
  <2>2. InstallsAlone' /\ reset = "idle" /\ \A t \in Tasks : task[t].pc # "place"
    BY <2>1 DEF InstallsAlone, Installing, TypesOK, ProcessOK
  <2> QED
    BY <1>2, <2>1, <2>2
       DEF LaunchRecover, Starting, PutBack, CanRestore, onDisk, Undisturbed,
          GapIsJournaled, DropsInOrder, SoundSets
<1>3. CASE LaunchUnjournal
  <2>1. Undisturbed /\ launch # "up" /\ UNCHANGED <<task, reset>>
    BY <1>3 DEF LaunchUnjournal, Starting, Alone, history
  <2>2. InstallsAlone' /\ reset = "idle" /\ \A t \in Tasks : task[t].pc # "place"
    BY <2>1 DEF InstallsAlone, Installing, TypesOK, ProcessOK
  <2> QED
    BY <1>3, <2>1, <2>2
       DEF LaunchUnjournal, Starting, onDisk, Undisturbed, GapIsJournaled,
          DropsInOrder, SoundSets
<1>4. ASSUME NEW healthy \in BOOLEAN, LaunchLoad(healthy) PROVE Undisturbed'
  <2>1. Undisturbed /\ launch # "up" /\ UNCHANGED <<task, reset>>
    BY <1>4 DEF LaunchLoad, Starting, Alone, history
  <2>2. InstallsAlone' /\ reset = "idle" /\ \A t \in Tasks : task[t].pc # "place"
    BY <2>1 DEF InstallsAlone, Installing, TypesOK, ProcessOK
  <2> QED
    BY <1>4, <2>1, <2>2
       DEF LaunchLoad, Starting, onDisk, Undisturbed, GapIsJournaled, DropsInOrder,
          SoundSets
<1>5. CASE LaunchSucceeds
  <2>1. Undisturbed /\ launch # "up" /\ UNCHANGED <<task, reset>>
    BY <1>5 DEF LaunchSucceeds, Starting, Alone, history
  <2>2. InstallsAlone' /\ reset = "idle" /\ \A t \in Tasks : task[t].pc # "place"
    BY <2>1 DEF InstallsAlone, Installing, TypesOK, ProcessOK
  <2> QED
    BY <1>5, <2>1, <2>2
       DEF LaunchSucceeds, Starting, onDisk, Undisturbed, GapIsJournaled,
          DropsInOrder, SoundSets
<1>6. CASE LaunchCount
  <2>1. Undisturbed /\ launch # "up" /\ UNCHANGED <<task, reset>>
    BY <1>6 DEF LaunchCount, Starting, Alone, history
  <2>2. InstallsAlone' /\ reset = "idle" /\ \A t \in Tasks : task[t].pc # "place"
    BY <2>1 DEF InstallsAlone, Installing, TypesOK, ProcessOK
  <2> QED
    BY <1>6, <2>1, <2>2
       DEF LaunchCount, Starting, onDisk, Undisturbed, GapIsJournaled, DropsInOrder,
          SoundSets
<1>7. CASE RollbackRemove
  <2>1. Undisturbed /\ launch # "up" /\ UNCHANGED <<task, reset>>
    BY <1>7 DEF RollbackRemove, Starting, Alone, history
  <2>2. InstallsAlone' /\ reset = "idle" /\ \A t \in Tasks : task[t].pc # "place"
    BY <2>1 DEF InstallsAlone, Installing, TypesOK, ProcessOK
  <2> QED
    BY <1>7, <2>1, <2>2
       DEF RollbackRemove, Starting, onDisk, Undisturbed, GapIsJournaled,
          DropsInOrder, SoundSets
<1>8. CASE RollbackRestore
  <2>1. Undisturbed /\ launch # "up" /\ UNCHANGED <<task, reset>>
    BY <1>8 DEF RollbackRestore, Starting, Alone, history
  <2>2. InstallsAlone' /\ reset = "idle" /\ \A t \in Tasks : task[t].pc # "place"
    BY <2>1 DEF InstallsAlone, Installing, TypesOK, ProcessOK
  <2> QED
    BY <1>8, <2>1, <2>2
       DEF RollbackRestore, Starting, onDisk, Undisturbed, GapIsJournaled,
          DropsInOrder, SoundSets
<1>9. CASE RollbackForget
  <2>1. Undisturbed /\ launch # "up" /\ UNCHANGED <<task, reset>>
    BY <1>9 DEF RollbackForget, Starting, Alone, history
  <2>2. InstallsAlone' /\ reset = "idle" /\ \A t \in Tasks : task[t].pc # "place"
    BY <2>1 DEF InstallsAlone, Installing, TypesOK, ProcessOK
  <2> QED
    BY <1>9, <2>1, <2>2
       DEF RollbackForget, Starting, onDisk, Undisturbed, GapIsJournaled,
          DropsInOrder, SoundSets
<1>10. ASSUME NEW t \in Tasks, ClaimCheck(t) PROVE Undisturbed'
  <2>1. /\ task[t].pc = "idle" /\ Undisturbed
        /\ UNCHANGED <<active, lastGood, journal, staging, reset, launch>>
    BY <1>10 DEF ClaimCheck, At, Alone, onDisk, history
  <2>2. /\ task'[t].pc \in {"idle", "done", "claim", "fetch"}
        /\ \A u \in Tasks \ {t} : task'[u] = task[u]
    BY <1>10, <1>0, Moved, Ended DEF ClaimCheck
  <2> QED
    BY <2>1, <2>2, StandsAside DEF Installing
<1>11. ASSUME NEW t \in Tasks, RecordClaim(t) PROVE Undisturbed'
  <2>1. /\ task[t].pc = "claim" /\ Undisturbed
        /\ UNCHANGED <<active, lastGood, journal, staging, reset, launch>>
    BY <1>11 DEF RecordClaim, At, Alone, onDisk, history
  <2>2. /\ task'[t].pc \in {"idle", "done", "claim", "fetch"}
        /\ \A u \in Tasks \ {t} : task'[u] = task[u]
    BY <1>11, <1>0, Moved DEF RecordClaim
  <2> QED
    BY <2>1, <2>2, StandsAside DEF Installing
<1>12. ASSUME NEW t \in Tasks, TakeOffer(t) PROVE Undisturbed'
  <2>1. /\ task[t].pc = "fetch" /\ Undisturbed /\ reset = "idle" /\ launch = "up"
        /\ \A u \in Tasks : ~Installing(u)
        /\ UNCHANGED <<active, lastGood, journal, staging, reset, launch>>
    BY <1>12 DEF TakeOffer, At, Alone, onDisk
  <2>2. /\ task'[t].pc = "clearDownload" /\ task'[t].version = channel
        /\ \A u \in Tasks \ {t} : task'[u] = task[u]
    BY <1>12, <1>0 DEF TakeOffer, TaskTypes
  <2>3. active = Absent \/ active.version < channel
    BY <1>12, <2>1 DEF TakeOffer, ActiveVersion, Undisturbed, SoundSets
  <2>4. Relies(t)' /\ \A u \in Tasks \ {t} : ~Installing(u)'
    BY <2>1, <2>2, <2>3 DEF Relies, Installing, WithStagedSet
  <2>5. InstallsAlone' /\ \A u \in Tasks : task[u].pc # "place"
    BY <2>1, <2>4 DEF InstallsAlone, Installing
  <2> QED
    BY <2>1, <2>5 DEF Undisturbed, GapIsJournaled, DropsInOrder, SoundSets
<1>13. ASSUME NEW t \in Tasks, DeclineOffer(t) PROVE Undisturbed'
  <2>1. /\ task[t].pc = "fetch" /\ Undisturbed
        /\ UNCHANGED <<active, lastGood, journal, staging, reset, launch>>
    BY <1>13 DEF DeclineOffer, At, Alone, onDisk, history
  <2>2. /\ task'[t].pc \in {"idle", "done", "claim", "fetch"}
        /\ \A u \in Tasks \ {t} : task'[u] = task[u]
    BY <1>13, <1>0, Ended DEF DeclineOffer
  <2> QED
    BY <2>1, <2>2, StandsAside DEF Installing
<1>14. ASSUME NEW t \in Tasks, ClearDownload(t) PROVE Undisturbed'
  <2>1. /\ task[t].pc = "clearDownload" /\ launch = "up" /\ launch' = launch /\ Undisturbed
        /\ UNCHANGED <<active, lastGood, reset>>
    BY <1>14 DEF ClearDownload, At, Alone, onDisk, history
  <2>2. /\ Installing(t) /\ Relies(t) /\ task[t].version \in Versions
        /\ active # Absent \/ lastGood = Absent
    BY <2>1, NoGap DEF Installing
  <2>3. /\ task'[t].pc \in {"openDownload"} /\ task'[t].version = task[t].version
        /\ \A u \in Tasks \ {t} : task'[u] = task[u]
    BY <1>14, <1>0, Moved DEF ClearDownload
  <2>5. Installing(t)' => Relies(t)'
    BY <2>1, <2>2, <2>3 DEF Relies, Installing, BeforeExchange, WithStagedSet
  <2>6. InstallsAlone'
    BY <2>1, <2>2, <2>3, <2>5, Advances
  <2> QED
    BY <2>1, <2>2, <2>6 DEF Undisturbed, GapIsJournaled, DropsInOrder, SoundSets, Relies
<1>15. ASSUME NEW t \in Tasks, OpenDownload(t) PROVE Undisturbed'
  <2>1. /\ task[t].pc = "openDownload" /\ launch = "up" /\ launch' = launch /\ Undisturbed
        /\ UNCHANGED <<active, lastGood, reset>>
    BY <1>15 DEF OpenDownload, At, Alone, onDisk, history
  <2>2. /\ Installing(t) /\ Relies(t) /\ task[t].version \in Versions
        /\ active # Absent \/ lastGood = Absent
    BY <2>1, NoGap DEF Installing
  <2>3. /\ task'[t].pc \in {"download", "cleanup"} /\ task'[t].version = task[t].version
        /\ \A u \in Tasks \ {t} : task'[u] = task[u]
    BY <1>15, <1>0, Moved DEF OpenDownload
  <2>5. Installing(t)' => Relies(t)'
    BY <2>1, <2>2, <2>3 DEF Relies, Installing, BeforeExchange, WithStagedSet
  <2>6. InstallsAlone'
    BY <2>1, <2>2, <2>3, <2>5, Advances
  <2> QED
    BY <2>1, <2>2, <2>6 DEF Undisturbed, GapIsJournaled, DropsInOrder, SoundSets, Relies
<1>16. ASSUME NEW t \in Tasks, NEW got \in {"part", "whole", "wrong"}, EndDownload(t, got)
       PROVE Undisturbed'
  <2>1. /\ task[t].pc = "download" /\ launch = "up" /\ launch' = launch /\ Undisturbed
        /\ UNCHANGED <<active, lastGood, reset>>
    BY <1>16 DEF EndDownload, At, Alone, onDisk, history
  <2>2. /\ Installing(t) /\ Relies(t) /\ task[t].version \in Versions
        /\ active # Absent \/ lastGood = Absent
    BY <2>1, NoGap DEF Installing
  <2>3. /\ task'[t].pc \in {"stage", "cleanup"} /\ task'[t].version = task[t].version
        /\ \A u \in Tasks \ {t} : task'[u] = task[u]
    BY <1>16, <1>0, Moved DEF EndDownload
  <2>5. Installing(t)' => Relies(t)'
    BY <2>1, <2>2, <2>3 DEF Relies, Installing, BeforeExchange, WithStagedSet
  <2>6. InstallsAlone'
    BY <2>1, <2>2, <2>3, <2>5, Advances
  <2> QED
    BY <2>1, <2>2, <2>6 DEF Undisturbed, GapIsJournaled, DropsInOrder, SoundSets, Relies
<1>17. ASSUME NEW t \in Tasks, StageBegin(t) PROVE Undisturbed'
  <2>1. /\ task[t].pc = "stage" /\ launch = "up" /\ launch' = launch /\ Undisturbed
        /\ UNCHANGED <<active, lastGood, reset>>
    BY <1>17 DEF StageBegin, At, Alone, onDisk, history
  <2>2. /\ Installing(t) /\ Relies(t) /\ task[t].version \in Versions
        /\ active # Absent \/ lastGood = Absent
    BY <2>1, NoGap DEF Installing
  <2>3. /\ task'[t].pc \in {"extract", "cleanup"} /\ task'[t].version = task[t].version
        /\ \A u \in Tasks \ {t} : task'[u] = task[u]
    BY <1>17, <1>0, Moved DEF StageBegin
  <2>5. Installing(t)' => Relies(t)'
    BY <2>1, <2>2, <2>3 DEF Relies, Installing, BeforeExchange, WithStagedSet
  <2>6. InstallsAlone'
    BY <2>1, <2>2, <2>3, <2>5, Advances
  <2> QED
    BY <2>1, <2>2, <2>6 DEF Undisturbed, GapIsJournaled, DropsInOrder, SoundSets, Relies
<1>18. ASSUME NEW t \in Tasks, NEW content \in {"none", "bare", "whole"}, StageEnd(t, content)
       PROVE Undisturbed'
  <2>1. /\ task[t].pc = "extract" /\ launch = "up" /\ launch' = launch /\ Undisturbed
        /\ UNCHANGED <<active, lastGood, reset>>
    BY <1>18 DEF StageEnd, At, Alone, onDisk, history
  <2>2. /\ Installing(t) /\ Relies(t) /\ task[t].version \in Versions
        /\ active # Absent \/ lastGood = Absent
    BY <2>1, NoGap DEF Installing
  <2>3. /\ task'[t].pc \in {"verify", "cleanup"} /\ task'[t].version = task[t].version
        /\ \A u \in Tasks \ {t} : task'[u] = task[u]
    BY <1>18, <1>0, Moved DEF StageEnd
  <2>4. task'[t].pc = "verify" => staging'[task[t].version] # Absent
                                  /\ staging'[task[t].version].state = "whole"
    <3>1. ASSUME content # "whole" PROVE task'[t].pc = "cleanup"
      <4>1. Goto(t, "cleanup")
        BY <1>18, <3>1 DEF StageEnd
      <4> QED
        BY <1>0, <4>1, Moved
    <3>2. ASSUME content = "whole"
          PROVE  staging'[task[t].version] = [version |-> task[t].version, state |-> content]
      <4>1. staging' = [staging EXCEPT ![task[t].version] =
                           IF content = "none" THEN Absent
                           ELSE [version |-> task[t].version, state |-> content]]
        BY <1>18 DEF StageEnd
      <4>2. staging \in [Versions -> Slots]
        BY DEF TypesOK, SetsOK
      <4>3. content # "none"
        BY <3>2
      <4> QED
        BY <2>2, <4>1, <4>2, <4>3
    <3>3. ASSUME content = "whole"
          PROVE  /\ [version |-> task[t].version, state |-> content] # Absent
                 /\ [version |-> task[t].version, state |-> content].state = content
      <4>1. content \in {"whole", "bare", "part", "damaged"}
        BY <3>3
      <4> QED
        BY <2>2, <4>1, NewSet
    <3> QED
      BY <3>1, <3>2, <3>3
  <2>5. Installing(t)' => Relies(t)'
    BY <2>1, <2>2, <2>3, <2>4 DEF Relies, Installing, BeforeExchange, WithStagedSet
  <2>6. InstallsAlone'
    BY <2>1, <2>2, <2>3, <2>5, Advances
  <2> QED
    BY <2>1, <2>2, <2>6 DEF Undisturbed, GapIsJournaled, DropsInOrder, SoundSets, Relies
<1>19. ASSUME NEW t \in Tasks, NEW healthy \in BOOLEAN, VerifyStaged(t, healthy)
       PROVE Undisturbed'
  <2>1. /\ task[t].pc = "verify" /\ launch = "up" /\ launch' = launch /\ Undisturbed
        /\ UNCHANGED <<active, lastGood, reset>>
    BY <1>19 DEF VerifyStaged, At, Alone, onDisk, history
  <2>2. /\ Installing(t) /\ Relies(t) /\ task[t].version \in Versions
        /\ active # Absent \/ lastGood = Absent
    BY <2>1, NoGap DEF Installing
  <2>3. /\ task'[t].pc \in {"activate", "cleanup"} /\ task'[t].version = task[t].version
        /\ \A u \in Tasks \ {t} : task'[u] = task[u]
    BY <1>19, <1>0, Moved DEF VerifyStaged
  <2>4. task'[t].pc = "activate" => staging' = staging
    BY <1>19 DEF VerifyStaged, onDisk
  <2>5. Installing(t)' => Relies(t)'
    BY <2>1, <2>2, <2>3, <2>4 DEF Relies, Installing, BeforeExchange, WithStagedSet
  <2>6. InstallsAlone'
    BY <2>1, <2>2, <2>3, <2>5, Advances
  <2> QED
    BY <2>1, <2>2, <2>6 DEF Undisturbed, GapIsJournaled, DropsInOrder, SoundSets, Relies
<1>20. ASSUME NEW t \in Tasks, NEW ok \in BOOLEAN, WriteJournal(t, ok)
       PROVE Undisturbed'
  <2>1. /\ task[t].pc = "activate" /\ launch = "up" /\ launch' = launch /\ Undisturbed
        /\ UNCHANGED <<active, lastGood, reset>>
    BY <1>20 DEF WriteJournal, At, Alone, onDisk, history
  <2>2. /\ Installing(t) /\ Relies(t) /\ task[t].version \in Versions
        /\ active # Absent \/ lastGood = Absent
    BY <2>1, NoGap DEF Installing
  <2>3. /\ task'[t].pc \in {"clearLastGood", "cleanup"} /\ task'[t].version = task[t].version
        /\ \A u \in Tasks \ {t} : task'[u] = task[u]
    BY <1>20, <1>0, Moved DEF WriteJournal, GiveUp
  <2>4. staging' = staging /\ (task'[t].pc = "clearLastGood" => journal')
    BY <1>20, <1>0, <2>2, Moved DEF WriteJournal, GiveUp
  <2>5. Installing(t)' => Relies(t)'
    BY <2>1, <2>2, <2>3, <2>4 DEF Relies, Installing, BeforeExchange, WithStagedSet
  <2>6. InstallsAlone'
    BY <2>1, <2>2, <2>3, <2>5, Advances
  <2> QED
    BY <2>1, <2>2, <2>6 DEF Undisturbed, GapIsJournaled, DropsInOrder, SoundSets, Relies
<1>21. ASSUME NEW t \in Tasks, NEW ok \in BOOLEAN, ClearLastGood(t, ok)
       PROVE Undisturbed'
  <2>1. /\ task[t].pc = "clearLastGood" /\ launch = "up" /\ launch' = launch /\ Undisturbed
        /\ UNCHANGED <<active, journal, staging, reset>> /\ lastGood' \in {lastGood, Absent}
    BY <1>21 DEF ClearLastGood, At, Alone, history
  <2>2. /\ Installing(t) /\ Relies(t) /\ task[t].version \in Versions
        /\ active # Absent \/ lastGood = Absent
    BY <2>1, NoGap DEF Installing
  <2>3. /\ task'[t].pc \in {"preserve", "cleanup"} /\ task'[t].version = task[t].version
        /\ \A u \in Tasks \ {t} : task'[u] = task[u]
        /\ task'[t].pc = "preserve" => lastGood' = Absent
    BY <1>21, <1>0, Moved DEF ClearLastGood, GiveUp
  <2>5. Installing(t)' => Relies(t)'
    BY <2>1, <2>2, <2>3 DEF Relies, Installing, BeforeExchange, WithStagedSet
  <2>6. InstallsAlone'
    BY <2>1, <2>2, <2>3, <2>5, Advances
  <2> QED
    BY <2>1, <2>2, <2>6 DEF Undisturbed, GapIsJournaled, DropsInOrder, SoundSets, Relies
<1>22. ASSUME NEW t \in Tasks, NEW ok \in BOOLEAN, PreserveActive(t, ok)
       PROVE Undisturbed'
  <2>1. /\ task[t].pc = "preserve" /\ launch = "up" /\ launch' = launch /\ Undisturbed
        /\ UNCHANGED <<journal, staging, reset>>
    BY <1>22 DEF PreserveActive, At, Alone, history
  <2>2. /\ Installing(t) /\ Relies(t) /\ task[t].version \in Versions
        /\ lastGood = Absent /\ journal
    BY <2>1, NoGap DEF Installing, Relies
  <2>3. /\ task'[t].version = task[t].version
        /\ \A u \in Tasks \ {t} : task'[u] = task[u]
        /\ \/ task'[t].pc = "cleanup" /\ UNCHANGED <<active, lastGood>> /\ active # Absent
           \/ task'[t].pc = "place" /\ active' = Absent /\ lastGood' = active
    BY <1>22, <1>0, <2>2, Moved DEF PreserveActive, GiveUp
  <2>5. Installing(t)' => Relies(t)'
    BY <2>1, <2>2, <2>3 DEF Relies, Installing, BeforeExchange, WithStagedSet
  <2>6. InstallsAlone'
    BY <2>1, <2>2, <2>3, <2>5, Advances
  <2> QED
    BY <2>1, <2>2, <2>3, <2>6
       DEF Undisturbed, GapIsJournaled, DropsInOrder, SoundSets, Relies
<1>23. ASSUME NEW t \in Tasks, NEW ok \in BOOLEAN, PlaceStaged(t, ok) PROVE Undisturbed'
  <2>1. /\ task[t].pc = "place" /\ launch = "up" /\ launch' = launch /\ Undisturbed
        /\ UNCHANGED <<journal, reset>>
    BY <1>23 DEF PlaceStaged, At, Alone
  <2>2. /\ Installing(t) /\ Relies(t) /\ active = Absent
        /\ staging[task[t].version] # Absent /\ staging[task[t].version].state = "whole"
    BY <2>1 DEF Installing, Undisturbed, InstallsAlone, Relies, WithStagedSet
  <2>3. /\ task'[t].version = task[t].version
        /\ \A u \in Tasks \ {t} : task'[u] = task[u]
        /\ \/ task'[t].pc = "unjournal" /\ active' = staging[task[t].version] /\ lastGood' = lastGood
           \/ task'[t].pc = "cleanup" /\ active' = lastGood /\ lastGood' = Absent
    BY <1>23, <1>0, <2>2, Moved DEF PlaceStaged, GiveUp
  <2>5. Installing(t)' => Relies(t)'
    BY <2>1, <2>2, <2>3 DEF Relies, Installing, BeforeExchange, WithStagedSet
  <2>6. InstallsAlone'
    BY <2>1, <2>2, <2>3, <2>5, Advances
  <2> QED
    BY <2>1, <2>2, <2>3, <2>6
       DEF Undisturbed, GapIsJournaled, DropsInOrder, SoundSets, Relies
<1>24. ASSUME NEW t \in Tasks, NEW ok \in BOOLEAN, RemoveJournal(t, ok)
       PROVE Undisturbed'
  <2>1. /\ task[t].pc = "unjournal" /\ launch = "up" /\ launch' = launch /\ Undisturbed
        /\ UNCHANGED reset
    BY <1>24 DEF RemoveJournal, At, Alone, history
  <2>2. Installing(t) /\ Relies(t) /\ active # Absent
    BY <2>1, NoGap DEF Installing, Relies
  <2>3. /\ task'[t].pc \in {"recover", "cleanup"} /\ task'[t].version = task[t].version
        /\ \A u \in Tasks \ {t} : task'[u] = task[u]
    BY <1>24, <1>0, Moved DEF RemoveJournal
  <2>4. UNCHANGED <<active, lastGood>>
    BY <1>24, <2>2 DEF RemoveJournal
  <2>5. Installing(t)' => Relies(t)'
    BY <2>1, <2>2, <2>3, <2>4 DEF Relies, Installing, BeforeExchange, WithStagedSet
  <2>6. InstallsAlone'
    BY <2>1, <2>2, <2>3, <2>5, Advances
  <2> QED
    BY <2>1, <2>2, <2>4, <2>6
       DEF Undisturbed, GapIsJournaled, DropsInOrder, SoundSets, Relies
<1>25. ASSUME NEW t \in Tasks, Recover(t) PROVE Undisturbed'
  <2>1. /\ task[t].pc = "recover" /\ launch = "up" /\ launch' = launch /\ Undisturbed
        /\ UNCHANGED reset
    BY <1>25 DEF Recover, At, Alone, history
  <2>2. Installing(t) /\ Relies(t) /\ active # Absent
    BY <2>1, NoGap DEF Installing, Relies
  <2>3. /\ task'[t].pc \in {"unrecover", "cleanup"} /\ task'[t].version = task[t].version
        /\ \A u \in Tasks \ {t} : task'[u] = task[u]
    BY <1>25, <1>0, Moved DEF Recover
  <2>4. UNCHANGED <<active, lastGood>>
    BY <1>25, <2>2 DEF Recover, PutBack, CanRestore
  <2>5. Installing(t)' => Relies(t)'
    BY <2>1, <2>2, <2>3, <2>4 DEF Relies, Installing, BeforeExchange, WithStagedSet
  <2>6. InstallsAlone'
    BY <2>1, <2>2, <2>3, <2>5, Advances
  <2> QED
    BY <2>1, <2>2, <2>4, <2>6
       DEF Undisturbed, GapIsJournaled, DropsInOrder, SoundSets, Relies
<1>26. ASSUME NEW t \in Tasks, Unrecover(t) PROVE Undisturbed'
  <2>1. /\ task[t].pc = "unrecover" /\ launch = "up" /\ launch' = launch /\ Undisturbed
        /\ UNCHANGED reset
    BY <1>26 DEF Unrecover, At, Alone, history
  <2>2. Installing(t) /\ Relies(t) /\ active # Absent
    BY <2>1, NoGap DEF Installing, Relies
  <2>3. /\ task'[t].pc \in {"cleanup"} /\ task'[t].version = task[t].version
        /\ \A u \in Tasks \ {t} : task'[u] = task[u]
    BY <1>26, <1>0, Moved DEF Unrecover
  <2>4. UNCHANGED <<active, lastGood>>
    BY <1>26, <2>2 DEF Unrecover
  <2>5. Installing(t)' => Relies(t)'
    BY <2>1, <2>2, <2>3, <2>4 DEF Relies, Installing, BeforeExchange, WithStagedSet
  <2>6. InstallsAlone'
    BY <2>1, <2>2, <2>3, <2>5, Advances
  <2> QED
    BY <2>1, <2>2, <2>4, <2>6
       DEF Undisturbed, GapIsJournaled, DropsInOrder, SoundSets, Relies
<1>27. ASSUME NEW t \in Tasks, Cleanup(t) PROVE Undisturbed'
  <2>1. /\ task[t].pc = "cleanup" /\ Undisturbed
        /\ UNCHANGED <<active, lastGood, journal, staging, reset, launch>>
    BY <1>27 DEF Cleanup, At, Alone, onDisk, history
  <2>2. /\ task'[t].pc \in {"idle", "done", "claim", "fetch"}
        /\ \A u \in Tasks \ {t} : task'[u] = task[u]
    BY <1>27, <1>0, Ended DEF Cleanup
  <2> QED
    BY <2>1, <2>2, StandsAside DEF Installing
<1>28. CASE ResetLock
  <2>1. Undisturbed /\ launch = "up" /\ UNCHANGED <<task, launch>>
    BY <1>28 DEF ResetLock, Alone, history
  <2>2. \A t \in Tasks : ~Installing(t)
    BY <1>28, <2>1 DEF ResetLock, Undisturbed, InstallsAlone, Relies
  <2>3. InstallsAlone' /\ \A t \in Tasks : task[t].pc # "place"
    BY <2>1, <2>2 DEF InstallsAlone, Installing
  <2> QED
    BY <1>28, <2>1, <2>3
       DEF ResetLock, onDisk, Undisturbed, GapIsJournaled, DropsInOrder, SoundSets
<1>29. CASE ResetActive
  <2>1. Undisturbed /\ launch = "up" /\ UNCHANGED <<task, launch>>
    BY <1>29 DEF ResetActive, Alone, history
  <2>2. \A t \in Tasks : ~Installing(t)
    BY <1>29, <2>1 DEF ResetActive, Undisturbed, InstallsAlone, Relies
  <2>3. InstallsAlone' /\ \A t \in Tasks : task[t].pc # "place"
    BY <2>1, <2>2 DEF InstallsAlone, Installing
  <2> QED
    BY <1>29, <2>1, <2>3
       DEF ResetActive, onDisk, Undisturbed, GapIsJournaled, DropsInOrder, SoundSets
<1>30. CASE ResetLastGood
  <2>1. Undisturbed /\ launch = "up" /\ UNCHANGED <<task, launch>>
    BY <1>30 DEF ResetLastGood, Alone, history
  <2>2. \A t \in Tasks : ~Installing(t)
    BY <1>30, <2>1 DEF ResetLastGood, Undisturbed, InstallsAlone, Relies
  <2>3. InstallsAlone' /\ \A t \in Tasks : task[t].pc # "place"
    BY <2>1, <2>2 DEF InstallsAlone, Installing
  <2> QED
    BY <1>30, <2>1, <2>3
       DEF ResetLastGood, onDisk, Undisturbed, GapIsJournaled, DropsInOrder, SoundSets
<1>31. CASE ResetFiles
  <2>1. Undisturbed /\ launch = "up" /\ UNCHANGED <<task, launch>>
    BY <1>31 DEF ResetFiles, Alone, history
  <2>2. \A t \in Tasks : ~Installing(t)
    BY <1>31, <2>1 DEF ResetFiles, Undisturbed, InstallsAlone, Relies
  <2>3. InstallsAlone' /\ \A t \in Tasks : task[t].pc # "place"
    BY <2>1, <2>2 DEF InstallsAlone, Installing
  <2> QED
    BY <1>31, <2>1, <2>3
       DEF ResetFiles, onDisk, Undisturbed, GapIsJournaled, DropsInOrder, SoundSets
<1>32. CASE Publish
  BY <1>32
     DEF Publish, onDisk, history, Alone, Undisturbed, InstallsAlone, Relies,
        GapIsJournaled,
               DropsInOrder, SoundSets, Installing
<1>33. CASE DayPasses
  BY <1>33
     DEF DayPasses, onDisk, history, Alone, Undisturbed, InstallsAlone, Relies,
        GapIsJournaled,
               DropsInOrder, SoundSets, Installing
<1>34. CASE Damage
  <2>1. /\ Undisturbed /\ launch = "down" /\ UNCHANGED <<task, launch, lastGood, journal, reset>>
        /\ active # Absent /\ active' # Absent /\ active'.state = "damaged"
    BY <1>34, DamagedSet DEF Damage, Alone, history, TypesOK, SetsOK
  <2>2. InstallsAlone'
    BY <2>1 DEF InstallsAlone, Installing, TypesOK, ProcessOK
  <2> QED
    BY <2>1, <2>2 DEF Undisturbed, GapIsJournaled, DropsInOrder, SoundSets
<1>35. CASE Crash
  <2>1. /\ Undisturbed /\ launch' = "down" /\ reset' = "idle"
        /\ launch # "restore" /\ reset # "lastGood" /\ UNCHANGED <<active, lastGood, journal>>
    BY <1>35 DEF Crash, Alone
  <2>2. InstallsAlone'
    BY <1>35 DEF Crash, InstallsAlone, Installing, Idle
  <2> QED
    BY <2>1, <2>2 DEF Undisturbed, GapIsJournaled, DropsInOrder, SoundSets
<1>36. CASE UNCHANGED vars
  BY <1>36
     DEF vars, onDisk, history, Alone, Undisturbed, InstallsAlone, Relies,
        GapIsJournaled,
               DropsInOrder, SoundSets, Installing
<1> QED
  BY <1>1, <1>2, <1>3, <1>4, <1>5, <1>6, <1>7, <1>8, <1>9, <1>10, <1>11, <1>12, <1>13,
     <1>14, <1>15, <1>16, <1>17, <1>18, <1>19, <1>20, <1>21, <1>22, <1>23, <1>24,
     <1>25, <1>26, <1>27, <1>28, <1>29, <1>30, <1>31, <1>32, <1>33, <1>34, <1>35,
     <1>36
     DEF Next, Start, Check, Reset

LEMMA TypesAlways == Spec => []TypesOK
<1>1. Init => TypesOK
  BY TasksInit, ProcessInit, SetsInit, RestInit DEF TypesOK
<1>2. TypesOK /\ [Next]_vars => TypesOK'
  BY TasksStep, ProcessStep, SetsStep, RestStep DEF TypesOK
<1> QED
  BY <1>1, <1>2, PTL DEF Spec

LEMMA AloneAlways == Spec => []Alone
BY TypesAlways, AloneInit, AloneStep, PTL DEF Spec

(* A set without its signed manifest, or a partly extracted one, is never    *)
(* active or last good unless installations overlap (activate_staged).       *)
THEOREM SetsStayWhole == Spec => []OnlyWholeSets
<1>1. Alone => OnlyWholeSets
  BY DEF Alone, Undisturbed, SoundSets, OnlyWholeSets
<1> QED
  BY AloneAlways, <1>1, PTL

-----------------------------------------------------------------------------
(* The refinement: the renames and removals of an undisturbed update are     *)
(* steps of ManagedSet or are not seen.                                      *)

Promised == Managed!Next \/ UNCHANGED <<Current, Kept, Discarding>>

(* A step that renames nothing and closes no gap is not seen.                *)
LEMMA SameView ==
  ASSUME UNCHANGED <<active, lastGood>>, journal' = journal \/ active # Absent \/ lastGood = Absent
  PROVE  Current' = Current /\ Kept' = Kept
BY DEF Current, Kept, CanRestore

LEMMA AtomicInit == Init => Managed!Init
BY DEF Init, Managed!Init, Current, Kept, CanRestore, Discarding

(* The second rename of an activation is Install, the removal of the old     *)
(* kept set MakeRoom; the first rename and its undoing are not seen.         *)
LEMMA AtomicStep ==
  TypesOK /\ Alone /\ [Next]_vars
     => [~disturbed' => Managed!Next]_<<Current, Kept, Discarding>>
<1> SUFFICES ASSUME TypesOK, Alone, [Next]_vars, ~disturbed' PROVE Promised
  BY DEF Promised
<1>0. TaskTypes
  BY DEF TypesOK, TasksOK
<1>1. CASE Launch
  BY <1>1, SameView DEF Launch, onDisk, Promised, Discarding
<1>2. CASE LaunchRecover
  <2>1. launch = "recover" /\ launch' \in {"unjournal", "load"} /\ UNCHANGED <<reset, journal>> /\ PutBack
    BY <1>2 DEF LaunchRecover, Starting
  <2>2. Discarding' = Discarding
    BY <2>1 DEF Discarding
  <2>3. \/ UNCHANGED <<active, lastGood>>
        \/ CanRestore /\ active' = lastGood /\ lastGood' = Absent
    BY <2>1 DEF PutBack
  <2>4. Current' = Current /\ Kept' = Kept
    BY <2>1, <2>3 DEF Current, Kept, CanRestore
  <2> QED
    BY <2>2, <2>4 DEF Promised
<1>3. CASE LaunchUnjournal
  <2>1. /\ Undisturbed /\ launch = "unjournal" /\ launch' = "load" /\ reset = "idle"
        /\ UNCHANGED <<active, lastGood, reset>> /\ \A t \in Tasks : task[t].pc = "idle"
    BY <1>3 DEF LaunchUnjournal, Starting, Alone, history, TypesOK, ProcessOK
  <2>2. active # Absent \/ lastGood = Absent
    BY <2>1 DEF Undisturbed, GapIsJournaled
  <2> QED
    BY <2>1, <2>2, SameView DEF Promised, Discarding
<1>4. ASSUME NEW healthy \in BOOLEAN, LaunchLoad(healthy) PROVE Promised
  BY <1>4, SameView DEF LaunchLoad, Starting, onDisk, Promised, Discarding
<1>5. CASE LaunchSucceeds
  BY <1>5, SameView DEF LaunchSucceeds, Starting, onDisk, Promised, Discarding
<1>6. CASE LaunchCount
  <2>1. /\ launch = "count" /\ launch' \in {"rollback", "up"} /\ reset = "idle" /\ reset' = "idle"
        /\ UNCHANGED <<active, lastGood, journal>>
    BY <1>6 DEF LaunchCount, Starting, TypesOK, ProcessOK
  <2>2. Current' = Current /\ Kept' = Kept
    BY <2>1, SameView
  <2>3. CASE launch' = "rollback"
    <3>1. Discarding' = ~Discarding
      BY <2>1, <2>3 DEF Discarding
    <3> QED
      BY <2>2, <3>1 DEF Promised, Managed!Next, Managed!Discard
  <2>4. CASE launch' = "up"
    BY <2>1, <2>2, <2>4 DEF Promised, Discarding
  <2> QED
    BY <2>1, <2>3, <2>4
<1>7. CASE RollbackRemove
  <2>0. launch = "rollback" /\ launch' = "restore" /\ reset' = reset /\ reset = "idle"
    BY <1>7 DEF RollbackRemove, Starting, TypesOK, ProcessOK
  <2>1. Undisturbed /\ active' = Absent /\ UNCHANGED <<lastGood, journal>>
    BY <1>7 DEF RollbackRemove, Alone
  <2>2. active # Absent \/ lastGood = Absent
    BY <2>1, <2>0
       DEF Undisturbed, GapIsJournaled, InstallsAlone, Relies, Installing, TypesOK,
          ProcessOK
  <2>3. Discarding /\ Discarding' = Discarding
    BY <2>0 DEF Discarding
  <2>4. Current' \in {Kept, Absent} /\ Kept' \in {Kept, Absent}
    BY <2>1, <2>2 DEF Current, Kept, CanRestore
  <2> QED
    BY <2>3, <2>4 DEF Promised, Managed!Next, Managed!Drop
<1>8. CASE RollbackRestore
  <2>1. /\ Undisturbed /\ reset = "idle" /\ reset' = "idle" /\ launch = "restore" /\ launch' = "forget"
        /\ active' = lastGood /\ lastGood' = Absent /\ journal' = journal
    BY <1>8 DEF RollbackRestore, Starting, Alone, history, TypesOK, ProcessOK
  <2>2. active = Absent
    BY <2>1 DEF Undisturbed, DropsInOrder
  <2>3. CASE CanRestore
    <3>1. Current' = Current /\ Kept' = Kept /\ Discarding' = ~Discarding
      BY <2>1, <2>2, <2>3 DEF Current, Kept, CanRestore, Discarding
    <3> QED
      BY <3>1 DEF Promised, Managed!Next, Managed!Discard
  <2>4. CASE ~CanRestore
    <3>1. Current = Absent /\ Current' = Kept /\ Kept' = Absent
      BY <2>1, <2>2, <2>4 DEF Current, Kept, CanRestore
    <3> QED
      BY <3>1 DEF Promised, Managed!Next, Managed!Restore
  <2> QED
    BY <2>3, <2>4
<1>9. CASE RollbackForget
  BY <1>9, SameView DEF RollbackForget, Starting, onDisk, Promised, Discarding
<1>10. ASSUME NEW t \in Tasks, ClaimCheck(t) PROVE Promised
  BY <1>10, SameView DEF ClaimCheck, onDisk, Promised, Discarding
<1>11. ASSUME NEW t \in Tasks, RecordClaim(t) PROVE Promised
  BY <1>11, SameView DEF RecordClaim, onDisk, Promised, Discarding
<1>12. ASSUME NEW t \in Tasks, TakeOffer(t) PROVE Promised
  BY <1>12, SameView DEF TakeOffer, onDisk, Promised, Discarding
<1>13. ASSUME NEW t \in Tasks, DeclineOffer(t) PROVE Promised
  BY <1>13, SameView DEF DeclineOffer, onDisk, Promised, Discarding
<1>14. ASSUME NEW t \in Tasks, ClearDownload(t) PROVE Promised
  BY <1>14, SameView DEF ClearDownload, onDisk, Promised, Discarding
<1>15. ASSUME NEW t \in Tasks, OpenDownload(t) PROVE Promised
  BY <1>15, SameView DEF OpenDownload, onDisk, Promised, Discarding
<1>16. ASSUME NEW t \in Tasks, NEW got \in {"part", "whole", "wrong"}, EndDownload(t, got)
       PROVE Promised
  BY <1>16, SameView DEF EndDownload, onDisk, Promised, Discarding
<1>17. ASSUME NEW t \in Tasks, StageBegin(t) PROVE Promised
  BY <1>17, SameView DEF StageBegin, onDisk, Promised, Discarding
<1>18. ASSUME NEW t \in Tasks, NEW content \in {"none", "bare", "whole"}, StageEnd(t, content)
       PROVE Promised
  BY <1>18, SameView DEF StageEnd, onDisk, Promised, Discarding
<1>19. ASSUME NEW t \in Tasks, NEW healthy \in BOOLEAN, VerifyStaged(t, healthy)
       PROVE Promised
  BY <1>19, SameView DEF VerifyStaged, onDisk, Promised, Discarding
<1>20. ASSUME NEW t \in Tasks, NEW ok \in BOOLEAN, WriteJournal(t, ok) PROVE Promised
  <2>1. /\ task[t].pc = "activate" /\ launch = "up" /\ Undisturbed
        /\ UNCHANGED <<active, lastGood, launch, reset>>
    BY <1>20 DEF WriteJournal, At, Alone, history
  <2>2. active # Absent \/ lastGood = Absent
    BY <2>1, NoGap DEF Installing
  <2> QED
    BY <2>1, <2>2, SameView DEF Promised, Discarding
<1>21. ASSUME NEW t \in Tasks, NEW ok \in BOOLEAN, ClearLastGood(t, ok) PROVE Promised
  <2>1. /\ task[t].pc = "clearLastGood" /\ launch = "up" /\ Undisturbed
        /\ UNCHANGED <<active, journal, launch, reset>> /\ lastGood' \in {lastGood, Absent}
    BY <1>21 DEF ClearLastGood, At, Alone, history
  <2>2. active # Absent \/ lastGood = Absent
    BY <2>1, NoGap DEF Installing
  <2>3. CASE lastGood' = lastGood
    BY <2>1, <2>3, SameView DEF Promised, Discarding
  <2>4. CASE lastGood' = Absent
    <3>1. Current' = Current /\ Kept' = Absent /\ Discarding' = Discarding
      BY <2>1, <2>2, <2>4 DEF Current, Kept, CanRestore, Discarding
    <3> QED
      BY <3>1 DEF Promised, Managed!Next, Managed!MakeRoom
  <2> QED
    BY <2>1, <2>3, <2>4
<1>22. ASSUME NEW t \in Tasks, NEW ok \in BOOLEAN, PreserveActive(t, ok) PROVE Promised
  <2>1. /\ task[t].pc = "preserve" /\ launch = "up" /\ Undisturbed
        /\ UNCHANGED <<journal, launch, reset>>
    BY <1>22 DEF PreserveActive, At, Alone, history
  <2>2. lastGood = Absent /\ journal
    BY <2>1, NoGap DEF Installing, Relies
  <2>3. \/ UNCHANGED <<active, lastGood>>
        \/ active # Absent /\ active' = Absent /\ lastGood' = active
    BY <1>22 DEF PreserveActive
  <2> QED
    BY <2>1, <2>2, <2>3 DEF Promised, Current, Kept, CanRestore, Discarding
<1>23. ASSUME NEW t \in Tasks, NEW ok \in BOOLEAN, PlaceStaged(t, ok) PROVE Promised
  <2> DEFINE v == task[t].version
  <2>1. /\ task[t].pc = "place" /\ launch = "up" /\ Undisturbed
        /\ UNCHANGED <<journal, launch, reset>>
    BY <1>23 DEF PlaceStaged, At, Alone
  <2>2. Relies(t) /\ v \in Versions
    BY <2>1
       DEF Undisturbed, InstallsAlone, Installing, TypesOK, TasksOK, TasksKnow,
          BeforeOffer
  <2>3. /\ active = Absent /\ journal
        /\ lastGood = Absent \/ lastGood.version < v
        /\ staging[v] # Absent /\ staging[v].version = v
    BY <2>1, <2>2 DEF Relies, WithStagedSet, TypesOK, SetsOK
  <2>4. \/ active' = staging[v] /\ lastGood' = lastGood
        \/ active' = lastGood /\ lastGood' = Absent
    BY <1>23, <2>3 DEF PlaceStaged
  <2>5. CASE active' = staging[v] /\ lastGood' = lastGood
    <3>1. Current' = v /\ Kept' = Current /\ (Current = Absent \/ v > Current) /\ Discarding' = Discarding
      <4>1. Current' = v /\ Kept' = Current
        BY <2>1, <2>3, <2>5 DEF Current, Kept, CanRestore
      <4>0. Discarding' = Discarding
        BY <2>1 DEF Discarding
      <4>2. Current = Absent \/ (lastGood # Absent /\ Current = lastGood.version)
        BY <2>3 DEF Current, CanRestore
      <4>3. lastGood # Absent => lastGood.version \in Nat /\ v \in Nat
        BY <2>2, DamagedSet, UpdateAssumption DEF TypesOK, SetsOK
      <4> QED
        BY <2>3, <4>0, <4>1, <4>2, <4>3
    <3> QED
      BY <2>2, <3>1 DEF Promised, Managed!Next, Managed!Install
  <2>6. CASE active' = lastGood /\ lastGood' = Absent
    BY <2>1, <2>3, <2>6 DEF Promised, Current, Kept, CanRestore, Discarding
  <2> QED
    BY <2>4, <2>5, <2>6
<1>24. ASSUME NEW t \in Tasks, NEW ok \in BOOLEAN, RemoveJournal(t, ok) PROVE Promised
  <2>1. task[t].pc = "unjournal" /\ launch = "up" /\ Undisturbed /\ UNCHANGED <<launch, reset>>
    BY <1>24 DEF RemoveJournal, At, Alone, history
  <2>2. active # Absent
    BY <2>1, NoGap DEF Installing, Relies
  <2>3. UNCHANGED <<active, lastGood>>
    BY <1>24, <2>2 DEF RemoveJournal
  <2> QED
    BY <2>1, <2>2, <2>3, SameView DEF Promised, Discarding
<1>25. ASSUME NEW t \in Tasks, Recover(t) PROVE Promised
  <2>1. task[t].pc = "recover" /\ launch = "up" /\ Undisturbed /\ UNCHANGED <<launch, reset>>
    BY <1>25 DEF Recover, At, Alone, history
  <2>2. active # Absent
    BY <2>1, NoGap DEF Installing, Relies
  <2>3. UNCHANGED <<active, lastGood>>
    BY <1>25, <2>2 DEF Recover, PutBack, CanRestore
  <2> QED
    BY <2>1, <2>2, <2>3, SameView DEF Promised, Discarding
<1>26. ASSUME NEW t \in Tasks, Unrecover(t) PROVE Promised
  <2>1. task[t].pc = "unrecover" /\ launch = "up" /\ Undisturbed /\ UNCHANGED <<launch, reset>>
    BY <1>26 DEF Unrecover, At, Alone, history
  <2>2. active # Absent
    BY <2>1, NoGap DEF Installing, Relies
  <2>3. UNCHANGED <<active, lastGood>>
    BY <1>26, <2>2 DEF Unrecover
  <2> QED
    BY <2>1, <2>2, <2>3, SameView DEF Promised, Discarding
<1>27. ASSUME NEW t \in Tasks, Cleanup(t) PROVE Promised
  BY <1>27, SameView DEF Cleanup, onDisk, Promised, Discarding
<1>28. CASE ResetLock
  <2>1. launch = "up" /\ reset = "idle" /\ reset' = "active" /\ UNCHANGED <<active, lastGood, journal, launch>>
    BY <1>28 DEF ResetLock, onDisk
  <2>2. Current' = Current /\ Kept' = Kept /\ Discarding' = ~Discarding
    BY <2>1, SameView DEF Discarding
  <2> QED
    BY <2>2 DEF Promised, Managed!Next, Managed!Discard
<1>29. CASE ResetActive
  <2>0. launch = "up" /\ reset = "active" /\ reset' = "lastGood" /\ launch' = launch
    BY <1>29 DEF ResetActive
  <2>1. Undisturbed /\ active' = Absent /\ UNCHANGED <<lastGood, journal>>
    BY <1>29 DEF ResetActive, Alone
  <2>2. active # Absent \/ lastGood = Absent
    BY <2>1, <2>0
       DEF Undisturbed, GapIsJournaled, InstallsAlone, Relies, Installing, TypesOK,
          ProcessOK
  <2>3. Discarding /\ Discarding' = Discarding
    BY <2>0 DEF Discarding
  <2>4. Current' \in {Kept, Absent} /\ Kept' \in {Kept, Absent}
    BY <2>1, <2>2 DEF Current, Kept, CanRestore
  <2> QED
    BY <2>3, <2>4 DEF Promised, Managed!Next, Managed!Drop
<1>30. CASE ResetLastGood
  <2>1. /\ Undisturbed /\ reset = "lastGood" /\ reset' = "files" /\ lastGood' = Absent
        /\ UNCHANGED <<active, journal, launch>>
    BY <1>30 DEF ResetLastGood, Alone, history
  <2>2. active = Absent
    BY <2>1 DEF Undisturbed, DropsInOrder
  <2>3. Discarding /\ Discarding' = Discarding
    BY <2>1 DEF Discarding
  <2>4. Current' = Absent /\ Kept' = Absent
    BY <2>1, <2>2 DEF Current, Kept, CanRestore
  <2> QED
    BY <2>3, <2>4 DEF Promised, Managed!Next, Managed!Drop
<1>31. CASE ResetFiles
  <2>1. /\ Undisturbed /\ launch = "up" /\ reset = "files" /\ reset' = "idle"
        /\ UNCHANGED <<active, lastGood, launch>>
    BY <1>31 DEF ResetFiles, Alone
  <2>2. active = Absent /\ lastGood = Absent
    BY <2>1 DEF Undisturbed, DropsInOrder
  <2>3. Current' = Current /\ Kept' = Kept /\ Discarding' = ~Discarding
    BY <2>1, <2>2, SameView DEF Discarding
  <2> QED
    BY <2>3 DEF Promised, Managed!Next, Managed!Discard
<1>32. CASE Publish
  BY <1>32, SameView DEF Publish, onDisk, Promised, Discarding
<1>33. CASE DayPasses
  BY <1>33, SameView DEF DayPasses, onDisk, Promised, Discarding
<1>34. CASE Damage
  <2>1. /\ launch = "down" /\ UNCHANGED <<launch, lastGood, journal, reset>>
        /\ active # Absent /\ active' # Absent /\ active'.version = active.version
    <3>1. active \in Slots /\ active # Absent /\ active' = [active EXCEPT !.state = "damaged"]
      BY <1>34 DEF Damage, TypesOK, SetsOK
    <3>2. active' # Absent /\ active'.version = active.version
      BY <3>1, DamagedSet
    <3> QED
      BY <1>34, <3>1, <3>2 DEF Damage
  <2>2. Discarding' = Discarding
    BY <2>1 DEF Discarding
  <2>3. Current' = Current /\ Kept' = Kept
    BY <2>1 DEF Current, Kept, CanRestore
  <2> QED
    BY <2>2, <2>3 DEF Promised
<1>35. CASE Crash
  <2>1. ~Discarding' /\ UNCHANGED <<active, lastGood, journal>>
    BY <1>35 DEF Crash, Discarding
  <2>2. Current' = Current /\ Kept' = Kept
    BY <2>1, SameView
  <2>3. CASE Discarding
    <3>1. Discarding' = ~Discarding
      BY <2>1, <2>3 DEF Discarding
    <3> QED
      BY <2>2, <3>1 DEF Promised, Managed!Next, Managed!Discard
  <2>4. CASE ~Discarding
    <3>1. Discarding' = Discarding
      BY <2>1, <2>4 DEF Discarding
    <3> QED
      BY <2>2, <3>1 DEF Promised
  <2> QED
    BY <2>3, <2>4
<1>36. CASE UNCHANGED vars
  BY <1>36 DEF vars, onDisk, Promised, Current, Kept, CanRestore, Discarding
<1> QED
  BY <1>1, <1>2, <1>3, <1>4, <1>5, <1>6, <1>7, <1>8, <1>9, <1>10, <1>11, <1>12, <1>13,
     <1>14, <1>15, <1>16, <1>17, <1>18, <1>19, <1>20, <1>21, <1>22, <1>23, <1>24,
     <1>25, <1>26, <1>27, <1>28, <1>29, <1>30, <1>31, <1>32, <1>33, <1>34, <1>35,
     <1>36
     DEF Next, Start, Check, Reset

(* The activation is atomic: as long as nobody disturbs an installation, the *)
(* managed sets change only as ManagedSet says, whatever fails and wherever  *)
(* the process dies (activate_staged, recover_interrupted_activation,        *)
(* rollback_managed, reset_managed; update.rs).                              *)
THEOREM ActivationIsAtomic == Spec => AtomicUnlessDisturbed
BY AtomicInit, AtomicStep, TypesAlways, AloneAlways, PTL DEF Spec, AtomicUnlessDisturbed
=============================================================================
