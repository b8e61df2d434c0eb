--------------------------- MODULE JobStoreProofs ---------------------------
(***************************************************************************)
(* What TLAPS proves of the durable store for every set of jobs, every     *)
(* bound of the queue sequence and every set of concurrency values.        *)
(***************************************************************************)
EXTENDS JobStore, TLAPS

(* The shape of the transition table that the row invariant rests on: a    *)
(* running state is only written over queued and running states, and a     *)
(* paused one never over a terminal state.                                 *)
LEMMA WritesRespectTable ==
    ASSUME NEW from \in JobStates, NEW to
    PROVE  /\ MayWrite(from, to) => to \in JobStates
           /\ MayWrite(from, to) /\ to \in ActiveStates => from \in {"queued"} \union ActiveStates
           /\ MayWrite(from, to) /\ to = "paused" => from \in {"queued", "paused"} \union ActiveStates
  BY DEF MayWrite, CanTransitionTo, Successors, JobStates, ActiveStates, TerminalStates,
         RestingStates, StoppedStates

(* Only a row that exists passes the check of a write.                     *)
LEMMA WritesNeedRow ==
    ASSUME NEW from, NEW to, MayWrite(from, to)
    PROVE  from \in JobStates
  BY DEF MayWrite, CanTransitionTo, Successors, JobStates, ActiveStates, TerminalStates,
         RestingStates, StoppedStates

LEMMA StatesDiffer ==
    /\ "unused" \notin JobStates /\ "deleted" \notin JobStates
    /\ ActiveStates \subseteq JobStates /\ StoppedStates \subseteq JobStates
    /\ RestingStates \subseteq StoppedStates
    /\ ActiveStates \intersect StoppedStates = {}
    /\ "queued" \in JobStates /\ "queued" \notin ActiveStates /\ "queued" \notin StoppedStates
    /\ {"paused", "interrupted", "completed", "failed", "cancelled"} \subseteq StoppedStates
    /\ "analyzing" \in ActiveStates
  BY DEF JobStates, ActiveStates, TerminalStates, RestingStates, StoppedStates

-----------------------------------------------------------------------------
(* Type correctness.                                                       *)

LEMMA StoreTypeInit == StoreInit => StoreTypeOK
  BY StoreAssumption DEF StoreInit, StoreTypeOK, NoRow, Row

(* What the transactions make of a row is a row; a transaction that        *)
(* rewrites one row keeps the types.                                       *)
LEMMA RowWritten ==
    ASSUME StoreTypeOK, NEW j \in Jobs, NEW row \in Row, jobs' = [jobs EXCEPT ![j] = row],
           UNCHANGED concurrency, nextSequence' \in 1..SequenceLimit
    PROVE  StoreTypeOK'
  BY DEF StoreTypeOK

LEMMA RowsRewritten ==
    ASSUME NEW r \in Row
    PROVE  /\ \A state \in JobStates : [r EXCEPT !.state = state] \in Row
           /\ [r EXCEPT !.error = TRUE] \in Row
           /\ \A some \in BOOLEAN : [r EXCEPT !.partials = some] \in Row
  BY DEF Row

LEMMA RowInterrupted ==
    ASSUME NEW r \in Row
    PROVE  [r EXCEPT !.state = "interrupted", !.error = TRUE] \in Row
  BY DEF Row, JobStates, StoppedStates, RestingStates

LEMMA RowReported ==
    ASSUME NEW r \in Row, NEW state \in ActiveStates, NEW reports \in BOOLEAN
    PROVE  /\ [r EXCEPT !.state = state, !.progress = @ \/ reports] \in Row
           /\ [r EXCEPT !.state = state, !.progress = @ \/ reports].state = state
<1> DEFINE progress == r.progress \/ reports
<1>1. progress \in BOOLEAN
  OBVIOUS
<1> HIDE DEF progress
<1>2. /\ [r EXCEPT !.state = state, !.progress = progress] \in Row
      /\ [r EXCEPT !.state = state, !.progress = progress].state = state
  BY <1>1, StatesDiffer DEF Row
<1> QED
  BY <1>2 DEF progress

LEMMA RowRequeued ==
    ASSUME NEW r \in Row, NEW n \in Nat
    PROVE  [r EXCEPT !.state = "queued", !.attempt = @ + 1, !.sequence = n,
                     !.error = FALSE, !.output = FALSE] \in Row
<1> DEFINE next == r.attempt + 1
<1>1. next \in Nat
  BY DEF Row
<1> HIDE DEF next
<1>2. [r EXCEPT !.state = "queued", !.attempt = next, !.sequence = n,
                !.error = FALSE, !.output = FALSE] \in Row
  BY <1>1 DEF Row, JobStates
<1> QED
  BY <1>2 DEF next

LEMMA StoreTypeStep == StoreTypeOK /\ [StoreNext]_storeVars => StoreTypeOK'
<1> SUFFICES ASSUME StoreTypeOK, [StoreNext]_storeVars PROVE StoreTypeOK'
    OBVIOUS
<1> USE StoreAssumption, StatesDiffer DEF StoreTypeOK
<1>1. CASE RecoverActive
  <2> DEFINE row(j) == IF jobs[j].state \in ActiveStates
                       THEN [jobs[j] EXCEPT !.state = "interrupted", !.error = TRUE]
                       ELSE jobs[j]
  <2>1. ASSUME NEW j \in Jobs PROVE row(j) \in Row
    BY RowInterrupted
  <2>2. jobs' = [j \in Jobs |-> row(j)] /\ UNCHANGED <<nextSequence, concurrency>>
    BY <1>1 DEF RecoverActive
  <2> HIDE DEF row
  <2> QED
    BY <2>1, <2>2
<1>2. ASSUME NEW limit \in Concurrencies, UpdateSettings(limit) PROVE StoreTypeOK'
  BY <1>2 DEF UpdateSettings
<1>3. ASSUME NEW j \in Jobs, InsertJob(j) PROVE StoreTypeOK'
  <2> DEFINE row == [NoRow("queued") EXCEPT !.attempt = 1, !.sequence = nextSequence]
  <2>1. nextSequence \in Nat /\ nextSequence' \in 1..SequenceLimit /\ concurrency' = concurrency
    BY <1>3 DEF InsertJob, CanTakeSequence
  <2>2. row \in Row
    BY <2>1 DEF NoRow, Row
  <2>3. jobs' = [jobs EXCEPT ![j] = row]
    BY <1>3 DEF InsertJob
  <2> HIDE DEF row
  <2> QED
    BY <2>1, <2>2, <2>3
<1>4. ASSUME NEW j \in Jobs, ClaimNext(j) PROVE StoreTypeOK'
  <2>1. jobs' = [jobs EXCEPT ![j] = [jobs[j] EXCEPT !.state = "analyzing"]]
        /\ UNCHANGED <<nextSequence, concurrency>>
    BY <1>4 DEF ClaimNext
  <2>2. [jobs[j] EXCEPT !.state = "analyzing"] \in Row
    BY RowsRewritten DEF JobStates, ActiveStates
  <2> QED
    BY <2>1, <2>2, RowWritten
<1>5. ASSUME NEW j \in Jobs, NEW state \in ActiveStates, NEW reports \in BOOLEAN,
             SaveProgress(j, state, reports)
      PROVE  StoreTypeOK'
  <2> DEFINE row == [jobs[j] EXCEPT !.state = state, !.progress = @ \/ reports]
  <2>1. jobs' = [jobs EXCEPT ![j] = row] /\ UNCHANGED <<nextSequence, concurrency>>
    BY <1>5 DEF SaveProgress
  <2>2. row \in Row
    BY RowReported
  <2> HIDE DEF row
  <2> QED
    BY <2>1, <2>2, RowWritten
<1>6. ASSUME NEW j \in Jobs, NEW state \in StoppedStates, FinishJob(j, state) PROVE StoreTypeOK'
  <2> DEFINE error  == state = "failed"
             output == state = "completed"
             keeps  == jobs[j].partials /\ state \notin {"completed", "cancelled"}
             row    == [jobs[j] EXCEPT !.state = state, !.error = error,
                                       !.output = output, !.partials = keeps]
  <2>1. error \in BOOLEAN /\ output \in BOOLEAN /\ keeps \in BOOLEAN
    OBVIOUS
  <2>2. jobs' = [jobs EXCEPT ![j] = row] /\ UNCHANGED <<nextSequence, concurrency>>
    BY <1>6 DEF FinishJob
  <2> HIDE DEF error, output, keeps
  <2>3. row \in Row
    BY <2>1 DEF Row
  <2> HIDE DEF row
  <2> QED
    BY <2>2, <2>3
<1>7. ASSUME NEW j \in Jobs, TransitionStopped(j, "paused") PROVE StoreTypeOK'
  <2>1. jobs' = [jobs EXCEPT ![j] = [jobs[j] EXCEPT !.state = "paused"]]
        /\ UNCHANGED <<nextSequence, concurrency>>
    BY <1>7 DEF TransitionStopped
  <2>2. [jobs[j] EXCEPT !.state = "paused"] \in Row
    BY RowsRewritten DEF RestingStates
  <2> QED
    BY <2>1, <2>2, RowWritten
<1>8. ASSUME NEW j \in Jobs, NEW kind \in {"resume", "retry"}, Requeue(j, kind) PROVE StoreTypeOK'
  <2> DEFINE row == [jobs[j] EXCEPT !.state = "queued", !.attempt = @ + 1,
                                    !.sequence = nextSequence, !.error = FALSE,
                                    !.output = FALSE]
  <2>1. nextSequence \in Nat /\ nextSequence' \in 1..SequenceLimit /\ concurrency' = concurrency
    BY <1>8 DEF Requeue, CanTakeSequence
  <2>2. row \in Row
    BY <2>1, RowRequeued
  <2>3. jobs' = [jobs EXCEPT ![j] = row]
    BY <1>8 DEF Requeue
  <2> HIDE DEF row
  <2> QED
    BY <2>1, <2>2, <2>3
<1>9. ASSUME NEW j \in Jobs, SetRecoveryFailure(j) PROVE StoreTypeOK'
  <2>1. jobs' = [jobs EXCEPT ![j] = [jobs[j] EXCEPT !.error = TRUE]]
        /\ UNCHANGED <<nextSequence, concurrency>>
    BY <1>9 DEF SetRecoveryFailure
  <2> QED
    BY <2>1, RowsRewritten, RowWritten
<1>10. ASSUME NEW j \in Jobs, NEW some \in BOOLEAN, ReplaceOwnedPaths(j, some) PROVE StoreTypeOK'
  <2>1. jobs' = [jobs EXCEPT ![j] = [jobs[j] EXCEPT !.partials = some]]
        /\ UNCHANGED <<nextSequence, concurrency>>
    BY <1>10 DEF ReplaceOwnedPaths
  <2> QED
    BY <2>1, RowsRewritten, RowWritten
<1>11. ASSUME NEW j \in Jobs, DeleteCompleted(j) PROVE StoreTypeOK'
  BY <1>11 DEF DeleteCompleted, NoRow, Row
<1>12. CASE UNCHANGED storeVars
  BY <1>12 DEF storeVars
<1> QED
  BY <1>1, <1>2, <1>3, <1>4, <1>5, <1>6, <1>7, <1>8, <1>9, <1>10, <1>11, <1>12 DEF StoreNext

(* Recovery leaves a row alone or interrupts it in its place.              *)
LEMMA RowRecovered ==
    ASSUME StoreTypeOK, RecoverActive, NEW j \in Jobs
    PROVE  \/ jobs'[j] = jobs[j]
           \/ /\ jobs[j].state \in ActiveStates
              /\ jobs'[j].state = "interrupted"
              /\ jobs'[j].attempt = jobs[j].attempt
              /\ jobs'[j].sequence = jobs[j].sequence
<1> DEFINE r == jobs[j]
<1>1. jobs'[j] = IF r.state \in ActiveStates
                 THEN [r EXCEPT !.state = "interrupted", !.error = TRUE]
                 ELSE r
  BY DEF RecoverActive
<1>2. r \in Row
  BY DEF StoreTypeOK
<1> HIDE DEF r
<1>3. \/ jobs'[j] = r
      \/ /\ r.state \in ActiveStates
         /\ jobs'[j].state = "interrupted"
         /\ jobs'[j].attempt = r.attempt
         /\ jobs'[j].sequence = r.sequence
  BY <1>1, <1>2 DEF Row
<1> QED
  BY <1>3 DEF r

(* Every transaction keeps the rows, the next sequence and the limit in    *)
(* their types; in particular no sequence is ever taken past the last one. *)
THEOREM StoreTypeCorrect == StoreSpec => []StoreTypeOK
<1>1. StoreInit => StoreTypeOK
  BY StoreTypeInit
<1>2. StoreTypeOK /\ [StoreNext]_storeVars => StoreTypeOK'
  BY StoreTypeStep
<1> QED
  BY <1>1, <1>2, PTL DEF StoreSpec

-----------------------------------------------------------------------------
(* The queue order.                                                        *)

(* A step that gives no sequence out, brings no row into being and moves   *)
(* no row in the order keeps the order.                                    *)
LEMMA OrderKept ==
    ASSUME QueueOrder, nextSequence' = nextSequence,
           \A j \in Jobs : Present(j)' => Present(j) /\ jobs'[j].sequence = jobs[j].sequence
    PROVE  QueueOrder'
  BY DEF QueueOrder

(* A step that gives the next sequence to one row keeps the order.         *)
LEMMA OrderExtended ==
    ASSUME StoreTypeOK, QueueOrder, NEW j \in Jobs,
           jobs' = [jobs EXCEPT ![j] = jobs'[j]],
           jobs'[j].sequence = nextSequence,
           nextSequence' = nextSequence + 1
    PROVE  QueueOrder'
<1>1. nextSequence \in Nat \ {0}
  BY StoreAssumption DEF StoreTypeOK
<1>2. \A k \in Jobs \ {j} : jobs'[k] = jobs[k]
  BY DEF StoreTypeOK
<1>3. \A k \in Jobs \ {j} : Present(k)' => jobs'[k].sequence \in 1..(nextSequence - 1)
  BY <1>2 DEF QueueOrder, Present
<1>4. ASSUME NEW k \in Jobs, Present(k)' PROVE jobs'[k].sequence \in 1..(nextSequence' - 1)
  BY <1>1, <1>3, <1>4
<1>5. ASSUME NEW k \in Jobs, NEW l \in Jobs \ {k}, Present(k)', Present(l)'
      PROVE  jobs'[l].sequence # jobs'[k].sequence
  <2>1. CASE k = j
    BY <1>1, <1>3, <1>5, <2>1
  <2>2. CASE l = j
    BY <1>1, <1>3, <1>5, <2>2
  <2>3. CASE k # j /\ l # j
    BY <1>2, <1>5, <2>3 DEF QueueOrder, Present
  <2> QED
    BY <2>1, <2>2, <2>3
<1> QED
  BY <1>4, <1>5 DEF QueueOrder

LEMMA QueueOrderInit == StoreInit => QueueOrder
  BY StatesDiffer DEF StoreInit, QueueOrder, Present, NoRow

LEMMA QueueOrderStep == StoreTypeOK /\ QueueOrder /\ [StoreNext]_storeVars => QueueOrder'
<1> SUFFICES ASSUME StoreTypeOK, QueueOrder, [StoreNext]_storeVars PROVE QueueOrder'
    OBVIOUS
<1> DEFINE Kept == /\ nextSequence' = nextSequence
                   /\ \A k \in Jobs : Present(k)' =>
                         Present(k) /\ jobs'[k].sequence = jobs[k].sequence
<1>0. Kept => QueueOrder'
  BY OrderKept
<1> USE StatesDiffer DEF StoreTypeOK, Present
<1>1. CASE RecoverActive
  BY <1>0, <1>1 DEF RecoverActive, Row
<1>2. ASSUME NEW limit \in Concurrencies, UpdateSettings(limit) PROVE QueueOrder'
  BY <1>0, <1>2 DEF UpdateSettings
<1>3. ASSUME NEW j \in Jobs, InsertJob(j) PROVE QueueOrder'
  <2>1. /\ jobs' = [jobs EXCEPT ![j] = jobs'[j]]
        /\ jobs'[j].sequence = nextSequence
        /\ nextSequence' = nextSequence + 1
    BY <1>3 DEF InsertJob, NoRow
  <2> QED
    BY <2>1, OrderExtended
<1>4. ASSUME NEW j \in Jobs, ClaimNext(j) PROVE QueueOrder'
  BY <1>0, <1>4 DEF ClaimNext, IsNextInLine, Row
<1>5. ASSUME NEW j \in Jobs, NEW state \in ActiveStates, NEW reports \in BOOLEAN,
             SaveProgress(j, state, reports)
      PROVE  QueueOrder'
  BY <1>0, <1>5, WritesNeedRow DEF SaveProgress, Row
<1>6. ASSUME NEW j \in Jobs, NEW state \in StoppedStates, FinishJob(j, state) PROVE QueueOrder'
  BY <1>0, <1>6, WritesNeedRow DEF FinishJob, Row
<1>7. ASSUME NEW j \in Jobs, TransitionStopped(j, "paused") PROVE QueueOrder'
  BY <1>0, <1>7, WritesNeedRow DEF TransitionStopped, Row
<1>8. ASSUME NEW j \in Jobs, NEW kind \in {"resume", "retry"}, Requeue(j, kind) PROVE QueueOrder'
  <2>1. /\ jobs' = [jobs EXCEPT ![j] = jobs'[j]]
        /\ jobs'[j].sequence = nextSequence
        /\ nextSequence' = nextSequence + 1
    BY <1>8 DEF Requeue, Row
  <2> QED
    BY <2>1, OrderExtended
<1>9. ASSUME NEW j \in Jobs, SetRecoveryFailure(j) PROVE QueueOrder'
  BY <1>0, <1>9 DEF SetRecoveryFailure, Row
<1>10. ASSUME NEW j \in Jobs, NEW some \in BOOLEAN, ReplaceOwnedPaths(j, some) PROVE QueueOrder'
  BY <1>0, <1>10 DEF ReplaceOwnedPaths, Row
<1>11. ASSUME NEW j \in Jobs, DeleteCompleted(j) PROVE QueueOrder'
  BY <1>0, <1>11 DEF DeleteCompleted, NoRow
<1>12. CASE UNCHANGED storeVars
  BY <1>0, <1>12 DEF storeVars
<1> QED
  BY <1>1, <1>2, <1>3, <1>4, <1>5, <1>6, <1>7, <1>8, <1>9, <1>10, <1>11, <1>12 DEF StoreNext

(* No two jobs ever share a place in the queue: the unique index on        *)
(* queue_sequence can never reject an enqueue, a resume or a retry.        *)
THEOREM QueueOrderHolds == StoreSpec => []QueueOrder
<1>1. StoreInit => StoreTypeOK /\ QueueOrder
  BY StoreTypeInit, QueueOrderInit
<1>2. StoreTypeOK /\ QueueOrder /\ [StoreNext]_storeVars => StoreTypeOK' /\ QueueOrder'
  BY StoreTypeStep, QueueOrderStep
<1> QED
  BY <1>1, <1>2, PTL DEF StoreSpec

-----------------------------------------------------------------------------
(* The consistency of each row.                                            *)

(* RowConsistent, one row at a time.                                       *)
RowOK(r) ==
    /\ r.output <=> r.state = "completed"
    /\ r.state = "failed" => r.error
    /\ r.error => r.state \in {"failed", "paused", "interrupted"}
    /\ r.state \in JobStates => r.attempt >= 1
    /\ r.state = "queued" /\ r.progress => r.attempt > 1

LEMMA RowsOK == RowConsistent <=> \A j \in Jobs : RowOK(jobs[j])
  BY DEF RowConsistent, RowOK, Present

(* A step that changes one row keeps the others consistent.                *)
LEMMA OneRowChanges ==
    ASSUME StoreTypeOK, RowConsistent, NEW j \in Jobs, NEW row, RowOK(row),
           jobs' = [jobs EXCEPT ![j] = row]
    PROVE  RowConsistent'
<1>1. \A k \in Jobs : RowOK(jobs'[k])
  BY RowsOK DEF StoreTypeOK
<1> QED
  BY <1>1 DEF RowConsistent, RowOK, Present

LEMMA RowConsistentInit == StoreInit => RowConsistent
  BY StatesDiffer DEF StoreInit, RowConsistent, Present, NoRow

LEMMA RowConsistentStep == StoreTypeOK /\ RowConsistent /\ [StoreNext]_storeVars => RowConsistent'
<1> SUFFICES ASSUME StoreTypeOK, RowConsistent, [StoreNext]_storeVars PROVE RowConsistent'
    OBVIOUS
<1>a. \A j \in Jobs : RowOK(jobs[j]) /\ jobs[j] \in Row
  BY RowsOK DEF StoreTypeOK
<1>1. CASE RecoverActive
  <2>1. ASSUME NEW j \in Jobs PROVE RowOK(jobs'[j])
    BY <1>1, <1>a DEF RecoverActive, RowOK, Row, ActiveStates, JobStates
  <2> QED
    BY <2>1 DEF RowConsistent, RowOK, Present
<1>2. ASSUME NEW limit \in Concurrencies, UpdateSettings(limit) PROVE RowConsistent'
  BY <1>2 DEF UpdateSettings, RowConsistent, Present
<1>3. ASSUME NEW j \in Jobs, InsertJob(j) PROVE RowConsistent'
  <2>1. RowOK([NoRow("queued") EXCEPT !.attempt = 1, !.sequence = nextSequence])
    BY DEF RowOK, NoRow
  <2> QED
    BY <1>3, <2>1, OneRowChanges DEF InsertJob
<1>4. ASSUME NEW j \in Jobs, ClaimNext(j) PROVE RowConsistent'
  <2>1. RowOK([jobs[j] EXCEPT !.state = "analyzing"])
    BY <1>4, <1>a DEF ClaimNext, IsNextInLine, RowOK, Row, JobStates
  <2> QED
    BY <1>4, <2>1, OneRowChanges DEF ClaimNext
<1>5. ASSUME NEW j \in Jobs, NEW state \in ActiveStates, NEW reports \in BOOLEAN,
             SaveProgress(j, state, reports)
      PROVE  RowConsistent'
  <2>1. jobs[j].state \in {"queued"} \union ActiveStates
    BY <1>5, WritesNeedRow, WritesRespectTable DEF SaveProgress
  <2> DEFINE row == [jobs[j] EXCEPT !.state = state, !.progress = @ \/ reports]
  <2>2. row.state = state /\ row.attempt = jobs[j].attempt
        /\ row.error = jobs[j].error /\ row.output = jobs[j].output
    BY <1>a DEF Row
  <2>3. jobs' = [jobs EXCEPT ![j] = row]
    BY <1>5 DEF SaveProgress
  <2>4. RowOK(row)
    <3> HIDE DEF row
    <3> QED
      BY <1>a, <2>1, <2>2 DEF RowOK, JobStates, ActiveStates
  <2> QED
    BY <2>3, <2>4, OneRowChanges
<1>6. ASSUME NEW j \in Jobs, NEW state \in StoppedStates, FinishJob(j, state)
      PROVE  RowConsistent'
  <2> DEFINE error  == state = "failed"
             output == state = "completed"
             keeps  == jobs[j].partials /\ state \notin {"completed", "cancelled"}
             row    == [jobs[j] EXCEPT !.state = state, !.error = error,
                                       !.output = output, !.partials = keeps]
  <2>1. jobs' = [jobs EXCEPT ![j] = row]
    BY <1>6 DEF FinishJob
  <2>2. jobs[j] \in Row /\ jobs[j].state \in JobStates
    BY <1>6, <1>a, WritesNeedRow DEF FinishJob
  <2>3. row.state = state /\ row.attempt = jobs[j].attempt
        /\ row.error = error /\ row.output = output
    BY <2>2 DEF Row
  <2>4. RowOK(row)
    <3> HIDE DEF row
    <3> QED
      BY <1>a, <2>2, <2>3, StatesDiffer DEF RowOK
  <2> QED
    BY <2>1, <2>4, OneRowChanges
<1>7. ASSUME NEW j \in Jobs, TransitionStopped(j, "paused") PROVE RowConsistent'
  <2>1. jobs[j].state \in {"queued", "paused"} \union ActiveStates
    BY <1>7, WritesNeedRow, WritesRespectTable DEF TransitionStopped
  <2>2. RowOK([jobs[j] EXCEPT !.state = "paused"])
    BY <1>a, <2>1 DEF RowOK, Row, JobStates, ActiveStates
  <2> QED
    BY <1>7, <2>2, OneRowChanges DEF TransitionStopped
<1>8. ASSUME NEW j \in Jobs, NEW kind \in {"resume", "retry"}, Requeue(j, kind)
      PROVE  RowConsistent'
  <2> DEFINE row == [jobs[j] EXCEPT !.state = "queued", !.attempt = @ + 1,
                                    !.sequence = nextSequence, !.error = FALSE,
                                    !.output = FALSE]
  <2>0. jobs[j].attempt \in Nat /\ jobs[j].attempt >= 1
    BY <1>8, <1>a, StatesDiffer
       DEF Requeue, RequeueFrom, RowOK, Row, RestingStates, StoppedStates, TerminalStates
  <2>1. RowOK(row)
    BY <1>a, <2>0 DEF RowOK, Row
  <2>2. jobs' = [jobs EXCEPT ![j] = row]
    BY <1>8 DEF Requeue
  <2> QED
    BY <2>1, <2>2, OneRowChanges
<1>9. ASSUME NEW j \in Jobs, SetRecoveryFailure(j) PROVE RowConsistent'
  <2>1. RowOK([jobs[j] EXCEPT !.error = TRUE])
    BY <1>9, <1>a DEF SetRecoveryFailure, RowOK, Row, RestingStates
  <2> QED
    BY <1>9, <2>1, OneRowChanges DEF SetRecoveryFailure
<1>10. ASSUME NEW j \in Jobs, NEW some \in BOOLEAN, ReplaceOwnedPaths(j, some)
       PROVE  RowConsistent'
  <2>1. RowOK([jobs[j] EXCEPT !.partials = some])
    BY <1>a DEF RowOK, Row
  <2> QED
    BY <1>10, <2>1, OneRowChanges DEF ReplaceOwnedPaths
<1>11. ASSUME NEW j \in Jobs, DeleteCompleted(j) PROVE RowConsistent'
  <2>1. RowOK(NoRow("deleted"))
    BY StatesDiffer DEF RowOK, NoRow
  <2> QED
    BY <1>11, <2>1, OneRowChanges DEF DeleteCompleted
<1>12. CASE UNCHANGED storeVars
  BY <1>12 DEF storeVars, RowConsistent, Present
<1> QED
  BY <1>1, <1>2, <1>3, <1>4, <1>5, <1>6, <1>7, <1>8, <1>9, <1>10, <1>11, <1>12 DEF StoreNext

(* A snapshot shows the end of the last attempt and of no earlier one; the *)
(* progress, which a requeue keeps, belongs to a job that ran.             *)
THEOREM RowsStayConsistent == StoreSpec => []RowConsistent
<1>1. StoreInit => StoreTypeOK /\ RowConsistent
  BY StoreTypeInit, RowConsistentInit
<1>2. StoreTypeOK /\ RowConsistent /\ [StoreNext]_storeVars => StoreTypeOK' /\ RowConsistent'
  BY StoreTypeStep, RowConsistentStep
<1> QED
  BY <1>1, <1>2, PTL DEF StoreSpec

-----------------------------------------------------------------------------
(* Attempts.                                                               *)

(* Every attempt of a job takes a place in the queue: there are never more *)
(* attempts than places given out.                                         *)
AttemptsFit == \A j \in Jobs : Present(j) => jobs[j].attempt \in 1..jobs[j].sequence

LEMMA AttemptsFitInit == StoreInit => AttemptsFit
  BY StatesDiffer DEF StoreInit, AttemptsFit, Present, NoRow

LEMMA AttemptsFitStep ==
    StoreTypeOK /\ QueueOrder /\ AttemptsFit /\ [StoreNext]_storeVars => AttemptsFit'
<1> SUFFICES ASSUME StoreTypeOK, QueueOrder, AttemptsFit, [StoreNext]_storeVars,
                    NEW j \in Jobs, Present(j)'
             PROVE  jobs'[j].attempt \in 1..jobs'[j].sequence
    BY DEF AttemptsFit
<1> DEFINE Fits == jobs'[j].attempt \in 1..jobs'[j].sequence
<1>0. ASSUME Present(j), jobs'[j].attempt = jobs[j].attempt, jobs'[j].sequence = jobs[j].sequence
      PROVE  Fits
  BY <1>0 DEF AttemptsFit
<1> USE StatesDiffer, StoreAssumption DEF StoreTypeOK, Present
<1>1. CASE RecoverActive
  BY <1>0, <1>1, RowRecovered
<1>2. ASSUME NEW limit \in Concurrencies, UpdateSettings(limit) PROVE Fits
  BY <1>0, <1>2 DEF UpdateSettings
<1>3. ASSUME NEW k \in Jobs, InsertJob(k) PROVE Fits
  BY <1>0, <1>3 DEF InsertJob, NoRow
<1>4. ASSUME NEW k \in Jobs, ClaimNext(k) PROVE Fits
  BY <1>0, <1>4 DEF ClaimNext, IsNextInLine, Row
<1>5. ASSUME NEW k \in Jobs, NEW state \in ActiveStates, NEW reports \in BOOLEAN,
             SaveProgress(k, state, reports)
      PROVE  Fits
  BY <1>0, <1>5, WritesNeedRow DEF SaveProgress, Row
<1>6. ASSUME NEW k \in Jobs, NEW state \in StoppedStates, FinishJob(k, state) PROVE Fits
  BY <1>0, <1>6, WritesNeedRow DEF FinishJob, Row
<1>7. ASSUME NEW k \in Jobs, TransitionStopped(k, "paused") PROVE Fits
  BY <1>0, <1>7, WritesNeedRow DEF TransitionStopped, Row
<1>8. ASSUME NEW k \in Jobs, NEW kind \in {"resume", "retry"}, Requeue(k, kind) PROVE Fits
  <2>1. CASE k = j
    <3>1. Present(j)
      BY <1>8, <2>1 DEF Requeue, RequeueFrom, RestingStates, JobStates, StoppedStates,
         TerminalStates
    <3>2. jobs[j].attempt \in 1..jobs[j].sequence /\ jobs[j].sequence \in 1..(nextSequence - 1)
      BY <3>1 DEF AttemptsFit, QueueOrder
    <3>3. jobs'[j].attempt = jobs[j].attempt + 1 /\ jobs'[j].sequence = nextSequence
      BY <1>8, <2>1 DEF Requeue, Row
    <3> QED
      BY <3>2, <3>3 DEF Row
  <2> QED
    BY <1>0, <1>8, <2>1 DEF Requeue
<1>9. ASSUME NEW k \in Jobs, SetRecoveryFailure(k) PROVE Fits
  BY <1>0, <1>9 DEF SetRecoveryFailure, Row
<1>10. ASSUME NEW k \in Jobs, NEW some \in BOOLEAN, ReplaceOwnedPaths(k, some) PROVE Fits
  BY <1>0, <1>10 DEF ReplaceOwnedPaths, Row
<1>11. ASSUME NEW k \in Jobs, DeleteCompleted(k) PROVE Fits
  BY <1>0, <1>11 DEF DeleteCompleted, NoRow
<1>12. CASE UNCHANGED storeVars
  BY <1>0, <1>12 DEF storeVars
<1> QED
  BY <1>1, <1>2, <1>3, <1>4, <1>5, <1>6, <1>7, <1>8, <1>9, <1>10, <1>11, <1>12 DEF StoreNext

-----------------------------------------------------------------------------
(* Refinement: the store implements JobHistory.                            *)

(* What a reader sees of the store.                                        *)
StateView == [j \in Jobs |-> jobs[j].state]

(* A step that rewrites one row moves one job, or none.                    *)
LEMMA OneStateMoves ==
    ASSUME StoreTypeOK, NEW j \in Jobs, NEW row, jobs' = [jobs EXCEPT ![j] = row]
    PROVE  /\ StateView' = [StateView EXCEPT ![j] = row.state]
           /\ row.state = jobs[j].state => StateView' = StateView
  BY DEF StateView, StoreTypeOK

(* Both levels use the same table.                                         *)
LEMMA SameTable ==
    /\ History!JobStates = JobStates
    /\ History!ActiveStates = ActiveStates
    /\ \A from, to : History!CanTransitionTo(from, to) <=> CanTransitionTo(from, to)
  BY DEF History!CanTransitionTo, CanTransitionTo, History!Successors, Successors,
     History!JobStates, JobStates, History!ActiveStates, ActiveStates,
     History!TerminalStates, TerminalStates, History!RestingStates, RestingStates,
     History!StoppedStates, StoppedStates

LEMMA CheckedWriteIsMove ==
    ASSUME StoreTypeOK, NEW j \in Jobs, NEW row, jobs' = [jobs EXCEPT ![j] = row],
           MayWrite(jobs[j].state, row.state)
    PROVE  [History!Next]_StateView
<1>1. CASE row.state = jobs[j].state
  BY <1>1, OneStateMoves
<1>2. CASE row.state # jobs[j].state
  <2>1. CanTransitionTo(jobs[j].state, row.state) /\ row.state \in JobStates
    BY <1>2, WritesNeedRow, WritesRespectTable DEF MayWrite
  <2>2. History!Move(j, row.state)
    BY <2>1, OneStateMoves, SameTable DEF History!Move, StateView
  <2> QED
    BY <2>1, <2>2, SameTable DEF History!Next
<1> QED
  BY <1>1, <1>2

(* A claim, a requeue and the recovery choose the rows they write by state: *)
(* the table's check of the first two never fails, recovery needs none.    *)
LEMMA FixedWritesFollowTable ==
    /\ CanTransitionTo("queued", "analyzing")
    /\ \A state \in ActiveStates : CanTransitionTo(state, "interrupted")
    /\ \A kind \in {"resume", "retry"} : \A state \in RequeueFrom(kind) :
          CanTransitionTo(state, "queued")
  BY DEF CanTransitionTo, Successors, ActiveStates, RequeueFrom, RestingStates, TerminalStates,
     StoppedStates

LEMMA HistoryStep == StoreTypeOK /\ [StoreNext]_storeVars => [History!Next]_StateView
<1> SUFFICES ASSUME StoreTypeOK, [StoreNext]_storeVars PROVE [History!Next]_StateView
    OBVIOUS
<1>1. CASE RecoverActive
  <2>1. StateView' = [j \in Jobs |-> IF StateView[j] \in ActiveStates
                                     THEN "interrupted" ELSE StateView[j]]
    BY <1>1 DEF RecoverActive, StateView, StoreTypeOK, Row
  <2>2. History!Interrupt
    BY <2>1, SameTable, FixedWritesFollowTable DEF History!Interrupt, StateView
  <2> QED
    BY <2>2 DEF History!Next
<1>2. ASSUME NEW limit \in Concurrencies, UpdateSettings(limit) PROVE [History!Next]_StateView
  BY <1>2 DEF UpdateSettings, StateView
<1>3. ASSUME NEW j \in Jobs, InsertJob(j) PROVE [History!Next]_StateView
  <2> DEFINE row == [NoRow("queued") EXCEPT !.attempt = 1, !.sequence = nextSequence]
  <2>1. row.state = "queued"
    BY DEF NoRow
  <2>2. jobs' = [jobs EXCEPT ![j] = row] /\ jobs[j].state = "unused"
    BY <1>3 DEF InsertJob
  <2> HIDE DEF row
  <2>3. History!Submit(j)
    <3>1. StateView[j] = "unused"
      BY <2>2 DEF StateView
    <3>2. StateView' = [StateView EXCEPT ![j] = "queued"]
      BY <2>1, <2>2, OneStateMoves
    <3> QED
      BY <3>1, <3>2 DEF History!Submit, StateView
  <2> QED
    BY <2>3 DEF History!Next
<1>4. ASSUME NEW j \in Jobs, ClaimNext(j) PROVE [History!Next]_StateView
  <2> DEFINE row == [jobs[j] EXCEPT !.state = "analyzing"]
  <2>1. row.state = "analyzing" /\ jobs' = [jobs EXCEPT ![j] = row] /\ jobs[j].state = "queued"
    BY <1>4 DEF ClaimNext, IsNextInLine, StoreTypeOK, Row
  <2>2. MayWrite(jobs[j].state, row.state)
    BY <2>1, FixedWritesFollowTable DEF MayWrite
  <2> HIDE DEF row
  <2> QED
    BY <2>1, <2>2, CheckedWriteIsMove
<1>5. ASSUME NEW j \in Jobs, NEW state \in ActiveStates, NEW reports \in BOOLEAN,
             SaveProgress(j, state, reports)
      PROVE  [History!Next]_StateView
  <2> DEFINE row == [jobs[j] EXCEPT !.state = state, !.progress = @ \/ reports]
  <2>0. row.state = state
    BY DEF StoreTypeOK, Row
  <2>1. row.state = state /\ jobs' = [jobs EXCEPT ![j] = row] /\ MayWrite(jobs[j].state, state)
    BY <1>5, <2>0 DEF SaveProgress
  <2> HIDE DEF row
  <2> QED
    BY <2>1, CheckedWriteIsMove
<1>6. ASSUME NEW j \in Jobs, NEW state \in StoppedStates, FinishJob(j, state)
      PROVE  [History!Next]_StateView
  <2> DEFINE row == [jobs[j] EXCEPT !.state = state, !.error = (state = "failed"),
                                    !.output = (state = "completed"),
                                    !.partials = @ /\ state \notin {"completed", "cancelled"}]
  <2>1. row.state = state
    BY DEF StoreTypeOK, Row
  <2>2. jobs' = [jobs EXCEPT ![j] = row] /\ MayWrite(jobs[j].state, state)
    BY <1>6 DEF FinishJob
  <2> HIDE DEF row
  <2> QED
    BY <2>1, <2>2, CheckedWriteIsMove
<1>7. ASSUME NEW j \in Jobs, TransitionStopped(j, "paused") PROVE [History!Next]_StateView
  <2> DEFINE row == [jobs[j] EXCEPT !.state = "paused"]
  <2>1. row.state = "paused" /\ jobs' = [jobs EXCEPT ![j] = row]
        /\ MayWrite(jobs[j].state, "paused")
    BY <1>7 DEF TransitionStopped, StoreTypeOK, Row
  <2> HIDE DEF row
  <2> QED
    BY <2>1, CheckedWriteIsMove
<1>8. ASSUME NEW j \in Jobs, NEW kind \in {"resume", "retry"}, Requeue(j, kind)
      PROVE  [History!Next]_StateView
  <2> DEFINE row == [jobs[j] EXCEPT !.state = "queued", !.attempt = @ + 1,
                                    !.sequence = nextSequence, !.error = FALSE,
                                    !.output = FALSE]
  <2>1. row.state = "queued"
    BY DEF StoreTypeOK, Row
  <2>2. jobs' = [jobs EXCEPT ![j] = row] /\ jobs[j].state \in RequeueFrom(kind)
    BY <1>8 DEF Requeue
  <2> HIDE DEF row
  <2>3. MayWrite(jobs[j].state, row.state)
    BY <2>1, <2>2, FixedWritesFollowTable DEF MayWrite
  <2> QED
    BY <2>2, <2>3, CheckedWriteIsMove
<1>9. ASSUME NEW j \in Jobs, SetRecoveryFailure(j) PROVE [History!Next]_StateView
  <2>1. jobs' = [jobs EXCEPT ![j] = [jobs[j] EXCEPT !.error = TRUE]]
        /\ [jobs[j] EXCEPT !.error = TRUE].state = jobs[j].state
    BY <1>9 DEF SetRecoveryFailure, StoreTypeOK, Row
  <2> QED
    BY <2>1, OneStateMoves
<1>10. ASSUME NEW j \in Jobs, NEW some \in BOOLEAN, ReplaceOwnedPaths(j, some)
       PROVE  [History!Next]_StateView
  <2>1. jobs' = [jobs EXCEPT ![j] = [jobs[j] EXCEPT !.partials = some]]
        /\ [jobs[j] EXCEPT !.partials = some].state = jobs[j].state
    BY <1>10 DEF ReplaceOwnedPaths, StoreTypeOK, Row
  <2> QED
    BY <2>1, OneStateMoves
<1>11. ASSUME NEW j \in Jobs, DeleteCompleted(j) PROVE [History!Next]_StateView
  <2>1. jobs' = [jobs EXCEPT ![j] = NoRow("deleted")] /\ jobs[j].state = "completed"
        /\ NoRow("deleted").state = "deleted"
    BY <1>11 DEF DeleteCompleted, NoRow
  <2>2. History!Forget(j)
    <3>1. StateView[j] = "completed"
      BY <2>1 DEF StateView
    <3>2. StateView' = [StateView EXCEPT ![j] = "deleted"]
      BY <2>1, OneStateMoves
    <3> QED
      BY <3>1, <3>2 DEF History!Forget, StateView
  <2> QED
    BY <2>2 DEF History!Next
<1>12. CASE UNCHANGED storeVars
  BY <1>12 DEF storeVars, StateView
<1> QED
  BY <1>1, <1>2, <1>3, <1>4, <1>5, <1>6, <1>7, <1>8, <1>9, <1>10, <1>11, <1>12 DEF StoreNext

(* Whatever transactions run, in any order, a reader sees each job follow  *)
(* the lifecycle of JobHistory.                                            *)
THEOREM StoreImplementsHistory == StoreSpec => ImplementsHistory
<1>1. StoreInit => History!Init
  BY DEF StoreInit, History!Init, NoRow
<1>2. StoreTypeOK /\ [StoreNext]_storeVars => [History!Next]_StateView
  BY HistoryStep
<1> QED
  BY <1>1, <1>2, StoreTypeCorrect, PTL DEF StoreSpec, ImplementsHistory, History!Spec, StateView

-----------------------------------------------------------------------------
(* Places in the queue.                                                    *)

(* An identity no insert has used has no row: its attempts start at one.   *)
UnusedIsBlank == \A j \in Jobs : jobs[j].state = "unused" => jobs[j] = NoRow("unused")

LEMMA UnusedIsBlankStep == StoreTypeOK /\ UnusedIsBlank /\ [StoreNext]_storeVars => UnusedIsBlank'
<1> SUFFICES ASSUME StoreTypeOK, UnusedIsBlank, [StoreNext]_storeVars,
                    NEW j \in Jobs, jobs'[j].state = "unused"
             PROVE  jobs'[j] = NoRow("unused")
    BY DEF UnusedIsBlank
<1> USE StatesDiffer DEF StoreTypeOK
<1>0. ASSUME jobs'[j] = jobs[j] PROVE jobs'[j] = NoRow("unused")
  BY <1>0 DEF UnusedIsBlank
<1>1. CASE RecoverActive
  BY <1>0, <1>1, RowRecovered
<1>2. ASSUME NEW limit \in Concurrencies, UpdateSettings(limit) PROVE jobs'[j] = jobs[j]
  BY <1>2 DEF UpdateSettings
<1>3. ASSUME NEW k \in Jobs, InsertJob(k) PROVE jobs'[j] = jobs[j]
  BY <1>3 DEF InsertJob, NoRow
<1>4. ASSUME NEW k \in Jobs, ClaimNext(k) PROVE jobs'[j] = jobs[j]
  BY <1>4 DEF ClaimNext, Row
<1>5. ASSUME NEW k \in Jobs, NEW state \in ActiveStates, NEW reports \in BOOLEAN,
             SaveProgress(k, state, reports)
      PROVE  jobs'[j] = jobs[j]
  BY <1>5 DEF SaveProgress, Row
<1>6. ASSUME NEW k \in Jobs, NEW state \in StoppedStates, FinishJob(k, state)
      PROVE  jobs'[j] = jobs[j]
  BY <1>6 DEF FinishJob, Row
<1>7. ASSUME NEW k \in Jobs, TransitionStopped(k, "paused") PROVE jobs'[j] = jobs[j]
  BY <1>7 DEF TransitionStopped, Row
<1>8. ASSUME NEW k \in Jobs, NEW kind \in {"resume", "retry"}, Requeue(k, kind)
      PROVE  jobs'[j] = jobs[j]
  BY <1>8 DEF Requeue, Row
<1>9. ASSUME NEW k \in Jobs, SetRecoveryFailure(k) PROVE jobs'[j] = jobs[j]
  BY <1>9 DEF SetRecoveryFailure, Row, RestingStates
<1>10. ASSUME NEW k \in Jobs, NEW some \in BOOLEAN, ReplaceOwnedPaths(k, some)
       PROVE  jobs'[j] = jobs[j]
  BY <1>10 DEF ReplaceOwnedPaths, Row, Present
<1>11. ASSUME NEW k \in Jobs, DeleteCompleted(k) PROVE jobs'[j] = jobs[j]
  BY <1>11 DEF DeleteCompleted, NoRow
<1>12. CASE UNCHANGED storeVars
  BY <1>0, <1>12 DEF storeVars
<1> QED
  BY <1>0, <1>1, <1>2, <1>3, <1>4, <1>5, <1>6, <1>7, <1>8, <1>9, <1>10, <1>11, <1>12 DEF StoreNext

(* The row of every job in one step.                                       *)
PlaceKept(j) ==
    IF jobs'[j].state = "queued" /\ jobs[j].state # "queued"
    THEN GoesToTheTail(j)
    ELSE \/ jobs'[j].state = "deleted"
         \/ jobs'[j].sequence = jobs[j].sequence /\ jobs'[j].attempt = jobs[j].attempt

LEMMA PlacesStep ==
    ASSUME StoreTypeOK, QueueOrder, UnusedIsBlank, [StoreNext]_storeVars, NEW j \in Jobs
    PROVE  PlaceKept(j)
<1> USE StatesDiffer DEF StoreTypeOK
<1>0. ASSUME jobs'[j] = jobs[j] PROVE PlaceKept(j)
  BY <1>0 DEF PlaceKept
<1>t. ASSUME nextSequence' = nextSequence + 1, jobs'[j].sequence = nextSequence,
             jobs'[j].attempt = jobs[j].attempt + 1, jobs'[j].state = "queued",
             jobs[j].state # "queued"
      PROVE  PlaceKept(j)
  <2>1. \A k \in Jobs \ {j} : Present(k) => jobs[k].sequence < nextSequence
    BY DEF QueueOrder, Row
  <2> QED
    BY <1>t, <2>1 DEF PlaceKept, GoesToTheTail
<1>1. CASE RecoverActive
  BY <1>0, <1>1, RowRecovered DEF PlaceKept
<1>2. ASSUME NEW limit \in Concurrencies, UpdateSettings(limit) PROVE PlaceKept(j)
  BY <1>0, <1>2 DEF UpdateSettings
<1>3. ASSUME NEW k \in Jobs, InsertJob(k) PROVE PlaceKept(j)
  <2>1. CASE k = j
    BY <1>3, <1>t, <2>1 DEF InsertJob, NoRow, UnusedIsBlank
  <2> QED
    BY <1>0, <1>3, <2>1 DEF InsertJob
<1>4. ASSUME NEW k \in Jobs, ClaimNext(k) PROVE PlaceKept(j)
  BY <1>4 DEF ClaimNext, Row, PlaceKept
<1>5. ASSUME NEW k \in Jobs, NEW state \in ActiveStates, NEW reports \in BOOLEAN,
             SaveProgress(k, state, reports)
      PROVE  PlaceKept(j)
  BY <1>5 DEF SaveProgress, Row, PlaceKept
<1>6. ASSUME NEW k \in Jobs, NEW state \in StoppedStates, FinishJob(k, state) PROVE PlaceKept(j)
  BY <1>6 DEF FinishJob, Row, PlaceKept
<1>7. ASSUME NEW k \in Jobs, TransitionStopped(k, "paused") PROVE PlaceKept(j)
  BY <1>7 DEF TransitionStopped, Row, PlaceKept
<1>8. ASSUME NEW k \in Jobs, NEW kind \in {"resume", "retry"}, Requeue(k, kind) PROVE PlaceKept(j)
  <2>1. CASE k = j
    <3>1. jobs[j].state # "queued"
      BY <1>8, <2>1 DEF Requeue, RequeueFrom, RestingStates
    <3> QED
      BY <1>8, <1>t, <2>1, <3>1 DEF Requeue, Row
  <2> QED
    BY <1>0, <1>8, <2>1 DEF Requeue
<1>9. ASSUME NEW k \in Jobs, SetRecoveryFailure(k) PROVE PlaceKept(j)
  BY <1>9 DEF SetRecoveryFailure, Row, PlaceKept
<1>10. ASSUME NEW k \in Jobs, NEW some \in BOOLEAN, ReplaceOwnedPaths(k, some) PROVE PlaceKept(j)
  BY <1>10 DEF ReplaceOwnedPaths, Row, PlaceKept
<1>11. ASSUME NEW k \in Jobs, DeleteCompleted(k) PROVE PlaceKept(j)
  BY <1>11 DEF DeleteCompleted, NoRow, PlaceKept
<1>12. CASE UNCHANGED storeVars
  BY <1>0, <1>12 DEF storeVars
<1> QED
  BY <1>1, <1>2, <1>3, <1>4, <1>5, <1>6, <1>7, <1>8, <1>9, <1>10, <1>11, <1>12 DEF StoreNext

(* An enqueue, a resume and a retry go to the tail of the queue; nothing   *)
(* else moves a job or counts an attempt.                                  *)
THEOREM PlacesAreStable == StoreSpec => QueuePlacesAreStable
<1> DEFINE Inv == StoreTypeOK /\ QueueOrder /\ UnusedIsBlank
<1>1. StoreInit => Inv
  BY StoreTypeInit, QueueOrderInit DEF StoreInit, UnusedIsBlank
<1>2. Inv /\ [StoreNext]_storeVars => Inv'
  BY StoreTypeStep, QueueOrderStep, UnusedIsBlankStep
<1>3. Inv /\ [StoreNext]_storeVars =>
        [\A j \in Jobs :
            IF jobs[j]'.state = "queued" /\ jobs[j].state # "queued"
            THEN GoesToTheTail(j)
            ELSE \/ jobs[j]'.state = "deleted"
                 \/ jobs[j]'.sequence = jobs[j].sequence
                    /\ jobs[j]'.attempt = jobs[j].attempt]_storeVars
  BY PlacesStep DEF PlaceKept
<1> QED
  BY <1>1, <1>2, <1>3, PTL DEF StoreSpec, QueuePlacesAreStable
=============================================================================
