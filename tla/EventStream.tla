----------------------------- MODULE EventStream -----------------------------
(* How a change of a job reaches the window: the queue numbers and sends an  *)
(* event for every commit, the desktop service forwards the events, and the  *)
(* workspace controller merges them with the snapshot of its connection, the *)
(* answers of the commands it called and the look-ups of jobs it does not    *)
(* know.  Four streams carry versions of the same rows and nothing orders    *)
(* them against each other; and an event has less to tell than the others,   *)
(* the number of the attempt is not in it.                                   *)
EXTENDS Naturals, Sequences, FiniteSets

CONSTANTS
    Jobs,          \* the jobs of the queue
    Connections,   \* bound: the connections the controller makes, one after the other
    Capacity,      \* events the broadcast channel holds for a subscriber
    ActedOn,       \* bound: the jobs the user acts on
    AtStart,       \* the states each job may be in when the process starts
    MaxRevision    \* bound: commits to each job, where what came before the start
                   \* counts as one

ASSUME StreamAssumption == Capacity \in Nat \ {0} /\ MaxRevision \in [Jobs -> Nat]

VARIABLES
    row,       \* the job in the store: its state, how many commits made it and
               \* the one that began its attempt
    emitting,  \* the events being emitted, by the job and the task that emits
    sequence,  \* the number of the next event
    channel,   \* the events the forwarder has not received
    conn,      \* the connections of the controller
    buffered,  \* the events that came before the snapshot of the connection
    view,      \* the jobs the controller shows
    last,      \* lastSequence of the controller
    seen,      \* jobSequences of the controller
    call,      \* the command the controller has called for each job
    lookups,   \* the getJob requests of refreshUnknownJob
    missed     \* of each job, the newest version that was lost or overwritten
               \* before the controller could keep it

backend == <<row, emitting, sequence, channel>>
window  == <<conn, buffered, view, last, seen, lookups, missed>>
vars    == <<backend, window, call>>

NotThere  == "none"
Terminal  == {"failed", "completed"}
States    == {"queued", "running", "paused", NotThere} \cup Terminal
AtRest    == {"queued", "paused", "failed", "completed"}
Records   == [state: States, rev: Nat, since: Nat]
Nothing   == [state |-> NotThere, rev |-> 0, since |-> 0]

(* Three tasks may emit for one job at the same time: the scheduler that     *)
(* claims it, its driver, and the command that was called for it.            *)
Emitters  == {"scheduler", "driver", "command"}
NoEvent   == [rec |-> Nothing, seq |-> 0]
Commands  == {"enqueue", "pause", "resume", "retry", "delete"}
NoCall    == [command |-> "none", pc |-> "idle", rec |-> Nothing]
Off       == [status |-> "off", boundary |-> 0, rows |-> [j \in Jobs |-> Nothing],
              failed |-> FALSE]

Init ==
    /\ row \in [Jobs -> {Nothing} \cup [state : AtRest, rev : {1}, since : {1}]]
    /\ \A j \in Jobs : row[j].state \in AtStart[j]
    /\ emitting = [j \in Jobs |-> [e \in Emitters |-> NoEvent]]
    /\ sequence = 1 /\ channel = <<>>
    /\ conn = [c \in Connections |-> IF c = 1 THEN [Off EXCEPT !.status = "asked"] ELSE Off]
    /\ buffered = <<>>
    /\ view = [j \in Jobs |-> Nothing] /\ last = 0
    /\ seen = [j \in Jobs |-> 0]
    /\ call = [j \in Jobs |-> NoCall]
    /\ lookups = {} /\ missed = [j \in Jobs |-> 0]

Larger(a, b) == IF a > b THEN a ELSE b

-----------------------------------------------------------------------------
(* The queue: a task commits, then takes a number, then sends.               *)

MayCommit(j) == row[j].rev < MaxRevision[j]

Emits(j, e) == emitting[j][e] # NoEvent

(* Only insert_job and requeue, which commands alone call and which both make *)
(* the job queued, write the number of the attempt.                          *)
Commit(j, e, state) ==
    LET rev == row[j].rev + 1
        rec == [state |-> state, rev |-> rev,
                since |-> IF e = "command" /\ state = "queued" THEN rev ELSE row[j].since] IN
    /\ ~Emits(j, e) /\ MayCommit(j)
    /\ row' = [row EXCEPT ![j] = rec]
    /\ emitting' = [emitting EXCEPT ![j][e] = [rec |-> rec, seq |-> 0]]

(* claim_next, from the scheduler loop.                                      *)
Claim(j) ==
    /\ row[j].state = "queued" /\ Commit(j, "scheduler", "running")
    /\ UNCHANGED <<sequence, channel, window, call>>

(* The driver's commits, the last one emitted after it has given up its slot. *)
Drive(j, state) ==
    /\ row[j].state = "running" /\ ~Emits(j, "scheduler")
    /\ Commit(j, "driver", state)
    /\ UNCHANGED <<sequence, channel, window, call>>

(* emit_with_activity: fetch_add ...                                         *)
Number(j, e) ==
    /\ Emits(j, e) /\ emitting[j][e].seq = 0
    /\ emitting' = [emitting EXCEPT ![j][e].seq = sequence]
    /\ sequence' = sequence + 1
    /\ UNCHANGED <<row, channel, window, call>>

(* The controller will not hear of this version.                             *)
Lose(event) ==
    missed' = [missed EXCEPT ![event.job] = Larger(@, event.rec.rev)]

(* ... and send, which drops the oldest event when the forwarder is behind.  *)
(* A command answers its caller when its event is out.                       *)
Send(j, e) ==
    LET event == [job |-> j, rec |-> emitting[j][e].rec, seq |-> emitting[j][e].seq] IN
    /\ Emits(j, e) /\ emitting[j][e].seq > 0
    /\ emitting' = [emitting EXCEPT ![j][e] = NoEvent]
    /\ IF Len(channel) < Capacity
       THEN channel' = Append(channel, event) /\ UNCHANGED missed
       ELSE channel' = Append(Tail(channel), event) /\ Lose(Head(channel))
    /\ call' = IF e = "command"
               THEN [call EXCEPT ![j].pc = "answered", ![j].rec = event.rec] ELSE call
    /\ UNCHANGED <<row, sequence, conn, buffered, view, last, seen, lookups>>

-----------------------------------------------------------------------------
(* The desktop service: what the commands of the interface do to the queue.  *)

(* The state a command takes a job to, from the states it accepts.           *)
Allowed(command, state) ==
    CASE command = "enqueue" -> state = NotThere
      [] command = "pause"   -> state \in {"queued", "running"}
      [] command = "resume"  -> state = "paused"
      [] command = "retry"   -> state = "failed"
      [] command = "delete"  -> state = "completed"

(* enqueue, resume, retry, and the pause of a queued job.                    *)
Execute(j) ==
    /\ call[j].pc = "asked" /\ call[j].command # "delete"
    /\ Allowed(call[j].command, row[j].state) /\ row[j].state # "running"
    /\ Commit(j, "command", IF call[j].command = "pause" THEN "paused" ELSE "queued")
    /\ call' = [call EXCEPT ![j].pc = "emitting"]
    /\ UNCHANGED <<sequence, channel, window>>

(* The pause of a running job stops its driver and waits for it; the answer  *)
(* is the row that is read then.                                             *)
ExecutePause(j) ==
    /\ call[j].pc = "asked" /\ call[j].command = "pause" /\ row[j].state = "running"
    /\ call' = [call EXCEPT ![j].pc = "waiting"]
    /\ UNCHANGED <<backend, window>>

PauseReturns(j) ==
    /\ call[j].pc = "waiting" /\ row[j].state # "running"
    /\ call' = [call EXCEPT ![j].pc = "answered", ![j].rec = row[j]]
    /\ UNCHANGED <<backend, window>>

(* remove_completed commits and emits nothing.                               *)
ExecuteDelete(j) ==
    /\ call[j].pc = "asked" /\ call[j].command = "delete"
    /\ row[j].state = "completed" /\ MayCommit(j)
    /\ row' = [row EXCEPT ![j] = [state |-> NotThere, rev |-> @.rev + 1, since |-> @.since]]
    /\ call' = [call EXCEPT ![j].pc = "answered", ![j].rec = row'[j]]
    /\ UNCHANGED <<emitting, sequence, channel, window>>

(* Every other command is answered with an error, which changes no job.      *)
Refuse(j) ==
    /\ call[j].pc = "asked" /\ ~Allowed(call[j].command, row[j].state)
    /\ call' = [call EXCEPT ![j] = NoCall]
    /\ UNCHANGED <<backend, window>>

(* Mutant of Bootstrap: the boundary is the number of the next event.        *)
BootstrapOneLate(c) ==
    /\ conn[c].status = "asked"
    /\ conn' = [conn EXCEPT ![c] = [status |-> "answered", boundary |-> sequence,
                                    rows |-> row, failed |-> FALSE]]
    /\ UNCHANGED <<backend, buffered, view, last, seen, lookups, missed, call>>

(* bootstrap: the rows of snapshot() with the number of the last event; when  *)
(* they cannot be read, an empty list.  snapshot() reads rows between two     *)
(* looks at the number and starts again when it has grown: this is its last  *)
(* round, and that there is a last one is not shown here.                    *)
Bootstrap(c) ==
    /\ conn[c].status = "asked"
    /\ \/ conn' = [conn EXCEPT ![c] = [status |-> "answered", boundary |-> sequence - 1,
                                       rows |-> row, failed |-> FALSE]]
       \/ conn' = [conn EXCEPT ![c] = [Off EXCEPT !.status = "answered", !.failed = TRUE]]
    /\ UNCHANGED <<backend, buffered, view, last, seen, lookups, missed, call>>

-----------------------------------------------------------------------------
(* The workspace controller.                                                 *)

(* A version replaces the one that is shown, which may be a newer one.       *)
Show(j, rec) ==
    /\ view' = [view EXCEPT ![j] = rec]
    /\ missed' = IF rec.rev < view[j].rev
                 THEN [missed EXCEPT ![j] = Larger(@, view[j].rev)] ELSE missed

(* A version is not taken, although it is newer or of another attempt.       *)
Drop(j, rec) ==
    /\ UNCHANGED view
    /\ missed' = IF rec.rev > view[j].rev \/ rec.since # view[j].since
                 THEN [missed EXCEPT ![j] = Larger(@, rec.rev)] ELSE missed

(* replaceJob: a job that has ended is not taken back, except by a retry.    *)
ReplaceJob(j, rec, allowTerminalRestart) ==
    IF view[j].state \in Terminal /\ rec.state \notin Terminal /\ ~allowTerminalRestart
    THEN Drop(j, rec) ELSE Show(j, rec)

(* Bound: a second connection is made in the runs where the jobs the user     *)
(* does not act on rest.                                                     *)
OthersRest == \A j \in Jobs \ ActedOn : row[j].state = "paused"

(* connect, the listener first, then the snapshot: Init has the first one    *)
(* asking.  The window offers reconnect beside the diagnostic of a bootstrap *)
(* that failed.                                                              *)
Connect(c) ==
    /\ conn[c].status = "off" /\ OthersRest
    /\ \E d \in Connections : d + 1 = c /\ conn[d].status = "connected" /\ conn[d].failed
    /\ conn' = [d \in Connections |->
                  IF d = c THEN [Off EXCEPT !.status = "asked"]
                  ELSE IF d < c THEN [Off EXCEPT !.status = "closed"] ELSE conn[d]]
    /\ buffered' = <<>>
    /\ UNCHANGED <<backend, view, last, seen, lookups, missed, call>>

(* The window shows the jobs and their actions when it is not connecting.    *)
Ready ==
    /\ \E c \in Connections : conn[c].status = "connected"
    /\ \A c \in Connections : conn[c].status \notin {"asked", "answered"}
    /\ buffered = <<>>

(* What a snapshot takes away: newer versions that were shown already, and   *)
(* every job when the bootstrap failed.                                      *)
MissedIn(c) ==
    [j \in Jobs |->
        IF conn[c].failed THEN Larger(missed[j], row[j].rev)
        ELSE IF conn[c].rows[j].rev < view[j].rev THEN Larger(missed[j], view[j].rev)
        ELSE missed[j]]

(* applySnapshot.  The events that came before it are then handled in turn.  *)
ApplySnapshot(c) ==
    /\ conn[c].status = "answered"
    /\ conn' = [conn EXCEPT ![c].status = "connected"]
    /\ view' = conn[c].rows /\ last' = conn[c].boundary
    /\ seen' = [j \in Jobs |-> IF conn[c].rows[j].state = NotThere THEN 0
                               ELSE conn[c].boundary]
    /\ missed' = MissedIn(c)
    /\ UNCHANGED <<backend, buffered, lookups, call>>

(* What an event makes of the job that is shown: it has the state, progress,  *)
(* error, result, time and actions, and the rest stays as it was, such as the *)
(* number of the attempt, completed_at_ms and destination_available.         *)
Merged(event) == [event.rec EXCEPT !.since = view[event.job].since]

(* Mutant of ApplyEvent: an event of an unknown job is not looked up.        *)
ApplyEventKnownOnly(event) ==
    IF event.seq <= last
    THEN Drop(event.job, Merged(event)) /\ UNCHANGED <<last, seen, lookups>>
    ELSE /\ last' = event.seq /\ seen' = [seen EXCEPT ![event.job] = event.seq]
         /\ IF view[event.job].state = NotThere
            THEN UNCHANGED <<view, missed>>
            ELSE ReplaceJob(event.job, Merged(event), FALSE)
         /\ UNCHANGED lookups

(* applyEvent: the numbers only grow, an unknown job is looked up.           *)
ApplyEvent(event) ==
    IF event.seq <= last
    THEN Drop(event.job, Merged(event)) /\ UNCHANGED <<last, seen, lookups>>
    ELSE /\ last' = event.seq /\ seen' = [seen EXCEPT ![event.job] = event.seq]
         /\ IF view[event.job].state = NotThere
            THEN /\ lookups' = lookups \cup
                        {[job |-> event.job, seq |-> event.seq, rec |-> Nothing]}
                 /\ UNCHANGED <<view, missed>>
            ELSE ReplaceJob(event.job, Merged(event), FALSE) /\ UNCHANGED lookups

(* The listener of connectJobEvents, with the boundary of its connection.    *)
Handle(c, event) ==
    IF event.seq > conn[c].boundary
    THEN /\ conn' = [conn EXCEPT ![c].boundary = event.seq]
         /\ ApplyEvent(event)
    ELSE Drop(event.job, Merged(event)) /\ UNCHANGED <<conn, last, seen, lookups>>

(* The events that were buffered, in the loop after the snapshot, which      *)
(* nothing else in the window interrupts.                                    *)
CatchingUp == buffered # <<>> /\ \E c \in Connections : conn[c].status = "connected"

HandleBuffered(c) ==
    /\ conn[c].status = "connected" /\ buffered # <<>>
    /\ Handle(c, Head(buffered))
    /\ buffered' = Tail(buffered)
    /\ UNCHANGED <<backend, call>>

(* start_event_forwarder gives every event to the window, whose listener     *)
(* handles it, keeps it for later, or is not there.  The way from the one to *)
(* the other keeps the order; its delay is that of the channel.  When events *)
(* have been dropped (Send) it goes on with the next one and tells nobody.   *)
Forward ==
    /\ channel # <<>> /\ channel' = Tail(channel)
    /\ CASE \E c \in Connections : conn[c].status \in {"asked", "answered"} ->
              /\ buffered' = Append(buffered, Head(channel))
              /\ UNCHANGED <<conn, view, last, seen, lookups, missed>>
         [] Ready ->
              /\ UNCHANGED buffered
              /\ \E c \in Connections :
                    conn[c].status = "connected" /\ Handle(c, Head(channel))
         [] OTHER -> ~CatchingUp /\ UNCHANGED window
    /\ UNCHANGED <<row, emitting, sequence, call>>

(* refreshUnknownJob: getJob reads the row, or the job is gone; the answer   *)
(* counts unless a later event of the job came in between.                   *)
LookupReads(l) ==
    /\ l.rec = Nothing
    /\ lookups' = (lookups \ {l}) \cup
          IF row[l.job].state = NotThere THEN {} ELSE {[l EXCEPT !.rec = row[l.job]]}
    /\ UNCHANGED <<backend, conn, buffered, view, last, seen, missed, call>>

LookupArrives(l) ==
    /\ ~CatchingUp /\ l.rec # Nothing /\ lookups' = lookups \ {l}
    /\ IF seen[l.job] = l.seq THEN ReplaceJob(l.job, l.rec, FALSE)
                              ELSE Drop(l.job, l.rec)
    /\ UNCHANGED <<backend, conn, buffered, last, seen, call>>

(* The user's actions on a job, as the window shows it.                      *)
Call(j, command) ==
    /\ j \in ActedOn /\ Ready /\ call[j] = NoCall /\ Allowed(command, view[j].state)
    /\ command = "enqueue" => row[j] = Nothing
    /\ call' = [call EXCEPT ![j] = [command |-> command, pc |-> "asked", rec |-> Nothing]]
    /\ UNCHANGED <<backend, window>>

(* runJobAction, enqueueCurrent and deleteHistory take the answer as it is,  *)
(* whatever the events have shown since.                                     *)
AnswerArrives(j) ==
    /\ ~CatchingUp /\ call[j].pc = "answered"
    /\ IF call[j].command = "delete" THEN Show(j, call[j].rec)
       ELSE ReplaceJob(j, call[j].rec, call[j].command = "retry")
    /\ call' = [call EXCEPT ![j] = NoCall]
    /\ UNCHANGED <<backend, conn, buffered, last, seen, lookups>>

Next ==
    \/ \E j \in Jobs :
         \/ Claim(j) \/ \E s \in {"running", "paused"} \cup Terminal : Drive(j, s)
         \/ \E e \in Emitters : Number(j, e) \/ Send(j, e)
         \/ Execute(j) \/ ExecutePause(j) \/ PauseReturns(j) \/ ExecuteDelete(j) \/ Refuse(j)
         \/ \E command \in Commands : Call(j, command)
         \/ AnswerArrives(j)
    \/ Forward
    \/ \E c \in Connections : Connect(c) \/ Bootstrap(c) \/ ApplySnapshot(c)
                             \/ HandleBuffered(c)
    \/ \E l \in lookups : LookupReads(l) \/ LookupArrives(l)

Spec == Init /\ [][Next]_vars

-----------------------------------------------------------------------------
Events == [job : Jobs, rec : Records, seq : Nat]

EventTypeOK ==
    /\ row \in [Jobs -> Records] /\ view \in [Jobs -> Records]
    /\ \A j \in Jobs, e \in Emitters :
          emitting[j][e].rec \in Records /\ emitting[j][e].seq < sequence
    /\ Len(channel) <= Capacity
    /\ \A i \in DOMAIN channel : channel[i] \in Events /\ channel[i].seq < sequence
    /\ \A c \in Connections : conn[c].boundary < sequence
    /\ last < sequence /\ \A j \in Jobs : seen[j] < sequence
    /\ \A l \in lookups : l.rec \in Records
    /\ missed \in [Jobs -> Nat] /\ \A j \in Jobs : missed[j] <= row[j].rev

(* A snapshot contains every change whose event the boundary will filter out: *)
(* the commit comes before the number, so an event numbered up to the        *)
(* boundary has its row in the list (what snapshot() promises).              *)
SnapshotCovers ==
    \A c \in Connections :
        conn[c].status = "answered" /\ conn[c].boundary > 0 =>
            /\ \A i \in DOMAIN channel :
                  channel[i].seq <= conn[c].boundary =>
                      channel[i].rec.rev <= conn[c].rows[channel[i].job].rev
            /\ \A j \in Jobs, e \in Emitters :
                  Emits(j, e) /\ emitting[j][e].seq \in 1 .. conn[c].boundary =>
                      emitting[j][e].rec.rev <= conn[c].rows[j].rev

(* Nothing is on its way to the window.                                      *)
Quiet ==
    /\ \A j \in Jobs, e \in Emitters : ~Emits(j, e)
    /\ channel = <<>> /\ lookups = {}
    /\ \A j \in Jobs : call[j] = NoCall
    /\ Ready

(* When nothing is on its way any more the window shows each job as the      *)
(* store has it: the fields of an event in their newest version and the      *)
(* number of the attempt, which only snapshots, answers and look-ups bring.  *)
(* It may be behind in what the controller was denied (dropped by the full   *)
(* channel, filtered out for its number or by the terminal guard) or showed  *)
(* and then replaced by an older answer.  The first of these is not what     *)
(* desktop-ipc-v1.md:46 promises, a new connection whenever the listener     *)
(* lags: on Lagged the forwarder does nothing (service.rs:283).              *)
ViewIsCurrent ==
    Quiet =>
        \A j \in Jobs :
            /\ \/ view[j].state = row[j].state
                  /\ (row[j].state = NotThere \/ view[j].rev = row[j].rev)
               \/ missed[j] > 0 /\ missed[j] >= row[j].rev
            /\ \/ row[j].state = NotThere \/ view[j].since = row[j].since
               \/ missed[j] > 0 /\ missed[j] >= row[j].since
=============================================================================
