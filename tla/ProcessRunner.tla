--------------------------- MODULE ProcessRunner ---------------------------
(* One invocation of TokioProcessRunner: a task owns the process group of    *)
(* the tool, two readers move what the group writes from the pipes to a      *)
(* bounded channel, a third task writes its standard input.  The caller may  *)
(* cancel or drop the run and a deadline may pass at any moment.  Output is  *)
(* counted in chunks, a chunk being what one read returns.                   *)
EXTENDS Naturals, Sequences, FiniteSets

CONSTANTS
    PipeCapacity,  \* chunks a pipe holds before a write to it blocks
    Capacity,      \* PIPE_CHANNEL_CAPACITY
    MaxChunks,     \* bound: chunks the group writes
    Limit,         \* max_bytes_per_stream, in chunks
    Inputs,        \* chunks of standard input the caller may give; 0: no pipe
    MaxReadErrors, \* bound: reads that fail
    MaxAsks        \* bound: reasons to stop that come up in one run

ASSUME RunnerAssumption ==
    /\ PipeCapacity \in Nat \ {0} /\ Capacity \in Nat \ {0}
    /\ MaxChunks \in Nat /\ Limit \in Nat \ {0} /\ Inputs \subseteq Nat
    /\ MaxReadErrors \in Nat /\ MaxAsks \in Nat

Streams == {"stdout", "stderr"}
Ends    == {"cancelled", "abandoned", "timed_out"}

VARIABLES
    leader,    \* the process that was spawned: "running", "exited" or "killed"
    helper,    \* a process it started: "none", "attached" to the pipes,
               \* "detached" from them, "dead"
    written,   \* chunks the group wrote to each stream
    pipe,      \* chunks in the pipe of each stream
    input,     \* standard input: what is left to write, and in the pipe
    readers,   \* each reader: "reading", "sending" a message, or "done"
    holds,     \* the message each reader sends
    writer,    \* the task that writes: "none", "writing", "done" or "failed"
    channel,   \* the messages the owner has not received
    owner,     \* the owner task: where it is, why it stops the group
    status,    \* exit_status: "none" or "exited"
    open,      \* readers_open
    failure,   \* reader_failure: it is "none" or a stream
    observed,  \* observed chunks of each stream
    retained,  \* chunks of each stream that are kept
    asked,     \* the ends that were asked for: cancelled, abandoned, timed_out
    result     \* what the run returns

group   == <<leader, helper, written, pipe, input>>
tasks   == <<readers, holds, writer>>
loop    == <<owner, status, open, failure, observed, retained>>
vars    == <<group, tasks, channel, loop, asked, result>>

Init ==
    /\ leader = "running" /\ helper = "none"
    /\ written = [s \in Streams |-> 0] /\ pipe = [s \in Streams |-> 0]
    /\ input \in [left : Inputs, piped : {0}]
    /\ readers = [s \in Streams |-> "reading"]
    /\ holds = [s \in Streams |-> "none"]
    /\ writer = IF input.left = 0 THEN "none" ELSE "writing"
    /\ channel = <<>>
    /\ owner = [pc |-> "loop", reason |-> "none"]
    /\ status = "none" /\ open = 2 /\ failure = "none"
    /\ observed = [s \in Streams |-> 0] /\ retained = [s \in Streams |-> 0]
    /\ asked = {} /\ result = "none"

-----------------------------------------------------------------------------
(* The process group and its pipes.                                          *)

Attached == leader = "running" \/ helper = "attached"

Write(s) ==
    /\ Attached /\ written["stdout"] + written["stderr"] < MaxChunks
    /\ pipe[s] < PipeCapacity
    /\ written' = [written EXCEPT ![s] = @ + 1]
    /\ pipe' = [pipe EXCEPT ![s] = @ + 1]
    /\ UNCHANGED <<leader, helper, input, tasks, channel, loop, asked, result>>

ReadInput ==
    /\ Attached /\ input.piped > 0
    /\ input' = [input EXCEPT !.piped = @ - 1]
    /\ UNCHANGED <<leader, helper, written, pipe, tasks, channel, loop, asked, result>>

StartHelper ==
    /\ leader = "running" /\ helper = "none" /\ helper' = "attached"
    /\ UNCHANGED <<leader, written, pipe, input, tasks, channel, loop, asked, result>>

HelperDetaches ==
    /\ helper = "attached" /\ helper' = "detached"
    /\ UNCHANGED <<leader, written, pipe, input, tasks, channel, loop, asked, result>>

HelperEnds ==
    /\ helper \in {"attached", "detached"} /\ helper' = "dead"
    /\ UNCHANGED <<leader, written, pipe, input, tasks, channel, loop, asked, result>>

LeaderExits ==
    /\ leader = "running" /\ leader' = "exited"
    /\ UNCHANGED <<helper, written, pipe, input, tasks, channel, loop, asked, result>>

(* The caller cancels, drops the future, or the deadline passes.             *)
Ask(end) ==
    /\ owner.pc # "done" /\ Cardinality(asked) < MaxAsks
    /\ asked' = asked \cup {end}
    /\ UNCHANGED <<group, tasks, channel, loop, result>>

-----------------------------------------------------------------------------
(* spawn_reader: read, send, and again until the pipe is closed or broken.   *)

Reads(s, message) ==
    /\ readers[s] = "reading"
    /\ readers' = [readers EXCEPT ![s] = "sending"]
    /\ holds' = [holds EXCEPT ![s] = message]
    /\ UNCHANGED <<leader, helper, written, input, writer, channel, loop, asked, result>>

ReaderReads(s) ==
    /\ pipe[s] > 0 /\ Reads(s, "bytes") /\ pipe' = [pipe EXCEPT ![s] = @ - 1]

ReaderSeesEnd(s) ==
    /\ pipe[s] = 0 /\ ~Attached /\ Reads(s, "closed") /\ UNCHANGED pipe

ReadErrors ==
    Cardinality({s \in Streams : holds[s] = "failed"}) +
    Cardinality({i \in DOMAIN channel : channel[i].kind = "failed"}) +
    IF failure = "none" THEN 0 ELSE 1

ReaderFails(s) ==
    /\ ReadErrors < MaxReadErrors /\ owner.pc # "done"
    /\ Reads(s, "failed") /\ UNCHANGED pipe

(* Mutant of ReaderSends: the channel has no bound.                          *)
ReaderSendsAnyway(s) ==
    /\ readers[s] = "sending"
    /\ channel' = Append(channel, [stream |-> s, kind |-> holds[s]])
    /\ readers' = [readers EXCEPT ![s] = IF holds[s] = "bytes" THEN "reading" ELSE "done"]
    /\ holds' = [holds EXCEPT ![s] = "none"]
    /\ UNCHANGED <<group, writer, loop, asked, result>>

ReaderSends(s) ==
    /\ readers[s] = "sending" /\ Len(channel) < Capacity
    /\ channel' = Append(channel, [stream |-> s, kind |-> holds[s]])
    /\ readers' = [readers EXCEPT ![s] = IF holds[s] = "bytes" THEN "reading" ELSE "done"]
    /\ holds' = [holds EXCEPT ![s] = "none"]
    /\ UNCHANGED <<group, writer, loop, asked, result>>

(* write_all and shutdown of the standard input.                             *)
WriterWrites ==
    /\ writer = "writing" /\ Attached /\ input.left > 0 /\ input.piped < PipeCapacity
    /\ input' = [left |-> input.left - 1, piped |-> input.piped + 1]
    /\ writer' = IF input.left = 1 THEN "done" ELSE "writing"
    /\ UNCHANGED <<leader, helper, written, pipe, readers, holds, channel, loop, asked, result>>

WriterFails ==
    /\ writer = "writing" /\ ~Attached /\ writer' = "failed"
    /\ UNCHANGED <<group, readers, holds, channel, loop, asked, result>>

-----------------------------------------------------------------------------
(* The owner, run_owned.                                                     *)

Keep(s) ==
    /\ observed' = [observed EXCEPT ![s] = @ + 1]
    /\ retained' = [retained EXCEPT ![s] = IF @ < Limit THEN @ + 1 ELSE @]

(* recv and apply_reader_message, which also drain_messages calls.           *)
Receive(pc) ==
    /\ owner.pc = pc /\ open > 0 /\ channel # <<>>
    /\ channel' = Tail(channel)
    /\ LET m == Head(channel) IN
         CASE m.kind = "bytes" -> Keep(m.stream) /\ UNCHANGED <<open, failure>>
           [] m.kind = "closed" -> open' = open - 1 /\ UNCHANGED <<failure, observed, retained>>
           [] m.kind = "failed" -> /\ open' = open - 1 /\ failure' = m.stream
                                   /\ UNCHANGED <<observed, retained>>
    /\ UNCHANGED <<group, tasks, asked, result>>

(* The turn of the loop: while the group has not exited its end is looked    *)
(* for first, then what stops it, in that order, then the messages.          *)
LookForExit ==
    /\ owner.pc = "loop" /\ failure = "none" /\ status = "none"
    /\ leader = "exited" /\ status' = "exited"
    /\ UNCHANGED <<group, tasks, channel, owner, open, failure, observed, retained, asked,
                   result>>

First ==
    CASE "cancelled" \in asked -> "cancelled"
      [] "abandoned" \in asked -> "abandoned"
      [] OTHER -> "timed_out"

(* Mutant of Terminate: only the process that was spawned is killed.         *)
TerminateLeader ==
    /\ leader' = IF leader = "running" THEN "killed" ELSE leader
    /\ UNCHANGED <<helper, written, pipe, input>>

(* terminate_and_reap kills the process group and reaps its leader.          *)
Terminate ==
    /\ leader' = IF leader = "running" THEN "killed" ELSE leader
    /\ helper' = IF helper = "none" THEN helper ELSE "dead"
    /\ UNCHANGED <<written, pipe, input>>

(* Mutant of Stop: what the readers still hold is not received.              *)
StopWithoutDrain ==
    /\ owner.pc = "loop" /\ failure = "none" /\ status = "none" /\ asked # {}
    /\ Terminate
    /\ owner' = [pc |-> "join", reason |-> First]
    /\ UNCHANGED <<tasks, channel, status, open, failure, observed, retained, asked, result>>

Stop ==
    /\ owner.pc = "loop" /\ failure = "none" /\ status = "none" /\ asked # {}
    /\ Terminate
    /\ owner' = [pc |-> "drain", reason |-> First]
    /\ UNCHANGED <<tasks, channel, status, open, failure, observed, retained, asked, result>>

(* The channel is looked at when nothing stops the run.                      *)
ReceiveInLoop ==
    /\ failure = "none" /\ (asked = {} \/ status # "none")
    /\ Receive("loop") /\ UNCHANGED <<owner, status>>

(* drain_messages: until both readers have said that they end.               *)
Drain == Receive("drain") /\ UNCHANGED <<owner, status>>

Drained ==
    /\ owner.pc = "drain" /\ open = 0
    /\ owner' = [owner EXCEPT !.pc = "join"]
    /\ UNCHANGED <<group, tasks, channel, status, open, failure, observed, retained, asked,
                   result>>

(* A reader that failed ends the run; the other reader is not drained.       *)
StopForFailure ==
    /\ owner.pc = "loop" /\ failure # "none"
    /\ IF status = "none" THEN Terminate ELSE UNCHANGED group
    /\ owner' = [pc |-> "join", reason |-> "read"]
    /\ UNCHANGED <<tasks, channel, status, open, failure, observed, retained, asked, result>>

LeaveLoop ==
    /\ owner.pc = "loop" /\ failure = "none" /\ status # "none" /\ open = 0
    /\ owner' = [pc |-> "join", reason |-> "exit"]
    /\ UNCHANGED <<group, tasks, channel, status, open, failure, observed, retained, asked,
                   result>>

(* await_io_tasks.  Input that could not be written wins over every answer.  *)
Join ==
    /\ owner.pc = "join"
    /\ \A s \in Streams : readers[s] = "done"
    /\ writer # "writing"
    /\ result' = IF writer = "failed" THEN "write" ELSE owner.reason
    /\ owner' = [owner EXCEPT !.pc = "done"]
    /\ UNCHANGED <<group, tasks, channel, status, open, failure, observed, retained, asked>>

Group  == \/ \E s \in Streams : Write(s)
          \/ ReadInput \/ StartHelper \/ HelperDetaches \/ HelperEnds \/ LeaderExits
Reader(s) == ReaderReads(s) \/ ReaderSeesEnd(s) \/ ReaderFails(s) \/ ReaderSends(s)
Writer == WriterWrites \/ WriterFails
Owner  == \/ LookForExit \/ Stop \/ ReceiveInLoop \/ Drain \/ Drained
          \/ StopForFailure \/ LeaveLoop \/ Join

Next ==
    \/ Group \/ Writer \/ Owner
    \/ \E s \in Streams : Reader(s)
    \/ \E end \in Ends : Ask(end)

(* The tasks run; nothing is assumed of the group or of the caller.          *)
Fairness ==
    /\ WF_vars(Owner) /\ WF_vars(Writer)
    /\ \A s \in Streams : WF_vars(Reader(s))

Spec == Init /\ [][Next]_vars /\ Fairness

-----------------------------------------------------------------------------
Messages == [stream : Streams, kind : {"bytes", "closed", "failed"}]

RunnerTypeOK ==
    /\ leader \in {"running", "exited", "killed"}
    /\ helper \in {"none", "attached", "detached", "dead"}
    /\ \A s \in Streams :
          /\ written[s] \in 0 .. MaxChunks /\ pipe[s] \in 0 .. PipeCapacity
          /\ readers[s] \in {"reading", "sending", "done"}
          /\ holds[s] \in {"none", "bytes", "closed", "failed"}
          /\ (readers[s] = "sending") = (holds[s] # "none")
          /\ retained[s] <= observed[s] /\ retained[s] <= Limit
    /\ input.left \in Nat /\ input.piped \in 0 .. PipeCapacity
    /\ writer \in {"none", "writing", "done", "failed"}
    /\ channel \in Seq(Messages) /\ Len(channel) <= Capacity
    /\ owner.pc \in {"loop", "drain", "join", "done"}
    /\ owner.reason \in Ends \cup {"none", "read", "exit"}
    /\ status \in {"none", "exited"} /\ open \in 0 .. 2
    /\ failure \in {"none"} \cup Streams
    /\ asked \subseteq Ends
    /\ result \in Ends \cup {"none", "read", "exit", "write"}

(* Once a run that was cancelled, abandoned or timed out has returned, no    *)
(* process of its group is left, whether or not the leader or a helper ended *)
(* at the same moment; only a run whose leader exited by itself may leave a  *)
(* helper that closed the pipes, or whose read failed.                       *)
NoProcessLeft ==
    owner.pc = "done" =>
        /\ leader # "running"
        /\ owner.reason \in Ends => helper \in {"none", "dead"}
        /\ owner.reason = "exit" => helper # "attached" \/ failure # "none"

(* The output that comes back is all that the group wrote, in every outcome  *)
(* but a failed read: what was in the pipes and the channel when the group   *)
(* was stopped is in it, and nothing is retained beyond the limit.           *)
OutputIsComplete ==
    owner.pc = "done" /\ owner.reason # "read" /\ failure = "none" =>
        \A s \in Streams :
            /\ observed[s] = written[s]
            /\ retained[s] = IF written[s] < Limit THEN written[s] ELSE Limit

(* The tool has exited by itself and a helper it left holds the pipes: the   *)
(* run waits for it, and neither a cancellation nor the deadline is heeded.  *)
HeldByHelper == leader = "exited" /\ helper = "attached" /\ owner.pc \in {"loop", "join"}

(* After a failed read the channel is not emptied: the other reader cannot   *)
(* get rid of its message and the run waits for it.                          *)
Jammed ==
    /\ owner.pc = "join" /\ owner.reason = "read" /\ Len(channel) = Capacity
    /\ \E s \in Streams : readers[s] = "sending"

(* A run that is asked to stop, or whose tool exits, returns, except in the  *)
(* two situations above.                                                     *)
StopsWhenAsked ==
    \/ (asked # {} \/ leader # "running") ~> owner.pc = "done"
    \/ <>[]HeldByHelper
    \/ <>[]Jammed
=============================================================================
