---------------------------- MODULE FrontEndProofs ----------------------------
(* The two programs in front of the engine.  The window of the desktop shows *)
(* the answer to the last question, and its service runs one analysis at     *)
(* most, for any number of questions and stops.  The exit code of a command  *)
(* tells what became of the job it submitted, for any addresses, any length  *)
(* of the stream of events and any number of events the job sends.           *)
EXTENDS CommandLine, AnalysisSession, FiniteSetTheorems, SequenceTheorems, TLAPS

-----------------------------------------------------------------------------
(* The analysis of the desktop.                                              *)

CallStates == {"none", "waiting", "sent", "running", "stopped", "over"} \cup Answers

SessionTypeOK ==
    /\ analysis \in {"idle", "loading", "ready", "error"}
    /\ shown \in 0..MaxGeneration /\ generation \in 0..MaxGeneration
    /\ calls \in [CallIds -> CallStates]
    /\ awaits \in [CallIds -> Nat]
    /\ stops \in Nat /\ stopped \in Nat
    /\ stopping \in {"here", "sent", "handled"}
    /\ active \in 0..MaxGeneration
    /\ overtaken \subseteq CallIds

(* A call belongs to a generation that has begun.                            *)
CallsHaveBegun == \A c \in CallIds : c > generation => calls[c] = "none"

(* No more stops return than were requested.                                 *)
StopsReturnOnce ==
    /\ stopped <= stops
    /\ stopping # "here" => stopped < stops

(* A call of this generation that has left the window left no stop behind    *)
(* that could reach the service after it.                                    *)
NoStopBehind ==
    \A c \in CallIds :
        generation = c /\ calls[c] # "none" =>
            /\ awaits[c] = stops
            /\ calls[c] # "waiting" => stopped = stops

(* What the window shows.                                                    *)
ShowsTheLast ==
    /\ analysis \in {"ready", "error"} /\ shown # 0 => shown = generation
    /\ analysis = "loading" =>
          shown = 0 /\ generation \in CallIds /\ calls[generation] # "over"

(* What the service runs.                                                    *)
RunsTheActive == \A c \in CallIds : calls[c] = "running" => active = c

(* What was stopped of this generation was overtaken.                        *)
StoppedIsOvertaken ==
    \A c \in CallIds :
        calls[c] \in {"stopped", "cancelled"} /\ generation = c => c \in overtaken

SessionInv ==
    /\ SessionTypeOK /\ CallsHaveBegun /\ StopsReturnOnce /\ NoStopBehind
    /\ ShowsTheLast /\ RunsTheActive /\ StoppedIsOvertaken

LEMMA SessionStarts == SessionInit => SessionInv
BY SessionAssumption
   DEF SessionInit, SessionInv, SessionTypeOK, CallsHaveBegun, StopsReturnOnce, NoStopBehind,
       ShowsTheLast, RunsTheActive, StoppedIsOvertaken, CallIds, CallStates

LEMMA SessionStep == SessionInv /\ [SessionNext]_sessionVars => SessionInv'
<1> SUFFICES ASSUME SessionInv, [SessionNext]_sessionVars PROVE SessionInv'
  OBVIOUS
<1> USE SessionAssumption DEF CallIds, CallStates, Answers
<1> USE DEF SessionInv, SessionTypeOK, CallsHaveBegun, StopsReturnOnce, NoStopBehind,
            ShowsTheLast, RunsTheActive, StoppedIsOvertaken
<1>1. CASE AnalyzeNothing
  BY <1>1 DEF AnalyzeNothing
<1>2. CASE AnalyzeCurrent
  BY <1>2 DEF AnalyzeCurrent
<1>3. CASE CancelCurrent
  BY <1>3 DEF CancelCurrent
<1>4. CASE SendStop
  BY <1>4 DEF SendStop
<1>5. CASE HandleStop
  BY <1>5 DEF HandleStop, Running
<1>6. CASE StopReturns
  BY <1>6 DEF StopReturns
<1>7. ASSUME NEW c \in CallIds, Proceed(c) PROVE SessionInv'
  BY <1>7 DEF Proceed
<1>8. ASSUME NEW c \in CallIds, RefuseCall(c) PROVE SessionInv'
  BY <1>8 DEF RefuseCall
<1>9. ASSUME NEW c \in CallIds, StartCall(c) PROVE SessionInv'
  BY <1>9 DEF StartCall, Running
<1>10. ASSUME NEW c \in CallIds, FinishCall(c) PROVE SessionInv'
  BY <1>10 DEF FinishCall
<1>11. ASSUME NEW c \in CallIds, Settle(c) PROVE SessionInv'
  BY <1>11 DEF Settle
<1>12. CASE UNCHANGED sessionVars
  BY <1>12 DEF sessionVars
<1> QED
  BY <1>1, <1>2, <1>3, <1>4, <1>5, <1>6, <1>7, <1>8, <1>9, <1>10, <1>11, <1>12
     DEF SessionNext

(* At most one element satisfies what only the active call may.              *)
LEMMA OneRuns == SessionInv => Cardinality(Running) <= 1 /\ Running \subseteq {active}
<1> SUFFICES ASSUME SessionInv PROVE Cardinality(Running) <= 1 /\ Running \subseteq {active}
  OBVIOUS
<1>1. Running \subseteq {active}
  BY DEF SessionInv, RunsTheActive, Running
<1>2. Running = {} \/ Running = {active}
  BY <1>1
<1> QED
  BY <1>1, <1>2, FS_EmptySet, FS_Singleton

(* The desktop shows the answer to the last question, nothing outlives a     *)
(* stop, one analysis runs at most, and only an overtaken call ends as       *)
(* stopped without a stop (workspace.ts:366, service.rs:702), however often  *)
(* the user asks and stops.                                                  *)
THEOREM ShowsTheLatest == SessionSpec => []ShownAnalysisIsLatest
<1>1. SessionInv => ShownAnalysisIsLatest
  BY OneRuns DEF SessionInv, ShowsTheLast, StoppedIsOvertaken, ShownAnalysisIsLatest
<1> QED
  BY <1>1, SessionStarts, SessionStep, PTL DEF SessionSpec

-----------------------------------------------------------------------------
(* The command line.                                                         *)

Waiting  == {"cancelling", "abandoning"}
Watching == {"drive", "cancel", "abandon", "render"} \union Waiting
AllSteps == {"parse", "tools", "analyze", "open", "subscribe", "submit", "ask", "done"}
                \union Watching
Attempts == {"none", "overlooked", "claimed", "running", "written", "unwritten", "over"}
Events   == [state : JobStates \union {"none"}, activity : BOOLEAN]

CliTypeOK ==
    /\ verb \in Verbs
    /\ at \in AllSteps
    /\ job \in {"none"} \union JobStates
    /\ attempt \in Attempts
    /\ found \in {"none", "unread"} \union JobStates
    /\ stream \in Seq(Events)

(* Which commands take which steps.                                          *)
StepsFit ==
    /\ at = "tools" => verb \in {"analyze"} \union Driving
    /\ at = "analyze" => verb = "analyze"
    /\ at = "open" => verb \in Driving \union Asking
    /\ at \in {"subscribe", "submit"} \union Watching => verb \in Driving

(* Only a submitted job moves and sends events, and the command watches it   *)
(* from its submission to the end.                                           *)
SubmissionFits ==
    /\ at \in Watching => accepted
    /\ accepted => at \in Watching \union {"done"}
    /\ ~accepted => stream = <<>> /\ attempt = "none" /\ found = "none"

(* A job that has stopped stays stopped, so that the event which says so is  *)
(* still true when it is read.                                               *)
StreamIsTrue ==
    \A i \in 1..Len(stream) : stream[i].state \in StoppedStates => job \in StoppedStates
RendersTheStopped == at = "render" => job \in StoppedStates

(* The row of a job whose attempt has begun and has not ended says that it   *)
(* runs, unless a cancel that had read it as queued came after the claim:    *)
(* the command has then seen it cancelled.                                   *)
JobFits ==
    accepted =>
        /\ job \notin RestingStates \union {"none"}
        /\ attempt \in {"none", "overlooked"} => job \in {"queued", "cancelled"}
        /\ attempt \in {"claimed", "running"} =>
              \/ job \in ActiveStates
              \/ job = "cancelled" /\ found = "queued" /\ at \in {"render", "done"}

(* What a cancel has read was so when it read it.                            *)
FoundFits ==
    accepted =>
        /\ found \notin RestingStates
        /\ found \in StoppedStates => job \in StoppedStates
        /\ at \in {"cancel", "abandon"} => found # "none"

(* Why a command cancels.                                                    *)
CancelsForAReason ==
    /\ at \in {"cancel", "cancelling"} => pressed
    /\ at \in {"abandon", "abandoning"} => broken # {}

FailuresHaveClass == job = "failed" => class \in Classes

CliInv ==
    /\ CliTypeOK /\ StepsFit /\ SubmissionFits /\ StreamIsTrue /\ RendersTheStopped
    /\ JobFits /\ FoundFits /\ CancelsForAReason /\ FailuresHaveClass /\ ExitCodeTellsTheJob

-----------------------------------------------------------------------------
LEMMA NextOfThree ==
    ASSUME NEW a, NEW b, NEW c, a # b, b # c, a # c,
           NEW step, NEW i, i = CHOOSE k \in DOMAIN <<a, b, c>> : <<a, b, c>>[k] = step
    PROVE  /\ step = a => <<a, b, c>>[i + 1] = b
           /\ step = b => <<a, b, c>>[i + 1] = c
<1> DEFINE s == <<a, b, c>>
<1>1. DOMAIN s = 1..3 /\ s[1] = a /\ s[2] = b /\ s[3] = c
  OBVIOUS
<1>2. ASSUME step = a PROVE i = 1
  BY <1>1, <1>2
<1>3. ASSUME step = b PROVE i = 2
  BY <1>1, <1>3
<1> QED
  BY <1>1, <1>2, <1>3

(* The step that follows each step.                                          *)
LEMMA StepsInOrder ==
    ASSUME NEW v \in Verbs
    PROVE  /\ StepAfter(v, "parse") = IF v \in Asking THEN "open" ELSE "tools"
           /\ v \in {"analyze"} \union Driving =>
                StepAfter(v, "tools") = IF v = "analyze" THEN "analyze" ELSE "open"
           /\ v \in Driving \union Asking =>
                StepAfter(v, "open") = IF v \in Asking THEN "ask" ELSE "subscribe"
           /\ v \in Driving => /\ StepAfter(v, "subscribe") = "submit"
                               /\ StepAfter(v, "submit") = "drive"
<1>1. CASE v = "analyze"
  <2>1. Steps(v) = <<"parse", "tools", "analyze">>
    BY <1>1 DEF Steps, Driving
  <2> QED
    BY <1>1, <2>1, NextOfThree DEF StepAfter, Verbs, Driving, Asking
<1>2. CASE v \in Driving
  <2> DEFINE s == <<"parse", "tools", "open", "subscribe", "submit", "drive">>
  <2>1. Steps(v) = s
    BY <1>2 DEF Steps, Driving
  <2>2. /\ DOMAIN s = 1..6
        /\ s[1] = "parse" /\ s[2] = "tools" /\ s[3] = "open"
        /\ s[4] = "subscribe" /\ s[5] = "submit" /\ s[6] = "drive"
    OBVIOUS
  <2> HIDE DEF s
  <2>3. /\ (CHOOSE i \in DOMAIN s : s[i] = "parse") = 1
        /\ (CHOOSE i \in DOMAIN s : s[i] = "tools") = 2
        /\ (CHOOSE i \in DOMAIN s : s[i] = "open") = 3
        /\ (CHOOSE i \in DOMAIN s : s[i] = "subscribe") = 4
        /\ (CHOOSE i \in DOMAIN s : s[i] = "submit") = 5
    BY <2>2
  <2> QED
    BY <1>2, <2>1, <2>2, <2>3 DEF StepAfter, Driving, Asking
<1>3. CASE v \in Asking
  <2>1. Steps(v) = <<"parse", "open", "ask">>
    BY <1>3 DEF Steps, Asking, Driving
  <2> QED
    BY <1>3, <2>1, NextOfThree DEF StepAfter, Driving, Asking
<1> QED
  BY <1>1, <1>2, <1>3 DEF Verbs

(* An event is added at the end, and the oldest may go.                      *)
LEMMA EmitAdds ==
    ASSUME stream \in Seq(Events), NEW event \in Events, Emit(event)
    PROVE  /\ stream' \in Seq(Events)
           /\ \A i \in 1..Len(stream') :
                 stream'[i] = event \/ \E k \in 1..Len(stream) : stream'[i] = stream[k]
<1> HIDE DEF Events
<1>1. CASE stream' = stream
  BY <1>1
<1>2. CASE stream' = Append(stream, event)
  BY <1>2, AppendProperties
<1>3. CASE Len(stream) >= Capacity /\ stream' = Append(Tail(stream), event)
  <2>1. stream # <<>>
    BY <1>3, CapacityAssumption
  <2>2. /\ Tail(stream) \in Seq(Events) /\ Len(Tail(stream)) = Len(stream) - 1
        /\ \A i \in 1..Len(Tail(stream)) : Tail(stream)[i] = stream[i + 1]
    BY <2>1, HeadTailProperties
  <2>3. /\ stream' \in Seq(Events) /\ Len(stream') = Len(stream)
        /\ \A i \in 1..Len(Tail(stream)) : stream'[i] = Tail(stream)[i]
        /\ stream'[Len(stream)] = event
    <3> DEFINE t == Tail(stream)
    <3>1. t \in Seq(Events) /\ Len(t) + 1 = Len(stream)
      BY <2>2
    <3> HIDE DEF t
    <3>2. stream' = Append(t, event)
      BY <1>3 DEF t
    <3>3. /\ stream' \in Seq(Events) /\ Len(stream') = Len(t) + 1
          /\ \A i \in 1..Len(t) : stream'[i] = t[i]
          /\ stream'[Len(t) + 1] = event
      BY <3>1, <3>2, AppendProperties
    <3> QED
      BY <3>1, <3>3 DEF t
  <2>4. ASSUME NEW i \in 1..Len(stream'), stream'[i] # event
        PROVE  \E k \in 1..Len(stream) : stream'[i] = stream[k]
    <3>1. i \in 1..Len(Tail(stream)) /\ i + 1 \in 1..Len(stream)
      BY <2>2, <2>3, <2>4
    <3>2. stream'[i] = stream[i + 1]
      BY <2>2, <2>3, <3>1
    <3> QED
      BY <3>1, <3>2
  <2> QED
    BY <2>3, <2>4
<1>4. Len(stream) \in Nat
  OBVIOUS
<1> QED
  BY <1>1, <1>2, <1>3, <1>4, CapacityAssumption DEF Emit, eventVars

(* What is read goes from the front.                                         *)
LEMMA ReadTakes ==
    ASSUME stream \in Seq(Events), stream # <<>>, stream' = Tail(stream)
    PROVE  /\ stream' \in Seq(Events)
           /\ Head(stream) = stream[1] /\ 1 \in 1..Len(stream) /\ Head(stream) \in Events
           /\ \A i \in 1..Len(stream') : \E k \in 1..Len(stream) : stream'[i] = stream[k]
<1> HIDE DEF Events
<1>1. /\ Head(stream) = stream[1] /\ Len(stream) > 0 /\ Len(stream) \in Nat
      /\ Tail(stream) \in Seq(Events) /\ Len(Tail(stream)) = Len(stream) - 1
      /\ \A i \in 1..Len(Tail(stream)) : Tail(stream)[i] = stream[i + 1]
  BY HeadTailProperties
<1>2. ASSUME NEW i \in 1..Len(stream')
      PROVE  \E k \in 1..Len(stream) : stream'[i] = stream[k]
  <2>1. i + 1 \in 1..Len(stream) /\ stream'[i] = stream[i + 1]
    BY <1>1
  <2> QED
    BY <2>1
<1> QED
  BY <1>1, <1>2

(* What an emission, a read or neither leaves true of the stream.            *)
LEMMA StreamStaysTrue ==
    ASSUME stream \in Seq(Events), StreamIsTrue,
           job \in StoppedStates => job' \in StoppedStates,
           \/ stream' = stream
           \/ stream # <<>> /\ stream' = Tail(stream)
           \/ \E event \in Events :
                 Emit(event) /\ (event.state \in StoppedStates => job' \in StoppedStates)
    PROVE  stream' \in Seq(Events) /\ StreamIsTrue'
<1> HIDE DEF Events
<1>1. CASE stream' = stream
  BY <1>1 DEF StreamIsTrue
<1>2. CASE stream # <<>> /\ stream' = Tail(stream)
  BY <1>2, ReadTakes DEF StreamIsTrue
<1>3. ASSUME NEW event \in Events, Emit(event),
             event.state \in StoppedStates => job' \in StoppedStates
      PROVE  stream' \in Seq(Events) /\ StreamIsTrue'
  BY <1>3, EmitAdds DEF StreamIsTrue
<1> QED
  BY <1>1, <1>2, <1>3

LEMMA EventsAreEvents ==
    \A state \in JobStates \union {"none"}, activity \in BOOLEAN :
        Event(state, activity) \in Events /\ Event(state, activity).state = state
BY DEF Event, Events

-----------------------------------------------------------------------------
LEMMA CliInvInit == CliInit => CliInv
<1> SUFFICES ASSUME CliInit PROVE CliInv
  OBVIOUS
<1>1. CliTypeOK
  BY DEF CliInit, CliTypeOK, AllSteps, Attempts, JobStates, StoppedStates, TerminalStates,
     RestingStates
<1>2. SubmissionFits /\ StepsFit /\ JobFits /\ FoundFits /\ CancelsForAReason
  BY DEF CliInit, SubmissionFits, StepsFit, JobFits, FoundFits, CancelsForAReason, Watching, Waiting
<1>3. StreamIsTrue /\ RendersTheStopped /\ FailuresHaveClass /\ ExitCodeTellsTheJob
  BY DEF CliInit, StreamIsTrue, RendersTheStopped, FailuresHaveClass, ExitCodeTellsTheJob
<1> QED
  BY <1>1, <1>2, <1>3 DEF CliInv

(* Before the submission a command moves no job.                             *)
LEMMA EarlySteps ==
    ASSUME CliInv, ParseArguments \/ ResolveToolsFirst \/ RunAnalysis \/ OpenQueue \/ Subscribe
    PROVE  CliInv'
<1> USE DEF Watching, Waiting, Exit, Continue, Advance, At, userVars, jobVars, eventVars
<1>1. verb \in Verbs /\ ~accepted
  BY DEF CliInv, CliTypeOK, SubmissionFits, ParseArguments, ResolveToolsFirst, RunAnalysis,
     OpenQueue, Subscribe
<1>2. /\ UNCHANGED <<verb, job, class, attempt, found, accepted, stream>>
      /\ at' \in {"tools", "analyze", "open", "subscribe", "submit", "ask", "done"}
  <2>1. CASE ParseArguments
    BY <1>1, <2>1, StepsInOrder DEF ParseArguments
  <2>2. CASE ResolveToolsFirst
    BY <1>1, <2>2, StepsInOrder DEF ResolveToolsFirst, CliInv, StepsFit
  <2>3. CASE RunAnalysis
    BY <2>3 DEF RunAnalysis
  <2>4. CASE OpenQueue
    BY <1>1, <2>4, StepsInOrder DEF OpenQueue, CliInv, StepsFit
  <2>5. CASE Subscribe
    BY <1>1, <2>5, StepsInOrder DEF Subscribe, CliInv, StepsFit
  <2> QED
    BY <2>1, <2>2, <2>3, <2>4, <2>5
<1>3. StepsFit'
  <2>1. CASE ParseArguments
    BY <1>1, <2>1, StepsInOrder DEF ParseArguments, StepsFit, Verbs
  <2>2. CASE ResolveToolsFirst
    BY <1>1, <2>2, StepsInOrder DEF ResolveToolsFirst, CliInv, StepsFit
  <2>3. CASE RunAnalysis
    BY <2>3 DEF RunAnalysis, StepsFit
  <2>4. CASE OpenQueue
    BY <1>1, <2>4, StepsInOrder DEF OpenQueue, CliInv, StepsFit
  <2>5. CASE Subscribe
    BY <1>1, <2>5, StepsInOrder DEF Subscribe, CliInv, StepsFit
  <2> QED
    BY <2>1, <2>2, <2>3, <2>4, <2>5
<1>4. exit' = "UnsupportedContent" => verb' \in {"analyze", "download"}
  BY DEF CliInv, StepsFit, ExitCodeTellsTheJob, ParseArguments, ResolveToolsFirst, RunAnalysis,
     OpenQueue, Subscribe, AnswerCode
<1>5. CliTypeOK' /\ SubmissionFits' /\ StreamIsTrue' /\ FailuresHaveClass'
  BY <1>1, <1>2 DEF CliInv, CliTypeOK, AllSteps, SubmissionFits, StreamIsTrue, FailuresHaveClass
<1>6. RendersTheStopped' /\ JobFits' /\ FoundFits' /\ CancelsForAReason' /\ ExitCodeTellsTheJob'
  BY <1>1, <1>2, <1>4 DEF RendersTheStopped, JobFits, FoundFits, CancelsForAReason,
     ExitCodeTellsTheJob
<1> QED
  BY <1>3, <1>5, <1>6 DEF CliInv

(* The submission puts the job in the queue, or ends the command.            *)
LEMMA SubmitStep == ASSUME CliInv, Submit PROVE CliInv'
<1> USE DEF Watching, Waiting, Exit, Continue, Advance, At, userVars, jobVars, eventVars
<1>1. /\ verb \in Verbs /\ verb \in Driving /\ ~accepted /\ attempt = "none" /\ found = "none"
      /\ stream \in Seq(Events) /\ UNCHANGED <<verb, attempt, found>>
  BY DEF CliInv, CliTypeOK, StepsFit, SubmissionFits, Submit
<1>2. CASE job' = "queued" /\ Emit(Event("queued", FALSE)) /\ Continue /\ accepted' = TRUE
           /\ ~(job \in StoppedStates /\ stream # <<>>)
  <2>1. at' = "drive" /\ exit' = exit
    BY <1>1, <1>2, StepsInOrder DEF Submit
  <2>2. stream = <<>>
    BY <1>1 DEF CliInv, SubmissionFits
  <2>3. Event("queued", FALSE) \in Events /\ Event("queued", FALSE).state = "queued"
    BY EventsAreEvents DEF JobStates
  <2>4. stream' \in Seq(Events) /\ StreamIsTrue'
    <3>1. /\ stream' \in Seq(Events)
          /\ \A i \in 1..Len(stream') : stream'[i] = Event("queued", FALSE)
      <4>1. \A i \in 1..Len(stream) : FALSE
        BY <2>2
      <4> QED
        BY <1>1, <1>2, <2>3, <4>1, EmitAdds
    <3> QED
      BY <2>3, <3>1 DEF StreamIsTrue, StoppedStates, TerminalStates, RestingStates
  <2>5. CliTypeOK' /\ StepsFit' /\ SubmissionFits'
    BY <1>1, <1>2, <2>1, <2>4 DEF CliInv, CliTypeOK, AllSteps, StepsFit, SubmissionFits, JobStates
  <2>6. RendersTheStopped' /\ JobFits' /\ FoundFits' /\ CancelsForAReason' /\ FailuresHaveClass'
    BY <1>1, <1>2, <2>1 DEF RendersTheStopped, JobFits, FoundFits, CancelsForAReason,
       FailuresHaveClass, RestingStates, StoppedStates, TerminalStates
  <2>7. ExitCodeTellsTheJob'
    BY <1>1, <2>1 DEF CliInv, ExitCodeTellsTheJob
  <2> QED
    BY <2>4, <2>5, <2>6, <2>7 DEF CliInv
<1>3. CASE UNCHANGED <<jobVars, eventVars>> /\ at' = "done" /\ exit' # "UnsupportedContent"
  <2>1. CliTypeOK' /\ StepsFit' /\ SubmissionFits' /\ StreamIsTrue' /\ FailuresHaveClass'
    BY <1>1, <1>3 DEF CliInv, CliTypeOK, AllSteps, StepsFit, SubmissionFits, StreamIsTrue,
       FailuresHaveClass
  <2>2. RendersTheStopped' /\ JobFits' /\ FoundFits' /\ CancelsForAReason' /\ ExitCodeTellsTheJob'
    BY <1>1, <1>3 DEF RendersTheStopped, JobFits, FoundFits, CancelsForAReason,
       ExitCodeTellsTheJob
  <2> QED
    BY <2>1, <2>2 DEF CliInv
<1>4. stream = <<>>
  BY <1>1 DEF CliInv, SubmissionFits
<1> QED
  BY <1>2, <1>3, <1>4 DEF Submit

(* The commands that move a resting job end at once.                         *)
LEMMA AskStep == ASSUME CliInv, Ask PROVE CliInv'
<1>1. /\ at' = "done" /\ exit' # "UnsupportedContent"
      /\ UNCHANGED <<verb, accepted, stream, attempt, found>> /\ ~accepted
      /\ job' \in {job, "none", "paused", "cancelled"}
      /\ job' = "failed" => class' = class /\ job' = job
  BY DEF CliInv, SubmissionFits, Watching, Waiting, Ask, At, Exit, AnswerCode, userVars, eventVars
<1>2. CliTypeOK' /\ StepsFit' /\ SubmissionFits'
  BY <1>1 DEF CliInv, CliTypeOK, AllSteps, StepsFit, SubmissionFits, Watching, Waiting, JobStates,
     StoppedStates, TerminalStates, RestingStates
<1>3. StreamIsTrue'
  <2>1. stream' = <<>>
    BY <1>1 DEF CliInv, SubmissionFits
  <2> QED
    BY <2>1 DEF StreamIsTrue
<1>4. RendersTheStopped' /\ JobFits' /\ FoundFits' /\ CancelsForAReason' /\ FailuresHaveClass'
      /\ ExitCodeTellsTheJob'
  BY <1>1 DEF CliInv, RendersTheStopped, JobFits, FoundFits, CancelsForAReason, FailuresHaveClass,
     ExitCodeTellsTheJob
<1> QED
  BY <1>2, <1>3, <1>4 DEF CliInv

-----------------------------------------------------------------------------
(* What the queue does with the job.                                         *)

(* What every step of the queue leaves alone, and what it keeps of a job     *)
(* that has stopped.                                                         *)
LEMMA JobStays ==
    ASSUME CliInv, JobSteps \/ OtherAdvances
    PROVE  /\ accepted /\ at \in Watching
           /\ UNCHANGED <<verb, at, exit, found, pressed, broken, accepted>>
           /\ job \in StoppedStates => job' = job
           /\ job' \in JobStates /\ attempt' \in Attempts
           /\ job' = "failed" => class' \in Classes
<1> USE DEF Queued, Alive, QueueOnly, userVars, stepVars, JobStates, StoppedStates, TerminalStates,
            RestingStates, ActiveStates
<1>0. accepted => job \in JobStates /\ attempt \in Attempts /\ (job = "failed" => class \in Classes)
  BY DEF CliInv, CliTypeOK, JobFits, FailuresHaveClass
<1>1. CASE Claim
  BY <1>0, <1>1 DEF CliInv, SubmissionFits, Claim, Attempts
<1>2. CASE Overlook
  BY <1>0, <1>2 DEF CliInv, SubmissionFits, Overlook, Attempts
<1>3. CASE Register
  BY <1>0, <1>3 DEF CliInv, SubmissionFits, Register, Attempts, MayWrite, CanTransitionTo,
     Successors, Classes
<1>4. CASE JobAdvances
  BY <1>0, <1>4 DEF CliInv, SubmissionFits, JobAdvances, Successors
<1>5. CASE Finish
  <2>1. /\ accepted /\ at \in Watching /\ attempt' \in Attempts
        /\ UNCHANGED <<verb, at, exit, found, pressed, broken, accepted>>
    BY <1>5 DEF CliInv, SubmissionFits, Finish, Attempts
  <2>2. job \in ActiveStates \/ job = "cancelled"
    BY <1>5, <2>1 DEF CliInv, JobFits, Finish
  <2>3. job' \in JobStates /\ (job' = "failed" => class' \in Classes)
    BY <1>0, <1>5, <2>1 DEF Finish
  <2>4. job = "cancelled" => job' = job
    BY <1>5 DEF Finish, MayWrite, CanTransitionTo, Successors
  <2> QED
    BY <2>1, <2>2, <2>3, <2>4
<1>6. CASE Retire
  BY <1>0, <1>6 DEF CliInv, SubmissionFits, Retire, Attempts
<1>7. CASE OtherAdvances
  BY <1>0, <1>7 DEF CliInv, SubmissionFits, OtherAdvances
<1> QED
  BY <1>1, <1>2, <1>3, <1>4, <1>5, <1>6, <1>7 DEF JobSteps

(* The events of the queue say what the row says.                            *)
LEMMA JobEvents ==
    ASSUME CliInv, JobSteps \/ OtherAdvances
    PROVE  stream' \in Seq(Events) /\ StreamIsTrue'
<1>1. /\ stream \in Seq(Events) /\ StreamIsTrue
      /\ job \in StoppedStates => job' \in StoppedStates
      /\ job' \in JobStates
  BY JobStays DEF CliInv, CliTypeOK
<1>2. \/ stream' = stream
      \/ \E activity \in BOOLEAN : Emit(Event(job', activity))
      \/ Emit(OtherEvent)
  BY DEF JobSteps, Claim, Overlook, Register, JobAdvances, Finish, Retire, OtherAdvances, eventVars
<1>3. ASSUME NEW activity \in BOOLEAN, Emit(Event(job', activity))
      PROVE  \E event \in Events :
                Emit(event) /\ (event.state \in StoppedStates => job' \in StoppedStates)
  BY <1>1, <1>3, EventsAreEvents
<1>4. CASE Emit(OtherEvent)
  <2>1. OtherEvent \in Events /\ OtherEvent.state \notin StoppedStates
    <3>1. OtherEvent \in Events /\ OtherEvent.state = "none"
      BY EventsAreEvents DEF OtherEvent
    <3> QED
      BY <3>1 DEF StoppedStates, TerminalStates, RestingStates
  <2> QED
    BY <1>1, <1>4, <2>1, StreamStaysTrue
<1> QED
  BY <1>1, <1>2, <1>3, <1>4, StreamStaysTrue

LEMMA JobStep == ASSUME CliInv, JobSteps \/ OtherAdvances PROVE CliInv'
<1>1. /\ accepted /\ at \in Watching
      /\ UNCHANGED <<verb, at, exit, found, pressed, broken, accepted>>
      /\ job \in StoppedStates => job' = job
      /\ job' \in JobStates /\ attempt' \in Attempts
      /\ job' = "failed" => class' \in Classes
  BY JobStays
<1>2. CliTypeOK' /\ StepsFit' /\ SubmissionFits' /\ StreamIsTrue' /\ FailuresHaveClass'
  BY <1>1, JobEvents DEF CliInv, CliTypeOK, StepsFit, SubmissionFits, FailuresHaveClass
<1>3. RendersTheStopped' /\ CancelsForAReason'
  BY <1>1 DEF CliInv, RendersTheStopped, CancelsForAReason
<1>4. FoundFits'
  BY <1>1 DEF CliInv, FoundFits
<1>5. ExitCodeTellsTheJob'
  BY <1>1 DEF CliInv, ExitCodeTellsTheJob, Watching, Waiting
<1>6. JobFits'
  <2> USE DEF ActiveStates, RestingStates, Queued, CliInv, JobFits
  <2>1. CASE Claim
    BY <1>1, <2>1 DEF Claim
  <2>2. CASE Overlook
    BY <1>1, <2>2 DEF Overlook
  <2>3. CASE Register
    BY <1>1, <2>3 DEF Register
  <2>4. CASE JobAdvances
    BY <1>1, <2>4 DEF JobAdvances
  <2>5. CASE Finish
    <3>1. job' \notin RestingStates \union {"none"}
      BY <1>1, <2>5 DEF Finish
    <3>2. attempt' \in {"written", "unwritten"}
      BY <2>5 DEF Finish
    <3> QED
      BY <3>1, <3>2
  <2>6. CASE Retire
    BY <1>1, <2>6 DEF Retire
  <2>7. CASE OtherAdvances
    BY <1>1, <2>7 DEF OtherAdvances
  <2> QED
    BY <2>1, <2>2, <2>3, <2>4, <2>5, <2>6, <2>7 DEF JobSteps
<1> QED
  BY <1>2, <1>3, <1>4, <1>5, <1>6 DEF CliInv

-----------------------------------------------------------------------------
(* What the watching command does.                                           *)

(* A command that ends while it watches its job tells what became of it.     *)
Tells ==
    /\ exit' = "Success" => job' = "completed"
    /\ exit' = "Paused" => job' \in RestingStates
    /\ exit' = "Cancelled" => job' = "cancelled"
    /\ exit' = "DownloadFailure" => job' = "failed" /\ class' = "process"
    /\ job' = "completed" /\ exit' # "Success" => pressed' \/ broken' # {}
    /\ exit' = "PersistenceFailure" => pressed' \/ (job' = "failed" /\ class' = "internal")
    /\ attempt' = "running" => found' \in {"queued", "unread"}
    /\ exit' # "UnsupportedContent"

(* It leaves the job, and goes on watching or ends as it should.             *)
LEMMA WatchStep ==
    ASSUME CliInv, at \in Watching,
           UNCHANGED <<verb, pressed, broken, job, class, attempt, accepted>>,
           \/ stream' = stream
           \/ stream # <<>> /\ stream' = Tail(stream),
           \/ at' \in Watching /\ exit' = exit
           \/ at' = "done" /\ Tells,
           \/ found' = found
           \/ found' \in {job, "unread"} /\ at \notin {"render", "done"},
           at' \in {"cancel", "abandon"} => found' # "none",
           at = "render" => at' = "done",
           at' = "render" => job \in StoppedStates,
           at' \in {"cancel", "cancelling"} => pressed,
           at' \in {"abandon", "abandoning"} => broken # {}
    PROVE  CliInv'
<1>1. stream' \in Seq(Events) /\ StreamIsTrue'
  BY StreamStaysTrue DEF CliInv, CliTypeOK
<1>2. accepted /\ job \in JobStates /\ accepted'
  BY DEF CliInv, SubmissionFits, CliTypeOK, JobFits
<1>3. CliTypeOK' /\ StepsFit' /\ SubmissionFits' /\ FailuresHaveClass'
  BY <1>1, <1>2 DEF CliInv, CliTypeOK, AllSteps, StepsFit, SubmissionFits, FailuresHaveClass,
     Watching, Waiting
<1>4. RendersTheStopped' /\ CancelsForAReason'
  BY DEF RendersTheStopped, CancelsForAReason
<1>5. JobFits'
  BY <1>2 DEF CliInv, JobFits, Watching, Waiting, RestingStates
<1>6. FoundFits'
  BY <1>2 DEF CliInv, FoundFits, JobFits, RestingStates, StoppedStates, TerminalStates
<1>7. ExitCodeTellsTheJob'
  BY DEF CliInv, ExitCodeTellsTheJob, Tells, Watching, Waiting
<1> QED
  BY <1>1, <1>3, <1>4, <1>5, <1>6, <1>7 DEF CliInv

(* Printing fails: a cancel begins.                                          *)
LEMMA NewsBreak == ~NewsArrives => broken # {}
BY DEF NewsArrives

LEMMA ReadStep == ASSUME CliInv, ReadLag \/ ReadEvent PROVE CliInv'
<1>1. /\ at = "drive" /\ at \in Watching /\ stream \in Seq(Events)
      /\ UNCHANGED <<verb, pressed, broken, job, class, attempt, accepted>>
  BY DEF ReadLag, ReadEvent, At, CliInv, CliTypeOK, userVars, jobVars, Watching
<1>2. stream' = stream \/ (stream # <<>> /\ stream' = Tail(stream))
  BY DEF ReadLag, ReadEvent
<1>3. accepted /\ job # "none"
  BY <1>1 DEF CliInv, SubmissionFits, JobFits
<1>4. CASE BeginCancel("abandon") /\ ~NewsArrives
  BY <1>1, <1>2, <1>3, <1>4, NewsBreak, WatchStep DEF BeginCancel, Watching
<1>5. CASE UNCHANGED <<at, exit, found>>
  BY <1>1, <1>2, <1>3, <1>5, WatchStep DEF Watching
<1>6. CASE /\ stream # <<>> /\ Head(stream).state \in StoppedStates
           /\ at' = "render" /\ UNCHANGED <<exit, found>>
  <2>1. job \in StoppedStates
    <3>1. Head(stream) = stream[1] /\ 1 \in 1..Len(stream)
      <4>1. Head(stream) = stream[1] /\ Len(stream) > 0 /\ Len(stream) \in Nat
        BY <1>1, <1>6, HeadTailProperties
      <4> QED
        BY <4>1
    <3> QED
      BY <1>6, <3>1 DEF CliInv, StreamIsTrue
  <2> QED
    BY <1>1, <1>2, <1>6, <2>1, WatchStep DEF Watching
<1> QED
  BY <1>4, <1>5, <1>6 DEF ReadLag, ReadEvent

(* Ctrl-C: a cancel begins.                                                  *)
LEMMA ForwardStep == ASSUME CliInv, ForwardCancel PROVE CliInv'
<1>1. /\ at = "drive" /\ at \in Watching /\ pressed
      /\ UNCHANGED <<verb, pressed, broken, job, class, attempt, accepted, stream>>
  BY DEF ForwardCancel, At, userVars, jobVars, eventVars, Watching
<1>2. accepted /\ job # "none"
  BY <1>1 DEF CliInv, SubmissionFits, JobFits
<1> QED
  BY <1>1, <1>2, WatchStep DEF ForwardCancel, BeginCancel, Watching

(* An attempt is waited for.                                                 *)
LEMMA CancelRunningStep == ASSUME CliInv, CancelRunning PROVE CliInv'
<1>1. /\ at \in {"cancel", "abandon"} /\ at \in Watching
      /\ UNCHANGED <<verb, pressed, broken, job, class, attempt, accepted, stream, found, exit>>
      /\ at' = IF at = "cancel" THEN "cancelling" ELSE "abandoning"
  BY DEF CancelRunning, Cancelling, At, userVars, eventVars, Watching
<1> QED
  BY <1>1, WatchStep DEF CliInv, CancelsForAReason, Watching, Waiting

(* What a command that cancels ends with, if its job is left as it is.       *)
LEMMA EndsTold ==
    ASSUME CliInv, at \in {"cancel", "abandon"} \union Waiting,
           UNCHANGED <<pressed, broken, job, class, attempt>>,
           \/ at \in {"cancel", "cancelling"} /\ exit' \in {"OutputFailure", "PersistenceFailure"}
           \/ exit' = "InternalFailure",
           at \in {"abandon", "abandoning"} => exit' = "InternalFailure",
           at \in {"cancel", "cancelling"} => exit' # "InternalFailure",
           attempt = "running" => found' \in {"queued", "unread"}
    PROVE  Tells
<1>1. at \in {"cancel", "cancelling"} => pressed
  BY DEF CliInv, CancelsForAReason
<1>2. at \in {"abandon", "abandoning"} => broken # {}
  BY DEF CliInv, CancelsForAReason
<1> QED
  BY <1>1, <1>2 DEF Tells, Waiting

(* A job read as waiting is cancelled, or left with the command's end.       *)
LEMMA CancelWaitingStep == ASSUME CliInv, CancelWaiting PROVE CliInv'
<1>1. /\ at \in {"cancel", "abandon"} /\ at \in Watching
      /\ UNCHANGED <<verb, pressed, broken, class, attempt, accepted, found>>
  BY DEF CancelWaiting, Cancelling, At, userVars, Watching
<1>2. accepted /\ found = "queued"
  BY <1>1 DEF CliInv, SubmissionFits, FoundFits, CancelWaiting, Cancellable
<1>3. CASE /\ \E code \in {"OutputFailure", "PersistenceFailure"} : EndCancel(code)
           /\ UNCHANGED <<job, eventVars>>
  <2>1. /\ at' = "done" /\ UNCHANGED <<job, stream>>
        /\ at = "cancel" => exit' \in {"OutputFailure", "PersistenceFailure"}
        /\ at = "abandon" => exit' = "InternalFailure"
    BY <1>1, <1>3 DEF EndCancel, Exit, At, eventVars
  <2>2. Tells
    BY <1>1, <1>2, <2>1, EndsTold
  <2> QED
    BY <1>1, <1>2, <2>1, <2>2, WatchStep
<1>4. CASE /\ MayWrite(job, "cancelled") /\ job' = "cancelled" /\ Emit(Event("cancelled", FALSE))
           /\ IF At("cancel") THEN at' = "render" /\ UNCHANGED exit ELSE EndCancel("Cancelled")
  <2>1. \/ at' = "render" /\ exit' = exit
        \/ at' = "done" /\ exit' = "InternalFailure"
    BY <1>4 DEF EndCancel, Exit
  <2>2. /\ stream' \in Seq(Events) /\ StreamIsTrue'
    <3>1. /\ Event("cancelled", FALSE) \in Events
          /\ "cancelled" \in StoppedStates
      BY EventsAreEvents DEF JobStates, StoppedStates, TerminalStates
    <3> QED
      BY <1>4, <3>1, StreamStaysTrue DEF CliInv, CliTypeOK
  <2>3. CliTypeOK' /\ StepsFit' /\ SubmissionFits' /\ FailuresHaveClass'
    BY <1>1, <1>2, <1>4, <2>1, <2>2 DEF CliInv, CliTypeOK, AllSteps, StepsFit, SubmissionFits,
       FailuresHaveClass, Watching, Waiting, JobStates, StoppedStates, TerminalStates
  <2>4. RendersTheStopped' /\ CancelsForAReason'
    BY <1>4, <2>1 DEF RendersTheStopped, CancelsForAReason, StoppedStates, TerminalStates
  <2>5. JobFits' /\ FoundFits'
    BY <1>1, <1>2, <1>4, <2>1 DEF CliInv, JobFits, FoundFits, RestingStates, StoppedStates,
       TerminalStates
  <2>6. ExitCodeTellsTheJob'
    BY <1>1, <1>2, <1>4, <2>1 DEF CliInv, ExitCodeTellsTheJob
  <2> QED
    BY <2>2, <2>3, <2>4, <2>5, <2>6 DEF CliInv
<1> QED
  BY <1>3, <1>4 DEF CancelWaiting

(* A job that is not cancelled does not run, or could not be read.           *)
LEMMA CancelRefusedStep == ASSUME CliInv, CancelRefused PROVE CliInv'
<1>1. /\ at \in {"cancel", "abandon"} /\ at \in Watching
      /\ UNCHANGED <<verb, pressed, broken, job, class, attempt, accepted, stream, found>>
      /\ at' = "done"
      /\ at = "cancel" => exit' = "PersistenceFailure"
      /\ at = "abandon" => exit' = "InternalFailure"
  BY DEF CancelRefused, Cancelling, EndCancel, Exit, At, userVars, jobVars, eventVars, Watching
<1>2. ASSUME attempt = "running" PROVE found = "unread"
  <2>1. accepted /\ found # "none" /\ found \in {"none", "unread"} \union JobStates
    BY <1>1 DEF CliInv, SubmissionFits, FoundFits, CliTypeOK
  <2>2. found \notin Cancellable /\ found \notin ActiveStates
    BY <1>2 DEF CancelRefused, Reachable
  <2>3. job \in ActiveStates
    BY <1>1, <1>2, <2>1 DEF CliInv, JobFits
  <2>4. found \notin StoppedStates
    BY <2>1, <2>3 DEF CliInv, FoundFits, ActiveStates, StoppedStates, TerminalStates, RestingStates
  <2> QED
    BY <2>1, <2>2, <2>4 DEF JobStates, Cancellable
<1>3. Tells
  BY <1>1, <1>2, EndsTold
<1> QED
  BY <1>1, <1>3, WatchStep

(* The wait for the attempt returns when it has stopped, or cannot read it.  *)
LEMMA CancelReturnsStep == ASSUME CliInv, CancelReturns \/ WaitFails PROVE CliInv'
<1>1. /\ at \in Waiting /\ at \in Watching
      /\ UNCHANGED <<verb, pressed, broken, job, class, attempt, accepted, stream>>
  BY DEF CancelReturns, WaitFails, At, userVars, jobVars, eventVars, Watching, Waiting
<1>2. CASE WaitFails
  <2>1. /\ at' = "done" /\ found' = "unread"
        /\ at = "cancelling" => exit' = "PersistenceFailure"
        /\ at = "abandoning" => exit' = "InternalFailure"
    BY <1>2 DEF WaitFails, Exit, At
  <2>2. Tells
    BY <1>1, <2>1, EndsTold DEF Waiting
  <2> QED
    BY <1>1, <2>1, <2>2, WatchStep DEF Waiting
<1>3. CASE CancelReturns /\ at = "abandoning"
  <2>1. /\ at' = "done" /\ exit' = "InternalFailure" /\ found' = found /\ job \in StoppedStates
    BY <1>3 DEF CancelReturns, Exit, At
  <2>2. attempt # "running"
    BY <1>1, <1>3, <2>1 DEF CliInv, SubmissionFits, JobFits, ActiveStates, StoppedStates,
       TerminalStates, RestingStates
  <2>3. Tells
    BY <1>1, <1>3, <2>1, <2>2, EndsTold
  <2> QED
    BY <1>1, <2>1, <2>3, WatchStep DEF Waiting
<1>4. CASE CancelReturns /\ at = "cancelling"
  <2>1. /\ at' \in {"render", "drive"} /\ UNCHANGED <<exit, found>> /\ job \in StoppedStates
    BY <1>4 DEF CancelReturns, At
  <2> QED
    BY <1>1, <1>4, <2>1, WatchStep DEF Waiting, Watching
<1> QED
  BY <1>1, <1>2, <1>3, <1>4 DEF Waiting

(* The exit code is that of the state the job stopped in.                    *)
LEMMA RenderStep == ASSUME CliInv, RenderCompletion PROVE CliInv'
<1>1. /\ at = "render" /\ at \in Watching /\ job \in StoppedStates /\ at' = "done"
      /\ UNCHANGED <<verb, pressed, broken, class, attempt, accepted, found, job, stream>>
  BY DEF RenderCompletion, At, Exit, CliInv, RendersTheStopped, userVars, jobVars, eventVars,
     Watching
<1>2. job = "failed" => class \in Classes
  BY DEF CliInv, FailuresHaveClass
<1>3. exit' = CompletionCode \/ (exit' = "InternalFailure" /\ broken # {})
  BY DEF RenderCompletion, Exit, AnswerArrives
<1>4. /\ job = "completed" => CompletionCode = "Success"
      /\ job = "cancelled" => CompletionCode = "Cancelled"
      /\ job \in RestingStates => CompletionCode = "Paused"
      /\ job = "failed" =>
            /\ CompletionCode \in {"InvalidInput", "OutputFailure", "PersistenceFailure",
                                   "DownloadFailure"}
            /\ CompletionCode = "PersistenceFailure" => class = "internal"
            /\ CompletionCode = "DownloadFailure" => class = "process"
  BY <1>1, <1>2 DEF CompletionCode, FailureCode, RestingStates, Classes
<1>5. attempt = "running" => found = "queued"
  BY <1>1 DEF CliInv, SubmissionFits, JobFits, ActiveStates, StoppedStates, TerminalStates,
     RestingStates
<1>6. Tells
  <2>1. CASE exit' = "InternalFailure" /\ broken # {}
    BY <1>1, <1>5, <2>1 DEF Tells
  <2>2. CASE exit' = CompletionCode
    BY <1>1, <1>4, <1>5, <2>2 DEF Tells, StoppedStates, TerminalStates, RestingStates
  <2> QED
    BY <1>3, <2>1, <2>2
<1> QED
  BY <1>1, <1>6, WatchStep

-----------------------------------------------------------------------------
LEMMA CliInvStep == ASSUME CliInv, [CliNext]_cliVars PROVE CliInv'
<1>1. CASE PressCtrlC \/ BreakOutput \/ UNCHANGED cliVars
  <2>1. /\ UNCHANGED <<verb, at, exit, found, job, class, attempt, stream, accepted>>
        /\ pressed => pressed'
        /\ broken # {} => broken' # {}
    BY <1>1 DEF PressCtrlC, BreakOutput, cliVars, userVars, stepVars, jobVars, eventVars
  <2>2. CliTypeOK' /\ StepsFit' /\ SubmissionFits' /\ StreamIsTrue' /\ RendersTheStopped'
    BY <2>1 DEF CliInv, CliTypeOK, StepsFit, SubmissionFits, StreamIsTrue, RendersTheStopped
  <2>3. JobFits' /\ FoundFits' /\ CancelsForAReason' /\ FailuresHaveClass' /\ ExitCodeTellsTheJob'
    BY <2>1 DEF CliInv, JobFits, FoundFits, CancelsForAReason, FailuresHaveClass,
       ExitCodeTellsTheJob
  <2> QED
    BY <2>2, <2>3 DEF CliInv
<1>2. CASE CliSteps
  BY <1>2, EarlySteps, SubmitStep, AskStep, ReadStep, ForwardStep, CancelRunningStep,
     CancelWaitingStep, CancelRefusedStep, CancelReturnsStep, RenderStep
     DEF CliSteps
<1> QED
  BY <1>1, <1>2, JobStep, CancelReturnsStep DEF CliNext

(* Whatever the user, the queue and the readers of the outputs do, and       *)
(* whatever read or write of the queue fails: a command that submitted a job *)
(* ends with success only if the download completed, with 6 only if its row  *)
(* was cancelled, with 9 only if it rests, with the code of a failure only   *)
(* if it failed for that reason, and it leaves no attempt running, except    *)
(* one claimed after its cancel had read the job as queued, or one the       *)
(* cancel could not read (run and drive of the command line).                *)
THEOREM ExitCodesAreTrue == CliInit /\ [][CliNext]_cliVars => []ExitCodeTellsTheJob
<1>1. CliInv => ExitCodeTellsTheJob
  BY DEF CliInv
<1>2. CliInv /\ [CliNext]_cliVars => CliInv'
  BY CliInvStep
<1> QED
  BY <1>1, <1>2, CliInvInit, PTL
=============================================================================
