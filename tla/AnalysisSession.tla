---------------------------- MODULE AnalysisSession ----------------------------
(* The one analysis of the desktop: the workspace of the window, which asks, *)
(* stops and shows (lib/controller/workspace.ts), and the service behind it, *)
(* which runs at most one (src-tauri/src/service.rs).  A call is named by    *)
(* the generation it was made in; calls reach the service in any order.      *)
EXTENDS Naturals, FiniteSets

CONSTANTS
    MaxGeneration  \* bound: how often the user asks or stops

ASSUME SessionAssumption == MaxGeneration \in Nat

VARIABLES
    analysis,    \* what the window shows: idle, loading, ready or error
    shown,       \* the call whose answer is shown; 0 when there is none
    generation,  \* analysisGeneration
    calls,       \* each call: none, waiting, sent, running, stopped, an answer, over
    awaits,      \* how many stops each waiting call waits for
    stops,       \* how many stops were requested
    stopped,     \* how many of them have returned
    stopping,    \* where the next of them is: here, sent or handled
    active,      \* active_analysis; 0 when there is none
    overtaken    \* history: calls that were stopped by the late start of an older one

sessionVars == <<analysis, shown, generation, calls, awaits, stops, stopped, stopping,
                 active, overtaken>>

CallIds  == 1..MaxGeneration
Answers  == {"media", "failure", "cancelled"}
Running  == {c \in CallIds : calls[c] = "running"}

SessionInit ==
    /\ analysis = "idle" /\ shown = 0 /\ generation = 0
    /\ calls = [c \in CallIds |-> "none"]
    /\ awaits = [c \in CallIds |-> 0]
    /\ stops = 0 /\ stopped = 0 /\ stopping = "here"
    /\ active = 0 /\ overtaken = {}

-----------------------------------------------------------------------------
(* The window.                                                               *)

(* Without an address nothing is asked.                                      *)
AnalyzeNothing ==
    /\ analysis # "loading"
    /\ analysis' = "error" /\ shown' = 0
    /\ UNCHANGED <<generation, calls, awaits, stops, stopped, stopping, active, overtaken>>

AnalyzeCurrent ==
    /\ analysis # "loading" /\ generation < MaxGeneration
    /\ generation' = generation + 1
    /\ analysis' = "loading" /\ shown' = 0
    /\ calls' = [calls EXCEPT ![generation + 1] = "waiting"]
    /\ awaits' = [awaits EXCEPT ![generation + 1] = stops]
    /\ UNCHANGED <<stops, stopped, stopping, active, overtaken>>

(* The call is made once the stops requested before it have returned, unless *)
(* something was asked or stopped since.                                     *)
Proceed(c) ==
    /\ calls[c] = "waiting" /\ stopped >= awaits[c]
    /\ calls' = [calls EXCEPT ![c] = IF generation = c THEN "sent" ELSE "over"]
    /\ UNCHANGED <<analysis, shown, generation, awaits, stops, stopped, stopping, active, overtaken>>

(* Stop, and also a reconnection: what is loading is given up at once.       *)
CancelCurrent ==
    /\ analysis = "loading" /\ generation < MaxGeneration
    /\ generation' = generation + 1
    /\ analysis' = "idle"
    /\ stops' = stops + 1
    /\ UNCHANGED <<shown, calls, awaits, stopped, stopping, active, overtaken>>

(* Stops go to the service one after the other, and return even in error.    *)
SendStop ==
    /\ stopping = "here" /\ stopped < stops
    /\ stopping' = "sent"
    /\ UNCHANGED <<analysis, shown, generation, calls, awaits, stops, stopped, active, overtaken>>
StopReturns ==
    /\ stopping = "handled"
    /\ stopping' = "here" /\ stopped' = stopped + 1
    /\ UNCHANGED <<analysis, shown, generation, calls, awaits, stops, active, overtaken>>

(* Mutant of Settle: an answer is shown whenever it comes.                   *)
SettleAlways(c) ==
    /\ calls[c] \in Answers
    /\ calls' = [calls EXCEPT ![c] = "over"]
    /\ analysis' = CASE calls[c] = "media" -> "ready" [] calls[c] = "failure" -> "error"
                     [] OTHER -> "idle"
    /\ shown' = IF calls[c] = "cancelled" THEN 0 ELSE c
    /\ UNCHANGED <<generation, awaits, stops, stopped, stopping, active, overtaken>>

(* The answer of the last call is shown; any other is dropped.               *)
Settle(c) ==
    /\ calls[c] \in Answers
    /\ calls' = [calls EXCEPT ![c] = "over"]
    /\ IF generation # c
       THEN UNCHANGED <<analysis, shown>>
       ELSE /\ analysis' = CASE calls[c] = "media" -> "ready" [] calls[c] = "failure" -> "error"
                             [] OTHER -> "idle"
            /\ shown' = IF calls[c] = "cancelled" THEN 0 ELSE c
    /\ UNCHANGED <<generation, awaits, stops, stopped, stopping, active, overtaken>>

-----------------------------------------------------------------------------
(* The service.                                                              *)

(* cancel_analysis: whatever is active is stopped, if anything is.           *)
HandleStop ==
    /\ stopping = "sent"
    /\ stopping' = "handled"
    /\ calls' = IF active \in Running THEN [calls EXCEPT ![active] = "stopped"] ELSE calls
    /\ active' = 0
    /\ UNCHANGED <<analysis, shown, generation, awaits, stops, stopped, overtaken>>

(* An address that is not one of a video is refused before anything starts.  *)
RefuseCall(c) ==
    /\ calls[c] = "sent"
    /\ calls' = [calls EXCEPT ![c] = "failure"]
    /\ UNCHANGED <<analysis, shown, generation, awaits, stops, stopped, stopping, active, overtaken>>

(* start_analysis: the analysis that was active is stopped.                  *)
StartCall(c) ==
    /\ calls[c] = "sent"
    /\ calls' = [d \in CallIds |-> CASE d = c -> "running"
                                     [] d = active /\ d \in Running -> "stopped"
                                     [] OTHER -> calls[d]]
    /\ active' = c
    /\ overtaken' = IF active > c THEN overtaken \union {active} ELSE overtaken
    /\ UNCHANGED <<analysis, shown, generation, awaits, stops, stopped, stopping>>

(* The analysis ends, as cancelled or just before it noticed.                *)
FinishCall(c) ==
    /\ calls[c] \in {"running", "stopped"}
    /\ \E answer \in IF calls[c] = "running" THEN Answers \ {"cancelled"} ELSE Answers :
          calls' = [calls EXCEPT ![c] = answer]
    /\ active' = IF active = c THEN 0 ELSE active
    /\ UNCHANGED <<analysis, shown, generation, awaits, stops, stopped, stopping, overtaken>>

SessionNext ==
    \/ AnalyzeNothing \/ AnalyzeCurrent \/ CancelCurrent
    \/ SendStop \/ HandleStop \/ StopReturns
    \/ \E c \in CallIds :
          Proceed(c) \/ RefuseCall(c) \/ StartCall(c) \/ FinishCall(c) \/ Settle(c)

SessionSpec == SessionInit /\ [][SessionNext]_sessionVars

-----------------------------------------------------------------------------
(* What is shown is the answer to what was asked last, and nothing shown     *)
(* outlives a stop; at most one analysis runs that nobody has stopped, and   *)
(* it is the one the service can stop.  An analysis the user did not stop    *)
(* ends as stopped only if an older call reached the service after it        *)
(* (service.rs:702, service.rs:378).                                         *)
ShownAnalysisIsLatest ==
    /\ analysis \in {"ready", "error"} /\ shown # 0 => shown = generation
    /\ analysis = "loading" => shown = 0 /\ calls[generation] # "over"
    /\ Cardinality(Running) <= 1 /\ Running \subseteq {active}
    /\ \A c \in CallIds : calls[c] = "cancelled" /\ generation = c => c \in overtaken
=============================================================================
