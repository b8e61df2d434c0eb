--------------------------- MODULE DownloadProgress ---------------------------
(* The progress a download reports (download/progress.rs and the loops that  *)
(* feed it in download/service.rs): the records of a tool are cut out of the *)
(* reads of its pipes, a record becomes a report of its source, and the      *)
(* reports of the sources become the one progress that is shown.             *)
(* A percentage is counted in parts of 10,000.                               *)
EXTENDS Integers, Sequences, FiniteSets, TLC

CONSTANTS
    MaxLine,   \* MAX_PROTOCOL_LINE_BYTES
    MaxLines,  \* MAX_PROTOCOL_LINES
    MaxUnit    \* u32::MAX: what a percentage is computed from is scaled below it

ASSUME ProgressAssumption ==
    /\ MaxLine \in Nat /\ MaxLines \in Nat
    /\ MaxUnit \in Nat /\ MaxUnit > 1

Unknown    == -1
EtaSamples == 3
Whole      == 10000
AlmostAll  == 9900

-----------------------------------------------------------------------------
(* ProtocolLines.  A read is a sequence of pieces: its size without the      *)
(* newline, whether the newline follows, and what it holds: a whole report,  *)
(* the "start" of one, the "rest" of it, "noise", or bytes that are "bad".   *)

SumOf(numbers) ==
    LET total[n \in 0..Len(numbers)] == IF n = 0 THEN 0 ELSE total[n - 1] + numbers[n]
    IN  total[Len(numbers)]

LineSize(pieces)   == SumOf([i \in 1..Len(pieces) |-> pieces[i].size])
BufferSize(pieces) ==
    SumOf([i \in 1..Len(pieces) |-> pieces[i].size + (IF pieces[i].ends THEN 1 ELSE 0)])

NewLines == [pending |-> <<>>, observed |-> 0, invalid |-> "none", lines |-> <<>>]

Spoiled(protocol, why) == [protocol EXCEPT !.pending = <<>>, !.invalid = why]

(* One line is drained at its newline.                                       *)
TakePiece(protocol, piece) ==
    LET line == Append(protocol.pending, piece)
    IN  IF protocol.invalid # "none"       THEN protocol
        ELSE IF ~piece.ends                THEN [protocol EXCEPT !.pending = line]
        ELSE IF protocol.observed >= MaxLines THEN Spoiled(protocol, "count")
        ELSE IF LineSize(line) > MaxLine   THEN Spoiled(protocol, "length")
        ELSE IF \E i \in DOMAIN line : line[i].holds = "bad" THEN Spoiled(protocol, "encoding")
        ELSE [protocol EXCEPT !.pending = <<>>, !.observed = @ + 1, !.lines = Append(@, line)]

TakenPieces(protocol, read) ==
    LET after[n \in 0..Len(read)] ==
            IF n = 0 THEN protocol ELSE TakePiece(after[n - 1], read[n])
    IN  after

(* The buffer is bounded before any line is taken out of it.                 *)
Push(protocol, read) ==
    LET quiet == [protocol EXCEPT !.lines = <<>>]
    IN  IF protocol.invalid # "none" THEN quiet
        ELSE IF BufferSize(protocol.pending \o read) > 2 * MaxLine
             THEN Spoiled(quiet, "length")
        ELSE TakenPieces(quiet, read)[Len(read)]

-----------------------------------------------------------------------------
(* One report.                                                               *)

Lower(a, b)  == IF a < b THEN a ELSE b
Higher(a, b) == IF a > b THEN a ELSE b
Known(number, other) == IF number = Unknown THEN other ELSE number
Positive(number) == IF number = 0 THEN Unknown ELSE number

(* The percentage of completed in total; large numbers are scaled first.     *)
Percent(completed, total) ==
    LET scale == total \div MaxUnit + 1
    IN  IF total <= 0 THEN Unknown
        ELSE (Whole * (Lower(completed, total) \div scale)) \div (total \div scale)

MakeProgress(stage, completed, total, speed, eta) ==
    [stage |-> stage, completed |-> completed, total |-> total, speed |-> speed, eta |-> eta,
     percent |-> Percent(completed, total)]

IsReport(line) ==
    LET held == [i \in DOMAIN line |-> line[i].holds]
    IN  /\ held = <<"report">> \/ held = <<"start", "rest">>
        /\ line[1].report.status \in {"downloading", "finished"}
        /\ line[1].report.completed # Unknown

(* The exact total is preferred; a finished source has no speed left.        *)
ParseYtdlp(line) ==
    LET r == line[1].report
        Running(number) == IF r.status = "downloading" THEN number ELSE Unknown
    IN  MakeProgress("downloading", r.completed, Positive(Known(r.exact, r.estimate)),
                     Running(r.speed), Running(r.eta))

(* FFmpeg reports the time it has produced, which may go back.               *)
ParseFfmpeg(reached, time, duration) == Higher(reached, Lower(time, duration))

-----------------------------------------------------------------------------
(* DownloadProgressAggregator.                                               *)

(* A source that has told nothing counts as one that does not know its size.*)
Silent == MakeProgress("downloading", 0, Unknown, Unknown, Unknown)

NewAggregator(expected, estimate) ==
    [expected |-> expected, estimate |-> Positive(estimate),
     sources |-> [s \in 1..expected |-> Silent], displayed |-> Unknown, samples |-> <<>>]

CompletedOf(sources) == SumOf([s \in DOMAIN sources |-> sources[s].completed])

(* A total is reported once every source is known with its own.              *)
ReportedTotal(sources) ==
    IF \A s \in DOMAIN sources : sources[s].total # Unknown
    THEN SumOf([s \in DOMAIN sources |-> sources[s].total]) ELSE Unknown

SpeedOf(sources) ==
    IF \A s \in DOMAIN sources : sources[s].speed = Unknown THEN Unknown
    ELSE SumOf([s \in DOMAIN sources |-> Known(sources[s].speed, 0)])

Remaining(total, completed, speed) ==
    IF total = Unknown \/ speed <= 0 \/ total <= completed THEN Unknown
    ELSE (total - completed + speed - 1) \div speed

(* A time is shown once three estimates in a row are known: their median.    *)
KeepSample(samples, eta) ==
    IF eta = Unknown THEN <<>>
    ELSE LET all == Append(samples, eta)
         IN  IF Len(all) > EtaSamples THEN Tail(all) ELSE all
StableEta(samples) ==
    IF Len(samples) < EtaSamples THEN Unknown
    ELSE SortSeq(samples, LAMBDA a, b : a < b)[EtaSamples \div 2 + 1]

(* Mutant of ShownPercent: the analyzed size counts as a reported one.       *)
ShownPercentOfEstimate(displayed, percent, reported) ==
    IF percent = Unknown THEN Unknown ELSE Higher(displayed, percent)

(* What was displayed never goes back, and an estimated size never completes.*)
ShownPercent(displayed, percent, reported) ==
    IF percent = Unknown THEN Unknown
    ELSE IF reported = Unknown THEN Higher(displayed, Lower(percent, AlmostAll))
    ELSE Higher(displayed, percent)

(* The report of one source replaces its last one.                           *)
Update(aggregator, source, progress) ==
    LET sources   == [aggregator.sources EXCEPT ![source] = progress]
        completed == CompletedOf(sources)
        reported  == ReportedTotal(sources)
        total     == Known(reported, aggregator.estimate)
        speed     == SpeedOf(sources)
        eta       == Known(Remaining(total, completed, speed),
                           IF aggregator.expected = 1 THEN progress.eta ELSE Unknown)
        samples   == KeepSample(aggregator.samples, eta)
        sum       == MakeProgress("downloading", completed, total, speed, StableEta(samples))
        percent   == ShownPercent(aggregator.displayed, sum.percent, reported)
    IN  [shown |-> [sum EXCEPT !.percent = percent],
         next  |-> [aggregator EXCEPT !.sources = sources, !.samples = samples,
                                      !.displayed = Higher(@, percent)]]

-----------------------------------------------------------------------------
(* An attempt: its sources are downloaded one after the other, then FFmpeg   *)
(* may convert.  Each tool has lines of its own.  "told" is no state of the  *)
(* program: it keeps the reports that were taken, for what is said of them.  *)

NewAttempt(expected, estimate) ==
    [source |-> 1, protocol |-> NewLines, aggregator |-> NewAggregator(expected, estimate),
     reached |-> 0, shown |-> <<>>, told |-> <<>>]

ApplyYtdlpLine(attempt, line) ==
    IF ~IsReport(line) THEN attempt
    ELSE LET report == ParseYtdlp(line)
             update == Update(attempt.aggregator, attempt.source, report)
         IN  [attempt EXCEPT !.aggregator = update.next, !.shown = Append(@, update.shown),
                             !.told = Append(@, report)]

AppliedYtdlp(attempt, lines) ==
    LET after[n \in 0..Len(lines)] ==
            IF n = 0 THEN attempt ELSE ApplyYtdlpLine(after[n - 1], lines[n])
    IN  after

(* What yt-dlp writes on either of its pipes goes into the same lines: a read*)
(* of one pipe is put after the open line of the other.                      *)
ApplyYtdlpEvent(attempt, read) ==
    LET protocol == Push(attempt.protocol, read)
    IN  AppliedYtdlp([attempt EXCEPT !.protocol = protocol], protocol.lines)[Len(protocol.lines)]

(* Only the standard output of FFmpeg carries its progress.                  *)
ApplyFfmpegLine(duration, attempt, line) ==
    LET reached == ParseFfmpeg(attempt.reached, line[1].report.completed, duration)
    IN  IF ~IsReport(line) THEN attempt
        ELSE [attempt EXCEPT !.reached = reached,
                !.shown = Append(@, MakeProgress("converting", reached, duration,
                                                 Unknown, Unknown))]

AppliedFfmpeg(duration, attempt, lines) ==
    LET after[n \in 0..Len(lines)] ==
            IF n = 0 THEN attempt ELSE ApplyFfmpegLine(duration, after[n - 1], lines[n])
    IN  after

ApplyFfmpegEvent(attempt, duration, stream, read) ==
    LET protocol == Push(attempt.protocol, read)
        heard    == [attempt EXCEPT !.protocol = protocol]
    IN  IF stream # "stdout" THEN attempt
        ELSE AppliedFfmpeg(duration, heard, protocol.lines)[Len(protocol.lines)]

(* How a tool run ends: unusable records win over what the process says, and *)
(* a stop that was asked for is known by the control it left behind.         *)
ToolOutcome(protocol, process, control) ==
    IF protocol.invalid # "none" THEN "protocol"
    ELSE IF process = "cancelled" /\ control = "pause"  THEN "paused"
    ELSE IF process = "cancelled" /\ control = "cancel" THEN "cancelled"
    ELSE IF process # "succeeded" THEN "process"
    ELSE "done"
=============================================================================
