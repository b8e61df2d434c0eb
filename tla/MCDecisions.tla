------------------------------ MODULE MCDecisions ------------------------------
(* The decisions the program takes from data alone, on bounded inputs.  A    *)
(* probe is one question to one of the algorithms; a transfer is a probe     *)
(* that grows by one read of a tool's output at a time.                      *)
EXTENDS OutputProduction, DownloadProgress, OutputNames, UpdateManifest

CONSTANTS
    MaxReads,  \* bound: how many reads a transfer has
    MaxName    \* bound: how long a requested name is

VARIABLES
    probe

Nothing == [about |-> "nothing"]

(* A record with one field, or two, given any of the values it may deviate to. *)
Deviations(record, values) ==
    {record} \union UNION {{[record EXCEPT ![field] = value] : value \in values[field]} :
                               field \in DOMAIN values}

-----------------------------------------------------------------------------
(* Answers about a video.                                                    *)

MCFormatIds == <<"f1", "f2", "f3">>

RawFormat(id, ext, vcodec, acodec, height, rate) ==
    [id |-> id, ext |-> ext, vcodec |-> vcodec, acodec |-> acodec,
     width |-> height, height |-> height, fps |-> Absent, size |-> Absent,
     approximate |-> 7, tbr |-> rate, vbr |-> Absent, abr |-> Absent]

AnyFormat(id) ==
    {RawFormat(id, ext, vcodec, acodec, height, rate) :
        ext \in {"mp4", "webm"}, vcodec \in {"none", "avc1", "vp9"},
        acodec \in {"none", "mp4a", "opus"}, height \in {360, 720}, rate \in {0, 1}}

Sound == {<<>>, <<RawFormat("f3", "m4a", "none", "mp4a", Absent, 1)>>,
          <<RawFormat("f3", "webm", "none", "opus", Absent, 1)>>}

RawMedia(formats) ==
    [type |-> "video", isLive |-> FALSE, liveStatus |-> "not_live", availability |-> "public",
     id |-> "first", title |-> "title", uploader |-> "missing", duration |-> 300, views |-> 0,
     date |-> <<2024, 2, 29>>, thumbnails |-> << [url |-> "web", width |-> 1] >>,
     formats |-> formats]

GoodFormats == << RawFormat("f1", "webm", "vp9", "none", 720, 1),
                  RawFormat("f2", "mp4", "avc1", "mp4a", 360, 0) >>

OddFormats ==
    Deviations(GoodFormats[1],
        [id |-> {"missing", "f2"}, ext |-> {"blank"}, vcodec |-> {"control", "none"},
         acodec |-> {"too long"}, height |-> {Absent, 0, MaxDimension, MaxDimension + 1},
         width |-> {0}, fps |-> {0}, size |-> {0, MaxNumber}, approximate |-> {0},
         tbr |-> {-2}, vbr |-> {MaxNumber + 1}, abr |-> {Absent}])

OddLists ==
    {<<>>, GoodFormats \o GoodFormats, << RawFormat("f1", "mp4", "avc1", "none", 360, 1) >>}
    \union {<<f, GoodFormats[2]>> : f \in OddFormats}

OddDates == {<<>>, <<2023, 2, 29>>, <<2100, 2, 29>>, <<2004, 1, 1>>}

OddMedia ==
    Deviations(RawMedia(GoodFormats),
        [type |-> {"playlist", "missing", "clip"}, isLive |-> {TRUE},
         liveStatus |-> {"is_live", "is_upcoming", "was_live", "other"},
         availability |-> {"private", "unlisted"}, id |-> {"second", "blank"},
         title |-> {"too long"}, uploader |-> {"blank", "control"},
         duration |-> {0, 1, LongestSeconds, LongestSeconds + 1}, views |-> {MaxNumber + 1},
         date |-> OddDates,
         thumbnails |-> {<<>>, << [url |-> "file", width |-> 1] >>,
                         [i \in 1..MaxThumbnails + 1 |-> [url |-> "web", width |-> 1]]},
         formats |-> OddLists])

Answered(raw) == [ended |-> "exited", output |-> "usable", raw |-> raw]
OddAnswers ==
    Deviations(Answered(RawMedia(GoodFormats)),
        [ended |-> {"cancelled", "failed", "timed out"},
         output |-> {"past limit", "bad stderr", "bad stdout", "not json"}])

ProbeMedia(answer) ==
    probe' = [about |-> "media", answer |-> answer]

AskFormats ==
    /\ probe = Nothing
    /\ \E first \in AnyFormat("f1"), second \in AnyFormat("f2"), sound \in Sound :
          ProbeMedia(Answered(RawMedia(<<first, second>> \o sound)))
AskMedia == probe = Nothing /\ \E raw \in OddMedia : ProbeMedia(Answered(raw))
AskAnswer == probe = Nothing /\ \E answer \in OddAnswers : ProbeMedia(answer)

(* Known exceptions: a source that is linked keeps its container, one that   *)
(* is copied keeps the way its pictures are stored, and an output may not be *)
(* longer than what may be announced, whatever the tolerance.                *)
Produced(offer, pixels, millis) ==
    /\ millis \div 1000 <= LongestSeconds
    /\ offer.kind = "mp4" =>
          /\ IsLinked(offer) => IsMp4Family(offer.video)
          /\ IsLinked(offer) \/ CopiesVideo(offer) => pixels = "yuv420p"

OfferIsProducible(result, offer) ==
    LET request  == [kind |-> offer.kind, quality |-> offer.quality]
        expected == result.duration * 1000
    IN  /\ ResolveFormat(result.offers, request) = offer
        /\ NothingSuppressed(ReportedStages(offer))
        /\ \A off \in {-1000, -1, 0, 1000}, pixels \in {"yuv420p", "yuv444p"} :
              expected + off > 0 =>
                  (ValidateProbe(Produce(offer, pixels, expected + off), request, expected) = "none"
                   <=> Produced(offer, pixels, expected + off))

ResultIsProducible(result) ==
    result.fault = "none" =>
        /\ result.id = "first" /\ result.offers # <<>>
        /\ \A i \in DOMAIN result.offers : OfferIsProducible(result, result.offers[i])

(* Everything an analysis offers can be had: the same analysis, made again   *)
(* by the download, resolves the request to the same sources; what FFmpeg is *)
(* told to make of them passes the verification exactly when a source that   *)
(* is not encoded anew is in an MP4 file and in the pictures the player      *)
(* needs and its length is within a second of the announced one and is not   *)
(* past seven days itself; and no stage on the way is one the job may not    *)
(* enter (analysis/ytdlp.rs:612, download/service.rs:827, :1500, :1595).     *)
OffersAreProducible ==
    probe.about = "media" => ResultIsProducible(Analyze(probe.answer, "first"))

-----------------------------------------------------------------------------
(* Transfers.                                                                *)

Report(status, completed, exact, estimate, speed, eta) ==
    [status |-> status, completed |-> completed, exact |-> exact, estimate |-> estimate,
     speed |-> speed, eta |-> eta]
Quiet == Report("other", Unknown, Unknown, Unknown, Unknown, Unknown)
Piece(size, ends, holds, report) == [size |-> size, ends |-> ends, holds |-> holds, report |-> report]
Telling(report) == Piece(3, TRUE, "report", report)

Half == Report("downloading", 1250, 2500, Unknown, 100, 12)

(* What one read of the standard output brings: reports, or pieces of one.   *)
ReportReads ==
    {<<Telling(r)>> : r \in
        {Half,
         Report("downloading", 100, Unknown, 1000, Unknown, 9),
         Report("downloading", 2400, 2500, Unknown, 0, Unknown),
         Report("downloading", 40, Unknown, Unknown, 5, 3),
         Report("finished", 2499, 2500, Unknown, 100, Unknown)}}
    \union
    {<<Telling(Half), Telling(Report("finished", 2500, 2500, Unknown, Unknown, Unknown))>>,
     <<Piece(2, FALSE, "start", Half)>>,
     <<Piece(1, TRUE, "rest", Quiet)>>}

(* And one of the standard error: lines that are no report or cannot be read,*)
(* the start of one, and more than the buffer takes.                         *)
BigRead == <<Piece(8, TRUE, "noise", Quiet), Piece(8, TRUE, "noise", Quiet)>>
OtherReads ==
    {<<Piece(4, TRUE, "noise", Quiet)>>, <<Piece(2, FALSE, "noise", Quiet)>>,
     <<Piece(2, TRUE, "bad", Quiet)>>, BigRead}

Pipes == {"stdout", "stderr"}

Converted(time) == <<Telling(Report("downloading", time, Unknown, Unknown, Unknown, Unknown))>>

Begin ==
    /\ probe = Nothing
    /\ \E expected \in {1, 2}, estimate \in {0, 2000} :
          probe' = [about |-> "download", expected |-> expected, estimate |-> estimate,
                    reads |-> <<>>]
BeginConversion ==
    /\ probe = Nothing
    /\ probe' = [about |-> "conversion", reads |-> <<>>]

MayRead(about) == probe.about = about /\ Len(probe.reads) < MaxReads
ReadMore ==
    /\ MayRead("download")
    /\ \E stream \in Pipes, source \in 1..probe.expected :
          \E read \in IF stream = "stdout" THEN ReportReads ELSE OtherReads :
             /\ probe.reads # <<>> => source >= probe.reads[Len(probe.reads)].source
             /\ probe' = [probe EXCEPT !.reads =
                    Append(@, [source |-> source, stream |-> stream, read |-> read])]
ConvertMore ==
    /\ MayRead("conversion")
    /\ \E read \in {Converted(t) : t \in {0, 30, 20, 90, 120}} \union {BigRead},
          stream \in Pipes :
          probe' = [probe EXCEPT !.reads = Append(@, [stream |-> stream, read |-> read])]

(* Each source has a tool of its own, and lines of its own.                  *)
TakeRead(attempt, read) ==
    ApplyYtdlpEvent(IF read.source = attempt.source THEN attempt
                    ELSE [attempt EXCEPT !.source = read.source, !.protocol = NewLines], read.read)
Attempts(transfer) ==
    LET after[n \in 0..Len(transfer.reads)] ==
            IF n = 0 THEN NewAttempt(transfer.expected, transfer.estimate)
            ELSE TakeRead(after[n - 1], transfer.reads[n])
    IN  after
Downloaded(transfer) == Attempts(transfer)[Len(transfer.reads)]

Duration == 100
Conversions(transfer) ==
    LET after[n \in 0..Len(transfer.reads)] ==
            IF n = 0 THEN NewAttempt(1, 0)
            ELSE ApplyFfmpegEvent(after[n - 1], Duration, transfer.reads[n].stream,
                                  transfer.reads[n].read)
    IN  after
ConvertedSoFar(transfer) == Conversions(transfer)[Len(transfer.reads)]

(* The pieces a source has written to one of its pipes, however they were    *)
(* read, cut at their newlines: the line a piece belongs to, up to that one. *)
PiecesTo(transfer, source, pipe) ==
    LET Comes(read) == read.source = source /\ read.stream = pipe
        pieces[n \in 0..Len(transfer.reads)] ==
            IF n = 0 THEN <<>>
            ELSE pieces[n - 1] \o (IF Comes(transfer.reads[n])
                                   THEN transfer.reads[n].read ELSE <<>>)
    IN  pieces
PiecesOf(transfer, source, pipe) == PiecesTo(transfer, source, pipe)[Len(transfer.reads)]

LineStart(pieces, i) == CHOOSE start \in 1..i :
    /\ start = 1 \/ pieces[start - 1].ends
    /\ \A j \in start..i - 1 : ~pieces[j].ends
LineTo(pieces, i) == SubSeq(pieces, LineStart(pieces, i), i)

Ends(pieces) == {i \in 1..Len(pieces) : pieces[i].ends}
Readable(pieces) ==
    \A i \in 1..Len(pieces) :
        pieces[i].holds # "bad" /\ LineSize(LineTo(pieces, i)) <= MaxLine
Reported(pieces) == Cardinality({i \in Ends(pieces) : IsReport(LineTo(pieces, i))})

(* What a source has written to its two pipes, in all.                       *)
EndsOf(transfer, source) ==
    Cardinality(Ends(PiecesOf(transfer, source, "stdout")))
        + Cardinality(Ends(PiecesOf(transfer, source, "stderr")))
ReportedOf(transfer, source) ==
    Reported(PiecesOf(transfer, source, "stdout"))
        + Reported(PiecesOf(transfer, source, "stderr"))
ReadableOf(transfer, source) ==
    /\ EndsOf(transfer, source) <= MaxLines
    /\ \A pipe \in Pipes : Readable(PiecesOf(transfer, source, pipe))

ShortReads(transfer) ==
    \A i \in 1..Len(transfer.reads) : BufferSize(transfer.reads[i].read) <= MaxLine

(* A line is torn when a read of the other pipe comes while it is open.      *)
Open(pieces) == pieces # <<>> /\ ~pieces[Len(pieces)].ends
Untorn(transfer) ==
    \A i \in 1..Len(transfer.reads), pipe \in Pipes :
        pipe # transfer.reads[i].stream
            => ~Open(PiecesTo(transfer, transfer.reads[i].source, pipe)[i - 1])
WellRead(transfer) == ShortReads(transfer) /\ Untorn(transfer)

NeverGoesBack(shown) ==
    \A i, j \in DOMAIN shown :
        i < j /\ shown[j].percent # Unknown => shown[i].percent <= shown[j].percent

CompleteAtLast(shown) ==
    /\ shown # <<>> /\ shown[Len(shown)].percent = Whole
    /\ \A i \in 1..Len(shown) - 1 : shown[i].percent < Whole

AllSourcesArrived(sources) ==
    LET total == ReportedTotal(sources)
    IN  /\ \A s \in DOMAIN sources : sources[s].total # Unknown
        /\ total - CompletedOf(sources) <= total \div MaxUnit

(* What each report that was taken says of the time that is left: how long   *)
(* the rest takes at the speed, or what the tool of an only source tells.    *)
Estimates(shown, told, expected) ==
    [i \in 1..Len(shown) |->
        Known(Remaining(shown[i].total, shown[i].completed, shown[i].speed),
              IF expected = 1 THEN told[i].eta ELSE Unknown)]
MedianOfThree(shown, estimates) ==
    \A i \in 1..Len(shown) : shown[i].eta # Unknown =>
        /\ i >= EtaSamples
        /\ \A j \in i - EtaSamples + 1..i : estimates[j] # Unknown
        /\ shown[i].eta = StableEta([j \in 1..EtaSamples |-> estimates[i - EtaSamples + j]])

HonestShown(shown, sources, transfer) ==
    /\ NeverGoesBack(shown)
    /\ CompleteAtLast(shown) => AllSourcesArrived(sources)
    /\ WellRead(transfer) /\ (\A s \in 1..transfer.expected : ReadableOf(transfer, s)) =>
          Len(shown) = SumOf([s \in 1..transfer.expected |-> ReportedOf(transfer, s)])

HonestDownload(attempt, transfer) ==
    /\ HonestShown(attempt.shown, attempt.aggregator.sources, transfer)
    /\ MedianOfThree(attempt.shown, Estimates(attempt.shown, attempt.told, transfer.expected))
    /\ WellRead(transfer) /\ ReadableOf(transfer, attempt.source) =>
          attempt.protocol.invalid = "none"
    /\ attempt.protocol.invalid # "none" =>
          \A process \in {"succeeded", "failed", "cancelled"}, control \in {"run", "pause"} :
              ToolOutcome(attempt.protocol, process, control) = "protocol"

HonestConversion(shown) ==
    /\ \A i \in DOMAIN shown : shown[i].completed <= Duration /\ shown[i].percent <= Whole
    /\ NeverGoesBack(shown)

(* What is shown never misleads: within a stage it does not go back; it says *)
(* complete only once every source has told its own size and all of it, up   *)
(* to the rounding of the scale, has arrived; a remaining time is the median *)
(* of the estimates of the last three reports, each of which had one; and    *)
(* the records of both pipes that are readable, short enough and few enough  *)
(* are all taken, however a pipe cut them, with one exception.  A read longer*)
(* than a line may be fails the tool's run; and as both pipes of yt-dlp feed *)
(* one buffer, a line that is open when the other pipe is read is torn: its  *)
(* record is lost, or the run fails (progress.rs:29, :97, service.rs:1406).  *)
ProgressIsHonest ==
    /\ probe.about = "download" => HonestDownload(Downloaded(probe), probe)
    /\ probe.about = "conversion" => HonestConversion(ConvertedSoFar(probe).shown)

-----------------------------------------------------------------------------
(* Names.                                                                    *)

MCDevices    == {<<"N">>}
MCSubstitute == <<"m">>
MCMark       == <<"_">>
Characters   == {"a", "n", ".", " ", "/", "w"}
Texts(n)     == UNION {[1..k -> Characters] : k \in 0..n}

AskName ==
    /\ probe = Nothing
    /\ \E text \in Texts(MaxName) : probe' = [about |-> "name", text |-> text]
AskNames ==
    /\ probe = Nothing
    /\ \E formats \in [1..2 -> Texts(2)], containers \in [1..2 -> {<<"a">>, <<"/">>}] :
          probe' = [about |-> "names", formats |-> formats, containers |-> containers]

(* A requested name becomes one every system takes: not empty, without a     *)
(* character a name may not have, without a gap at either end, no device of  *)
(* its own, short enough for the extension, the number and the lock, and the *)
(* same when it is made a name again, so that the output, its lock and a     *)
(* rename agree; and the files of one attempt are all different, whatever    *)
(* the tool calls its formats (name.rs:19, service.rs:1140).                 *)
NamesArePortable ==
    /\ probe.about = "name" =>
          LET stem == Stem(probe.text, <<"a">>)
          IN  /\ stem # <<>> /\ "/" \notin Range(stem)
              /\ stem[1] # " " /\ stem[Len(stem)] \notin {" ", "."}
              /\ ~IsDeviceName(stem)
              /\ Len(stem) <= MaxChars + Len(Mark) /\ Bytes(stem) <= MaxBytes + Len(Mark)
              /\ Len(stem) <= MaxChars /\ Bytes(stem) <= MaxBytes => Sanitize(stem) = stem
              /\ \A i, j \in 0..2 : i # j =>
                    /\ OutputName(stem, i, <<"a">>) # OutputName(stem, j, <<"a">>)
                    /\ LockName(stem, i, <<"a">>) # OutputName(stem, j, <<"a">>)
    /\ probe.about = "names" =>
          LET names == AttemptNames("job", probe.formats, probe.containers, <<"a">>)
          IN  \A i, j \in DOMAIN names : i # j => names[i] # names[j]

-----------------------------------------------------------------------------
(* Signed updates.                                                           *)

MCAllTools == <<"ytdlp", "ffmpeg", "ffprobe", "deno">>
MCBaseline == [tool \in {"ytdlp", "ffmpeg", "ffprobe", "deno"} |-> "old"]
MCReserved == {<<"manifest">>, <<"signature">>}

DigestFor(tool, version) == tool \o version
Program(tool, version) ==
    [digest |-> DigestFor(tool, version), size |-> 2, inside |-> TRUE, executable |-> TRUE,
     runs |-> TRUE, says |-> tool, version |-> version, document |-> <<>>]

Path(raw, key, file) == [raw |-> raw, key |-> key, file |-> file, safe |-> TRUE]
ToolPath(tool) == Path("bin/" \o tool, "bin/" \o tool, <<"bin", tool>>)
(* The same file by another name, the name in capitals, a directory another  *)
(* tool needs, a place the update keeps for itself, one outside, one of its  *)
(* own.                                                                      *)
OddPaths ==
    {Path("bin//ffmpeg", "bin//ffmpeg", <<"bin", "ffmpeg">>),
     Path("BIN/FFMPEG", "bin/ffmpeg", <<"BIN", "FFMPEG">>),
     Path("bin", "bin", <<"bin">>),
     Path("bin/ffmpeg/tool", "bin/ffmpeg/tool", <<"bin", "ffmpeg", "tool">>),
     Path("manifest", "manifest", <<"manifest">>),
     [Path("../ffmpeg", "../ffmpeg", <<"..", "ffmpeg">>) EXCEPT !.safe = FALSE],
     Path("deno", "deno", <<"deno">>)}

UpdateTool(tool) ==
    [tool |-> tool, version |-> "new", path |-> ToolPath(tool), size |-> 2,
     digest |-> DigestFor(tool, "new")]
UpdateTools == [i \in DOMAIN AllTools |-> UpdateTool(AllTools[i])]

ManifestOf(tools) ==
    [schema |-> Schema, target |-> Target, channel |-> "stable", release |-> 3, minimum |-> 2,
     created |-> "utc", tools |-> tools,
     archive |-> [url |-> "release asset", filename |-> Path("set.zip", "set.zip", <<"set.zip">>),
                  size |-> 8, digest |-> "archive"]]

OddTools ==
    {[UpdateTools EXCEPT ![i] = tool] :
        i \in {1, 4}, tool \in Deviations(UpdateTool("deno"),
            [tool |-> {"ytdlp", "ffmpeg"}, version |-> {"blank"}, path |-> OddPaths,
             size |-> {0, MaxArchive + 1}, digest |-> {"malformed", "ffmpegnew"}])}
OddManifests ==
    {ManifestOf(tools) : tools \in OddTools \union {SubSeq(UpdateTools, 1, 3)}} \union
    Deviations(ManifestOf(UpdateTools),
        [schema |-> {2}, target |-> {"elsewhere"}, channel |-> {"malformed"},
         release |-> {NotAVersion, 1, 2}, minimum |-> {AppVersion, AppVersion + 1},
         created |-> {"local"},
         archive |-> Deviations(ManifestOf(<<>>).archive,
             [url |-> {"elsewhere"}, size |-> {0}, digest |-> {"missing"},
              filename |-> {Path("a/b", "a/b", <<"a", "b">>)}])])

(* What has the digest of a program is that program.                         *)
ContentOf(digest) ==
    IF \E t \in ToolNames, v \in {"old", "new"} : digest = DigestFor(t, v)
    THEN LET known == CHOOSE pair \in ToolNames \X {"old", "new"} :
                          digest = DigestFor(pair[1], pair[2])
         IN  Program(known[1], known[2])
    ELSE [Program("ytdlp", "old") EXCEPT !.digest = digest, !.runs = FALSE]

ZipEntry(tool) ==
    [path |-> tool.path, kind |-> "file", size |-> tool.size, digest |-> tool.digest,
     content |-> ContentOf(tool.digest)]
Zipped(tools) == [i \in DOMAIN tools |-> ZipEntry(tools[i])]
OddZips(zip) ==
    {zip, SubSeq(zip, 1, Len(zip) - 1), Append(zip, zip[1])} \union
    {[zip EXCEPT ![1] = entry] : entry \in Deviations(zip[1],
        [path |-> OddPaths, kind |-> {"directory", "link"}, size |-> {1, MaxArchive},
         digest |-> {"other"}])}
Package(zip) == [exists |-> TRUE, size |-> 8, digest |-> "archive", entries |-> zip]
Able == [encoders |-> {"libx264", "aac", "libmp3lame"}, muxers |-> {"mp4"}, javascript |-> TRUE,
         pairing |-> TRUE]
Delivered(manifest, zip) ==
    [seal |-> "good", manifest |-> manifest, package |-> Package(zip), abilities |-> Able]

OddUpdates ==
    Deviations(Delivered(ManifestOf(UpdateTools), Zipped(UpdateTools)),
        [seal |-> {"too large", "not json", "not canonical", "other key", "other shape"},
         package |-> Deviations(Package(Zipped(UpdateTools)),
             [exists |-> {FALSE}, size |-> {9}, digest |-> {"other"}]),
         abilities |-> Deviations(Able, [encoders |-> {{"aac"}}, muxers |-> {{}},
                                         javascript |-> {FALSE}, pairing |-> {FALSE}])])

AskUpdate ==
    /\ probe = Nothing
    /\ \/ \E manifest \in OddManifests :
             \E zip \in OddZips(Zipped(manifest.tools)) :
                 probe' = [about |-> "update", update |-> Delivered(manifest, zip)]
       \/ \E update \in OddUpdates : probe' = [about |-> "update", update |-> update]

(* A signed digest that is the digest of the tool it is signed for.          *)
Truthful(tools) ==
    \A i \in DOMAIN tools : LET content == ContentOf(tools[i].digest)
                            IN  /\ content.runs /\ content.says = tools[i].tool
                                /\ content.version = tools[i].version
                                /\ content.size = tools[i].size

(* An archive that is unpacked is the set that was signed: if every digest   *)
(* in the manifest is that of the tool it stands for, the verification finds *)
(* each of the four tools in a file of its own with that digest, and nothing *)
(* written after it, under whatever name or letter case, has replaced it or  *)
(* taken the place of the manifest.  An install that is accepted has all     *)
(* four and was built for this target, application and release (update.rs:303,*)
(* :543, :824, :894).                                                        *)
AcceptedUpdateVerifies ==
    probe.about = "update" =>
        LET manifest == probe.update.manifest
            staged   == Stage(probe.update.package, manifest)
            set      == VerifyEntries(Target, staged.disk, VerificationEntries(manifest))
        IN  /\ ManifestFault(manifest, Target) = "none" /\ staged.fault = "none"
                 /\ Truthful(manifest.tools) =>
                  /\ set.fault = "none" /\ DOMAIN set.paths = ToolNames
                  /\ \A s, t \in ToolNames :
                        /\ staged.disk[set.paths[t]].says = t
                        /\ s # t => set.paths[s] # set.paths[t]
                  /\ DOMAIN staged.disk \intersect ReservedFiles = {}
            /\ InstallFault(probe.update, Target) = "none" =>
                  /\ set.fault = "none" /\ DOMAIN set.paths = ToolNames
                  /\ manifest.target = Target /\ AppVersion >= manifest.minimum
                  /\ manifest.release >= manifest.minimum

-----------------------------------------------------------------------------
(* Tool sets.                                                                *)

Disk(files, File(_), version) ==
    [file \in {File(t) : t \in files} |->
        Program(CHOOSE t \in files : File(t) = file, version)]
(* What may have become of one file of a set.                                *)
OddDisks(disk, file) ==
    {disk, [f \in DOMAIN disk \ {file} |-> disk[f]]} \union
    {[disk EXCEPT ![file] = odd] : odd \in Deviations(disk[file],
        [digest |-> {"other"}, size |-> {1}, inside |-> {FALSE}, executable |-> {FALSE},
         runs |-> {FALSE}, says |-> {"ffprobe"}])}

Plain(tool) == <<tool>>
NoSet == [verified |-> Refused("absent"), disk |-> <<>>]

ManagedEntries == VerificationEntries(ManifestOf(UpdateTools))
ManagedSets ==
    LET disk == Disk(ToolNames, LAMBDA t : <<"bin", t>>, "new")
    IN  {NoSet} \union
        {[verified |-> VerifyEntries(target, d, entries), disk |-> d] :
            target \in {Target, "elsewhere"}, d \in OddDisks(disk, <<"bin", "ffmpeg">>),
            entries \in {ManagedEntries, SubSeq(ManagedEntries, 1, 2),
                         Append(ManagedEntries, ManagedEntries[1])}}

Inventory(size, tools) ==
    [Program("ytdlp", "old") EXCEPT !.runs = FALSE, !.size = size, !.digest = "sums",
        !.document = [i \in DOMAIN tools |->
            [digest |-> DigestFor(tools[i], "old"), name |-> StagedName(tools[i], Target)]]]
Inventories ==
    {NoFile, Inventory(1, MCAllTools), Inventory(MaxInventory + 1, MCAllTools),
     Inventory(1, SubSeq(MCAllTools, 1, 3)), Inventory(1, <<"ytdlp", "ffmpeg", "ffmpeg", "deno">>)}

ExternalSets ==
    {[verified |-> OptionalBundled(Target, d, inventory), disk |-> d] :
        d \in OddDisks(Disk(ToolNames, Plain, "old"), <<"ffmpeg">>),
        inventory \in Inventories \ {NoFile}}
StagedSets ==
    {LET whole == (<<"SHA256SUMS">> :> inventory) @@ d
     IN  [verified |-> OptionalBundled(Target, whole, NoFile), disk |-> whole] :
        d \in OddDisks(Disk(ToolNames, LAMBDA t : StagedName(t, Target), "old"),
                       StagedName("deno", Target)),
        inventory \in Inventories}

(* The pinned manifest: FFmpeg is built here, the others are downloaded.     *)
Source == [scheme |-> "https", ref |-> "tag", path |-> ToolPath("source"), digest |-> "source",
           size |-> 1]
Provenance == [scheme |-> "https", license |-> "GPL", definition |-> ToolPath("script"),
               inputs |-> <<Source>>]
Pinned(tool) ==
    LET built == tool \in {"ffmpeg", "ffprobe"}
    IN  [tool |-> tool, version |-> "old", kind |-> IF built THEN "native" ELSE "upstream",
         source |-> Source, receipt |-> ToolPath("receipt"), provenance |-> Provenance,
         executables |-> << [tool |-> tool, path |-> ToolPath(tool),
                             digest |-> IF built THEN "missing" ELSE DigestFor(tool, "old"),
                             size |-> IF built THEN 0 ELSE 2] >>]
PinnedTools == [i \in DOMAIN MCAllTools |-> Pinned(MCAllTools[i])]
Executable(tool) == [tool |-> tool, path |-> ToolPath(tool), digest |-> DigestFor(tool, "old"),
                     size |-> 2]
Receipt == [schema |-> Schema, target |-> Target, ref |-> "tag", configuration |-> <<"--enable">>,
            executables |-> <<Executable("ffmpeg"), Executable("ffprobe")>>]

OddPinned ==
    {PinnedTools, SubSeq(PinnedTools, 1, 3), Append(PinnedTools, PinnedTools[4])} \union
    {[PinnedTools EXCEPT ![i] = record] : i \in {2}, record \in Deviations(PinnedTools[2],
        [version |-> {"new"}, source |-> Deviations(Source, [scheme |-> {"http"}, ref |-> {"blank"},
                                                            size |-> {0}, digest |-> {"missing"}]),
         executables |-> {<<>>, PinnedTools[1].executables,
                          PinnedTools[2].executables \o PinnedTools[2].executables},
         receipt |-> OddPaths, kind |-> {"upstream"},
         provenance |-> Deviations(Provenance, [scheme |-> {"http"}, license |-> {"blank"},
                                                inputs |-> {<<>>}])])}
OddReceipts ==
    Deviations(Receipt,
        [schema |-> {2}, target |-> {"elsewhere"}, ref |-> {"branch"},
         configuration |-> {<<>>, <<"blank">>},
         executables |-> {<<Executable("ffmpeg")>>, <<Executable("ffmpeg"), Executable("deno")>>,
                          <<Executable("ffmpeg"), [Executable("ffprobe") EXCEPT !.size = 0]>>,
                          <<[Executable("ffmpeg") EXCEPT !.path = ToolPath("other")],
                            Executable("ffprobe")>>}])
PinnedDisk(receipt) ==
    (<<"bin", "receipt">> :> [Program("ytdlp", "old") EXCEPT !.runs = FALSE, !.document = receipt])
    @@ Disk(ToolNames, LAMBDA t : <<"bin", t>>, "old")
PinnedSet(tools, disk) ==
    LET manifest == [target |-> Target, tools |-> tools]
    IN  [verified |-> IF TargetFault(manifest) # "none" THEN Refused(TargetFault(manifest))
                      ELSE VerifyManifest(disk, manifest),
         disk |-> disk]
PinnedSets ==
    {PinnedSet(tools, PinnedDisk(Receipt)) : tools \in OddPinned} \union
    {PinnedSet(PinnedTools, PinnedDisk(receipt)) : receipt \in OddReceipts} \union
    {PinnedSet(PinnedTools, disk) : disk \in OddDisks(PinnedDisk(Receipt), <<"bin", "ffprobe">>)}

Searches ==
    {<<>>, << Disk(ToolNames, LAMBDA t : t, "old") >>,
     << Disk({"deno", "ffmpeg"}, LAMBDA t : t, "new"), Disk(ToolNames, LAMBDA t : t, "old") >>}
Overrides ==
    {<<>>, "deno" :> Program("deno", "old"), "deno" :> Program("deno", "new"), "deno" :> NoFile}

AskTools ==
    /\ probe = Nothing
    /\ \E managed \in ManagedSets, bundled \in {NoSet} \union ExternalSets \union StagedSets \union PinnedSets,
          development \in BOOLEAN, search \in Searches, overrides \in Overrides :
          probe' = [about |-> "tools",
                    config |-> [overrides |-> overrides, development |-> development,
                                search |-> search,
                                managed |-> managed.verified, managedDisk |-> managed.disk,
                                bundled |-> bundled.verified, bundledDisk |-> bundled.disk]]

(* The tools a program starts with are all four or none, from one tier but   *)
(* for those that were overridden; the search path serves a developer only;  *)
(* each is the tool it should be, in a file of its own, with the content its *)
(* set was verified with and, outside a managed update, in the pinned        *)
(* version (resolver.rs:62, :254, :700, desktop service.rs:736).             *)
OneTierUnlessOverridden ==
    LET config == probe.config
        all    == ResolveTools(config)
        Digest(i) == DigestFor(all[i].tool, IF all[i].tier = "managed" THEN "new" ELSE "old")
    IN  (probe.about = "tools" /\ all # <<>>) =>
            /\ [i \in DOMAIN all |-> all[i].tool] = AllTools
            /\ \A i, j \in DOMAIN all :
                  /\ {all[i].tool, all[j].tool} \intersect DOMAIN config.overrides = {}
                        => all[i].tier = all[j].tier
                  /\ i # j => all[i].file # all[j].file
            /\ \A i \in DOMAIN all :
                  /\ all[i].tier = "path" => config.development
                  /\ all[i].file.says = all[i].tool /\ all[i].file.runs /\ all[i].file.executable
                  /\ all[i].tier # "managed" => all[i].file.version = Baseline[all[i].tool]
                  /\ all[i].tier \in {"managed", "bundled"} =>
                        all[i].file.inside /\ all[i].file.digest = Digest(i)

-----------------------------------------------------------------------------

ProbeInit == probe = Nothing

ProbeNext ==
    \/ AskFormats \/ AskMedia \/ AskAnswer
    \/ Begin \/ ReadMore \/ BeginConversion \/ ConvertMore
    \/ AskName \/ AskNames \/ AskUpdate \/ AskTools

ProbeSpec == ProbeInit /\ [][ProbeNext]_probe
=============================================================================
